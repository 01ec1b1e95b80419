---------------------- MODULE ExpertPollExecutorProofs ----------------------
(***************************************************************************)
(* Proofs about ExpertPollExecutor, for any posts, dates, topics, page and *)
(* window sizes.                                                           *)
(***************************************************************************)
EXTENDS ExpertPollExecutor, FiniteSetTheorems, WellFoundedInduction, TLAPS

Born == Posts \ unborn

(* Where the chunk at work began to list: the top for a head poll, which   *)
(* has no cursor, and the stored cursor for the others.                    *)
Origin == CASE mode = "head" -> Null
            [] mode = "backfill" -> sync.cursor
            [] mode = "reconcile" -> task.cursor

(* The listing of the chunk has come past post p. *)
Passed(p) ==
  /\ win.pages > 0
  /\ win.cursor = Null \/ win.cursor <= p
  /\ Origin = Null \/ p < Origin

(* Post p was published before the chunk began to list: what a window of   *)
(* new posts moves on top of the listing is none of it.                    *)
Older(p) ==
  \/ local[p] # "none" \/ p <= sync.head
  \/ Origin # Null
  \/ \E q \in win.fetched : p <= q

(* Posts are published in the order of their keys, and everything the      *)
(* executor remembers was published.                                       *)
InOrderOfKeys ==
  /\ \A p \in unborn, q \in Born : q < p
  /\ remote \cup win.fetched \subseteq Born
  /\ {sync.head, sync.cursor, task.cursor, win.cursor, win.stop} \subseteq Born \cup {Null}
  /\ \A p \in unborn : local[p] = "none"

(* How far the window has come. *)
WindowPlace ==
  /\ pc = "idle" => win = NoWindow
  /\ pc = "fetch" => ~win.completed /\ win.pages < MaxPages
  /\ pc \in {"process", "reconcile", "persist"} =>
       win.pages > 0 /\ (win.completed \/ win.pages = MaxPages)
  /\ pc = "reconcile" => mode # "backfill"
  /\ win.pages = 0 => win.fetched = {}
  /\ win.stop = IF pc # "idle" /\ mode = "head" THEN sync.head ELSE Null
  /\ pc # "idle" /\ win.pages = 0 => win.cursor = Origin
  /\ win.pages > 0 /\ ~win.completed => win.cursor # Null
  /\ win.pages > 0 => /\ \A p \in win.fetched : win.cursor <= p
                      /\ win.cursor # Null /\ Origin # Null => win.cursor < Origin

(* What the window took of what it fetched. *)
WindowTakes ==
  /\ win.processed \subseteq Decodable(win.fetched) /\ win.fetched \subseteq Decodable(Posts)
  /\ mode = "head" => \A p \in win.fetched : win.stop < p => p \in win.processed
  /\ mode # "head" /\ ~win.completed => win.processed = win.fetched
  /\ mode = "backfill" => Cardinality(win.processed) <= task.remaining
  /\ pc \in {"reconcile", "persist"} =>
       \A p \in win.processed \cap Matched : local[p] # "none"

(* Of the posts in the repository that were there when the chunk began,    *)
(* those the listing has passed are in the window, whatever the author     *)
(* published or removed between the pages.                                 *)
NothingMissed ==
  \A p \in Decodable(remote) : Passed(p) /\ Older(p) => p \in win.fetched

ExecInv == TypeOK /\ InOrderOfKeys /\ WindowPlace /\ WindowTakes /\ NothingMissed

-----------------------------------------------------------------------------
(* The author's dates agree with the order of publication. *)
DatedInOrder ==
  /\ Decodable(Posts) = Posts
  /\ \A p, q \in Posts : p < q => CreatedAt[p] < CreatedAt[q]

(* One chunk holds the whole repository. *)
OneChunk == Cardinality(Posts) <= PageSize * MaxPages

(* A reconcile that is to be continued has nothing left to read. *)
NoRest(cursor) == cursor # Null => After(cursor) = {}

WholeWindows ==
  /\ NoRest(task.cursor)
  /\ mode = "reconcile" /\ Origin # Null => win.fetched = {}
  /\ (mode = "reconcile" /\ win.pages > 0 /\ ~win.completed /\ After(win.cursor) # {})
       => Cardinality(win.fetched) >= PageSize * win.pages

DeleteInv == ExecInv /\ WholeWindows /\ DeletedAreGone

-----------------------------------------------------------------------------
(***************************************************************************)
(* Sets of posts                                                           *)
(***************************************************************************)
(* A set of naturals that is not empty has a least element. *)
LEMMA LeastOf ==
  ASSUME NEW S, S \subseteq Nat, S # {}
  PROVE  Min(S) \in S /\ \A y \in S : Min(S) <= y
<1>1. PICK x \in S : \A y \in S : ~ (<<y, x>> \in OpToRel(<, Nat))
  BY NatLessThanWellFounded, WFMin
<1>2. ASSUME NEW y \in S PROVE ~ (y < x)
  BY <1>1, Zenon DEF OpToRel
<1>3. \A y \in S : x <= y
  BY <1>2
<1> QED
  BY <1>3 DEF Min

(* A finite one has a greatest: take the smallest of its subsets without    *)
(* one, and an element from it.                                            *)
LEMMA GreatestOf ==
  ASSUME NEW S, S \subseteq Nat, IsFiniteSet(S), S # {}
  PROVE  Max(S) \in S /\ \A y \in S : y <= Max(S)
<1> DEFINE Endless(T) == T # {} /\ \A x \in T : \E y \in T : x < y
           Sizes == {n \in Nat : \E T \in SUBSET S : Endless(T) /\ Cardinality(T) = n}
<1>1. ASSUME Sizes # {} PROVE FALSE
  <2>1. Min(Sizes) \in Sizes /\ \A n \in Sizes : Min(Sizes) <= n
    BY <1>1, LeastOf
  <2>2. PICK T \in SUBSET S : Endless(T) /\ Cardinality(T) = Min(Sizes)
    BY <2>1
  <2>3. PICK x \in T : TRUE
    BY <2>2
  <2> DEFINE U == T \ {x}
  <2>4. IsFiniteSet(T) /\ Cardinality(T) \in Nat
    BY FS_Subset, FS_CardinalityType
  <2>5. IsFiniteSet(U) /\ Cardinality(U) = Cardinality(T) - 1 /\ Cardinality(U) \in Nat
    BY <2>3, <2>4, FS_RemoveElement, FS_CardinalityType
  <2>6. Cardinality(U) \notin Sizes
    <3> HIDE DEF Sizes
    <3>1. Cardinality(U) \in Sizes => Min(Sizes) <= Cardinality(U)
      BY <2>1
    <3> QED
      BY <2>2, <2>4, <2>5, <3>1
  <2>7. ~Endless(U)
    BY <2>5, <2>6
  <2>8. U # {}
    BY <2>2, <2>3
  <2>9. PICK m \in U : \A y \in U : ~(m < y)
    BY <2>7, <2>8
  <2>10. m < x
    BY <2>2, <2>9
  <2>11. PICK z \in T : x < z
    BY <2>2, <2>3
  <2> QED
    BY <2>9, <2>10, <2>11
<1>2. ~Endless(S)
  BY <1>1, FS_CardinalityType
<1>3. PICK x \in S : \A y \in S : x >= y
  BY <1>2
<1> QED
  BY <1>3 DEF Max

(* Every set of posts is finite. *)
LEMMA PostSets ==
  ASSUME NEW S, S \subseteq Posts
  PROVE  S \subseteq Nat /\ IsFiniteSet(S) /\ Cardinality(S) \in Nat
                         /\ Cardinality(S) <= Cardinality(Posts)
<1>1. IsFiniteSet(Posts) /\ Posts \subseteq Nat
  BY ExecutorConstants
<1> QED
  BY <1>1, FS_Subset, FS_CardinalityType

(* Newest takes no more than it is asked for, *)
LEMMA NewestSize ==
  ASSUME NEW S, S \subseteq Posts, NEW n \in Nat
  PROVE  Newest(S, n) \subseteq S /\ Cardinality(Newest(S, n)) <= n
<1> DEFINE T == Newest(S, n)
<1>1. T \subseteq S
  BY DEF Newest
<1>2. CASE T = {}
  BY <1>1, <1>2, FS_EmptySet
<1>3. CASE T # {}
  <2>1. Min(T) \in T /\ \A y \in T : Min(T) <= y
    BY <1>1, <1>3, PostSets, LeastOf
  <2> DEFINE m == Min(T)
             above == {q \in S : q > m}
  <2>2. Cardinality(above) < n
    BY <2>1 DEF Newest
  <2>3. T \ {m} \in SUBSET above /\ above \subseteq Posts
    BY <1>1, <2>1, PostSets
  <2>4. IsFiniteSet(T) /\ Cardinality(T) \in Nat /\ IsFiniteSet(above) /\ Cardinality(above) \in Nat
    BY <1>1, <2>3, PostSets
  <2>5. Cardinality(T \ {m}) = Cardinality(T) - 1
    BY <2>1, <2>4, FS_RemoveElement
  <2>6. Cardinality(T \ {m}) <= Cardinality(above)
    BY <2>3, <2>4, FS_Subset
  <2> QED
    BY <1>1, <2>2, <2>4, <2>5, <2>6
<1> QED
  BY <1>2, <1>3

(* takes as many as it is asked for when it leaves one out, *)
LEMMA NewestFull ==
  ASSUME NEW S, S \subseteq Posts, NEW n \in Nat, Newest(S, n) # S
  PROVE  Cardinality(Newest(S, n)) >= n
<1> DEFINE T == Newest(S, n)
           R == S \ T
           m == Max(R)
           above == {q \in S : q > m}
<1>1. T \subseteq S /\ R # {} /\ R \subseteq Posts
  BY DEF Newest
<1>2. m \in R /\ \A y \in R : y <= m
  BY <1>1, PostSets, GreatestOf
<1>3. ~(Cardinality(above) < n)
  BY <1>2 DEF Newest
<1>4. above \in SUBSET T
  <2> SUFFICES ASSUME NEW q \in above, q \notin T
               PROVE  FALSE
    OBVIOUS
  <2>1. q \in R /\ q <= m /\ q > m
    BY <1>2
  <2> QED
    BY <1>1, <1>2, <2>1, PostSets
<1>5. IsFiniteSet(T) /\ Cardinality(T) \in Nat /\ Cardinality(above) \in Nat
  BY <1>1, PostSets
<1>6. Cardinality(above) <= Cardinality(T)
  BY <1>4, <1>5, FS_Subset
<1> QED
  BY <1>3, <1>5, <1>6

(* takes with a post every later one, *)
LEMMA NewestAbove ==
  ASSUME NEW S, S \subseteq Posts, NEW n \in Nat,
         NEW m \in Newest(S, n), NEW p \in S, m <= p
  PROVE  p \in Newest(S, n)
<1> DEFINE A(x) == {q \in S : q > x}
<1>1. A(p) \in SUBSET A(m) /\ A(m) \subseteq Posts /\ A(p) \subseteq Posts
  BY PostSets DEF Newest
<1>2. IsFiniteSet(A(m)) /\ Cardinality(A(m)) \in Nat /\ Cardinality(A(p)) \in Nat
  BY <1>1, PostSets
<1>3. Cardinality(A(p)) <= Cardinality(A(m))
  BY <1>1, <1>2, FS_Subset
<1>4. Cardinality(A(m)) < n
  BY DEF Newest
<1> QED
  BY <1>2, <1>3, <1>4 DEF Newest

(* and takes everything when there is room for it. *)
LEMMA NewestAll ==
  ASSUME NEW S, S \subseteq Posts, NEW n \in Nat, Cardinality(S) < n
  PROVE  Newest(S, n) = S
<1> SUFFICES ASSUME NEW p \in S
             PROVE  Cardinality({q \in S : q > p}) < n
  BY DEF Newest
<1> DEFINE A == {q \in S : q > p}
<1>1. A \in SUBSET S /\ IsFiniteSet(S) /\ Cardinality(S) \in Nat /\ Cardinality(A) \in Nat
  BY PostSets
<1>2. Cardinality(A) <= Cardinality(S)
  BY <1>1, FS_Subset
<1> QED
  BY <1>1, <1>2

(* A page of the repository: the posts from the cursor down to the next    *)
(* cursor, or to the end.                                                  *)
LEMMA PageFacts ==
  ASSUME remote \subseteq Posts, NEW c \in Marks, NEW page \in Pages(c)
  PROVE  /\ page.records \subseteq After(c) /\ After(c) \subseteq remote
         /\ page.next \in page.records \cup {Null} /\ page.next \in Marks
         /\ page.next = Null => page.records = After(c)
         /\ page.next # Null => /\ \A q \in page.records : page.next <= q
                                /\ \A q \in After(c) : page.next <= q => q \in page.records
         /\ page.records # After(c) => Cardinality(page.records) >= PageSize
<1> DEFINE rest == After(c)
           records == Newest(rest, PageSize)
           nexts == (IF records # {} THEN {Min(records)} ELSE {})
                      \cup (IF records = rest THEN {Null} ELSE {})
<1>1. rest \subseteq remote /\ rest \subseteq Posts
  BY DEF After
<1>2. PageSize \in Nat /\ Null \notin Posts
  BY ExecutorConstants
<1>3. records \subseteq rest
  BY <1>1, <1>2, NewestSize
<1> HIDE DEF records
<1>4. PICK next \in nexts : page = [records |-> records, next |-> next]
  BY DEF Pages, records
<1>5. page.records = records /\ page.next \in nexts
  BY <1>4
<1>6. records # {} => Min(records) \in records /\ \A q \in records : Min(records) <= q
  BY <1>1, <1>3, PostSets, LeastOf
<1>7. records # rest => Cardinality(records) >= PageSize
  BY <1>1, <1>2, NewestFull DEF records
<1>8. ASSUME NEW m \in records, NEW q \in rest, m <= q
      PROVE  q \in records
  BY <1>1, <1>2, <1>8, NewestAbove DEF records
<1> QED
  BY <1>1, <1>2, <1>3, <1>5, <1>6, <1>7, <1>8 DEF Marks

(* A page brings nothing that the window holds. *)
LEMMA NewPage ==
  ASSUME TypeOK, WindowPlace, pc = "fetch", NEW page \in Pages(win.cursor)
  PROVE  page.records \cap win.fetched = {}
<1>1. win \in Window /\ win.cursor \in Marks /\ remote \subseteq Posts /\ win.fetched \subseteq Posts
      /\ win.pages \in Nat
  BY ExecutorConstants DEF TypeOK, Window
<1>2. page.records \subseteq After(win.cursor) /\ page.records \subseteq Posts
  BY <1>1, PageFacts
<1>3. CASE win.pages = 0
  BY <1>3 DEF WindowPlace
<1>4. CASE win.pages > 0
  <2>1. win.cursor # Null /\ \A p \in win.fetched : win.cursor <= p
    BY <1>4 DEF WindowPlace
  <2>2. \A p \in page.records : p < win.cursor
    BY <1>2, <2>1 DEF After
  <2> QED
    BY <1>1, <1>2, <2>1, <2>2, PostSets DEF Marks
<1> QED
  BY <1>1, <1>3, <1>4

(* Room of the window for more posts, and what it takes of the posts of a   *)
(* page.                                                                   *)
Room == IF Cardinality(win.processed) < PostLimit
          THEN PostLimit - Cardinality(win.processed) ELSE 0

Taken(decoded) == Newest(Before(decoded, {win.stop} \cup TooOld), Room)

(* A head poll has room for everything, and stops at its marker only. *)
LEMMA HeadTakes ==
  ASSUME TypeOK, WindowTakes, mode = "head", NEW S, S \subseteq Posts, S \cap win.processed = {}
  PROVE  \A p \in S : win.stop < p => p \in Taken(S)
<1> DEFINE B == Before(S, {win.stop} \cup TooOld)
<1>1. B \in SUBSET S /\ B \subseteq Posts
  BY DEF Before
<1>2. IsFiniteSet(win.processed) /\ IsFiniteSet(B) /\ IsFiniteSet(Posts) /\ B \cap win.processed = {}
        /\ B \cup win.processed \in SUBSET Posts
  BY <1>1, PostSets DEF TypeOK, Window
<1>3. /\ Cardinality(B) \in Nat /\ Cardinality(win.processed) \in Nat
      /\ Cardinality(Posts) \in Nat /\ Cardinality(B \cap win.processed) = 0
  BY <1>2, FS_CardinalityType, FS_EmptySet
<1>4. Cardinality(B \cup win.processed) = Cardinality(B) + Cardinality(win.processed) - 0
  BY <1>2, <1>3, FS_Union
<1>5. Cardinality(B \cup win.processed) <= Cardinality(Posts)
  BY <1>2, FS_Subset
<1>6. PostLimit = Cardinality(Posts) + 1
  BY DEF PostLimit
<1>7. Room \in Nat /\ Cardinality(B) < Room
  BY <1>3, <1>4, <1>5, <1>6 DEF Room
<1>8. Taken(S) = B
  BY <1>1, <1>7, NewestAll DEF Taken
<1>9. TooOld = {}
  BY DEF TooOld
<1>10. ASSUME NEW p \in S, win.stop < p PROVE p \in B
  BY <1>9, <1>10 DEF Before
<1> QED
  BY <1>8, <1>10

(* A window takes no more than there is room for; that of a backfill ends   *)
(* within the budget of its task.                                          *)
LEMMA RoomKept ==
  ASSUME TypeOK, WindowTakes, NEW S, S \subseteq Posts
  PROVE  /\ Taken(S) \subseteq S
         /\ mode = "backfill" => Cardinality(win.processed \cup Taken(S)) <= task.remaining
<1> DEFINE B == Before(S, {win.stop} \cup TooOld)
<1>1. B \subseteq S /\ B \subseteq Posts
  BY DEF Before
<1>2. /\ IsFiniteSet(win.processed) /\ Cardinality(win.processed) \in Nat
      /\ Cardinality(Posts) \in Nat
      /\ win.processed \subseteq Posts
  BY PostSets DEF TypeOK, Window
<1>3. ChunkLimit \in Nat /\ ChunkLimit <= task.remaining /\ task.remaining \in Nat /\ ChunkPosts \in Nat
  <2>1. task.remaining \in 0..MaxPosts /\ ChunkPosts \in Nat /\ MaxPosts \in Nat
    BY ExecutorConstants DEF TypeOK, Task
  <2>2. task.remaining \in Nat
    BY <2>1
  <2> QED
    BY <2>1, <2>2 DEF ChunkLimit
<1>4. PostLimit \in Nat /\ (mode = "backfill" => PostLimit = ChunkLimit)
  BY <1>2, <1>3 DEF PostLimit, TypeOK
<1>5. Room \in Nat
  BY <1>2, <1>4 DEF Room
<1>6. Taken(S) \subseteq B /\ Cardinality(Taken(S)) <= Room
  BY <1>1, <1>5, NewestSize DEF Taken
<1>7. IsFiniteSet(Taken(S)) /\ Cardinality(Taken(S)) \in Nat
      /\ Cardinality(win.processed \cap Taken(S)) \in Nat
  BY <1>1, <1>2, <1>6, PostSets
<1>8. Cardinality(win.processed \cup Taken(S)) = Cardinality(win.processed) + Cardinality(Taken(S))
                                                  - Cardinality(win.processed \cap Taken(S))
  BY <1>2, <1>7, FS_Union
<1>9. Cardinality(win.processed \cup Taken(S)) \in Nat
  BY <1>1, <1>2, <1>6, PostSets
<1>10. ASSUME mode = "backfill" PROVE Cardinality(win.processed \cup Taken(S)) <= task.remaining
  <2>1. Cardinality(win.processed) <= task.remaining
    BY <1>10 DEF WindowTakes
  <2>2. PostLimit <= task.remaining
    BY <1>3, <1>4, <1>10
  <2>3. CASE Cardinality(win.processed) < PostLimit
    <3>1. Room = PostLimit - Cardinality(win.processed)
      BY <2>3 DEF Room
    <3> QED
      BY <1>2, <1>3, <1>4, <1>6, <1>7, <1>8, <1>9, <2>2, <3>1
  <2>4. CASE ~(Cardinality(win.processed) < PostLimit)
    <3>1. Room = 0
      BY <2>4 DEF Room
    <3> QED
      BY <1>2, <1>3, <1>6, <1>7, <1>8, <1>9, <2>1, <3>1
  <2> QED
    BY <2>3, <2>4
<1> QED
  BY <1>1, <1>6, <1>10

(* What a step of fetchWindow does to the window. *)
Fetched(page) ==
  /\ pc = "fetch"
  /\ win'.cursor = page.next /\ win'.stop = win.stop /\ win'.pages = win.pages + 1
  /\ win'.fetched = win.fetched \cup Decodable(page.records)
  /\ \E taken \in SUBSET Decodable(page.records) :
       /\ win'.processed = win.processed \cup taken
       /\ mode = "head" => \A p \in Decodable(page.records) : win.stop < p => p \in taken
       /\ mode # "head" /\ ~win'.completed => taken = Decodable(page.records)
  /\ mode = "backfill" => Cardinality(win'.processed) <= task.remaining
  /\ ~win'.completed => page.next # Null
  /\ pc' = IF win'.completed \/ win'.pages = MaxPages THEN "process" ELSE "fetch"
  /\ win' \in Window
  /\ UNCHANGED <<remote, unborn, local, sync, mode, task>>

LEMMA FetchStep ==
  ASSUME TypeOK, WindowPlace, WindowTakes, FetchPage
  PROVE  \E page \in Pages(win.cursor) : Fetched(page)
<1>1. PICK page \in Pages(win.cursor) :
        LET decoded == Decodable(page.records)
            wanted  == Before(decoded, {win.stop} \cup TooOld)
            room    == IF Cardinality(win.processed) < PostLimit
                         THEN PostLimit - Cardinality(win.processed) ELSE 0
            taken   == Newest(wanted, room)
            done    == \/ taken # decoded
                       \/ page.next = Null
                       \/ decoded = {}
                       \/ Cardinality(win.processed \cup taken) >= PostLimit
        IN  /\ win' = [win EXCEPT !.cursor = page.next, !.fetched = @ \cup decoded,
                                  !.processed = @ \cup taken, !.pages = @ + 1,
                                  !.completed = done]
            /\ pc' = IF done \/ LastPage THEN "process" ELSE "fetch"
  BY DEF FetchPage
<1> DEFINE decoded == Decodable(page.records)
           taken   == Taken(decoded)
           done    == \/ taken # decoded
                      \/ page.next = Null
                      \/ decoded = {}
                      \/ Cardinality(win.processed \cup taken) >= PostLimit
<1>2. /\ win' = [win EXCEPT !.cursor = page.next, !.fetched = @ \cup decoded,
                            !.processed = @ \cup taken, !.pages = @ + 1,
                            !.completed = done]
      /\ pc' = IF done \/ LastPage THEN "process" ELSE "fetch"
  BY <1>1 DEF Taken, Room
<1>3. win \in Window /\ win.cursor \in Marks /\ remote \subseteq Posts
  BY DEF TypeOK, Window
<1>4. page.records \subseteq After(win.cursor) /\ page.records \subseteq Posts /\ page.next \in Marks
  BY <1>3, PageFacts
<1>5. decoded \subseteq page.records /\ decoded \subseteq Posts
  BY <1>4 DEF Decodable
<1>6. taken \subseteq decoded
      /\ (mode = "backfill" => Cardinality(win.processed \cup taken) <= task.remaining)
  BY <1>5, RoomKept
<1> HIDE DEF decoded, taken
<1> DEFINE over == done
<1>7. over \in BOOLEAN
  OBVIOUS
<1>8. (~over => taken = decoded /\ page.next # Null)
  OBVIOUS
<1>9. win' = [win EXCEPT !.cursor = page.next, !.fetched = @ \cup decoded,
                         !.processed = @ \cup taken, !.pages = @ + 1, !.completed = over]
      /\ pc' = IF over \/ LastPage THEN "process" ELSE "fetch"
  BY <1>2
<1> HIDE DEF over
<1>10. pc = "fetch" /\ win.pages < MaxPages /\ UNCHANGED <<remote, unborn, local, sync, mode, task>>
  BY DEF FetchPage, WindowPlace
<1>11. win.pages \in Nat /\ MaxPages \in Nat
  BY <1>3, ExecutorConstants DEF Window
<1> DEFINE fetched   == win.fetched \cup decoded
           processed == win.processed \cup taken
           pages     == win.pages + 1
<1>12. win' = [win EXCEPT !.cursor = page.next, !.fetched = fetched, !.processed = processed,
                          !.pages = pages, !.completed = over]
  BY <1>9
<1>13. fetched \subseteq Posts /\ processed \subseteq Posts /\ pages \in 0..MaxPages
  BY <1>3, <1>5, <1>6, <1>10, <1>11 DEF Window
<1> HIDE DEF fetched, processed, pages
<1>14. /\ win'.cursor = page.next /\ win'.stop = win.stop /\ win'.pages = pages
       /\ win'.fetched = fetched /\ win'.processed = processed
       /\ win'.completed = over /\ win' \in Window
  BY <1>3, <1>4, <1>7, <1>12, <1>13 DEF Window
<1>15. ASSUME mode = "head" PROVE \A p \in decoded : win.stop < p => p \in taken
  <2>1. decoded \cap win.processed = {}
    BY <1>5, <1>10, NewPage DEF WindowTakes, Decodable
  <2> QED
    BY <1>5, <1>15, <2>1, HeadTakes DEF taken
<1> QED
  BY <1>6, <1>7, <1>8, <1>9, <1>10, <1>11, <1>14, <1>15
     DEF Fetched, decoded, LastPage, fetched, processed, pages

-----------------------------------------------------------------------------
(***************************************************************************)
(* The invariant                                                           *)
(***************************************************************************)
LEMMA ExecInit == Init => ExecInv
<1> SUFFICES ASSUME Init PROVE ExecInv
  OBVIOUS
<1>1. /\ remote = {} /\ unborn = Posts /\ local = [p \in Posts |-> "none"]
      /\ sync = [head |-> Null, cursor |-> Null, status |-> "idle"]
      /\ pc = "idle" /\ mode = "head" /\ win = NoWindow
      /\ task = [remaining |-> MaxPosts, cursor |-> Null]
  BY DEF Init
<1>2. MaxPosts \in Nat /\ MaxPages \in Nat /\ MaxPosts \in 0..MaxPosts /\ 0 \in 0..MaxPages
  BY ExecutorConstants
<1>3. sync \in Sync /\ task \in Task /\ Null \in Marks
  BY <1>1, <1>2 DEF Sync, Task, Marks
<1>4. NoWindow \in Window
  BY <1>2 DEF Window, NoWindow, Marks
<1>5. TypeOK
  BY <1>1, <1>3, <1>4 DEF TypeOK
<1>6. InOrderOfKeys
  BY <1>1 DEF InOrderOfKeys, Born, NoWindow
<1>7. WindowPlace
  BY <1>1 DEF WindowPlace, NoWindow
<1>8. WindowTakes
  BY <1>1 DEF WindowTakes, NoWindow
<1>9. NothingMissed
  BY <1>1 DEF NothingMissed, Decodable
<1> QED
  BY <1>5, <1>6, <1>7, <1>8, <1>9 DEF ExecInv

(* What was published, the cursors and the posts are numbers in the order   *)
(* of their publication.                                                   *)
LEMMA Numbers ==
  ASSUME TypeOK, InOrderOfKeys
  PROVE  /\ Posts \subseteq Nat \ {0} /\ Null = 0 /\ Marks \subseteq Nat
         /\ sync.head \in Marks /\ sync.cursor \in Marks /\ task.cursor \in Marks
         /\ win.cursor \in Marks /\ win.stop \in Marks /\ Origin \in Marks
         /\ Origin \in Born \cup {Null}
         /\ win.fetched \subseteq Posts /\ win.processed \subseteq Posts /\ remote \subseteq Posts
         /\ win.pages \in Nat /\ task.remaining \in Nat
<1>1. Posts \subseteq Nat \ {0} /\ Null = 0 /\ Marks \subseteq Nat /\ MaxPages \in Nat /\ MaxPosts \in Nat
  BY ExecutorConstants DEF Null, Marks
<1>2. /\ sync \in Sync /\ task \in Task /\ win \in Window /\ remote \subseteq Posts
      /\ mode \in {"head", "backfill", "reconcile"}
  BY DEF TypeOK
<1>3. /\ sync.head \in Marks /\ sync.cursor \in Marks
  BY <1>2 DEF Sync
<1>4. task.cursor \in Marks /\ task.remaining \in Nat
  BY <1>1, <1>2 DEF Task
<1>5. /\ win.cursor \in Marks /\ win.stop \in Marks /\ win.pages \in Nat
      /\ win.fetched \subseteq Posts /\ win.processed \subseteq Posts
  BY <1>1, <1>2 DEF Window
<1>6. Origin \in {Null, sync.cursor, task.cursor}
  BY <1>2 DEF Origin
<1>7. Origin \in Born \cup {Null} /\ Origin \in Marks
  BY <1>3, <1>4, <1>6 DEF InOrderOfKeys, Marks
<1> QED
  BY <1>1, <1>2, <1>3, <1>4, <1>5, <1>7

LEMMA NextPublish == ExecInv /\ Publish => ExecInv'
<1> SUFFICES ASSUME ExecInv, Publish PROVE ExecInv'
  OBVIOUS
<1>1. TypeOK /\ InOrderOfKeys /\ WindowPlace /\ WindowTakes /\ NothingMissed
  BY DEF ExecInv
<1> DEFINE m == Min(unborn)
<1>2. unborn # {} /\ remote' = remote \cup {m} /\ unborn' = unborn \ {m}
      /\ UNCHANGED <<local, sync, pc, mode, win, task>>
  BY DEF Publish
<1>3. unborn \subseteq Posts
  BY <1>1 DEF TypeOK
<1>4. m \in unborn /\ m \in Posts /\ \A p \in unborn : m <= p
  BY <1>2, <1>3, PostSets, LeastOf
<1> HIDE DEF m
<1>5. Born' = Born \cup {m}
  BY <1>2, <1>3, <1>4 DEF Born
<1>6. \A q \in Born : q < m
  BY <1>1, <1>4 DEF InOrderOfKeys
<1>7. Origin' = Origin /\ (\A p : Passed(p)' = Passed(p)) /\ (\A p : Older(p)' = Older(p))
  BY <1>2 DEF Origin, Passed, Older
<1>8. TypeOK'
  BY <1>1, <1>2, <1>4 DEF TypeOK
<1>9. InOrderOfKeys'
  <2>1. \A p \in unborn', q \in Born' : q < p
    <3> SUFFICES ASSUME NEW p \in unborn', NEW q \in Born'
                 PROVE  q < p
      OBVIOUS
    <3>1. p \in unborn /\ p # m /\ m <= p /\ p \in Nat /\ m \in Nat
      BY <1>1, <1>2, <1>3, <1>4, Numbers
    <3>2. CASE q \in Born
      BY <1>1, <3>1, <3>2 DEF InOrderOfKeys
    <3>3. CASE q = m
      BY <3>1, <3>3
    <3> QED
      BY <1>5, <3>2, <3>3
  <2> QED
    BY <1>1, <1>2, <1>5, <2>1 DEF InOrderOfKeys
<1>10. WindowPlace'
  BY <1>1, <1>2, <1>7 DEF WindowPlace
<1>11. WindowTakes'
  BY <1>1, <1>2 DEF WindowTakes, Decodable
<1>12. NothingMissed'
  <2> SUFFICES ASSUME NEW p \in Decodable(remote)', Passed(p), Older(p)
               PROVE  p \in win.fetched
    BY <1>2, <1>7 DEF NothingMissed
  <2>1. CASE p \in remote
    BY <1>1, <2>1 DEF NothingMissed, Decodable
  <2>2. CASE p = m
    <3>1. Origin = Null
      BY <1>1, <1>4, <1>6, <2>2, Numbers DEF Passed
    <3>2. sync.head < m
      BY <1>1, <1>4, <1>6, Numbers DEF InOrderOfKeys
    <3>3. \A q \in win.fetched : q < m
      BY <1>1, <1>6 DEF InOrderOfKeys
    <3>4. local[m] = "none"
      BY <1>1, <1>4 DEF InOrderOfKeys
    <3> QED
      BY <1>1, <1>4, <2>2, <3>1, <3>2, <3>3, <3>4, Numbers DEF Older
  <2> QED
    BY <1>2, <2>1, <2>2 DEF Decodable
<1> QED
  BY <1>8, <1>9, <1>10, <1>11, <1>12 DEF ExecInv

LEMMA NextRemove == ASSUME NEW p \in Posts PROVE ExecInv /\ Remove(p) => ExecInv'
<1> SUFFICES ASSUME ExecInv, Remove(p) PROVE ExecInv'
  OBVIOUS
<1>1. TypeOK /\ InOrderOfKeys /\ WindowPlace /\ WindowTakes /\ NothingMissed
  BY DEF ExecInv
<1>2. remote' = remote \ {p} /\ UNCHANGED <<unborn, local, sync, pc, mode, win, task>>
  BY DEF Remove
<1>3. Origin' = Origin /\ Born' = Born
      /\ (\A q : Passed(q)' = Passed(q)) /\ (\A q : Older(q)' = Older(q))
  BY <1>2 DEF Origin, Born, Passed, Older
<1>4. TypeOK'
  BY <1>1, <1>2 DEF TypeOK
<1>5. InOrderOfKeys'
  BY <1>1, <1>2, <1>3 DEF InOrderOfKeys
<1>6. WindowPlace'
  BY <1>1, <1>2, <1>3 DEF WindowPlace
<1>7. WindowTakes'
  BY <1>1, <1>2 DEF WindowTakes, Decodable
<1>8. NothingMissed'
  BY <1>1, <1>2, <1>3 DEF NothingMissed, Decodable
<1> QED
  BY <1>4, <1>5, <1>6, <1>7, <1>8 DEF ExecInv

LEMMA EmptyWindow ==
  /\ NoWindow \in Window
  /\ NoWindow.fetched = {} /\ NoWindow.processed = {} /\ NoWindow.pages = 0
  /\ NoWindow.completed = FALSE /\ NoWindow.cursor = Null /\ NoWindow.stop = Null
<1>1. MaxPages \in Nat /\ 0 \in 0..MaxPages
  BY ExecutorConstants
<1> QED
  BY <1>1 DEF Window, NoWindow, Marks

(* A chunk begins with an empty window at its cursor. *)
LEMMA NextStart ==
  ASSUME ExecInv, NEW m \in {"head", "backfill", "reconcile"}, NEW w \in Window, Start(m, w),
         task' = task, sync' \in Sync, sync'.head = sync.head, sync'.cursor = sync.cursor,
         w.fetched = {}, w.processed = {}, w.pages = 0, w.completed = FALSE,
         w.cursor = Origin', w.stop = IF m = "head" THEN sync.head ELSE Null
  PROVE  ExecInv'
<1>1. TypeOK /\ InOrderOfKeys /\ WindowPlace /\ WindowTakes /\ NothingMissed
  BY DEF ExecInv
<1>2. pc = "idle" /\ pc' = "fetch" /\ mode' = m /\ win' = w /\ UNCHANGED <<remote, unborn, local>>
  BY DEF Start
<1>3. MaxPages \in Nat \ {0}
  BY ExecutorConstants
<1>4. Origin' \in {Null, sync.cursor, task.cursor} /\ Born' = Born
  BY <1>2 DEF Origin, Born
<1>5. TypeOK'
  BY <1>1, <1>2 DEF TypeOK
<1>6. InOrderOfKeys'
  BY <1>1, <1>2, <1>4 DEF InOrderOfKeys
<1>7. WindowPlace'
  BY <1>2, <1>3 DEF WindowPlace
<1>8. WindowTakes'
  <2>1. win'.processed = {} /\ task'.remaining \in Nat
    BY <1>1, <1>2, Numbers
  <2>2. Cardinality({}) = 0
    BY FS_EmptySet, Zenon
  <2>3. Cardinality(win'.processed) <= task'.remaining
    BY <2>1, <2>2
  <2> QED
    BY <1>2, <2>3 DEF WindowTakes, Decodable
<1>9. NothingMissed'
  BY <1>2 DEF NothingMissed, Passed
<1> QED
  BY <1>5, <1>6, <1>7, <1>8, <1>9 DEF ExecInv

LEMMA NextStartHead == ExecInv /\ StartHead => ExecInv'
<1> SUFFICES ASSUME ExecInv, StartHead PROVE ExecInv'
  OBVIOUS
<1> DEFINE w == [NoWindow EXCEPT !.stop = sync.head]
<1>1. Start("head", w) /\ sync' = sync /\ task' = task
  BY DEF StartHead
<1>2. TypeOK /\ InOrderOfKeys
  BY DEF ExecInv
<1>3. sync \in Sync /\ sync.head \in Marks /\ MaxPages \in Nat
  BY <1>2, Numbers, ExecutorConstants DEF TypeOK
<1>4. /\ w \in Window /\ w.fetched = {} /\ w.processed = {} /\ w.pages = 0 /\ w.completed = FALSE
      /\ w.cursor = Null /\ w.stop = sync.head
  BY <1>3, EmptyWindow DEF Window
<1>5. Origin' = Null
  BY <1>1 DEF Start, Origin
<1> QED
  <2> HIDE DEF w
  <2> QED
    BY <1>1, <1>3, <1>4, <1>5, NextStart

LEMMA NextStartBackfill == ExecInv /\ StartBackfill => ExecInv'
<1> SUFFICES ASSUME ExecInv, StartBackfill PROVE ExecInv'
  OBVIOUS
<1> DEFINE w == [NoWindow EXCEPT !.cursor = sync.cursor]
<1>1. Start("backfill", w) /\ sync' = [sync EXCEPT !.status = "running"] /\ task' = task
  BY DEF StartBackfill
<1>2. TypeOK /\ InOrderOfKeys
  BY DEF ExecInv
<1>3. sync \in Sync /\ sync.cursor \in Marks /\ MaxPages \in Nat
  BY <1>2, Numbers, ExecutorConstants DEF TypeOK
<1>4. /\ w \in Window /\ w.fetched = {} /\ w.processed = {} /\ w.pages = 0 /\ w.completed = FALSE
      /\ w.cursor = sync.cursor /\ w.stop = Null
  BY <1>3, EmptyWindow DEF Window
<1>5. sync' \in Sync /\ sync'.head = sync.head /\ sync'.cursor = sync.cursor
  BY <1>1, <1>3 DEF Sync
<1>6. Origin' = sync.cursor
  BY <1>1, <1>5 DEF Start, Origin
<1> QED
  <2> HIDE DEF w
  <2> QED
    BY <1>1, <1>4, <1>5, <1>6, NextStart

LEMMA NextStartReconcile == ExecInv /\ StartReconcile => ExecInv'
<1> SUFFICES ASSUME ExecInv, StartReconcile PROVE ExecInv'
  OBVIOUS
<1> DEFINE w == [NoWindow EXCEPT !.cursor = task.cursor]
<1>1. Start("reconcile", w) /\ sync' = sync /\ task' = task
  BY DEF StartReconcile
<1>2. TypeOK /\ InOrderOfKeys
  BY DEF ExecInv
<1>3. sync \in Sync /\ task.cursor \in Marks /\ MaxPages \in Nat
  BY <1>2, Numbers, ExecutorConstants DEF TypeOK
<1>4. /\ w \in Window /\ w.fetched = {} /\ w.processed = {} /\ w.pages = 0 /\ w.completed = FALSE
      /\ w.cursor = task.cursor /\ w.stop = Null
  BY <1>3, EmptyWindow DEF Window
<1>5. Origin' = task.cursor
  BY <1>1 DEF Start, Origin
<1> QED
  <2> HIDE DEF w
  <2> QED
    BY <1>1, <1>3, <1>4, <1>5, NextStart

(* A page moves the window on by the posts that it lists. *)
LEMMA NextFetch == ExecInv /\ FetchPage => ExecInv'
<1> SUFFICES ASSUME ExecInv, FetchPage PROVE ExecInv'
  OBVIOUS
<1>1. TypeOK /\ InOrderOfKeys /\ WindowPlace /\ WindowTakes /\ NothingMissed
  BY DEF ExecInv
<1>2. PICK page \in Pages(win.cursor) : Fetched(page)
  BY <1>1, FetchStep
<1> DEFINE decoded == Decodable(page.records)
<1>3. /\ pc = "fetch" /\ pc' \in {"fetch", "process"}
      /\ win'.cursor = page.next /\ win'.stop = win.stop /\ win'.pages = win.pages + 1
      /\ win'.fetched = win.fetched \cup decoded
      /\ mode = "backfill" => Cardinality(win'.processed) <= task.remaining
      /\ ~win'.completed => page.next # Null
      /\ pc' = "fetch" => ~win'.completed /\ win'.pages # MaxPages
      /\ pc' = "process" => win'.completed \/ win'.pages = MaxPages
      /\ win' \in Window
      /\ UNCHANGED <<remote, unborn, local, sync, mode, task>>
  BY <1>2 DEF Fetched
<1>4. PICK taken \in SUBSET decoded :
        /\ win'.processed = win.processed \cup taken
        /\ mode = "head" => \A p \in decoded : win.stop < p => p \in taken
        /\ mode # "head" /\ ~win'.completed => taken = decoded
  BY <1>2 DEF Fetched
<1>5. /\ page.records \subseteq After(win.cursor) /\ After(win.cursor) \subseteq remote
      /\ page.next \in page.records \cup {Null}
      /\ page.next = Null => page.records = After(win.cursor)
      /\ page.next # Null => /\ \A q \in page.records : page.next <= q
                             /\ \A q \in After(win.cursor) : page.next <= q => q \in page.records
  BY <1>1, Numbers, PageFacts
<1>6. decoded \subseteq page.records /\ decoded \subseteq remote
      /\ (\A p \in page.records : p \in decoded <=> CreatedAt[p] # 0)
  BY <1>5 DEF Decodable
<1>7. /\ Posts \subseteq Nat \ {0} /\ Null = 0 /\ remote \subseteq Posts /\ win.cursor \in Nat
      /\ page.next \in Nat /\ Origin \in Nat /\ win.pages \in Nat /\ win.fetched \subseteq Posts
      /\ MaxPages \in Nat \ {0} /\ page.records \subseteq Posts
  <2>1. page.next \in Marks /\ page.records \subseteq remote
    BY <1>1, <1>5, Numbers DEF Marks
  <2>2. MaxPages \in Nat \ {0}
    BY ExecutorConstants
  <2> QED
    BY <1>1, <2>1, <2>2, Numbers
<1>8. Origin' = Origin /\ Born' = Born
  BY <1>3 DEF Origin, Born
<1>9. ~win.completed /\ win.pages < MaxPages
  BY <1>1, <1>3 DEF WindowPlace
<1>10. \A p \in page.records : p \in After(win.cursor) /\ (win.cursor = Null \/ p < win.cursor)
  BY <1>5 DEF After
<1>11. win.pages > 0 => win.cursor # Null
  BY <1>1, <1>9 DEF WindowPlace
<1>12. win.pages = 0 => win.cursor = Origin /\ win.fetched = {}
  BY <1>1, <1>3 DEF WindowPlace
<1>13. win.pages > 0 => /\ \A p \in win.fetched : win.cursor <= p
                        /\ Origin # Null => win.cursor < Origin
  BY <1>1, <1>11 DEF WindowPlace
<1>14. TypeOK'
  BY <1>1, <1>3 DEF TypeOK
<1>15. InOrderOfKeys'
  BY <1>1, <1>3, <1>5, <1>6, <1>8 DEF InOrderOfKeys
<1>16. WindowPlace'
  <2>1. win'.pages > 0 /\ win'.pages <= MaxPages /\ win'.pages # 0
    BY <1>3, <1>7, <1>9
  <2>2. pc' = "fetch" => ~win'.completed /\ win'.pages < MaxPages
    BY <1>3, <1>7, <1>9
  <2>3. win'.stop = IF mode = "head" THEN sync.head ELSE Null
    BY <1>1, <1>3 DEF WindowPlace
  <2>4. \A p \in win'.fetched : win'.cursor <= p
    <3> SUFFICES ASSUME NEW p \in win.fetched \cup decoded PROVE page.next <= p
      BY <1>3
    <3>0. p \in Nat
      BY <1>6, <1>7
    <3>1. CASE page.next = Null
      BY <1>7, <3>0, <3>1
    <3>2. CASE page.next # Null /\ p \in decoded
      BY <1>5, <1>6, <3>2
    <3>3. CASE page.next # Null /\ p \in win.fetched
      <4>1. win.pages > 0 /\ page.next \in page.records
        BY <1>5, <1>7, <1>12, <3>3
      <4>2. page.next < win.cursor /\ win.cursor <= p
        BY <1>10, <1>11, <1>13, <3>3, <4>1
      <4> QED
        BY <1>7, <3>0, <4>2
    <3> QED
      BY <3>1, <3>2, <3>3
  <2>5. win'.cursor # Null /\ Origin # Null => win'.cursor < Origin
    <3> SUFFICES ASSUME page.next # Null, Origin # Null PROVE page.next < Origin
      BY <1>3
    <3>1. page.next \in page.records
      BY <1>5
    <3>2. CASE win.pages = 0
      BY <1>10, <1>12, <3>1, <3>2
    <3>3. CASE win.pages > 0
      <4>1. page.next < win.cursor /\ win.cursor < Origin
        BY <1>10, <1>11, <1>13, <3>1, <3>3
      <4> QED
        BY <1>7, <4>1
    <3> QED
      BY <1>7, <3>2, <3>3
  <2> QED
    BY <1>3, <1>8, <2>1, <2>2, <2>3, <2>4, <2>5 DEF WindowPlace
<1>17. WindowTakes'
  <2>1. win'.processed \subseteq Decodable(win'.fetched) /\ win'.fetched \subseteq Decodable(Posts)
    BY <1>1, <1>3, <1>4, <1>6, <1>7 DEF WindowTakes, Decodable
  <2>2. mode = "head" => \A p \in win'.fetched : win'.stop < p => p \in win'.processed
    BY <1>1, <1>3, <1>4 DEF WindowTakes
  <2>3. mode # "head" /\ ~win'.completed => win'.processed = win'.fetched
    BY <1>1, <1>3, <1>4, <1>9 DEF WindowTakes
  <2> QED
    BY <1>3, <2>1, <2>2, <2>3 DEF WindowTakes, Decodable
<1>18. NothingMissed'
  <2> SUFFICES ASSUME NEW p \in Decodable(remote), Passed(p)', Older(p)', p \notin win'.fetched
               PROVE  FALSE
    BY <1>3 DEF NothingMissed, Decodable
  <2>1. p \in remote /\ p \in Posts /\ CreatedAt[p] # 0 /\ p \in Nat
    BY <1>7 DEF Decodable
  <2>2. (page.next = Null \/ page.next <= p) /\ (Origin = Null \/ p < Origin)
    BY <1>3, <1>8 DEF Passed
  <2>3. p \notin page.records
    BY <1>3, <1>6, <2>1
  <2>4. p \notin After(win.cursor)
    BY <1>5, <2>2, <2>3
  <2>5. win.cursor # Null /\ win.cursor <= p
    BY <1>7, <2>1, <2>4 DEF After
  <2>6. win.pages > 0
    BY <1>7, <1>12, <2>1, <2>2, <2>5
  <2>7. Passed(p)
    BY <2>2, <2>5, <2>6 DEF Passed
  <2>8. \A q \in decoded : ~(p <= q)
    BY <1>6, <1>7, <1>10, <2>1, <2>5
  <2>9. Older(p)
    BY <1>3, <1>8, <2>8 DEF Older
  <2> QED
    BY <1>1, <1>3, <2>7, <2>9 DEF NothingMissed
<1> QED
  BY <1>14, <1>15, <1>16, <1>17, <1>18 DEF ExecInv

(* The rows of the window are written, the deleted ones among them, too. *)
LEMMA NextProcess == ExecInv /\ ProcessRecords => ExecInv'
<1> SUFFICES ASSUME ExecInv, ProcessRecords PROVE ExecInv'
  OBVIOUS
<1>1. TypeOK /\ InOrderOfKeys /\ WindowPlace /\ WindowTakes /\ NothingMissed
  BY DEF ExecInv
<1>2. /\ pc = "process" /\ pc' = IF mode = "backfill" THEN "persist" ELSE "reconcile"
      /\ local' = [p \in Posts |-> IF p \in win.processed \cap Matched THEN "active" ELSE local[p]]
      /\ UNCHANGED <<remote, unborn, sync, mode, win, task>>
  BY DEF ProcessRecords
<1>3. Origin' = Origin /\ Born' = Born /\ (\A p : Passed(p)' = Passed(p))
  BY <1>2 DEF Origin, Born, Passed
<1>4. /\ win.processed \subseteq win.fetched /\ win.fetched \subseteq Born
      /\ unborn \subseteq Posts /\ remote \subseteq Posts
  BY <1>1 DEF WindowTakes, Decodable, InOrderOfKeys, TypeOK
<1>5. ASSUME NEW p \in Posts PROVE local'[p] # local[p] => p \in win.fetched
  BY <1>2, <1>4
<1>6. TypeOK'
  BY <1>1, <1>2 DEF TypeOK
<1>7. InOrderOfKeys'
  <2>1. \A p \in unborn : local'[p] = "none"
    BY <1>1, <1>4, <1>5 DEF InOrderOfKeys, Born
  <2> QED
    BY <1>1, <1>2, <1>3, <2>1 DEF InOrderOfKeys
<1>8. WindowPlace'
  BY <1>1, <1>2, <1>3 DEF WindowPlace, TypeOK
<1>9. WindowTakes'
  <2>1. \A p \in win.processed \cap Matched : local'[p] # "none"
    BY <1>1, <1>2, Numbers
  <2> QED
    BY <1>1, <1>2, <2>1 DEF WindowTakes, Decodable
<1>10. NothingMissed'
  <2> SUFFICES ASSUME NEW p \in Decodable(remote), Passed(p), Older(p)'
               PROVE  p \in win.fetched
    BY <1>2, <1>3 DEF NothingMissed, Decodable
  <2>1. p \in Posts
    BY <1>4 DEF Decodable
  <2>2. CASE Older(p)
    BY <1>1, <2>2 DEF NothingMissed
  <2>3. CASE ~Older(p)
    <3>1. local'[p] # local[p]
      BY <1>2, <1>3, <2>3 DEF Older
    <3> QED
      BY <1>5, <2>1, <3>1
  <2> QED
    BY <2>2, <2>3
<1> QED
  BY <1>6, <1>7, <1>8, <1>9, <1>10 DEF ExecInv

(* A reconcile touches active rows only. *)
LEMMA Reconciled ==
  ASSUME TypeOK, ReconcileDeletes
  PROVE  /\ local' \in [Posts -> {"none", "active", "deleted"}]
         /\ \A p \in Posts : \/ local'[p] = local[p]
                             \/ /\ local[p] = "active" /\ local'[p] = "deleted"
                                /\ p \in RecentPosts \ win.fetched /\ win.fetched # {}
<1>1. local' = IF win.fetched = {} THEN local
               ELSE [p \in Posts |-> IF p \in RecentPosts \ win.fetched THEN "deleted" ELSE local[p]]
  BY DEF ReconcileDeletes
<1>2. local \in [Posts -> {"none", "active", "deleted"}]
  BY DEF TypeOK
<1>3. \A p \in RecentPosts : local[p] = "active"
  BY DEF RecentPosts
<1> HIDE DEF RecentPosts
<1> QED
  BY <1>1, <1>2, <1>3

LEMMA NextReconcile == ExecInv /\ ReconcileDeletes => ExecInv'
<1> SUFFICES ASSUME ExecInv, ReconcileDeletes PROVE ExecInv'
  OBVIOUS
<1>1. TypeOK /\ InOrderOfKeys /\ WindowPlace /\ WindowTakes /\ NothingMissed
  BY DEF ExecInv
<1>2. pc = "reconcile" /\ pc' = "persist" /\ UNCHANGED <<remote, unborn, sync, mode, win, task>>
  BY DEF ReconcileDeletes
<1>3. local' \in [Posts -> {"none", "active", "deleted"}]
      /\ \A p \in Posts : local'[p] = "none" <=> local[p] = "none"
  BY <1>1, Reconciled
<1>4. Origin' = Origin /\ Born' = Born /\ (\A p : Passed(p)' = Passed(p))
  BY <1>2 DEF Origin, Born, Passed
<1>5. unborn \subseteq Posts /\ remote \subseteq Posts
  BY <1>1 DEF TypeOK
<1>6. TypeOK'
  BY <1>1, <1>2, <1>3 DEF TypeOK
<1>7. InOrderOfKeys'
  BY <1>1, <1>2, <1>3, <1>4, <1>5 DEF InOrderOfKeys
<1>8. WindowPlace'
  BY <1>1, <1>2, <1>4 DEF WindowPlace
<1>9. WindowTakes'
  <2>1. \A p \in win.processed \cap Matched : local'[p] # "none"
    BY <1>1, <1>2, <1>3, Numbers DEF WindowTakes
  <2> QED
    BY <1>1, <1>2, <2>1 DEF WindowTakes, Decodable
<1>10. NothingMissed'
  <2> SUFFICES ASSUME NEW p \in Decodable(remote), Passed(p), Older(p)'
               PROVE  p \in win.fetched
    BY <1>2, <1>4 DEF NothingMissed, Decodable
  <2>1. p \in Posts
    BY <1>5 DEF Decodable
  <2>2. Older(p)
    BY <1>2, <1>3, <1>4, <2>1 DEF Older
  <2> QED
    BY <1>1, <2>2 DEF NothingMissed
<1> QED
  BY <1>6, <1>7, <1>8, <1>9, <1>10 DEF ExecInv

(* A chunk ends, and its window is gone. *)
LEMMA NextEnd ==
  ASSUME ExecInv, pc' = "idle", win' = NoWindow, UNCHANGED <<remote, unborn, local, mode>>,
         sync' \in Sync, task' \in Task,
         {sync'.head, sync'.cursor, task'.cursor} \subseteq Born \cup {Null}
  PROVE  ExecInv'
<1>1. TypeOK /\ InOrderOfKeys /\ WindowPlace /\ WindowTakes /\ NothingMissed
  BY DEF ExecInv
<1>2. Born' = Born
  BY DEF Born
<1>3. /\ win' \in Window /\ win'.fetched = {} /\ win'.processed = {} /\ win'.pages = 0
      /\ win'.completed = FALSE /\ win'.cursor = Null /\ win'.stop = Null
  BY EmptyWindow
<1>4. TypeOK'
  BY <1>1, <1>3 DEF TypeOK
<1>5. InOrderOfKeys'
  BY <1>1, <1>2, <1>3 DEF InOrderOfKeys
<1>6. WindowPlace'
  BY <1>3 DEF WindowPlace
<1>7. WindowTakes'
  <2>1. task'.remaining \in Nat
    BY ExecutorConstants DEF Task
  <2>2. Cardinality(win'.processed) <= task'.remaining
    BY <1>3, <2>1, FS_EmptySet
  <2> QED
    BY <1>3, <2>2 DEF WindowTakes, Decodable
<1>8. NothingMissed'
  BY <1>3 DEF NothingMissed, Passed
<1> QED
  BY <1>4, <1>5, <1>6, <1>7, <1>8 DEF ExecInv

(* The posts of a window have a newest. *)
LEMMA NewestOf ==
  ASSUME ExecInv, win.processed # {}
  PROVE  Max(win.processed) \in win.processed /\ Max(win.processed) \in Born
         /\ Max(win.processed) \in Nat /\ \A p \in win.processed : p <= Max(win.processed)
<1>1. win.processed \subseteq Posts /\ win.processed \subseteq Nat /\ IsFiniteSet(win.processed)
  BY Numbers, PostSets DEF ExecInv
<1>2. win.processed \subseteq Born
  BY DEF ExecInv, WindowTakes, Decodable, InOrderOfKeys
<1> QED
  BY <1>1, <1>2, GreatestOf

LEMMA NextPersist == ExecInv /\ Persist => ExecInv'
<1> SUFFICES ASSUME ExecInv, Persist PROVE ExecInv'
  OBVIOUS
<1>1. TypeOK /\ InOrderOfKeys /\ WindowPlace /\ WindowTakes /\ NothingMissed
  BY DEF ExecInv
<1>2. /\ pc' = "idle" /\ win' = NoWindow /\ UNCHANGED <<remote, unborn, local, mode>>
      /\ PersistHead \/ PersistBackfill \/ PersistReconcile
  BY DEF Persist
<1>3. /\ sync \in Sync /\ task \in Task
      /\ {sync.head, sync.cursor, task.cursor, win.cursor} \subseteq Born \cup {Null}
      /\ Born \cup {Null} \subseteq Marks
  BY <1>1 DEF TypeOK, InOrderOfKeys, Born, Marks
<1>4. NextCursor \in Born \cup {Null} /\ NextCursor \in Marks
  BY <1>3 DEF NextCursor
<1>5. CASE PersistHead
  <2> DEFINE head == IF win.processed = {} THEN sync.head ELSE Max(win.processed)
             cursor == IF sync.cursor # Null THEN sync.cursor
                       ELSE IF sync.head = Null THEN win.cursor ELSE Null
  <2>1. sync' = [sync EXCEPT !.head = head, !.cursor = cursor] /\ task' = task
    BY <1>5 DEF PersistHead
  <2>2. head \in Born \cup {Null} /\ cursor \in Born \cup {Null}
    BY <1>3, NewestOf
  <2> HIDE DEF head, cursor
  <2>3. sync' \in Sync /\ sync'.head = head /\ sync'.cursor = cursor
    BY <1>3, <2>1, <2>2 DEF Sync
  <2> QED
    BY <1>2, <1>3, <2>1, <2>2, <2>3, NextEnd
<1>6. CASE PersistBackfill
  <2> DEFINE status == IF win.completed THEN "complete" ELSE "running"
             remaining == IF win.completed THEN MaxPosts
                          ELSE task.remaining - Cardinality(win.processed)
  <2>1. mode = "backfill" /\ sync' = [sync EXCEPT !.cursor = NextCursor, !.status = status]
        /\ task' = [task EXCEPT !.remaining = remaining]
    BY <1>6 DEF PersistBackfill
  <2>2. Cardinality(win.processed) \in Nat /\ Cardinality(win.processed) <= task.remaining
    BY <1>1, <2>1, Numbers, PostSets DEF WindowTakes
  <2>3. task.remaining \in 0..MaxPosts /\ MaxPosts \in Nat
    BY <1>3, ExecutorConstants DEF Task
  <2>4. remaining \in 0..MaxPosts
    BY <2>2, <2>3
  <2>5. status \in {"complete", "running"}
    OBVIOUS
  <2> HIDE DEF status, remaining
  <2>6. sync' \in Sync /\ sync'.head = sync.head /\ sync'.cursor = NextCursor
    BY <1>3, <1>4, <2>1, <2>5 DEF Sync
  <2>7. task' \in Task /\ task'.cursor = task.cursor
    BY <1>3, <2>1, <2>4 DEF Task
  <2> QED
    BY <1>2, <1>3, <1>4, <2>6, <2>7, NextEnd
<1>7. CASE PersistReconcile
  <2>1. task' = [task EXCEPT !.cursor = NextCursor] /\ sync' = sync
    BY <1>7 DEF PersistReconcile
  <2>2. task' \in Task /\ task'.cursor = NextCursor
    BY <1>3, <1>4, <2>1 DEF Task
  <2> QED
    BY <1>2, <1>3, <1>4, <2>1, <2>2, NextEnd
<1> QED
  BY <1>2, <1>5, <1>6, <1>7

LEMMA NextFail == ExecInv /\ Fail => ExecInv'
<1> SUFFICES ASSUME ExecInv, Fail PROVE ExecInv'
  OBVIOUS
<1>1. TypeOK /\ InOrderOfKeys
  BY DEF ExecInv
<1> DEFINE status == IF mode = "backfill" THEN "failed" ELSE sync.status
           remaining == IF mode = "backfill" THEN MaxPosts ELSE task.remaining
           cursor == IF mode = "reconcile" THEN Null ELSE task.cursor
<1>2. /\ sync' = [sync EXCEPT !.status = status]
      /\ task' = [task EXCEPT !.remaining = remaining, !.cursor = cursor]
      /\ pc' = "idle" /\ win' = NoWindow /\ UNCHANGED <<remote, unborn, local, mode>>
  BY DEF Fail
<1>3. /\ sync \in Sync /\ task \in Task /\ MaxPosts \in Nat
      /\ {sync.head, sync.cursor, task.cursor} \subseteq Born \cup {Null} /\ Null \in Marks
  BY <1>1, ExecutorConstants DEF TypeOK, InOrderOfKeys, Marks
<1>4. /\ status \in {"idle", "running", "complete", "failed"}
      /\ remaining \in 0..MaxPosts /\ cursor \in Marks /\ cursor \in Born \cup {Null}
  BY <1>3 DEF Sync, Task
<1> HIDE DEF status, remaining, cursor
<1>5. sync' \in Sync /\ sync'.head = sync.head /\ sync'.cursor = sync.cursor
  BY <1>2, <1>3, <1>4 DEF Sync
<1>6. task' \in Task /\ task'.cursor = cursor
  BY <1>2, <1>3, <1>4 DEF Task
<1> QED
  BY <1>2, <1>3, <1>4, <1>5, <1>6, NextEnd

LEMMA NextExec == ExecInv /\ [Next]_vars => ExecInv'
<1> SUFFICES ASSUME ExecInv, [Next]_vars PROVE ExecInv'
  OBVIOUS
<1>1. CASE Author
  BY <1>1, NextPublish, NextRemove DEF Author
<1>2. CASE StartHead \/ StartBackfill \/ StartReconcile
  BY <1>2, NextStartHead, NextStartBackfill, NextStartReconcile
<1>3. CASE Chunk
  BY <1>3, NextFetch, NextProcess, NextReconcile, NextPersist DEF Chunk
<1>4. CASE Fail
  BY <1>4, NextFail
<1>5. CASE UNCHANGED vars
  <2>1. TypeOK /\ InOrderOfKeys /\ WindowPlace /\ WindowTakes /\ NothingMissed
    BY DEF ExecInv
  <2>2. Origin' = Origin /\ Born' = Born
        /\ (\A p : Passed(p)' = Passed(p)) /\ (\A p : Older(p)' = Older(p))
    BY <1>5 DEF vars, Origin, Born, Passed, Older
  <2>3. TypeOK' /\ InOrderOfKeys'
    BY <1>5, <2>1, <2>2 DEF vars, TypeOK, InOrderOfKeys
  <2>4. WindowPlace' /\ WindowTakes'
    BY <1>5, <2>1, <2>2 DEF vars, WindowPlace, WindowTakes, Decodable
  <2>5. NothingMissed'
    BY <1>5, <2>1, <2>2 DEF vars, NothingMissed, Decodable
  <2> QED
    BY <2>3, <2>4, <2>5 DEF ExecInv
<1> QED
  BY <1>1, <1>2, <1>3, <1>4, <1>5 DEF Next

(* Between any changes of the repository under its pages, the executor's   *)
(* window holds what it passed.                                            *)
THEOREM ExecutorInvariant == Spec => []ExecInv
<1> QED
  BY ExecInit, NextExec, PTL DEF Spec

(* Every variable has its type: budgets, page counts and cursors stay in   *)
(* their ranges, for any posts and limits.                                 *)
THEOREM ExecutorTypeCorrect == Spec => []TypeOK
<1>1. ExecInv => TypeOK
  BY DEF ExecInv
<1> QED
  BY <1>1, ExecutorInvariant, PTL

-----------------------------------------------------------------------------
(***************************************************************************)
(* Cursors and the marker                                                  *)
(***************************************************************************)
(* The sync state's cursor and marker are written at the end of a head     *)
(* poll or a backfill only.                                                *)
LEMMA SyncMoves ==
  ASSUME ExecInv, [Next]_vars
  PROVE  \/ sync'.head = sync.head /\ sync'.cursor = sync.cursor
         \/ PersistHead /\ Persist
         \/ PersistBackfill /\ Persist
<1>1. sync \in Sync
  BY DEF ExecInv, TypeOK
<1>2. CASE Author \/ StartHead \/ StartReconcile \/ FetchPage \/ ProcessRecords \/ ReconcileDeletes
           \/ UNCHANGED vars
  BY <1>2 DEF Author, Publish, Remove, StartHead, StartReconcile, FetchPage, ProcessRecords,
              ReconcileDeletes, vars
<1>3. CASE StartBackfill
  BY <1>1, <1>3 DEF StartBackfill, Sync
<1>4. CASE Fail
  BY <1>1, <1>4 DEF Fail, Sync
<1>5. CASE Persist
  BY <1>5 DEF Persist, PersistReconcile
<1> QED
  BY <1>2, <1>3, <1>4, <1>5 DEF Next, Chunk

(* At the end of a head poll the marker moves to the newest post of the    *)
(* window.                                                                 *)
LEMMA HeadMoves ==
  ASSUME ExecInv, PersistHead
  PROVE  /\ mode = "head" /\ pc = "persist"
         /\ sync'.head # sync.head =>
              win.processed # {} /\ sync'.head = Max(win.processed)
         /\ sync'.cursor # sync.cursor =>
              sync.cursor = Null /\ sync.head = Null /\ sync'.cursor = win.cursor
<1> DEFINE head == IF win.processed = {} THEN sync.head ELSE Max(win.processed)
           cursor == IF sync.cursor # Null THEN sync.cursor
                     ELSE IF sync.head = Null THEN win.cursor ELSE Null
<1>1. sync' = [sync EXCEPT !.head = head, !.cursor = cursor] /\ mode = "head" /\ pc = "persist"
  BY DEF PersistHead
<1>2. sync \in Sync
  BY DEF ExecInv, TypeOK
<1> HIDE DEF head, cursor
<1>3. sync'.head = head /\ sync'.cursor = cursor
  BY <1>1, <1>2 DEF Sync
<1> QED
  BY <1>1, <1>3 DEF head, cursor

(* What a head poll passed above its marker, and not above its newest      *)
(* post, is stored when it ends.                                           *)
LEMMA HeadStores ==
  ASSUME ExecInv, mode = "head", pc = "persist", win.processed # {},
         NEW p \in Decodable(remote) \cap Matched,
         sync.head < p, win.cursor <= p, p <= Max(win.processed)
  PROVE  local[p] # "none"
<1>1. TypeOK /\ InOrderOfKeys /\ WindowPlace /\ WindowTakes /\ NothingMissed
  BY DEF ExecInv
<1>2. win.pages > 0 /\ win.stop = sync.head
  BY <1>1 DEF WindowPlace
<1>3. Max(win.processed) \in win.fetched
  BY <1>1, NewestOf DEF WindowTakes, Decodable
<1>4. Passed(p) /\ Older(p)
  BY <1>2, <1>3 DEF Passed, Older, Origin
<1>5. p \in win.fetched
  BY <1>1, <1>4 DEF NothingMissed
<1>6. p \in win.processed
  BY <1>1, <1>2, <1>5 DEF WindowTakes
<1> QED
  BY <1>1, <1>6 DEF WindowTakes

(* No cursor that a head poll seeds or a backfill hands on skips a post:   *)
(* an on-topic post between it and where the chunk began is stored.        *)
THEOREM CursorSkipsNothing == Spec => NothingSkipped
<1>1. ASSUME ExecInv, [Next]_vars
      PROVE  [(sync'.cursor # Null /\ sync'.cursor # sync.cursor) =>
                \A p \in Decodable(remote) \cap Matched :
                  (/\ sync'.cursor <= p /\ p <= sync'.head
                   /\ sync.cursor # Null => p < sync.cursor) => local[p] # "none"]_vars
  <2> SUFFICES ASSUME sync'.cursor # Null, sync'.cursor # sync.cursor,
                      NEW p \in Decodable(remote) \cap Matched,
                      sync'.cursor <= p, p <= sync'.head,
                      sync.cursor # Null => p < sync.cursor
               PROVE  local[p] # "none"
    BY <1>1
  <2>1. TypeOK /\ InOrderOfKeys /\ WindowPlace /\ WindowTakes /\ NothingMissed
    BY <1>1 DEF ExecInv
  <2>2. p \in Nat /\ p # 0 /\ Null = 0 /\ sync.head \in Nat
    BY <2>1, Numbers DEF Decodable
  <2>3. CASE PersistHead
    <3>1. mode = "head" /\ pc = "persist" /\ sync.head = Null /\ sync'.cursor = win.cursor
      BY <1>1, <2>3, HeadMoves
    <3>2. sync'.head # sync.head
      BY <2>2, <3>1
    <3>3. win.processed # {} /\ sync'.head = Max(win.processed)
      BY <1>1, <2>3, <3>2, HeadMoves
    <3> QED
      BY <1>1, <2>2, <3>1, <3>3, HeadStores
  <2>4. CASE PersistBackfill
    <3> DEFINE status == IF win.completed THEN "complete" ELSE "running"
    <3>1. mode = "backfill" /\ pc = "persist"
          /\ sync' = [sync EXCEPT !.cursor = NextCursor, !.status = status]
      BY <2>4 DEF PersistBackfill
    <3> HIDE DEF status
    <3>2. sync'.cursor = NextCursor /\ sync'.head = sync.head
      BY <2>1, <3>1 DEF TypeOK, Sync
    <3>3. ~win.completed /\ sync'.cursor = win.cursor
      BY <3>2 DEF NextCursor
    <3>4. win.pages > 0
      BY <2>1, <3>1 DEF WindowPlace
    <3>5. Passed(p) /\ Older(p)
      BY <3>1, <3>2, <3>3, <3>4 DEF Passed, Older, Origin
    <3>6. p \in win.processed
      BY <2>1, <3>1, <3>3, <3>5 DEF NothingMissed, WindowTakes
    <3> QED
      BY <2>1, <3>1, <3>6 DEF WindowTakes
  <2> QED
    BY <1>1, <2>3, <2>4, SyncMoves
<1> QED
  BY <1>1, ExecutorInvariant, PTL DEF Spec, NothingSkipped

(* A head poll that came down to its marker leaves no hole above it,       *)
(* whatever was published and removed while it read its pages.             *)
THEOREM HeadLeavesNoHole == Spec => NoHole
<1>1. ASSUME ExecInv, [Next]_vars
      PROVE  [\A p \in Decodable(remote) \cap Matched :
                (/\ win.cursor <= sync.head
                 /\ sync.head # Null /\ sync.head < p /\ p <= sync'.head) => local[p] # "none"]_vars
  <2> SUFFICES ASSUME NEW p \in Decodable(remote) \cap Matched,
                      win.cursor <= sync.head, sync.head < p, p <= sync'.head
               PROVE  local[p] # "none"
    BY <1>1
  <2>1. TypeOK /\ InOrderOfKeys
    BY <1>1 DEF ExecInv
  <2>2. p \in Nat /\ sync.head \in Nat /\ win.cursor \in Nat
    BY <2>1, Numbers DEF Decodable
  <2>3. sync'.head # sync.head
    BY <2>2
  <2>4. CASE PersistHead
    <3>1. mode = "head" /\ pc = "persist" /\ win.processed # {} /\ sync'.head = Max(win.processed)
      BY <1>1, <2>3, <2>4, HeadMoves
    <3>2. win.cursor <= p
      BY <2>2
    <3> QED
      BY <1>1, <3>1, <3>2, HeadStores
  <2>5. CASE PersistBackfill
    <3> DEFINE status == IF win.completed THEN "complete" ELSE "running"
    <3>1. sync' = [sync EXCEPT !.cursor = NextCursor, !.status = status]
      BY <2>5 DEF PersistBackfill
    <3> HIDE DEF status
    <3> QED
      BY <2>1, <2>3, <3>1 DEF TypeOK, Sync
  <2> QED
    BY <1>1, <2>3, <2>4, <2>5, SyncMoves
<1> QED
  BY <1>1, ExecutorInvariant, PTL DEF Spec, NoHole

(* A backfill chunk that has to be continued hands on a cursor strictly    *)
(* below its own, so continuations cannot go round.                        *)
THEOREM BackfillDescends == Spec => BackfillMovesDown
<1>1. ASSUME ExecInv, [Next]_vars
      PROVE  [(/\ mode = "backfill" /\ pc = "persist" /\ pc' = "idle"
               /\ sync.cursor # Null /\ sync'.status = "running")
                => (sync'.cursor # Null /\ sync'.cursor < sync.cursor)]_vars
  <2> SUFFICES ASSUME mode = "backfill", pc = "persist", pc' = "idle",
                      sync.cursor # Null, sync'.status = "running"
               PROVE  sync'.cursor # Null /\ sync'.cursor < sync.cursor
    BY <1>1
  <2>1. TypeOK /\ InOrderOfKeys /\ WindowPlace
    BY <1>1 DEF ExecInv
  <2>2. sync \in Sync
    BY <2>1 DEF TypeOK
  <2>3. ~Fail
    <3> DEFINE status == IF mode = "backfill" THEN "failed" ELSE sync.status
    <3>1. Fail => sync' = [sync EXCEPT !.status = status]
      BY DEF Fail
    <3>2. status = "failed"
      OBVIOUS
    <3> HIDE DEF status
    <3> QED
      BY <2>2, <3>1, <3>2 DEF Sync
  <2>4. PersistBackfill
    BY <1>1, <2>3 DEF Next, vars, Author, Publish, Remove, StartHead, StartBackfill, StartReconcile,
                      Start, Chunk, FetchPage, ProcessRecords, ReconcileDeletes, Persist,
                      PersistHead, PersistReconcile
  <2> DEFINE status == IF win.completed THEN "complete" ELSE "running"
  <2>5. sync' = [sync EXCEPT !.cursor = NextCursor, !.status = status]
    BY <2>4 DEF PersistBackfill
  <2> HIDE DEF status
  <2>6. sync'.cursor = NextCursor /\ sync'.status = status
    BY <2>2, <2>5 DEF Sync
  <2>7. ~win.completed /\ sync'.cursor = win.cursor
    BY <2>6 DEF status, NextCursor
  <2>8. win.pages > 0 /\ Origin = sync.cursor
    BY <2>1 DEF WindowPlace, Origin
  <2> QED
    BY <2>1, <2>7, <2>8 DEF WindowPlace
<1> QED
  BY <1>1, ExecutorInvariant, PTL DEF Spec, BackfillMovesDown

-----------------------------------------------------------------------------
(***************************************************************************)
(* Deleted rows                                                            *)
(***************************************************************************)
(* A cursor has nothing more below it when the author publishes or removes. *)
LEMMA RestShrinks ==
  ASSUME ExecInv, NEW c \in Born,
         remote' \subseteq remote \/ Publish
  PROVE  After(c)' \subseteq After(c)
<1>1. TypeOK /\ InOrderOfKeys /\ c \in Posts /\ c # Null
  BY ExecutorConstants DEF ExecInv, Born
<1>2. CASE remote' \subseteq remote
  BY <1>2 DEF After
<1>3. CASE Publish
  <2>1. unborn # {} /\ unborn \subseteq Posts /\ remote' = remote \cup {Min(unborn)}
    BY <1>1, <1>3 DEF Publish, TypeOK
  <2>2. Min(unborn) \in unborn
    BY <2>1, PostSets, LeastOf
  <2>3. c < Min(unborn) /\ Min(unborn) \in Nat /\ c \in Nat
    BY <1>1, <2>1, <2>2, PostSets DEF InOrderOfKeys
  <2> QED
    BY <1>1, <2>1, <2>3 DEF After
<1> QED
  BY <1>2, <1>3

(* The author's steps leave the executor alone. *)
LEMMA DeleteAuthor ==
  ASSUME DeleteInv, Author
  PROVE  WholeWindows' /\ DeletedAreGone'
<1>1. ExecInv /\ TypeOK /\ InOrderOfKeys /\ WindowPlace /\ WholeWindows /\ DeletedAreGone
  BY DEF DeleteInv, ExecInv
<1>2. UNCHANGED <<local, sync, pc, mode, win, task>> /\ (remote' \subseteq remote \/ Publish)
  BY DEF Author, Publish, Remove
<1>3. Origin' = Origin
  BY <1>2 DEF Origin
<1>4. task.cursor \in Born \cup {Null} /\ win.cursor \in Born \cup {Null}
  BY <1>1 DEF InOrderOfKeys
<1>5. NoRest(task.cursor)'
  BY <1>1, <1>2, <1>4, RestShrinks DEF WholeWindows, NoRest
<1>6. win.pages > 0 /\ ~win.completed => After(win.cursor)' \subseteq After(win.cursor)
  BY <1>1, <1>2, <1>4, RestShrinks DEF WindowPlace
<1>7. WholeWindows'
  BY <1>1, <1>2, <1>3, <1>5, <1>6 DEF WholeWindows
<1>8. DeletedAreGone'
  <2>1. CASE remote' \subseteq remote
    BY <1>1, <1>2, <2>1 DEF DeletedAreGone
  <2>2. CASE Publish
    <3>1. unborn # {} /\ unborn \subseteq Posts /\ remote' = remote \cup {Min(unborn)}
      BY <1>1, <2>2 DEF Publish, TypeOK
    <3>2. Min(unborn) \in unborn
      BY <3>1, PostSets, LeastOf
    <3>3. local[Min(unborn)] = "none"
      BY <1>1, <3>2 DEF InOrderOfKeys
    <3> QED
      BY <1>1, <1>2, <3>1, <3>3 DEF DeletedAreGone
  <2> QED
    BY <1>2, <2>1, <2>2
<1> QED
  BY <1>7, <1>8

(* A page that is not the last is full, and what a reconcile that began at *)
(* a cursor reads is empty.                                                *)
LEMMA DeleteFetch ==
  ASSUME DatedInOrder, DeleteInv, FetchPage
  PROVE  WholeWindows' /\ DeletedAreGone'
<1>1. /\ ExecInv /\ TypeOK /\ InOrderOfKeys /\ WindowPlace /\ WindowTakes
      /\ WholeWindows /\ DeletedAreGone
  BY DEF DeleteInv, ExecInv
<1>2. PICK page \in Pages(win.cursor) : Fetched(page)
  BY <1>1, FetchStep
<1>3. /\ pc = "fetch"
      /\ win'.cursor = page.next /\ win'.pages = win.pages + 1
      /\ win'.fetched = win.fetched \cup Decodable(page.records)
      /\ ~win'.completed => page.next # Null
      /\ UNCHANGED <<remote, unborn, local, sync, mode, task>>
  BY <1>2 DEF Fetched
<1>4. /\ page.records \subseteq After(win.cursor) /\ page.records \subseteq Posts
      /\ page.next \in page.records \cup {Null}
      /\ page.next # Null => \A q \in page.records : page.next <= q
      /\ page.records # After(win.cursor) => Cardinality(page.records) >= PageSize
  BY <1>1, Numbers, PageFacts
<1>5. Decodable(page.records) = page.records
  BY <1>4 DEF DatedInOrder, Decodable
<1>6. page.records \cap win.fetched = {}
  BY <1>1, <1>3, NewPage
<1>7. /\ Posts \subseteq Nat \ {0} /\ Null = 0 /\ win.cursor \in Nat /\ Origin \in Nat
      /\ win.pages \in Nat /\ win.fetched \subseteq Posts /\ PageSize \in Nat
      /\ remote \subseteq Posts
  <2>1. Marks \subseteq Nat /\ PageSize \in Nat
    BY <1>1, Numbers, ExecutorConstants
  <2> QED
    BY <1>1, <2>1, Numbers
<1>8. Origin' = Origin /\ NoRest(task.cursor)' = NoRest(task.cursor)
  BY <1>3 DEF Origin, NoRest, After
<1>9. ~win.completed /\ (win.pages = 0 => win.cursor = Origin /\ win.fetched = {})
      /\ (win.pages > 0 => win.cursor # Null /\ (Origin # Null => win.cursor < Origin))
  BY <1>1, <1>3 DEF WindowPlace
<1>10. ASSUME mode = "reconcile", Origin # Null PROVE win'.fetched = {}
  <2>1. After(Origin) = {} /\ win.fetched = {}
    BY <1>1, <1>10 DEF WholeWindows, NoRest, Origin
  <2>2. ASSUME NEW p \in After(win.cursor) PROVE p \in After(Origin)
    <3>1. p \in remote /\ p \in Nat /\ win.cursor # Null /\ p < win.cursor
      BY <1>7, <1>9, <1>10 DEF After
    <3>2. win.cursor <= Origin
      BY <1>7, <1>9, <1>10
    <3> QED
      BY <1>7, <3>1, <3>2 DEF After
  <2> QED
    BY <1>3, <1>4, <1>5, <2>1, <2>2
<1>11. ASSUME mode = "reconcile", ~win'.completed, After(win.cursor)' # {}
       PROVE  Cardinality(win'.fetched) >= PageSize * win'.pages
  <2>1. page.next # Null /\ page.next \in page.records /\ page.next \in Nat
    BY <1>3, <1>4, <1>7, <1>11
  <2>2. PICK q \in remote : q < page.next
    BY <1>3, <1>11, <2>1 DEF After
  <2>3. q \in Nat /\ q \in After(win.cursor) /\ q \notin page.records
    BY <1>4, <1>7, <2>1, <2>2 DEF After
  <2>4. Cardinality(page.records) >= PageSize
    BY <1>4, <2>3
  <2>5. Cardinality(win.fetched) >= PageSize * win.pages
    <3>1. CASE win.pages = 0
      <4>1. Cardinality(win.fetched) = 0
        BY <1>9, <3>1, FS_EmptySet
      <4> QED
        BY <1>7, <3>1, <4>1
    <3>2. CASE win.pages > 0
      BY <1>1, <1>9, <1>11, <2>3, <3>2 DEF WholeWindows
    <3> QED
      BY <1>7, <3>1, <3>2
  <2>6. /\ IsFiniteSet(win.fetched) /\ IsFiniteSet(page.records)
        /\ Cardinality(win.fetched) \in Nat /\ Cardinality(page.records) \in Nat
    BY <1>4, <1>7, PostSets
  <2>7. win.fetched \cap page.records = {} /\ Cardinality({}) = 0
    BY <1>6, FS_EmptySet
  <2>8. Cardinality(win'.fetched) = Cardinality(win.fetched) + Cardinality(page.records) - 0
    <3>1. win'.fetched = win.fetched \cup page.records
      BY <1>3, <1>5
    <3>2. Cardinality(win.fetched \cup page.records) = Cardinality(win.fetched)
            + Cardinality(page.records) - Cardinality(win.fetched \cap page.records)
      BY <2>6, FS_Union
    <3> QED
      BY <2>7, <3>1, <3>2
  <2>9. PageSize * (win.pages + 1) = PageSize * win.pages + PageSize
    BY <1>7
  <2>10. PageSize * win.pages \in Nat
    BY <1>7
  <2> DEFINE n == PageSize * win.pages
  <2> HIDE DEF n
  <2>11. Cardinality(win.fetched) + Cardinality(page.records) >= n + PageSize
    BY <1>7, <2>4, <2>5, <2>6, <2>10 DEF n
  <2> QED
    BY <1>3, <2>6, <2>8, <2>9, <2>11 DEF n
<1>12. WholeWindows'
  BY <1>1, <1>3, <1>8, <1>10, <1>11 DEF WholeWindows
<1>13. DeletedAreGone'
  BY <1>1, <1>3 DEF DeletedAreGone
<1> QED
  BY <1>12, <1>13

(* A reconcile finds a stored post that the repository has in its window:  *)
(* the dates agree with the keys, so the listing has passed it.            *)
LEMMA DeleteReconcile ==
  ASSUME DatedInOrder, DeleteInv, ReconcileDeletes
  PROVE  WholeWindows' /\ DeletedAreGone'
<1>1. /\ ExecInv /\ TypeOK /\ InOrderOfKeys /\ WindowPlace /\ WindowTakes /\ NothingMissed
      /\ WholeWindows /\ DeletedAreGone
  BY DEF DeleteInv, ExecInv
<1>2. pc = "reconcile" /\ UNCHANGED <<remote, unborn, sync, mode, win, task>>
  BY DEF ReconcileDeletes
<1>3. WholeWindows'
  BY <1>1, <1>2 DEF WholeWindows, NoRest, After, Origin
<1>4. DeletedAreGone'
  <2> SUFFICES ASSUME NEW p \in Posts, local'[p] = "deleted", p \in remote
               PROVE  FALSE
    BY <1>2 DEF DeletedAreGone
  <2>1. local[p] # "deleted"
    BY <1>1 DEF DeletedAreGone
  <2>2. local[p] = "active" /\ p \in RecentPosts \ win.fetched /\ win.fetched # {}
    BY <1>1, <2>1, Reconciled
  <2> DEFINE dates == {CreatedAt[q] : q \in win.fetched}
  <2>3. CreatedAt[p] >= Min(dates)
    BY <2>2 DEF RecentPosts
  <2>4. /\ Posts \subseteq Nat \ {0} /\ Null = 0 /\ win.fetched \subseteq Posts /\ win.cursor \in Nat
        /\ CreatedAt \in [Posts -> Nat]
    <3>1. Marks \subseteq Nat /\ CreatedAt \in [Posts -> Nat]
      BY <1>1, Numbers, ExecutorConstants
    <3> QED
      BY <1>1, <3>1, Numbers
  <2>5. dates \subseteq Nat /\ dates # {}
    <3>1. PICK f \in win.fetched : TRUE
      BY <2>2
    <3>2. CreatedAt[f] \in dates
      OBVIOUS
    <3>3. \A q \in win.fetched : CreatedAt[q] \in Nat
      BY <2>4
    <3> QED
      BY <3>2, <3>3
  <2>6. Min(dates) \in dates
    BY <2>5, LeastOf
  <2>7. PICK f \in win.fetched : CreatedAt[f] = Min(dates)
    BY <2>6
  <2>8. f <= p
    <3>1. p < f => CreatedAt[p] < CreatedAt[f]
      BY <2>4 DEF DatedInOrder
    <3>2. CreatedAt[p] \in Nat /\ CreatedAt[f] \in Nat /\ p \in Nat /\ f \in Nat
      BY <2>4
    <3> HIDE DEF dates
    <3> QED
      BY <2>3, <2>7, <3>1, <3>2
  <2>9. win.pages > 0 /\ win.cursor <= p
    <3>1. win.pages > 0 /\ win.cursor <= f
      BY <1>1, <1>2 DEF WindowPlace
    <3>2. f \in Nat /\ p \in Nat
      BY <2>4
    <3> QED
      BY <2>4, <2>8, <3>1, <3>2
  <2>10. Origin = Null
    BY <1>1, <1>2, <2>2 DEF WholeWindows, WindowPlace, Origin, TypeOK
  <2>11. p \in Decodable(remote)
    BY DEF DatedInOrder, Decodable
  <2>12. Passed(p) /\ Older(p)
    BY <2>2, <2>9, <2>10 DEF Passed, Older
  <2> QED
    BY <1>1, <2>2, <2>11, <2>12 DEF NothingMissed
<1> QED
  BY <1>3, <1>4

(* A reconcile that is continued has read the whole repository. *)
LEMMA DeletePersist ==
  ASSUME OneChunk, DeleteInv, Persist
  PROVE  WholeWindows' /\ DeletedAreGone'
<1>1. /\ ExecInv /\ TypeOK /\ InOrderOfKeys /\ WindowPlace /\ WholeWindows /\ DeletedAreGone
  BY DEF DeleteInv, ExecInv
<1>2. /\ pc = "persist" /\ win' = NoWindow /\ UNCHANGED <<remote, unborn, local, mode>>
      /\ PersistHead \/ PersistBackfill \/ PersistReconcile
  BY DEF Persist, PersistHead, PersistBackfill, PersistReconcile
<1>3. win'.fetched = {} /\ win'.pages = 0
  BY <1>2, EmptyWindow
<1>4. task \in Task
  BY <1>1 DEF TypeOK
<1>5. NoRest(NextCursor) \/ mode # "reconcile"
  <2> SUFFICES ASSUME mode = "reconcile", ~win.completed, NEW q \in After(win.cursor),
                      win.cursor # Null
               PROVE  FALSE
    BY DEF NoRest, NextCursor
  <2>1. win.pages = MaxPages /\ win.pages > 0
    BY <1>1, <1>2 DEF WindowPlace
  <2>2. Cardinality(win.fetched) >= PageSize * MaxPages
    BY <1>1, <2>1 DEF WholeWindows
  <2>3. /\ Posts \subseteq Nat /\ win.fetched \subseteq Posts /\ remote \subseteq Posts /\ win.cursor \in Nat
    <3>1. Marks \subseteq Nat
      BY <1>1, Numbers
    <3> QED
      BY <1>1, <3>1, Numbers
  <2>4. q \in Posts /\ q < win.cursor
    BY <2>3 DEF After
  <2>5. q \notin win.fetched
    BY <1>1, <2>1, <2>3, <2>4 DEF WindowPlace
  <2>6. win.fetched \in SUBSET (Posts \ {q})
    BY <2>3, <2>5
  <2>7. IsFiniteSet(Posts) /\ Cardinality(Posts) \in Nat /\ Cardinality(win.fetched) \in Nat
    BY <2>3, PostSets
  <2>8. IsFiniteSet(Posts \ {q}) /\ Cardinality(Posts \ {q}) = Cardinality(Posts) - 1
    BY <2>4, <2>7, FS_RemoveElement
  <2>9. Cardinality(win.fetched) <= Cardinality(Posts \ {q})
    BY <2>6, <2>8, FS_Subset
  <2>10. PageSize * MaxPages \in Nat
    BY ExecutorConstants
  <2> DEFINE n == PageSize * MaxPages
  <2>11. Cardinality(Posts) <= n
    BY DEF OneChunk
  <2> HIDE DEF n
  <2> QED
    BY <2>2, <2>7, <2>8, <2>9, <2>10, <2>11 DEF n
<1>6. NoRest(task'.cursor)
  <2>1. CASE PersistHead
    BY <1>1, <2>1 DEF PersistHead, WholeWindows
  <2>2. CASE PersistBackfill
    <3> DEFINE remaining == IF win.completed THEN MaxPosts
                            ELSE task.remaining - Cardinality(win.processed)
    <3>1. task' = [task EXCEPT !.remaining = remaining]
      BY <2>2 DEF PersistBackfill
    <3> HIDE DEF remaining
    <3>2. task'.cursor = task.cursor
      BY <1>4, <3>1 DEF Task
    <3> QED
      BY <1>1, <3>2 DEF WholeWindows
  <2>3. CASE PersistReconcile
    BY <1>4, <1>5, <2>3 DEF PersistReconcile, Task
  <2> QED
    BY <1>2, <2>1, <2>2, <2>3
<1>7. NoRest(task.cursor)'
  BY <1>2, <1>6 DEF NoRest, After
<1>8. WholeWindows'
  BY <1>3, <1>7 DEF WholeWindows
<1>9. DeletedAreGone'
  BY <1>1, <1>2 DEF DeletedAreGone
<1> QED
  BY <1>8, <1>9

(* The other steps change nothing that is of interest here. *)
LEMMA DeleteStart ==
  ASSUME DeleteInv, StartHead \/ StartBackfill \/ StartReconcile
  PROVE  WholeWindows' /\ DeletedAreGone'
<1>1. TypeOK /\ InOrderOfKeys /\ WholeWindows /\ DeletedAreGone
  BY DEF DeleteInv, ExecInv
<1>2. PICK m, w : Start(m, w) /\ w \in {[NoWindow EXCEPT !.stop = sync.head],
                   [NoWindow EXCEPT !.cursor = sync.cursor], [NoWindow EXCEPT !.cursor = task.cursor], NoWindow}
  BY DEF StartHead, StartBackfill, StartReconcile
<1>3. w.fetched = {} /\ w.pages = 0
  BY <1>2, EmptyWindow DEF Window
<1>4. win' = w /\ UNCHANGED <<remote, local, task>>
  BY <1>2 DEF Start, StartHead, StartBackfill, StartReconcile
<1>5. NoRest(task.cursor)'
  BY <1>1, <1>4 DEF WholeWindows, NoRest, After
<1>6. WholeWindows'
  BY <1>3, <1>4, <1>5 DEF WholeWindows
<1> QED
  BY <1>1, <1>4, <1>6 DEF DeletedAreGone

LEMMA DeleteFail ==
  ASSUME DeleteInv, Fail
  PROVE  WholeWindows' /\ DeletedAreGone'
<1>1. TypeOK /\ WholeWindows /\ DeletedAreGone
  BY DEF DeleteInv, ExecInv
<1> DEFINE remaining == IF mode = "backfill" THEN MaxPosts ELSE task.remaining
           cursor == IF mode = "reconcile" THEN Null ELSE task.cursor
<1>2. /\ task' = [task EXCEPT !.remaining = remaining, !.cursor = cursor]
      /\ win' = NoWindow /\ UNCHANGED <<remote, local>>
  BY DEF Fail
<1> HIDE DEF remaining, cursor
<1>3. task'.cursor = cursor
  BY <1>1, <1>2 DEF TypeOK, Task
<1>4. win'.fetched = {} /\ win'.pages = 0
  BY <1>2, EmptyWindow
<1>5. NoRest(task.cursor)'
  BY <1>1, <1>2, <1>3 DEF WholeWindows, NoRest, After, cursor
<1>6. WholeWindows'
  BY <1>4, <1>5 DEF WholeWindows
<1> QED
  BY <1>1, <1>2, <1>6 DEF DeletedAreGone

LEMMA NextDelete ==
  ASSUME DatedInOrder, OneChunk, DeleteInv, [Next]_vars
  PROVE  DeleteInv'
<1>1. ExecInv'
  BY NextExec DEF DeleteInv
<1>2. CASE ProcessRecords
  <2>1. /\ WholeWindows /\ DeletedAreGone
        /\ local' = [p \in Posts |-> IF p \in win.processed \cap Matched THEN "active" ELSE local[p]]
        /\ UNCHANGED <<remote, unborn, sync, mode, win, task>>
    BY <1>2 DEF DeleteInv, ProcessRecords
  <2>2. WholeWindows'
    BY <2>1 DEF WholeWindows, NoRest, After, Origin
  <2>3. DeletedAreGone'
    BY <2>1 DEF DeletedAreGone
  <2> QED
    BY <1>1, <2>2, <2>3 DEF DeleteInv
<1>3. CASE UNCHANGED vars
  BY <1>1, <1>3 DEF DeleteInv, vars, WholeWindows, NoRest, After, Origin, DeletedAreGone
<1>4. CASE Author \/ StartHead \/ StartBackfill \/ StartReconcile \/ FetchPage \/ ReconcileDeletes
           \/ Persist \/ Fail
  BY <1>1, <1>4, DeleteAuthor, DeleteStart, DeleteFetch, DeleteReconcile, DeletePersist, DeleteFail
     DEF DeleteInv
<1> QED
  BY <1>2, <1>3, <1>4 DEF Next, Chunk

(* No poll and no reconcile marks a post deleted that the repository still *)
(* has, whatever is published and removed under its pages - as long as the *)
(* author's dates agree with the order of publication and one chunk reads  *)
(* the whole repository; without the second a continued reconcile does.    *)
THEOREM OnlyGoneAreDeleted ==
  ASSUME DatedInOrder, OneChunk
  PROVE  Spec => []DeletedAreGone
<1>1. Init => DeleteInv
  <2> SUFFICES ASSUME Init PROVE DeleteInv
    OBVIOUS
  <2>1. ExecInv
    BY ExecInit
  <2>2. win = NoWindow /\ task.cursor = Null /\ local = [p \in Posts |-> "none"]
    BY DEF Init
  <2>3. WholeWindows
    BY <2>2, EmptyWindow DEF WholeWindows, NoRest
  <2> QED
    BY <2>1, <2>2, <2>3 DEF DeleteInv, DeletedAreGone
<1>2. DeleteInv /\ [Next]_vars => DeleteInv'
  BY NextDelete
<1>3. DeleteInv => DeletedAreGone
  BY DEF DeleteInv
<1> QED
  BY <1>1, <1>2, <1>3, PTL DEF Spec
==============================================================================
