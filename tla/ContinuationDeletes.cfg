\* The second chunk of a reconcile compares its few records with the newest posts.
SPECIFICATION Spec
CONSTANTS
  Posts = {1, 2, 3, 4, 5}
  CreatedAt <- OneUndated
  Matched = {1, 2, 3, 4, 5}
  PageSize = 2
  MaxPages = 2
  ChunkPosts = 4
  MaxPosts = 6
  MinCreatedAt = 0
INVARIANT DeletedAreGone
