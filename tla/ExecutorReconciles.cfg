\* A chunk reads the two newest of four posts: reconciles reach what is removed among these.
SPECIFICATION FairSpec
CONSTANTS
  Posts = {1, 2, 3, 4}
  CreatedAt <- InOrder
  Matched = {2, 3}
  PageSize = 1
  MaxPages = 2
  ChunkPosts = 2
  MaxPosts = 2
  MinCreatedAt = 0
INVARIANT DeletedAreGone
PROPERTY RecentIsDeleted
