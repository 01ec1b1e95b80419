\* Five posts, one too old for a bulk window; two pages of one post do not fill a chunk of three.
SPECIFICATION Spec
CONSTANTS
  Posts = {1, 2, 3, 4, 5}
  CreatedAt <- InOrder
  Matched = {1, 2, 3, 4}
  PageSize = 1
  MaxPages = 2
  ChunkPosts = 3
  MaxPosts = 5
  MinCreatedAt = 2
INVARIANT TypeOK
PROPERTIES
  NothingSkipped
  BackfillMovesDown
  NoHole
