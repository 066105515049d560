SPECIFICATION DirectorySpec
CONSTANTS
  Letters = {"a", "b", "B"}
  Fold <- Lower
  MaxText = 3
  Users = {u1, u2}
  FolderIDs = {d1, d2}
  FileIDs = {f1, f2}
  Names <- OneName
  Root = Root
  Writers = {c1, c2}
  Readers = {c2}
  Queries <- FewQueries
  Embeddings <- OneEmbedding
  NoUser = NoUser
  NoFile = NoFile
  NoEmbedding = NoEmbedding
  MaxSearchResults = 1
SYMMETRY Symmetry
INVARIANTS
  DirectoryTypeOK
  OwnTree
  UniqueNames
  AnswersAreTrue
  SearchIsLiteral
PROPERTIES
  OnlyOwnersRemove
