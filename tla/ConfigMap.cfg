SPECIFICATION FileSpec
CONSTANTS
  Keys = {x}
  Values = {none, v, w}
  Empty = none
  Datas <- Files
  Initials = {"a"}
  Letters = {"a", "A"}
  MaxLength = 2
  MaxKeys = 2
  Settings = {0, 1, 2}
INVARIANTS
  TypeOK
  UpdateSettles
  NothingForeign
  FileIsComplete
PROPERTIES
  NothingToRewrite
