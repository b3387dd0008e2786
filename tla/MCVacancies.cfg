SPECIFICATION PipelineSpec
CONSTANTS
  Client = {c1, c2}
  Seed = {s1}
  Vacancy = {va}
  Posting = {x, y}
  va = va  x = x  y = y
  KeyOf <- MCKeyOf
  Batch <- MCBatch
  NoContent = NoContent
  Unusable = Unusable
SYMMETRY ClientSymmetry
INVARIANT ChangeNoticed
PROPERTY SettledUnlessStale
