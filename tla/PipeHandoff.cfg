SPECIFICATION FairSpec
CONSTANTS
  Threads = {t1, t2, t3}
  Items = {a}
  MaxSize = 0
  Nums = {1}
PROPERTIES
  DestructorEnds
  DisableReleases
  ItemsTaken
