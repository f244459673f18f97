\* Two products of two files each, two publications, two readers.
SPECIFICATION FairSpec
CONSTANTS
  Categories = {c}
  Products = {p1, p2}
  Titles = {t}
  Links = {l1, l2}
  Readers = {r1, r2}
  Variants = 2
  NoTitle = NoTitle
  NoCache = NoCache
INVARIANTS TypeOK ImagesInStore
PROPERTIES CacheConverges
