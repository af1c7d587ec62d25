SPECIFICATION FairSpec
CONSTANTS
  c1 = c1
  c2 = c2
  c3 = c3
  s1 = s1
  s2 = s2
  s3 = s3
  s4 = s4
  main = main
  Producers = {main}
  Consumers <- MCConsumers
  Items <- MCItems
  NoItem = NoItem
  Nobody = Nobody
INVARIANTS TypeOK NeverPopEmpty
PROPERTIES ImplementsFifoQueue EventuallyServed
