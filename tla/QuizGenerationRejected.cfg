SPECIFICATION Spec
CONSTANTS
  NoSet = NoSet
  u1 = u1
  u2 = u2
  m1 = m1
  m2 = m2
  Sets = {s1, s2, s3}
  Materials = {m1, m2}
  Users = {u1, u2}
  OwnerOf <- TwoOwners
  Contents = {1}
  Workers = {w1}
  QueueCapacity = 1
  MaxEpoch = 0
INVARIANT
  RejectedIsFailed

