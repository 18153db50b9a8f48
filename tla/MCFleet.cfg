SPECIFICATION FairSpec
CONSTANTS
  Cids = {c1, c2}
  Uids = {1}
  OtherKeys = {dev1}
  NoCid = NoCid
  Reqs = {q1, q2}
INVARIANT TypeOK
PROPERTIES
  GrantsLostOnlyWithContainer
  GoneContainersAreForgotten
