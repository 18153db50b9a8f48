SPECIFICATION Spec
CONSTANTS
  Cids = {c1, c2}
  Uids = {1}
  OtherKeys = {dev1}
  NoCid = NoCid
  Reqs = {q1}
PROPERTY AssignedStaysAssigned
