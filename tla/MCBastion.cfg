SPECIFICATION BastionSpec
CONSTANTS
  c1 = c1
  c2 = c2
  first = first
  both = both
  Names = {alice, bob}
  Passwords = {k1, k2, k3}
  NoAccount = NoAccount
  Cids = {c1, c2}
  Targets = {first, both}
  Like <- MCLike
  Containers = {c1}
  NoCid = NoCid
  Pages = {p1}
  Conns = {s1}
  Reqs = {q1}
  MaxUserid = 2
  MaxGrantid = 2
CONSTRAINT Few
SYMMETRY Symmetry
INVARIANTS
  TypeOK
  NoCrossedGrants
  GrantedIsFound
PROPERTIES
  AdmittedByOwnGrant
  ImplementsAccessControl
  ImplementsFleet
  AccessLostOnlyWhenTaken
