SPECIFICATION Spec
CONSTANTS
  Names = {alice, bob}
  Passwords = {k1, k2}
  NoAccount = NoAccount
  c1 = c1
  t1 = t1
  Cids = {c1}
  Targets = {t1}
  Like <- MCLike
  NoCid = NoCid
  Pages = {p1}
  Conns = {s1}
  MaxUserid = 2
  MaxGrantid = 2
INVARIANT UsersHoldOnlyWhatWasAssigned
