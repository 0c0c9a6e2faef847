SPECIFICATION Spec
CONSTANTS
  u1 = u1  u2 = u2  u3 = u3
  c1 = c1  c2 = c2
  i1 = i1  i2 = i2
  User <- Users
  Call <- TwoCalls
  Invite <- TwoInvites
  NoOne = noOne
  Offered = {"member"}
  MaxErased = 1
CHECK_DEADLOCK FALSE
SYMMETRY Symmetry
INVARIANT OwnerStays
INVARIANT OneMemberPerInvite
PROPERTY HierarchyHolds
