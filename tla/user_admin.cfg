SPECIFICATION Spec
CONSTANTS
  Client = {c1, c2}
  User = {admin, u1}
  Seeded = {admin}
  Name = {n1, n2}
  Text = {p1, p2}
  None = None
  MaxVersion = 2
SYMMETRY Symmetry
INVARIANTS PasswordEncodedOnce
PROPERTIES NoLostUpdate
