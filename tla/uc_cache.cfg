\* Two requests of one user at a time, whose role changes and who is deactivated
\* and reactivated at any moment; entries live two ticks, a query takes one.
SPECIFICATION Spec
CONSTANTS
  Users = {u1}
  Requests = {r1, r2}
  Roles = {employee, hr}
  Inactive = inactive
  TTL = 2
  TokenLife = 3
  QueryTime = 1
  Ticks = 5
SYMMETRY Symmetry
INVARIANTS TypeOK
PROPERTY ChangeNoticedInTime
