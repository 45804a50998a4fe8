SPECIFICATION Spec
CONSTANTS
  r1 = r1
  r2 = r2
  r3 = r3
  a = a
  b = b
  svn = svn
  data = data
  Names = {a, b}
  Requests = {r1, r2, r3}
  Groups = {svn, data}
  OldUid <- OldNumbers
SYMMETRY SymmetricRequests
INVARIANTS UidsUnique AccountComplete OnlyStaffPassword PasswordsAgree
CHECK_DEADLOCK FALSE
