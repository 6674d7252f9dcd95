\* Three runs, three sessions of which two are kept, two system skills and one class of another's.
CONSTANTS
  r1 = r1  r2 = r2  r3 = r3
  s1 = s1  s2 = s2  s3 = s3
  sum = sum  csv = csv  own = own
  Sum = Sum  Csv = Csv  Own = Own
  Runs = {r1, r2, r3}
  Sessions = {s1, s2, s3}
  Names = {sum, csv, own, Sum, Csv, Own}
  Classes = {Sum, Csv, Own}
  SystemSkills <- SystemEntries
  Offers <- OtherEntries
  Validating = {Own, Sum}
  Drafts <- SomeDrafts
  Tools = {csv, own}
  ClassOf <- ToolClassOf
  Plans <- SomePlans
  MaxSessions = 2
  None = None
SPECIFICATION Spec
INVARIANTS ManagerInv SoleRunKeepsContext RegistriesAgree
CHECK_DEADLOCK FALSE
