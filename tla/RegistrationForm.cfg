SPECIFICATION FormSpec
CONSTANTS
  FullNames = {"Jane"}
  UserNames = {"ann"}
  Addresses = {"ann@host.1", "ann@host.io"}
  Texts = {"Str0ng!x", "weakling"}
  Blank = Blank
  LongNames = {"Jane"}
  FormMails = {"ann@host.1", "ann@host.io"}
  ServiceMails = {"ann@host.io"}
  Length <- MCLength
  Kinds <- MCKinds
  Passwords <- MCPasswords
  Policy <- MCPolicy
  MaxSubmits = 2
  MaxOthers = 1
  MaxEdits = 7
CHECK_DEADLOCK FALSE
INVARIANTS
  FormTypeOK
  ShownErrorsAreTrue
  ServiceErrorIsCurrent
  LaxnessIsKnown
  OwnNameRefusedOnlyAfterLoss
