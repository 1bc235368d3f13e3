CONSTANTS
  l1 = l1
  l2 = l2
  l3 = l3
  b1 = b1
  b2 = b2
  s1 = s1
  s2 = s2
  Logins = {l1, l2, l3}
  NoLogin = NoLogin
  Browsers = {b1, b2}
  NoBrowser = NoBrowser
  Registered = {"google", "other"}
  Providers = {"google", "other", "nobody"}
  Subjects = {s1, s2}
  Emails = {"x@", "y@"}
  Inputs <- LoginInputs
SPECIFICATION FairSpec
INVARIANTS TypeOK OneUserPerAccount EmailWasVerified RefusedOnlyForAnother
PROPERTIES TokensStayInBrowser ImplementsAccountBook RegisteredGetsIn
