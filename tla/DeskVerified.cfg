CONSTANTS
  Users = {1, 2, 3, 4, 5}
  Emails = {"Anna", "anna"}
  Normal <- MCNormal
  Rank <- MCRank
  Classes = {1, 2, 3}
  Rates = {1, 2}
  Profiles = {1, 2, 3}
  Orders = {1, 2, 3}
  Currencies = {"INR"}
  KustomCurrencies = {"EUR"}
  Tongues = {"en", "ar"}
  MaxRequests = 2
  Hosts = {1, 2}
  Passwords = {1, 2}
  MaxFaults = 2
SPECIFICATION Spec
INVARIANTS
  VerifiedWorks
CHECK_DEADLOCK FALSE
