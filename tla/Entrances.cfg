CONSTANTS
  Realms = {"a", "b", "c"}
  Emails = {"ann", "cat", "u", "v"}
  Founded = {"a", "c"}
  FirstUser <- MCFirstUser
  Dummy = {"v"}
  Allowed <- MCAllowed
  Closed = {"a"}
  Registrars = {1, 2}
  ONLY_SSO = FALSE
  OPEN_REALM_CREATION = FALSE
  LinkDays = 0
  MaxPreregs = 2
  MaxLinks = 2
  MaxDays = 1
  MaxChanges = 1
  MaxCrashes = 1
  Users = {"u"}
  Addresses = {"e1", "e2"}
  FirstAddress <- MCFirstAddress
  Readers = {1}
  MaxSaves = 2
  Webhooks = {}
  Servers = {1, 2}
  Rules <- MCRules
  MaxConflicts = 1
  BlockTime = 1
  MaxClock = 7
  RealmHosts = {"a", "b"}
  OtherHosts = {""}
  Logins = {"o", "d", "n"}
  Home <- MCHome
  Dummies = {"d"}
  Mine = {"n", "d"}
  Directory = {"n"}
  Methods <- MCMethods
  MaxAge = 0
  MaxTime = 1
SPECIFICATION Spec
CHECK_DEADLOCK FALSE
INVARIANTS    LimiterSound
PROPERTIES GrantsRight
