\* Analytics
CONSTANTS
  Humans = {"u", "v"}
  HumanRealm <- MCHumanRealm
  Busy = {"u"}
  DayLength = 2
  ActiveDays = 1
  Alone = {"realm_active_humans"}
  MinLengths = {3}
  MaxHours = 4
  MaxFacts = 2
  MaxDeaths = 1
\* MissedMail
  Conversation = {1, 2, 3, 4}
  Misses = {1, 4}
  MissedBy <- MCMissedBy
  MissSender <- MCMissSender
  MissTopic <- MCMissTopic
  Letters = {k, l}
  MaxMailDeaths = 1
\* ScheduledMail
  Members = {"u"}
  MaxClock = 2
  MaxJobs = 2
  MaxDeliverDeaths = 1
\* RealmExport
  Staff = {"u"}
  Dummies = {"d"}
  Joiner = "j"
  HomeStream = "s"
  LateStream = "s2"
  Traffic <- MCTraffic
  Threads = {"t1", "t2"}
  MaxSent = 2
  MaxFailures = 1
SPECIFICATION Spec
SYMMETRY Symmetry
INVARIANTS
  CountsTrue
  
  ImportFaithful
CHECK_DEADLOCK FALSE
