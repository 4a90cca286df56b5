CONSTANTS
  People = {"m", "s", "z", "o", "b", "n"}
  FirstAccounts <- MCAccounts
  DomainOf <- MCDomainOf
  BotOwner <- MCBotOwner
  CrossBots = {"n"}
  NoticeBot = "n"
  SuperUsers = {"s"}
  Channels = {"c", "#irc"}
  ChannelRealm <- MCChannelRealm
  FirstMembers <- MCFirstMembers
  ZephyrRealms = {"r"}
  Requests <- MCRequests
  Window = 1
  MaxStored = 2
  MaxWaiting = 2
  MaxTicks = 3
  Me = "me"
  MyRealm = "r"
  Readers = {"me", "a", "b"}
  Places = {"pub", "prv", "far"}
  PlaceRealm <- MCPlaceRealm
  FirstSecret = {"prv"}
  FirstJoined = {"pub"}
  Zephyr = FALSE
  MutedPlaces = {"pub"}
  MutedTopics <- MCMutedTopics
  Kinds <- MCKinds
  Narrows <- MCNarrows
  Topics = {"t", "u"}
  Page = 1
  MaxId = 3
  MaxChanges = 1
  Members = {"ann", "bob"}
  Circle = {"ann", "bob"}
  Paths = {1}
  Quota = 1
  Titles = {"t", "u"}
  NewTitles = {"u"}
  MaxPosts = 2
  MaxEdits = 2
  Edited = {1}
  Workers = {"w1", "w2"}
  Wordings = {"x", "y"}
  FirstWording = "x"
  Mentioning <- MCMentioning
  MaxRewrites = 2
  MaxSlow = 1
  MaxRollbacks = 1
  LineKinds <- MCLineKinds
  MaxLines = 5
SPECIFICATION Spec
CHECK_DEADLOCK FALSE
INVARIANTS SentRight  NoGap FilesSurvive HistoryTruthful  
