CONSTANTS
  me = me
  ann = ann
  zoe = zoe
  rob = rob
  s1 = s1
  s2 = s2
  Me = me
  Humans <- MCHumans
  Bots <- MCBots
  Streams <- MCStreams
  Admins <- MCAdmins
  Absent <- MCAbsent
  Words = {"lunch"}
  Topics = {"lunch"}
  Domains = {"a.org", "b.org"}
  Hotspots <- MCHotspots
  Subjects = {"x", "y"}
  MaxMessages = 2
  MaxChanges = 2
  Areas = {"settings", "users", "streams", "messages", "presence"}
  Clients = {"website", "ZulipDesktop"}
  Reports <- MCReports
  MaxServed = 2
  StaleAfter = 4
  OfflineAfter = 6
  MinInterval = 2
  MaxLate = 2
  MaxNow = 7
  MaxReports = 3
  MaxWorkerDeaths = 1
SPECIFICATION Spec
CHECK_DEADLOCK FALSE
INVARIANTS  PrivateStreamsHidden AlwaysAnAdmin PresenceTrue
