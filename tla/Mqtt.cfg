SPECIFICATION Spec
CONSTANTS
  b1 = b1  b2 = b2  home = home  den = den  show = show
  NoHost = NoHost  NoTopic = NoTopic  NoScene = NoScene
  Unset = Unset  Keep = Keep  Invalid = Invalid
  Hosts <- MCHosts
  Announced <- MCAnnounced
  Topics <- MCTopics
  DefaultTopic = home
  Apps <- MCApps
  Patches <- MCPatches
  MaxPatches = 2
  MaxFaults = 1
  MaxChanges = 1
INVARIANTS CommandsAreHeard MemoryIsRetained
PROPERTY SettlesAfterTrouble
