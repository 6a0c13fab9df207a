SPECIFICATION FairSpec
CONSTANTS
  Threads = {"main", "lease"}
  Ports = {"m3u8_port"}
  Given = {"host", "login", "password_file", "device_info"}
  MaxOptions = 2
INVARIANTS ForwardsToLibcurl OptionsOwned StartsUsable NullNameNeedsFile OutlivesCore
PROPERTY StopHeard
CHECK_DEADLOCK FALSE
