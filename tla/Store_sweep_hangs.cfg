\* One connection, as configured: does a cleanup that finds work ever finish?
SPECIFICATION FairSpec
CHECK_DEADLOCK FALSE
CONSTANTS
  Workers = {w1}
  Users = {ana}
  Admins = {}
  Shares = {s1}
  NoRow = NoRow
  NoShare = NoShare
  SizeChoices = {2}
  DownloadChoices = {1}
  TtlChoices = {1}
  Quota = 2
  Grace = 0
  MaxUpload = 2
  MaxOpenConns = 1
  Never = 99
  MaxTime = 1
  MaxCount = 1
  MaxFaults = 0
PROPERTIES
  DeadRowsReaped
