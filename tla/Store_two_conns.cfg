\* A pool of two connections, with which the cleanup can finish: two handlers
\* at one link on every combination of terms, and fair scheduling.
SPECIFICATION FairSpec
CHECK_DEADLOCK FALSE
CONSTANTS
  Workers = {w1, w2}
  Users = {adm}
  Admins = {adm}
  Shares = {s1}
  NoRow = NoRow
  NoShare = NoShare
  SizeChoices = {2}
  DownloadChoices <- AllDownloadChoices
  TtlChoices = {0, 1}
  Quota = 2
  Grace = 0
  MaxUpload = 2
  MaxOpenConns = 2
  Never = 99
  MaxTime = 1
  MaxCount = 2
  MaxFaults = 2
INVARIANTS
  TypeOK
  IInv
  DownloadsWithinLimit
  SweepSparesActive
PROPERTIES
  KeepsPromise
  DeadRowsReaped
