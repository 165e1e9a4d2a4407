\* Three tabs of one browser, a cookie that is cleared once, and one form of
\* each that cannot be read.
SPECIFICATION Spec
SYMMETRY Symmetry
CHECK_DEADLOCK FALSE
CONSTANTS
  Tabs = {t1, t2, t3}
  MaxTokens = 5
  MaxClears = 1
  MaxUnread = 1
INVARIANTS
  TypeOK
  RefusalsArePaidFor
  TokensSettle
