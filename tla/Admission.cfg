\* A restart, a role that changes and a quota that fills up between the two
\* requests of a chunked upload; an hour is 4 units of time
\* of 128, so that a day fits and 33 hours do not.
SPECIFICATION Spec
CHECK_DEADLOCK FALSE
CONSTANTS
  Octet = octet
  Text = text
  Types = {octet, text, pdf}
  Defaults = {octet, pdf}
  Undeclared = undeclared
  Garbled = garbled
  Forms <- SomeForms
  ShortSize = 1
  MaxUpload = 2
  Quota = 2
  Grace = 1
  Usages = {0, 2, 3}
  Hour = 4
  Half = 128
  Never = never
  NoSession = NoSession
  NoLink = NoLink
  MaxBytes = 3
INVARIANTS
  TypeOK
  PathsAgree
  UserLinksAreLimited
  TypesAreListed
  NamesAreValid
  NamesAreHarmless
