------------------------------ MODULE Admission ------------------------------
(***************************************************************************)
(* On what terms an upload becomes a link: the checks of role, size, quota *)
(* and type that the direct path makes in one request                      *)
(* (HandleUploadCreate, CreateSharedFileFromUpload) and the chunked path   *)
(* repeats in two (HandleUploadStart, HandleUploadComplete), with the list *)
(* of types that SeedDefaultMimeTypes fills when the server starts.        *)
(* Between the two requests of a chunked upload the server may restart,    *)
(* the user's role and what is stored for the user may change.             *)
(*                                                                         *)
(* One upload is followed, from its form to its link.  Its chunks have     *)
(* arrived (ChunkedUpload has what may happen to them); the user's other   *)
(* uploads and deletes are Elsewhere (ShareStore has them, and the         *)
(* failures of the quota's query).                                         *)
(*                                                                         *)
(* A definition named after the one right below it is a plausible bug in   *)
(* that definition.                                                        *)
(***************************************************************************)
EXTENDS FilenameSanitizer

CONSTANTS
  Types,       \* content types of files
  Octet,       \* application/octet-stream
  Text,        \* text/plain; charset=utf-8, as DetectContentType calls it
  Undeclared,  \* a multipart file without a Content-Type
  Defaults,    \* the types SeedDefaultMimeTypes inserts
  Garbled,     \* a number in a form that strconv.Atoi does not read
  Forms,       \* bound: the forms that are sent
  ShortSize,   \* a size up to this is less than the 512 bytes that are sniffed
  MaxUpload,   \* MaxUploadSizeBytes
  Quota,       \* the user's DiskQuota
  Grace,       \* DiskQuotaGraceBytes
  Usages,      \* bound: what the user's other uploads take
  Hour,        \* time.Hour, in units of time.Duration
  Half,        \* 2^63: half of the values of a time.Duration
  Never,       \* the year 9999
  NoSession, NoLink

ASSUME TypesAssumption == {Octet, Text} \subseteq Types /\ Undeclared \notin Types
ASSUME DefaultsAssumption == Defaults \subseteq Types /\ Defaults # {}

(* A file, as the browser sees it, and what was typed beside it.           *)
Form == [name : Seq(Char), type : Types, declared : Types \cup {Undeclared}, size : Int,
         downloads : Int \cup {Garbled}, hours : Int \cup {Garbled}]

ASSUME FormsAssumption == Forms \subseteq Form /\ Garbled \notin Int /\ ShortSize \in Nat
ASSUME LimitsAssumption ==
  /\ {MaxUpload, Quota, Grace, Half} \subseteq Nat /\ Hour \in Nat \ {0}
  /\ Usages \subseteq 0..(Quota + Grace)
  /\ 24 * Hour < Half   \* a day is less than 2^47 nanoseconds

VARIABLES
  boot,     \* where the server stands: down, seeding, up
  listed,   \* allowed_mime_types
  role,     \* users.role
  used,     \* StorageUsed
  session,  \* the chunked upload that is open: meta.json, and the form behind it
  link,     \* the link recorded, and the form behind it
  faulty    \* history: a seed was cut short or the list was not read in full

vars == <<boot, listed, role, used, session, link, faulty>>

Terms == [downloads : Int, hours : Int]

TypeOK ==
  /\ boot \in {"down", "seeding", "up"}
  /\ listed \subseteq Defaults
  /\ role \in {"user", "admin"}
  /\ used \in 0..(Quota + Grace)
  /\ session # NoSession => session.form \in Form /\ session.terms \in Terms
  /\ link # NoLink =>
       /\ link.form \in Form /\ link.direct \in BOOLEAN /\ link.by \in {"user", "admin"}
       /\ link.name \in Seq(Char) \ {<<>>}
       /\ link.checked \in Types /\ link.type \in Types
       /\ link.downloads \in Nat /\ link.hours \in Nat
  /\ faulty \in BOOLEAN

-----------------------------------------------------------------------------
(* parseInt of both paths: 5 downloads, 24 hours unless the form says.     *)
Parse(v, default) == IF v = Garbled THEN default ELSE v
Asked(form) == [downloads |-> Parse(form.downloads, 5), hours |-> Parse(form.hours, 24)]

ForUsers(terms) == terms.downloads \in 1..100 /\ terms.hours \in 1..24

(* What an administrator's negative numbers become: unlimited.             *)
Clamped(terms) == [downloads |-> Max({0, terms.downloads}), hours |-> Max({0, terms.hours})]

(* The three places that decide on the terms.                              *)
DirectMayHave(form) == role = "admin" \/ ForUsers(Asked(form))
DirectTermsUnclamped(form) == Asked(form)
DirectTerms(form) == IF role = "admin" THEN Clamped(Asked(form)) ELSE Asked(form)

StartMayHave(form) == role = "admin" \/ ForUsers(Asked(form))
StartTerms(form) == IF role = "admin" THEN Clamped(Asked(form)) ELSE Asked(form)

CompleteMayHaveAnything(terms) == TRUE
CompleteMayHave(terms) == role = "admin" \/ ForUsers(terms)
CompleteTerms(terms) == IF role = "admin" THEN Clamped(terms) ELSE terms

(* The two places that decide on the size.                                 *)
DirectFits(size) == size \in 1..MaxUpload /\ used + size <= Quota + Grace

CompleteFitsWithoutGrace(size) == size \in 1..MaxUpload /\ used + size <= Quota
CompleteFits(size) == size \in 1..MaxUpload /\ used + size <= Quota + Grace

(* DetectContentType on a buffer that a short file leaves filled with      *)
(* zeros sees no text in it.                                               *)
DetectPadded(form) == IF form.type = Text /\ form.size <= ShortSize THEN Octet ELSE form.type

DirectType(form) ==
  IF form.declared \in {Undeclared, Octet} THEN DetectPadded(form) ELSE form.declared

(* The sniffed type, whatever the browser declared.                        *)
ChunkedType(form) == form.type

(* An empty list, or one that could not be read, admits every type.        *)
Admitted(type, list) == list = {} \/ type \in list

(* time.Duration(ttl) * time.Hour                                          *)
Wrap(n) == ((n + Half) % (2 * Half)) - Half
Lifetime(hours) == IF hours = 0 THEN Never ELSE Wrap(hours * Hour)

-----------------------------------------------------------------------------
(* Start-up: the list is filled only if the table is empty, a row at a     *)
(* time and in any order.  A count that fails reads as an empty table.     *)
Booted == UNCHANGED <<listed, role, used, session, link, faulty>>

BootServingAtOnce ==
  /\ boot = "down"
  /\ boot' \in {"seeding", "up"}
  /\ Booted

Boot ==
  /\ boot = "down"
  /\ boot' \in {"seeding"} \cup (IF listed = {} THEN {} ELSE {"up"})
  /\ Booted

SeedOne ==
  /\ boot = "seeding"
  /\ \E type \in Defaults \ listed : listed' = listed \cup {type}
  /\ UNCHANGED <<boot, role, used, session, link, faulty>>

SeedDone ==
  /\ boot = "seeding" /\ listed = Defaults
  /\ boot' = "up"
  /\ Booted

(* The error is logged and the server starts.                              *)
SeedFails ==
  /\ boot = "seeding"
  /\ boot' = "up"
  /\ faulty' = TRUE
  /\ UNCHANGED <<listed, role, used, session, link>>

Crash ==
  /\ boot # "down"
  /\ boot' = "down"
  /\ faulty' = (faulty \/ boot = "seeding")
  /\ UNCHANGED <<listed, role, used, session, link>>

-----------------------------------------------------------------------------
(* The list as a request reads it: errors are ignored, also in the middle. *)
Reading(list) ==
  /\ list \subseteq listed
  /\ faulty' = (faulty \/ list # listed)

Record(form, direct, name, checked, recorded, terms) ==
  /\ link' = [form |-> form, direct |-> direct, by |-> role,
              name |-> name, checked |-> checked, type |-> recorded,
              downloads |-> terms.downloads, hours |-> terms.hours,
              lives |-> Lifetime(terms.hours)]
  /\ used' = used + form.size

CreateDirect(form) ==
  /\ boot = "up"
  /\ DirectMayHave(form)
  /\ DirectFits(form.size)
  /\ \E list \in SUBSET listed :
       Reading(list) /\ Admitted(DirectType(form), list)
  /\ LET type == DirectType(form)
     IN  Record(form, TRUE, SanitizeFilename(form.name), type, type, DirectTerms(form))
  /\ UNCHANGED <<boot, listed, role, session>>

Start(form) ==
  /\ boot = "up"
  /\ form.name # <<>> /\ form.size > 0
  /\ StartMayHave(form)
  /\ session' = [form |-> form, terms |-> StartTerms(form)]
  /\ UNCHANGED <<boot, listed, role, used, link, faulty>>

(* The terms are those of meta.json, checked and clamped again; the name   *)
(* is the one that was sent; the type is checked, and recorded as unknown. *)
Complete ==
  /\ boot = "up"
  /\ session # NoSession
  /\ CompleteMayHave(session.terms)
  /\ CompleteFits(session.form.size)
  /\ LET form == session.form
         type == ChunkedType(form)
     IN  /\ \E list \in SUBSET listed : Reading(list) /\ Admitted(type, list)
         /\ Record(form, FALSE, form.name, type, Octet, CompleteTerms(session.terms))
  /\ session' = NoSession
  /\ UNCHANGED <<boot, listed, role>>

-----------------------------------------------------------------------------
(* The environment: an operator's UPDATE of users.role, and the rest of    *)
(* the server.                                                             *)
ChangeRole ==
  /\ role' = IF role = "user" THEN "admin" ELSE "user"
  /\ UNCHANGED <<boot, listed, used, session, link, faulty>>

Elsewhere ==
  /\ used' \in Usages
  /\ UNCHANGED <<boot, listed, role, session, link, faulty>>

Init ==
  /\ boot = "down" /\ listed = {}
  /\ role \in {"user", "admin"}
  /\ used = 0
  /\ session = NoSession /\ link = NoLink
  /\ faulty = FALSE

(* Bound: one form is sent.                                                *)
Unsent == session = NoSession /\ link = NoLink

Next ==
  \/ Boot \/ SeedOne \/ SeedDone \/ SeedFails \/ Crash
  \/ Unsent /\ \E form \in Forms : CreateDirect(form) \/ Start(form)
  \/ Complete
  \/ ChangeRole \/ Elsewhere

Spec == Init /\ [][Next]_vars

-----------------------------------------------------------------------------
(* "runs the same sanitization/quota/mime/privilege checks as the direct   *)
(* path" (uploads.go:592): a session that is open, however old and on      *)
(* whatever terms it was opened, is completed only if role, size and quota *)
(* would let the direct path take the same form now, whenever they would,  *)
(* and on the terms of that path.  Of the type this is so only if the      *)
(* browser declares none, octet-stream, or the one the bytes show, and the *)
(* file is no text: a declared type is believed by the direct path alone,  *)
(* and the two have different names for a short text.                      *)
PathsAgree ==
  session # NoSession =>
    LET form == session.form IN
      /\ CompleteMayHave(session.terms) <=> DirectMayHave(form)
      /\ DirectMayHave(form) => CompleteTerms(session.terms) = DirectTerms(form)
      /\ CompleteFits(form.size) <=> DirectFits(form.size)
      /\ form.type # Text /\ form.declared \in {Undeclared, Octet, form.type}
           => ChunkedType(form) = DirectType(form)

(* "Only administrators can create links with unlimited downloads"         *)
(* (uploads.go:205) or without expiration: a link recorded for an ordinary *)
(* user has both limits and lives for the hours asked, a day at most, also *)
(* if the session was opened by an administrator who is none any more.     *)
UserLinksAreLimited ==
  link # NoLink /\ link.by = "user" =>
    /\ link.downloads \in 1..100
    /\ link.lives = link.hours * Hour /\ link.lives \in Hour..24 * Hour

(* As long as no start was cut short and the list could be read, no link   *)
(* was recorded whose type is not on the list that the server starts with: *)
(* the empty list, which admits everything, is never used.                 *)
TypesAreListed == link # NoLink /\ ~faulty => link.checked \in Defaults

Has(name, c) == \E i \in DOMAIN name : name[i] = c

(* The two definitions of a good name agree: what SanitizeFilename makes   *)
(* of a name sent to the direct path, IsValidFilename accepts, unless it   *)
(* holds a control character from 0x80 on, which only the second knows.    *)
NamesAreValid ==
  link # NoLink /\ link.direct /\ ~Has(link.form.name, Control) =>
    IsValidFilename(link.name)

(* A name that is short enough comes out of the direct path neither hidden *)
(* nor reserved, if it has no blanks: a blank shields the dot behind it,   *)
(* and the cut of a longer name is made after both rules and can undo them.*)
NamesAreHarmless ==
  /\ link # NoLink /\ link.direct
  /\ Len(link.form.name) < MaxBytes /\ ~Has(link.form.name, Blank)
  => link.name[1] # Dot /\ ~Reserved(link.name)

=============================================================================
