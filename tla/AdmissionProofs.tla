--------------------------- MODULE AdmissionProofs ---------------------------
(***************************************************************************)
(* TLAPS proofs about Admission, for any forms, limits, list of types and  *)
(* number of restarts.                                                     *)
(***************************************************************************)
EXTENDS Admission, FilenameSanitizerProofs

(* meta.json holds what the direct path would have made of the form.       *)
SessionAgrees ==
  session # NoSession =>
    session.form \in Forms /\ session.terms = Clamped(Asked(session.form))

LinkIsLimited ==
  link # NoLink /\ link.by = "user" =>
    ForUsers(link) /\ link.lives = Lifetime(link.hours)

(* Without a fault the list is empty or complete whenever the server is    *)
(* not filling it.                                                         *)
ListIsWhole ==
  /\ faulty \in BOOLEAN
  /\ ~faulty => /\ boot = "down" => listed \in {{}, Defaults}
                /\ boot = "up" => listed = Defaults

StageKnown == boot \in {"down", "seeding", "up"}

AInv == StageKnown /\ SessionAgrees /\ LinkIsLimited /\ ListIsWhole /\ TypesAreListed

-----------------------------------------------------------------------------
(* Clamping changes negative numbers only.                                 *)
LEMMA MaxWithZero == ASSUME NEW n \in Int PROVE Max({0, n}) = IF n > 0 THEN n ELSE 0
  BY DEF Max

LEMMA AskedIsInt ==
  ASSUME NEW form \in Forms
  PROVE  Asked(form).downloads \in Int /\ Asked(form).hours \in Int
<1>1. form.downloads \in Int \cup {Garbled} /\ form.hours \in Int \cup {Garbled}
  BY FormsAssumption DEF Form
<1> QED
  BY <1>1 DEF Asked, Parse

LEMMA ClampingKeepsUserTerms ==
  ASSUME NEW form \in Forms
  PROVE  /\ ForUsers(Clamped(Asked(form))) <=> ForUsers(Asked(form))
         /\ ForUsers(Asked(form)) => Clamped(Asked(form)) = Asked(form)
<1> DEFINE d == Asked(form).downloads
           h == Asked(form).hours
<1>1. d \in Int /\ h \in Int
  BY AskedIsInt
<1>2. Clamped(Asked(form)) = [downloads |-> Max({0, d}), hours |-> Max({0, h})]
  BY DEF Clamped
<1>3. Asked(form) = [downloads |-> d, hours |-> h]
  BY DEF Asked
<1>4. /\ Max({0, d}) = IF d > 0 THEN d ELSE 0
      /\ Max({0, h}) = IF h > 0 THEN h ELSE 0
  BY <1>1, MaxWithZero
<1>5. ForUsers(Clamped(Asked(form))) <=> Max({0, d}) \in 1..100 /\ Max({0, h}) \in 1..24
  BY <1>2 DEF ForUsers
<1>6. ForUsers(Asked(form)) <=> d \in 1..100 /\ h \in 1..24
  BY DEF ForUsers
<1>7. ForUsers(Asked(form)) => Max({0, d}) = d /\ Max({0, h}) = h
  BY <1>1, <1>4, <1>6
<1> HIDE DEF d, h
<1> QED
  BY <1>1, <1>2, <1>3, <1>4, <1>5, <1>6, <1>7

LEMMA ClampedOnce ==
  ASSUME NEW form \in Forms
  PROVE  Clamped(Clamped(Asked(form))) = Clamped(Asked(form))
<1> DEFINE d == Asked(form).downloads
           h == Asked(form).hours
<1>1. d \in Int /\ h \in Int
  BY AskedIsInt
<1>2. /\ Max({0, d}) \in Nat /\ Max({0, Max({0, d})}) = Max({0, d})
      /\ Max({0, h}) \in Nat /\ Max({0, Max({0, h})}) = Max({0, h})
  <2>1. Max({0, d}) \in Nat /\ Max({0, h}) \in Nat
    BY <1>1, MaxWithZero
  <2>2. /\ Max({0, Max({0, d})}) = IF Max({0, d}) > 0 THEN Max({0, d}) ELSE 0
        /\ Max({0, Max({0, h})}) = IF Max({0, h}) > 0 THEN Max({0, h}) ELSE 0
    BY <2>1, MaxWithZero
  <2> QED
    BY <2>1, <2>2
<1> QED
  BY <1>2 DEF Clamped

(* A remainder of what is smaller than the modulus is the number itself.   *)
LEMMA SmallRemainder ==
  ASSUME NEW m \in Nat, NEW n \in Nat, n < m PROVE n % m = n
  BY Z3

LEMMA ShortLivesDoNotWrap ==
  ASSUME NEW hours \in 1..24
  PROVE  Lifetime(hours) = hours * Hour /\ hours * Hour \in Hour..24 * Hour
<1> DEFINE n == hours * Hour
<1>0. Hour \in Nat \ {0} /\ Half \in Nat /\ 24 * Hour < Half
  BY LimitsAssumption
<1>1. n \in Hour..24 * Hour
  BY <1>0
<1>2. n + Half \in Nat /\ 2 * Half \in Nat /\ n + Half < 2 * Half
  BY <1>0, <1>1
<1>3. (n + Half) % (2 * Half) = n + Half
  BY <1>2, SmallRemainder
<1> QED
  BY <1>0, <1>1, <1>3 DEF Lifetime, Wrap

-----------------------------------------------------------------------------
LEMMA AgreesInitially == Init => AInv
  BY DEF Init, AInv, StageKnown, SessionAgrees, LinkIsLimited, ListIsWhole, TypesAreListed

LEMMA StageKept == AInv /\ [Next]_vars => StageKnown'
  BY DEF AInv, StageKnown, Next, vars, Boot, Booted, SeedOne, SeedDone, SeedFails, Crash,
         CreateDirect, Start, Complete, ChangeRole, Elsewhere

LEMMA SessionAgreesKept == AInv /\ [Next]_vars => SessionAgrees'
<1> SUFFICES ASSUME AInv, [Next]_vars PROVE SessionAgrees'
  OBVIOUS
<1>1. ASSUME NEW form \in Forms, Start(form) PROVE SessionAgrees'
  <2>1. session' = [form |-> form, terms |-> StartTerms(form)] /\ StartMayHave(form)
    BY <1>1 DEF Start
  <2>2. StartTerms(form) = Clamped(Asked(form))
    BY <2>1, ClampingKeepsUserTerms DEF StartTerms, StartMayHave
  <2> QED
    BY <2>1, <2>2 DEF SessionAgrees
<1>2. CASE Complete
  BY <1>2 DEF Complete, SessionAgrees
<1>3. CASE UNCHANGED session
  BY <1>3 DEF AInv, SessionAgrees, Clamped, Asked
<1> QED
  BY <1>1, <1>2, <1>3
  DEF Next, vars, Boot, Booted, SeedOne, SeedDone, SeedFails, Crash, CreateDirect,
      ChangeRole, Elsewhere

(* Both paths record what Record is given, for the role of that moment.    *)
LEMMA RecordedWithinLimits ==
  ASSUME NEW form \in Forms, NEW direct, NEW name, NEW checked, NEW recorded, NEW terms,
         Record(form, direct, name, checked, recorded, terms),
         role = "user" => ForUsers(terms)
  PROVE  LinkIsLimited'
  BY DEF Record, LinkIsLimited, ForUsers, Lifetime, Wrap

LEMMA LinkIsLimitedKept == AInv /\ [Next]_vars => LinkIsLimited'
<1> SUFFICES ASSUME AInv, [Next]_vars PROVE LinkIsLimited'
  OBVIOUS
<1>1. ASSUME NEW form \in Forms, CreateDirect(form) PROVE LinkIsLimited'
  <2>1. role = "user" => ForUsers(DirectTerms(form))
    BY <1>1 DEF CreateDirect, DirectMayHave, DirectTerms
  <2> QED
    BY <1>1, <2>1, RecordedWithinLimits DEF CreateDirect
<1>2. CASE Complete
  <2>1. role = "user" => ForUsers(CompleteTerms(session.terms))
    BY <1>2 DEF Complete, CompleteMayHave, CompleteTerms
  <2>2. session.form \in Forms
    BY <1>2 DEF AInv, SessionAgrees, Complete
  <2> QED
    BY <1>2, <2>1, <2>2, RecordedWithinLimits DEF Complete
<1>3. CASE UNCHANGED link
  BY <1>3 DEF AInv, LinkIsLimited, ForUsers, Lifetime, Wrap
<1> QED
  BY <1>1, <1>2, <1>3
  DEF Next, vars, Boot, Booted, SeedOne, SeedDone, SeedFails, Crash, Start,
      ChangeRole, Elsewhere

LEMMA ListIsWholeKept == AInv /\ [Next]_vars => ListIsWhole'
<1> SUFFICES ASSUME AInv, [Next]_vars PROVE ListIsWhole'
  OBVIOUS
<1> USE DEF AInv, ListIsWhole
<1>1. CASE Boot
  BY <1>1 DEF Boot, Booted
<1>2. CASE SeedOne
  BY <1>2 DEF SeedOne
<1>3. CASE SeedDone \/ SeedFails
  BY <1>3 DEF SeedDone, SeedFails, Booted
<1>4. CASE Crash
  <2>1. boot' = "down" /\ listed' = listed /\ faulty' \in BOOLEAN
    BY <1>4 DEF Crash
  <2>2. ~faulty' => boot # "seeding" /\ ~faulty
    BY <1>4 DEF Crash
  <2>3. ~faulty' => listed \in {{}, Defaults}
    BY <1>4, <2>2 DEF Crash, StageKnown
  <2> QED
    BY <2>1, <2>3
<1>5. ASSUME NEW list, Reading(list), UNCHANGED <<boot, listed>> PROVE ListIsWhole'
  BY <1>5 DEF Reading
<1>6. ASSUME NEW form \in Forms, CreateDirect(form) PROVE ListIsWhole'
  BY <1>5, <1>6 DEF CreateDirect
<1>7. CASE Complete
  BY <1>5, <1>7 DEF Complete
<1>8. CASE UNCHANGED <<boot, listed, faulty>>
  BY <1>8
<1> QED
  BY <1>1, <1>2, <1>3, <1>4, <1>6, <1>7, <1>8 DEF Next, vars, Start, ChangeRole, Elsewhere

(* A list that a running server reads in full and without a fault is the   *)
(* whole list, which is not empty.                                         *)
LEMMA AdmittedIsDefault ==
  ASSUME ListIsWhole, boot = "up", NEW list, Reading(list), ~faulty',
         NEW type, Admitted(type, list)
  PROVE  type \in Defaults
  BY DefaultsAssumption DEF ListIsWhole, Reading, Admitted

LEMMA TypesListedKept == AInv /\ [Next]_vars => TypesAreListed'
<1> SUFFICES ASSUME AInv, [Next]_vars, ~faulty' PROVE TypesAreListed'
  BY DEF TypesAreListed
<1>1. ASSUME NEW form \in Forms, CreateDirect(form) PROVE TypesAreListed'
  <2>1. DirectType(form) \in Defaults
    BY <1>1, AdmittedIsDefault DEF CreateDirect, AInv
  <2>2. link'.checked = DirectType(form)
    BY <1>1 DEF CreateDirect, Record
  <2> QED
    BY <2>1, <2>2 DEF TypesAreListed
<1>2. CASE Complete
  <2>1. ChunkedType(session.form) \in Defaults
    BY <1>2, AdmittedIsDefault DEF Complete, AInv
  <2>2. link'.checked = ChunkedType(session.form)
    BY <1>2 DEF Complete, Record
  <2> QED
    BY <2>1, <2>2 DEF TypesAreListed
<1>3. CASE UNCHANGED link /\ ~faulty
  BY <1>3 DEF AInv, TypesAreListed
<1>4. CASE Crash
  BY <1>3, <1>4 DEF Crash
<1>5. CASE SeedFails
  BY <1>5 DEF SeedFails
<1>6. CASE UNCHANGED <<link, faulty>>
  BY <1>3, <1>6
<1> QED
  BY <1>1, <1>2, <1>4, <1>5, <1>6
  DEF Next, vars, Boot, Booted, SeedOne, SeedDone, Start, ChangeRole, Elsewhere

(* The inductive invariant that the theorems below are read off from.      *)
THEOREM AdmissionInvariant == Spec => []AInv
<1>1. AInv /\ [Next]_vars => AInv'
  BY StageKept, SessionAgreesKept, LinkIsLimitedKept, ListIsWholeKept, TypesListedKept DEF AInv
<1> QED
  BY <1>1, AgreesInitially, PTL DEF Spec

-----------------------------------------------------------------------------
(* A chunked upload, whenever it is completed, is taken on the terms of    *)
(* the direct path, and only if that would take it (HandleUploadComplete). *)
THEOREM PathsAlwaysAgree == Spec => []PathsAgree
<1>1. SessionAgrees => PathsAgree
  <2> SUFFICES ASSUME SessionAgrees, session # NoSession PROVE PathsAgree
    BY DEF PathsAgree
  <2> DEFINE form == session.form
  <2>1. form \in Forms /\ session.terms = Clamped(Asked(form))
    BY DEF SessionAgrees
  <2>2. form.type # Text /\ form.declared \in {Undeclared, Octet, form.type}
          => ChunkedType(form) = DirectType(form)
    BY DEF ChunkedType, DirectType, DetectPadded
  <2>3. CompleteMayHave(session.terms) <=> DirectMayHave(form)
    BY <2>1, ClampingKeepsUserTerms DEF CompleteMayHave, DirectMayHave
  <2>4. DirectMayHave(form) => CompleteTerms(session.terms) = DirectTerms(form)
    BY <2>1, ClampingKeepsUserTerms, ClampedOnce DEF DirectMayHave, DirectTerms, CompleteTerms
  <2>5. CompleteFits(form.size) <=> DirectFits(form.size)
    BY DEF CompleteFits, DirectFits
  <2> QED
    BY <2>2, <2>3, <2>4, <2>5 DEF PathsAgree
<1> QED
  BY <1>1, AdmissionInvariant, PTL DEF AInv

(* An ordinary user's links are limited in downloads and live a day at     *)
(* most, on either path and whatever the role was before                   *)
(* (HandleUploadCreate, HandleUploadComplete).                             *)
THEOREM UserLinksLimited == Spec => []UserLinksAreLimited
<1>1. LinkIsLimited => UserLinksAreLimited
  BY ShortLivesDoNotWrap DEF LinkIsLimited, ForUsers, UserLinksAreLimited
<1> QED
  BY <1>1, AdmissionInvariant, PTL DEF AInv

(* Restarts do not open the list: what is admitted without a fault is on   *)
(* the list that SeedDefaultMimeTypes fills.                               *)
THEOREM LinksHaveListedTypes == Spec => []TypesAreListed
  BY AdmissionInvariant, PTL DEF AInv

-----------------------------------------------------------------------------
(* Names and types                                                         *)

(* A session has a name, and a link of the direct path has the one that    *)
(* SanitizeFilename made of its form's.                                    *)
Named ==
  /\ session # NoSession => session.form.name # <<>>
  /\ link # NoLink /\ link.direct =>
       link.form \in Forms /\ link.name = SanitizeFilename(link.form.name)

TInv == AInv /\ Named /\ TypeOK

LEMMA NamedKept == TInv /\ [Next]_vars => Named'
<1> SUFFICES ASSUME TInv, [Next]_vars PROVE Named'
  OBVIOUS
<1> USE DEF TInv, Named
<1>1. ASSUME NEW form \in Forms, CreateDirect(form) PROVE Named'
  <2>1. /\ session' = session
        /\ link'.form = form /\ link'.name = SanitizeFilename(form.name)
    BY <1>1 DEF CreateDirect, Record
  <2> QED
    BY <2>1
<1>2. ASSUME NEW form \in Forms, Start(form) PROVE Named'
  BY <1>2 DEF Start
<1>3. CASE Complete
  <2>1. session' = NoSession /\ link'.direct = FALSE
    BY <1>3 DEF Complete, Record
  <2> QED
    BY <2>1
<1>4. CASE UNCHANGED <<session, link>>
  BY <1>4
<1> QED
  BY <1>1, <1>2, <1>3, <1>4
  DEF Next, vars, Boot, Booted, SeedOne, SeedDone, SeedFails, Crash, ChangeRole, Elsewhere

(* What TypeOK says of the list and of what is stored.                     *)
LEMMA ListAndUsageTyped ==
  ASSUME TInv, [Next]_vars
  PROVE  /\ listed' \subseteq Defaults /\ role' \in {"user", "admin"}
         /\ used' \in 0..(Quota + Grace)
<1> USE DEF TInv, TypeOK
<1>1. /\ listed \subseteq Defaults /\ role \in {"user", "admin"} /\ used \in 0..(Quota + Grace)
      /\ {MaxUpload, Quota, Grace} \subseteq Nat /\ Usages \subseteq 0..(Quota + Grace)
  BY LimitsAssumption
<1>2. ASSUME NEW size, DirectFits(size) \/ CompleteFits(size), used' = used + size
      PROVE  used' \in 0..(Quota + Grace)
  BY <1>1, <1>2 DEF DirectFits, CompleteFits
<1>3. ASSUME NEW form \in Forms, CreateDirect(form)
      PROVE  used' \in 0..(Quota + Grace) /\ listed' = listed /\ role' = role
  BY <1>2, <1>3 DEF CreateDirect, Record
<1>4. CASE Complete
  <2>1. CompleteFits(session.form.size) /\ used' = used + session.form.size
        /\ listed' = listed /\ role' = role
    BY <1>4 DEF Complete, Record
  <2> QED
    BY <1>1, <1>2, <2>1
<1>5. ASSUME NEW form \in Forms, Start(form)
      PROVE  used' = used /\ listed' = listed /\ role' = role
  BY <1>5 DEF Start
<1>6. CASE Boot \/ SeedDone \/ SeedFails \/ Crash
  BY <1>1, <1>6 DEF Boot, Booted, SeedDone, SeedFails, Crash
<1>7. CASE SeedOne
  BY <1>1, <1>7 DEF SeedOne
<1>8. CASE ChangeRole \/ Elsewhere
  BY <1>1, <1>8 DEF ChangeRole, Elsewhere
<1>9. CASE UNCHANGED vars
  BY <1>1, <1>9 DEF vars
<1> QED
  BY <1>1, <1>3, <1>4, <1>5, <1>6, <1>7, <1>8, <1>9 DEF Next

(* What is recorded of a form with terms that are no negative numbers.     *)
LEMMA RecordedIsTyped ==
  ASSUME role \in {"user", "admin"}, NEW form \in Forms, NEW direct \in BOOLEAN,
         NEW name \in Seq(Char) \ {<<>>}, NEW checked \in Types, NEW recorded \in Types,
         NEW terms, terms.downloads \in Nat, terms.hours \in Nat,
         Record(form, direct, name, checked, recorded, terms)
  PROVE  /\ link'.form \in Form /\ link'.direct \in BOOLEAN /\ link'.by \in {"user", "admin"}
         /\ link'.name \in Seq(Char) \ {<<>>}
         /\ link'.checked \in Types /\ link'.type \in Types
         /\ link'.downloads \in Nat /\ link'.hours \in Nat
<1>1. link' = [form |-> form, direct |-> direct, by |-> role,
               name |-> name, checked |-> checked, type |-> recorded,
               downloads |-> terms.downloads, hours |-> terms.hours,
               lives |-> Lifetime(terms.hours)]
  BY DEF Record
<1>2. form \in Form
  BY FormsAssumption
<1> QED
  BY <1>1, <1>2

(* What may be asked for, clamped, is no negative number.                  *)
LEMMA ClampedIsNat ==
  ASSUME NEW form \in Forms
  PROVE  /\ Clamped(Asked(form)).downloads \in Nat /\ Clamped(Asked(form)).hours \in Nat
         /\ Clamped(Asked(form)) \in Terms
<1>1. Asked(form).downloads \in Int /\ Asked(form).hours \in Int
  BY AskedIsInt
<1>2. /\ Max({0, Asked(form).downloads}) \in Nat
      /\ Max({0, Asked(form).hours}) \in Nat
  BY <1>1, MaxWithZero
<1> QED
  BY <1>2 DEF Clamped, Terms

(* A step that records a link leaves one of the declared type.             *)
LinkTyped ==
  link # NoLink =>
    /\ link.form \in Form /\ link.direct \in BOOLEAN /\ link.by \in {"user", "admin"}
    /\ link.name \in Seq(Char) \ {<<>>}
    /\ link.checked \in Types /\ link.type \in Types
    /\ link.downloads \in Nat /\ link.hours \in Nat

LEMMA DirectIsTyped ==
  ASSUME TInv, NEW form \in Forms, CreateDirect(form)
  PROVE  LinkTyped'
<1>1. form.name \in Seq(Char) /\ form.type \in Types /\ form.declared \in Types \cup {Undeclared}
  BY FormsAssumption DEF Form
<1>2. SanitizeFilename(form.name) \in Seq(Char) \ {<<>>}
  <2>1. /\ SanitizeFilename(form.name) \in Seq((Char \cup {Letter}) \ {Slash, Removed})
        /\ SanitizeFilename(form.name) # <<>>
    BY <1>1, SanitizedName
  <2>2. (Char \cup {Letter}) \ {Slash, Removed} \subseteq Char
    BY DEF Char
  <2> QED
    BY <2>1, <2>2, SeqMonotonic
<1>3. DirectType(form) \in Types
  BY <1>1, TypesAssumption DEF DirectType, DetectPadded
<1>4. DirectTerms(form).downloads \in Nat /\ DirectTerms(form).hours \in Nat
  BY ClampedIsNat DEF DirectTerms, CreateDirect, DirectMayHave, ForUsers
<1>5. role \in {"user", "admin"}
  BY DEF TInv, TypeOK
<1>6. Record(form, TRUE, SanitizeFilename(form.name), DirectType(form), DirectType(form), DirectTerms(form))
  BY DEF CreateDirect
<1> QED
  BY <1>2, <1>3, <1>4, <1>5, <1>6, RecordedIsTyped DEF LinkTyped

LEMMA CompletedIsTyped ==
  ASSUME TInv, Complete
  PROVE  LinkTyped'
<1>1. PICK form \in Forms :
        /\ form = session.form /\ session.terms = Clamped(Asked(form)) /\ form.name # <<>>
  BY DEF TInv, AInv, SessionAgrees, Named, Complete
<1>2. form.name \in Seq(Char) \ {<<>>} /\ form.type \in Types
  BY <1>1, FormsAssumption DEF Form
<1>3. /\ CompleteTerms(session.terms).downloads \in Nat
      /\ CompleteTerms(session.terms).hours \in Nat
  BY <1>1, ClampedIsNat, ClampedOnce DEF CompleteTerms
<1>4. role \in {"user", "admin"} /\ Octet \in Types
  BY TypesAssumption DEF TInv, TypeOK
<1>5. Record(form, FALSE, form.name, form.type, Octet, CompleteTerms(session.terms))
  BY <1>1 DEF Complete, ChunkedType
<1> QED
  BY <1>2, <1>3, <1>4, <1>5, RecordedIsTyped DEF LinkTyped

LEMMA TypeKept == TInv /\ [Next]_vars => TypeOK'
<1> SUFFICES ASSUME TInv, [Next]_vars PROVE TypeOK'
  OBVIOUS
<1>1. listed' \subseteq Defaults /\ role' \in {"user", "admin"} /\ used' \in 0..(Quota + Grace)
  BY ListAndUsageTyped
<1>2. boot' \in {"down", "seeding", "up"} /\ faulty' \in BOOLEAN
  BY StageKept, ListIsWholeKept DEF TInv, StageKnown, ListIsWhole
<1>3. session' # NoSession => session'.form \in Form /\ session'.terms \in Terms
  <2>1. SessionAgrees'
    BY SessionAgreesKept DEF TInv
  <2>2. ASSUME session' # NoSession PROVE session'.form \in Form /\ session'.terms \in Terms
    <3>1. PICK form \in Forms :
            /\ form = session'.form /\ session'.terms = Clamped(Asked(form))
      BY <2>1, <2>2 DEF SessionAgrees, Clamped, Asked
    <3> QED
      BY <3>1, ClampedIsNat, FormsAssumption
  <2> QED
    BY <2>2
<1>4. LinkTyped'
  <2>1. CASE UNCHANGED link
    BY <2>1 DEF TInv, TypeOK, LinkTyped
  <2>2. ASSUME NEW form \in Forms, CreateDirect(form) PROVE LinkTyped'
    BY <2>2, DirectIsTyped
  <2>3. CASE Complete
    BY <2>3, CompletedIsTyped
  <2> QED
    BY <2>1, <2>2, <2>3
    DEF Next, vars, Boot, Booted, SeedOne, SeedDone, SeedFails, Crash, Start,
        ChangeRole, Elsewhere
<1> QED
  BY <1>1, <1>2, <1>3, <1>4 DEF TypeOK, LinkTyped

LEMMA TypedInvariant == Spec => []TInv
<1>1. Init => TInv
  <2> SUFFICES ASSUME Init PROVE TInv
    OBVIOUS
  <2>1. AInv
    BY AgreesInitially
  <2>2. Named
    BY DEF Init, Named
  <2>3. TypeOK
    <3>1. 0 \in 0..(Quota + Grace)
      BY LimitsAssumption
    <3>2. session = NoSession /\ link = NoLink
      BY DEF Init
    <3> QED
      BY <3>1, <3>2 DEF Init, TypeOK
  <2> QED
    BY <2>1, <2>2, <2>3 DEF TInv
<1>2. TInv /\ [Next]_vars => TInv'
  <2>1. TInv /\ [Next]_vars => AInv'
    BY StageKept, SessionAgreesKept, LinkIsLimitedKept, ListIsWholeKept, TypesListedKept
    DEF AInv, TInv
  <2> QED
    BY <2>1, NamedKept, TypeKept DEF TInv
<1> QED
  BY <1>1, <1>2, PTL DEF Spec

(* Every variable keeps its type; in particular a link of either path has  *)
(* a name and limits that are no negative numbers (HandleUploadCreate,     *)
(* HandleUploadComplete).                                                  *)
THEOREM TypeCorrect == Spec => []TypeOK
<1>1. TInv => TypeOK
  BY DEF TInv
<1> QED
  BY <1>1, TypedInvariant, PTL

(* Two definitions of a good name agree: what CreateSharedFileFromUpload   *)
(* records under a sanitized name, IsValidFilename accepts.                *)
THEOREM DirectNamesAreValid == Spec => []NamesAreValid
<1>1. TInv => NamesAreValid
  <2> SUFFICES ASSUME TInv, link # NoLink, link.direct, ~Has(link.form.name, Control)
               PROVE  IsValidFilename(link.name)
    BY DEF NamesAreValid
  <2>1. link.form \in Forms /\ link.name = SanitizeFilename(link.form.name)
    BY DEF TInv, Named
  <2>2. link.form.name \in Seq(Char)
    BY <2>1, FormsAssumption DEF Form
  <2>3. \A i \in DOMAIN link.form.name : link.form.name[i] # Control
    BY DEF Has
  <2> QED
    BY <2>1, <2>2, <2>3, SanitizedIsValid
<1> QED
  BY <1>1, TypedInvariant, PTL

(* A short name without blanks is recorded neither hidden nor reserved.    *)
THEOREM DirectNamesAreHarmless == Spec => []NamesAreHarmless
<1>1. TInv => NamesAreHarmless
  <2> SUFFICES ASSUME TInv, link # NoLink, link.direct,
                      Len(link.form.name) < MaxBytes, ~Has(link.form.name, Blank)
               PROVE  link.name[1] # Dot /\ ~Reserved(link.name)
    BY DEF NamesAreHarmless
  <2>1. link.form \in Forms /\ link.name = SanitizeFilename(link.form.name)
    BY DEF TInv, Named
  <2>2. link.form.name \in Seq(Char)
    BY <2>1, FormsAssumption DEF Form
  <2>3. \A i \in DOMAIN link.form.name : link.form.name[i] # Blank
    BY DEF Has
  <2> QED
    BY <2>1, <2>2, <2>3, SanitizedIsHarmless
<1> QED
  BY <1>1, TypedInvariant, PTL

=============================================================================
