------------------------------ MODULE CsrfProofs ------------------------------
(***************************************************************************)
(* TLAPS proofs about Csrf, for any number of tabs, tokens and clears.     *)
(***************************************************************************)
EXTENDS Csrf, FiniteSetTheorems, TLAPS

(* The forms that the server would refuse if nothing changed any more: the *)
(* pages, shown or on their way, whose token is not the cookie's and that  *)
(* do not bring a cookie of their own.                                     *)
Doomed(t) ==
  \/ tab[t].at = "form" /\ (jar = 0 \/ tab[t].token # jar)
  \/ tab[t].at = "answered" /\ tab[t].page /\ tab[t].set = 0 /\ tab[t].token # jar

(* A doomed page was hit by a change of the cookie that is not paid yet; a *)
(* form that is not read pays for its own refusal.                         *)
Paid(t) == refusals[t] + (IF Doomed(t) THEN 1 ELSE 0) <= changes + unread[t]

LInv == TypeOK /\ \A t \in Tabs : Paid(t)

LEMMA TypeInitially == Init => TypeOK
<1>1. 0 \in 0..MaxUnread
  BY BoundsAssumption
<1> QED
  BY <1>1, BoundsAssumption DEF Init, TypeOK, Tab, Blank, Token

LEMMA RefusalHasType ==
  ASSUME TypeOK, NEW t \in Tabs, Refuse(t)
  PROVE  /\ refusals' \in [Tabs -> Nat] /\ unread' \in [Tabs -> 0..MaxUnread]
         /\ UNCHANGED <<jar, clears, changes>>
<1>1. MaxUnread \in Nat /\ unread \in [Tabs -> 0..MaxUnread] /\ refusals \in [Tabs -> Nat]
  BY BoundsAssumption DEF TypeOK
<1>2. unread[t] < MaxUnread => [unread EXCEPT ![t] = @ + 1] \in [Tabs -> 0..MaxUnread]
  BY <1>1
<1> QED
  BY <1>1, <1>2 DEF Refuse

LEMMA BlankHasType == Blank \in Tab /\ Blank.at # "answered"
  BY BoundsAssumption DEF Blank, Tab, Token

LEMMA AnswerHasType ==
  ASSUME TypeOK, NEW t \in Tabs, NEW page \in BOOLEAN, EnsureCSRF(t, page)
  PROVE  /\ minted' \in minted..MaxTokens
         /\ tab' \in [Tabs -> Tab]
         /\ \A s \in Tabs : s # t => tab'[s] = tab[s]
         /\ tab'[t].at = "answered" /\ tab'[t].page = page
         /\ tab'[t].token \in 1..minted'
         /\ tab'[t].set \in {0, tab'[t].token}
         /\ jar # 0 => tab'[t].token = jar
         /\ jar = 0 => tab'[t].set = tab'[t].token
<1>1. CASE jar = 0
  BY <1>1, BoundsAssumption DEF EnsureCSRF, TypeOK, Tab, Token
<1>2. CASE jar # 0
  BY <1>2, BoundsAssumption DEF EnsureCSRF, TypeOK, Tab, Token
<1> QED
  BY <1>1, <1>2

LEMMA TypeKept == TypeOK /\ [Next]_vars => TypeOK'
<1> SUFFICES ASSUME TypeOK, [Next]_vars PROVE TypeOK'
  OBVIOUS
<1>0. ASSUME NEW t \in Tabs, NEW page \in BOOLEAN, EnsureCSRF(t, page),
             UNCHANGED jar, UNCHANGED clears, changes' \in Nat,
             refusals' \in [Tabs -> Nat], unread' \in [Tabs -> 0..MaxUnread]
      PROVE  TypeOK'
  <2>1. /\ minted' \in minted..MaxTokens /\ tab' \in [Tabs -> Tab]
        /\ \A s \in Tabs : s # t => tab'[s] = tab[s]
        /\ tab'[t].token \in 1..minted' /\ tab'[t].set \in {0, tab'[t].token}
    BY <1>0, AnswerHasType
  <2>2. jar \in 0..minted /\ minted \in 0..MaxTokens
    BY DEF TypeOK, Token
  <2>3. jar' \in 0..minted' /\ minted' \in Token
    BY <1>0, <2>1, <2>2, BoundsAssumption DEF Token
  <2>4. ASSUME NEW s \in Tabs, tab'[s].at = "answered"
        PROVE  tab'[s].token \in 1..minted' /\ tab'[s].set \in {0, tab'[s].token}
    <3>1. CASE s = t
      BY <2>1, <3>1
    <3>2. CASE s # t
      <4>1. tab[s].token \in 1..minted /\ tab[s].set \in {0, tab[s].token}
        BY <2>1, <2>4, <3>2 DEF TypeOK
      <4> QED
        BY <2>1, <2>2, <3>2, <4>1, BoundsAssumption
    <3> QED
      BY <3>1, <3>2
  <2> QED
    BY <1>0, <2>1, <2>3, <2>4 DEF TypeOK
<1>1. ASSUME NEW t \in Tabs, Open(t) PROVE TypeOK'
  <2>1. EnsureCSRF(t, TRUE) /\ UNCHANGED <<jar, clears, changes, refusals, unread>>
    BY <1>1 DEF Open
  <2>2. /\ changes' \in Nat /\ refusals' \in [Tabs -> Nat]
        /\ unread' \in [Tabs -> 0..MaxUnread]
    BY <2>1 DEF TypeOK
  <2> QED
    BY <1>0, <2>1, <2>2
<1>2. ASSUME NEW t \in Tabs, Arrive(t) PROVE TypeOK'
  <2>1. tab[t].token \in 1..minted /\ tab[t].set \in {0, tab[t].token} /\ tab[t] \in Tab
    BY <1>2 DEF Arrive, TypeOK
  <2>2. jar' \in 0..minted
    BY <1>2, <2>1 DEF Arrive, TypeOK, Token
  <2>3. tab' \in [Tabs -> Tab]
    <3> DEFINE form == [at |-> "form", token |-> tab[t].token, set |-> 0, page |-> TRUE]
    <3>1. form \in Tab
      BY <2>1, BoundsAssumption DEF Tab, Token
    <3>2. tab' = [tab EXCEPT ![t] = IF tab[t].page THEN form ELSE Blank]
      BY <1>2 DEF Arrive
    <3> HIDE DEF form
    <3> QED
      BY <3>1, <3>2, BlankHasType DEF TypeOK
  <2>4. tab'[t].at # "answered"
    BY <1>2, <2>1 DEF Arrive, TypeOK, Tab, Blank
  <2> QED
    BY <1>2, <2>2, <2>3, <2>4 DEF Arrive, TypeOK
<1>3. ASSUME NEW t \in Tabs, Lose(t) \/ Accept(t) \/ RefuseWithText(t)
      PROVE  TypeOK'
  <2>1. /\ tab' = [tab EXCEPT ![t] = Blank]
        /\ UNCHANGED <<jar, minted, clears, changes>>
        /\ refusals' \in [Tabs -> Nat] /\ unread' \in [Tabs -> 0..MaxUnread]
    BY <1>3, RefusalHasType DEF Lose, Accept, RefuseWithText, TypeOK
  <2>2. tab' \in [Tabs -> Tab]
    BY <2>1, BlankHasType DEF TypeOK
  <2>3. \A s \in Tabs : tab'[s] = IF s = t THEN Blank ELSE tab[s]
    BY <2>1 DEF TypeOK
  <2> QED
    BY <2>1, <2>2, <2>3, BlankHasType DEF TypeOK
<1>4. ASSUME NEW t \in Tabs, RefuseWithForm(t) PROVE TypeOK'
  <2>1. PICK page \in BOOLEAN : EnsureCSRF(t, page)
    BY <1>4 DEF RefuseWithForm
  <2>2. /\ UNCHANGED jar /\ UNCHANGED clears /\ changes' \in Nat
        /\ refusals' \in [Tabs -> Nat] /\ unread' \in [Tabs -> 0..MaxUnread]
    BY <1>4, RefusalHasType DEF RefuseWithForm, TypeOK
  <2> QED
    BY <1>0, <2>1, <2>2
<1>5. CASE Clear
  <2>1. jar' = 0 /\ clears' = clears + 1 /\ clears < MaxClears /\ changes' = changes + 1
        /\ UNCHANGED <<tab, minted, refusals, unread>>
    BY <1>5 DEF Clear
  <2>2. clears' \in 0..MaxClears /\ changes' \in Nat /\ minted \in Nat
    BY <2>1, BoundsAssumption DEF TypeOK, Token
  <2> QED
    BY <2>1, <2>2 DEF TypeOK
<1>6. CASE UNCHANGED vars
  BY <1>6 DEF vars, TypeOK
<1> QED
  BY <1>1, <1>2, <1>3, <1>4, <1>5, <1>6 DEF Next

-----------------------------------------------------------------------------
LEMMA PaidKept == LInv /\ [Next]_vars => \A t \in Tabs : Paid(t)'
<1> SUFFICES ASSUME LInv, [Next]_vars, NEW s \in Tabs PROVE Paid(s)'
  OBVIOUS
<1> USE DEF LInv
<1>0. /\ TypeOK /\ Paid(s) /\ changes \in Nat /\ refusals[s] \in Nat /\ unread[s] \in Nat
      /\ jar \in Nat
  BY BoundsAssumption DEF TypeOK
<1>1. ASSUME NEW t \in Tabs, NEW page \in BOOLEAN, EnsureCSRF(t, page), UNCHANGED jar
      PROVE  /\ ~Doomed(t)'
             /\ s # t => (Doomed(s)' <=> Doomed(s))
  <2>1. /\ tab'[t].at = "answered"
        /\ tab'[t].set \in {0, tab'[t].token} /\ tab'[t].token \in 1..minted'
        /\ jar # 0 => tab'[t].token = jar
        /\ jar = 0 => tab'[t].set = tab'[t].token
        /\ \A r \in Tabs : r # t => tab'[r] = tab[r]
    BY <1>0, <1>1, AnswerHasType
  <2> QED
    BY <1>1, <2>1 DEF Doomed
<1>2. ASSUME NEW t \in Tabs, Open(t) PROVE Paid(s)'
  <2>1. EnsureCSRF(t, TRUE) /\ UNCHANGED <<jar, clears, changes, refusals, unread>>
    BY <1>2 DEF Open
  <2>2. Doomed(s)' => Doomed(s)
    BY <1>1, <2>1
  <2> QED
    BY <1>0, <2>1, <2>2 DEF Paid
<1>3. ASSUME NEW t \in Tabs, Arrive(t) PROVE Paid(s)'
  <2>1. /\ tab[t].token \in 1..minted /\ tab[t].set \in {0, tab[t].token}
        /\ minted \in Nat
    BY <1>0, <1>3 DEF Arrive, TypeOK, Token
  <2>2. CASE s = t
    <3>1. Doomed(t)' => Doomed(t)
      BY <1>0, <1>3, <2>1 DEF Arrive, Doomed, TypeOK, Tab, Blank
    <3> QED
      BY <1>0, <1>3, <2>2, <3>1 DEF Arrive, Paid
  <2>3. CASE s # t
    <3>1. tab'[s] = tab[s] /\ refusals'[s] = refusals[s]
      BY <1>0, <1>3, <2>3 DEF Arrive, TypeOK
    <3>2. CASE jar = 0
      <4>1. tab[s].at = "answered" => tab[s].token # 0
        BY <1>0 DEF TypeOK
      <4>2. Doomed(s)' => Doomed(s)
        BY <3>1, <3>2, <4>1 DEF Doomed
      <4> QED
        BY <1>0, <1>3, <3>1, <3>2, <4>2 DEF Arrive, Paid
    <3>3. CASE jar' = jar
      BY <1>0, <1>3, <3>1, <3>3 DEF Arrive, Paid, Doomed
    <3>4. CASE jar # 0 /\ jar' # jar
      BY <1>0, <1>3, <3>1, <3>4 DEF Arrive, Paid
    <3> QED
      BY <3>2, <3>3, <3>4
  <2> QED
    BY <2>2, <2>3
<1>4. ASSUME NEW t \in Tabs, Lose(t) \/ Accept(t) PROVE Paid(s)'
  <2>1. /\ tab' = [tab EXCEPT ![t] = Blank]
        /\ UNCHANGED <<jar, changes, refusals, unread>>
    BY <1>4 DEF Lose, Accept
  <2>2. tab'[s] \in {tab[s], Blank}
    BY <1>0, <2>1 DEF TypeOK
  <2>3. Doomed(s)' => Doomed(s)
    BY <2>1, <2>2 DEF Doomed, Blank
  <2> QED
    BY <1>0, <2>1, <2>3 DEF Paid
<1>5. ASSUME NEW t \in Tabs, Refuse(t), ~Doomed(t)',
             s # t => (Doomed(s)' <=> Doomed(s))
      PROVE  Paid(s)'
  <2>1. PICK read \in BOOLEAN :
          /\ ~VerifyCSRF(FormToken(t, read))
          /\ unread' = IF read THEN unread ELSE [unread EXCEPT ![t] = @ + 1]
    BY <1>5 DEF Refuse
  <2>2. tab[t].at = "form" /\ refusals' = [refusals EXCEPT ![t] = @ + 1] /\ changes' = changes
    BY <1>5 DEF Refuse
  <2>3. unread \in [Tabs -> 0..MaxUnread] /\ refusals \in [Tabs -> Nat]
    BY <1>0 DEF TypeOK
  <2>4. CASE s # t
    BY <1>0, <1>5, <2>1, <2>2, <2>3, <2>4 DEF Paid
  <2>5. CASE s = t /\ read
    <3>1. Doomed(s)
      BY <2>1, <2>2, <2>5 DEF Doomed, VerifyCSRF, FormToken
    <3> QED
      BY <1>0, <1>5, <2>1, <2>2, <2>3, <2>5, <3>1 DEF Paid
  <2>6. CASE s = t /\ ~read
    BY <1>0, <1>5, <2>1, <2>2, <2>3, <2>6, BoundsAssumption DEF Paid
  <2> QED
    BY <2>4, <2>5, <2>6
<1>6. ASSUME NEW t \in Tabs, RefuseWithForm(t) PROVE Paid(s)'
  <2>1. PICK page \in BOOLEAN : EnsureCSRF(t, page)
    BY <1>6 DEF RefuseWithForm
  <2> QED
    BY <1>1, <1>5, <1>6, <2>1 DEF RefuseWithForm, Refuse
<1>7. ASSUME NEW t \in Tabs, RefuseWithText(t) PROVE Paid(s)'
  <2>1. ~Doomed(t)' /\ (s # t => (Doomed(s)' <=> Doomed(s)))
    BY <1>0, <1>7 DEF RefuseWithText, Refuse, Doomed, TypeOK, Tab, Blank
  <2> QED
    BY <1>5, <1>7, <2>1 DEF RefuseWithText
<1>8. CASE Clear
  BY <1>0, <1>8 DEF Clear, Paid
<1>9. CASE UNCHANGED vars
  BY <1>0, <1>9 DEF vars, Paid, Doomed
<1> QED
  BY <1>2, <1>3, <1>4, <1>6, <1>7, <1>8, <1>9 DEF Next

(* However tabs, pages and clears interleave, the jar holds a token that   *)
(* was minted and every page's answer carries one (EnsureCSRF).            *)
THEOREM TypeCorrect == Spec => []TypeOK
  BY TypeInitially, TypeKept, PTL DEF Spec

(* However the tabs' pages and answers cross, a form of this server is     *)
(* refused at most as often as the browser's cookie went away, and once    *)
(* for every form whose body was not read (EnsureCSRF, VerifyCSRF).        *)
THEOREM RefusalsPaid == Spec => []RefusalsArePaidFor
<1>1. Init => LInv
  BY TypeInitially DEF Init, LInv, Paid, Doomed, Blank
<1>2. LInv /\ [Next]_vars => LInv'
  BY TypeKept, PaidKept DEF LInv
<1>3. LInv => RefusalsArePaidFor
  BY DEF LInv, TypeOK, Paid, RefusalsArePaidFor
<1> QED
  BY <1>1, <1>2, <1>3, PTL DEF Spec

-----------------------------------------------------------------------------
(* The answers on their way that will overwrite the cookie.                *)
Overwriting == {t \in Tabs : tab[t].at = "answered" /\ tab[t].set # 0}

N == Cardinality(Tabs)

(* While there is a cookie no answer that sets one is made, so those on    *)
(* their way, one less than the tabs at most once the first has arrived,   *)
(* bound the overwrites still to come; a clear pays for a whole round.     *)
Settling ==
  IF jar = 0 THEN changes <= clears * N
  ELSE changes + Cardinality(Overwriting) <= clears * N + N - 1

SInv == TypeOK /\ Settling

LEMMA Overwriters ==
  /\ IsFiniteSet(Overwriting) /\ Cardinality(Overwriting) \in 0..N /\ N \in Nat \ {0}
  /\ Overwriting \subseteq Tabs
<1>1. Overwriting \subseteq Tabs
  BY DEF Overwriting
<1>2. N \in Nat \ {0}
  BY TabsAssumption, FS_CardinalityType, FS_EmptySet DEF N
<1>3. IsFiniteSet(Overwriting) /\ Cardinality(Overwriting) <= N
  BY <1>1, TabsAssumption, FS_Subset DEF N
<1> QED
  BY <1>1, <1>2, <1>3, FS_CardinalityType

LEMMA SettlingKept == SInv /\ [Next]_vars => Settling'
<1> SUFFICES ASSUME SInv, [Next]_vars PROVE Settling'
  OBVIOUS
<1>0. TypeOK /\ Settling /\ jar \in Nat /\ changes \in Nat /\ clears \in Nat
  BY DEF SInv, TypeOK
<1>a. /\ N \in Nat \ {0} /\ Cardinality(Overwriting) \in 0..N
      /\ IsFiniteSet(Overwriting)
  BY Overwriters
<1>b. clears * N \in Nat /\ (clears + 1) * N = clears * N + N
  BY <1>0, <1>a
<1>c. IsFiniteSet(Overwriting') /\ Cardinality(Overwriting') \in Nat
  <2>1. Overwriting' \subseteq Tabs
    BY DEF Overwriting
  <2> QED
    BY <2>1, TabsAssumption, FS_Subset, FS_CardinalityType
<1>d. ASSUME UNCHANGED <<jar, changes, clears>>, jar # 0 => Overwriting' \subseteq Overwriting
      PROVE  Settling'
  <2>1. CASE jar = 0
    BY <1>0, <1>d, <2>1 DEF Settling
  <2>2. CASE jar # 0
    <3>1. Cardinality(Overwriting') <= Cardinality(Overwriting)
      BY <1>d, <2>2, Overwriters, FS_Subset
    <3> QED
      BY <1>0, <1>a, <1>b, <1>c, <1>d, <2>2, <3>1 DEF Settling
  <2> QED
    BY <2>1, <2>2
<1>e. ASSUME NEW t \in Tabs, NEW page \in BOOLEAN, EnsureCSRF(t, page), jar # 0
      PROVE  Overwriting' \subseteq Overwriting
  <2>1. tab'[t].set = 0
    BY <1>0, <1>e DEF EnsureCSRF, TypeOK
  <2>2. \A s \in Tabs : s # t => tab'[s] = tab[s]
    BY <1>0, <1>e, AnswerHasType
  <2> QED
    BY <2>1, <2>2 DEF Overwriting
<1>1. ASSUME NEW t \in Tabs, Open(t) PROVE Settling'
  <2>1. EnsureCSRF(t, TRUE) /\ UNCHANGED <<jar, clears, changes, refusals, unread>>
    BY <1>1 DEF Open
  <2> QED
    BY <1>d, <1>e, <2>1
<1>2. ASSUME NEW t \in Tabs, Arrive(t) PROVE Settling'
  <2>1. tab[t].token \in 1..minted /\ tab[t].set \in {0, tab[t].token} /\ minted \in Nat
    BY <1>0, <1>2 DEF Arrive, TypeOK, Token
  <2>2. /\ tab'[t].at # "answered" /\ \A s \in Tabs : s # t => tab'[s] = tab[s]
    BY <1>0, <1>2, BlankHasType DEF Arrive, TypeOK
  <2>3. Overwriting' = Overwriting \ {t}
    BY <2>2 DEF Overwriting
  <2>4. CASE tab[t].set = 0
    <3>1. UNCHANGED <<jar, changes, clears>>
      BY <1>0, <1>2, <2>4 DEF Arrive
    <3> QED
      BY <1>d, <2>3, <3>1
  <2>5. CASE tab[t].set # 0
    <3>1. t \in Overwriting
      BY <1>2, <2>5 DEF Arrive, Overwriting
    <3>2. Cardinality(Overwriting') = Cardinality(Overwriting) - 1
      BY <1>a, <2>3, <3>1, FS_RemoveElement
    <3>3. jar' # 0 /\ clears' = clears /\ changes' \in Nat
          /\ changes' <= changes + 1 /\ (jar = 0 => changes' = changes)
      BY <1>0, <1>2, <2>1, <2>5 DEF Arrive
    <3>4. changes' + Cardinality(Overwriting') <= clears * N + N - 1
      BY <1>0, <1>a, <1>b, <1>c, <3>2, <3>3 DEF Settling
    <3> QED
      BY <3>3, <3>4 DEF Settling
  <2> QED
    BY <2>4, <2>5
<1>3. ASSUME NEW t \in Tabs, Lose(t) \/ Accept(t) \/ RefuseWithText(t)
      PROVE  Settling'
  <2>1. /\ tab' = [tab EXCEPT ![t] = Blank] /\ UNCHANGED <<jar, changes, clears>>
    BY <1>3 DEF Lose, Accept, Refuse, RefuseWithText
  <2>2. \A s \in Tabs : tab'[s] = IF s = t THEN Blank ELSE tab[s]
    BY <1>0, <2>1 DEF TypeOK
  <2>3. Overwriting' \subseteq Overwriting
    BY <2>2, BlankHasType DEF Overwriting
  <2> QED
    BY <1>d, <2>1, <2>3
<1>4. ASSUME NEW t \in Tabs, RefuseWithForm(t) PROVE Settling'
  <2>1. PICK page \in BOOLEAN : EnsureCSRF(t, page)
    BY <1>4 DEF RefuseWithForm
  <2>2. UNCHANGED <<jar, clears, changes>>
    BY <1>4 DEF RefuseWithForm, Refuse
  <2> QED
    BY <1>d, <1>e, <2>1, <2>2
<1>5. CASE Clear
  <2>1. jar # 0 /\ jar' = 0 /\ clears' = clears + 1 /\ changes' = changes + 1
    BY <1>5 DEF Clear
  <2>2. changes' <= (clears + 1) * N
    BY <1>0, <1>a, <1>b, <2>1 DEF Settling
  <2> QED
    BY <2>1, <2>2 DEF Settling
<1>6. CASE UNCHANGED vars
  BY <1>d, <1>6 DEF vars, Overwriting
<1> QED
  BY <1>1, <1>2, <1>3, <1>4, <1>5, <1>6 DEF Next

(* Tabs that loaded their first page together overwrite each other's       *)
(* cookie at most once each; from then on the cookie stays until it is     *)
(* cleared (EnsureCSRF keeps the token it finds).                          *)
THEOREM CookieSettles == Spec => []TokensSettle
<1>1. Init => SInv
  BY TypeInitially, Overwriters DEF Init, SInv, Settling
<1>2. SInv /\ [Next]_vars => SInv'
  BY TypeKept, SettlingKept DEF SInv
<1>3. SInv => TokensSettle
  <2> SUFFICES ASSUME SInv PROVE TokensSettle
    OBVIOUS
  <2>1. changes \in Nat /\ clears \in Nat
    BY DEF SInv, TypeOK
  <2>2. /\ N \in Nat \ {0} /\ Cardinality(Overwriting) \in Nat
    BY Overwriters
  <2>3. clears + (clears + 1) * (N - 1) = clears * N + N - 1
    BY <2>1, <2>2
  <2>4. clears * N \in Nat
    BY <2>1, <2>2
  <2>5. changes <= clears * N + N - 1
    BY <2>1, <2>2, <2>4 DEF SInv, Settling
  <2> QED
    BY <2>3, <2>5 DEF TokensSettle, N
<1> QED
  BY <1>1, <1>2, <1>3, PTL DEF Spec

=============================================================================
