-------------------------------- MODULE Csrf --------------------------------
(***************************************************************************)
(* The double-submit CSRF token of auth/session.go in one browser whose    *)
(* tabs load and send forms at the same time.  The server keeps no state:  *)
(* a page carries the token of the cookie its request came with, or a new  *)
(* one that its answer also sets as the cookie, and a form is accepted     *)
(* when its token is the cookie's.  Answers arrive in any order, so the    *)
(* cookie of one can take the place of another's.                          *)
(*                                                                         *)
(* A handler that refuses a form answers with the form again (uploads),    *)
(* which the upload page's script only reads for its error text, or with a *)
(* line of text (login, setup, logout, delete, download).  Either way the  *)
(* user loads the page again, as the error asks for.                       *)
(*                                                                         *)
(* A body that cannot be read to its end (too large, cut, no room for its  *)
(* temporary file) leaves the server with an empty form: the error of      *)
(* ParseMultipartForm is ignored (uploads.go:86), and so is that inside    *)
(* FormValue (session.go:220).                                             *)
(*                                                                         *)
(* A definition named after the one right below it is a plausible bug in   *)
(* that definition.                                                        *)
(***************************************************************************)
EXTENDS Integers, FiniteSets

CONSTANTS
  Tabs,       \* tabs of the browser, each waiting for one answer at a time
  MaxTokens,  \* bound: tokens handed out
  MaxClears,  \* bound: times the cookie is cleared or expires
  MaxUnread   \* bound: forms of a tab that cannot be read

ASSUME TabsAssumption == IsFiniteSet(Tabs) /\ Tabs # {}
ASSUME BoundsAssumption == {MaxTokens, MaxClears, MaxUnread} \subseteq Nat

VARIABLES
  jar,       \* the csrf_token cookie, 0 for none
  tab,       \* what a tab shows or waits for
  minted,    \* tokens handed out: every Encode gives a new one
  clears,    \* times the cookie was cleared so far
  changes,   \* history: times the cookie the browser had went away
  refusals,  \* history: forms that were refused, by tab
  unread     \* history: forms among them that could not be read, by tab

vars == <<jar, tab, minted, clears, changes, refusals, unread>>

Token == 0..MaxTokens

(* An answer on its way carries the token of its form, the cookie it sets  *)
(* (0: none), and becomes the tab's page unless a script reads it.         *)
Tab == [at : {"blank", "answered", "form"}, token : Token, set : Token, page : BOOLEAN]

Blank == [at |-> "blank", token |-> 0, set |-> 0, page |-> FALSE]

TypeOK ==
  /\ jar \in 0..minted
  /\ tab \in [Tabs -> Tab]
  /\ \A t \in Tabs : tab[t].at = "answered" => /\ tab[t].token \in 1..minted
                                              /\ tab[t].set \in {0, tab[t].token}
  /\ minted \in Token
  /\ clears \in 0..MaxClears
  /\ changes \in Nat
  /\ refusals \in [Tabs -> Nat]
  /\ unread \in [Tabs -> 0..MaxUnread]

Init ==
  /\ jar = 0
  /\ tab = [t \in Tabs |-> Blank]
  /\ minted = 0 /\ clears = 0 /\ changes = 0
  /\ refusals = [t \in Tabs |-> 0]
  /\ unread = [t \in Tabs |-> 0]

-----------------------------------------------------------------------------
(* The server                                                              *)

EnsureCSRFReturningOld(t, page) ==
  /\ jar = 0 => minted < MaxTokens
  /\ minted' = IF jar = 0 THEN minted + 1 ELSE minted
  /\ tab' = [tab EXCEPT ![t] = [at |-> "answered", token |-> jar, page |-> page,
                                set |-> IF jar = 0 THEN minted' ELSE 0]]

EnsureCSRFUnset(t, page) ==
  /\ minted < MaxTokens
  /\ minted' = minted + 1
  /\ tab' = [tab EXCEPT ![t] = [at |-> "answered", token |-> minted', page |-> page,
                                set |-> IF jar = 0 THEN minted' ELSE 0]]

EnsureCSRFRenewing(t, page) ==
  /\ minted < MaxTokens
  /\ minted' = minted + 1
  /\ tab' = [tab EXCEPT ![t] = [at |-> "answered", token |-> minted', page |-> page,
                                set |-> minted']]

EnsureCSRF(t, page) ==
  /\ jar = 0 => minted < MaxTokens
  /\ minted' = IF jar = 0 THEN minted + 1 ELSE minted
  /\ tab' = [tab EXCEPT ![t] =
       IF jar = 0
       THEN [at |-> "answered", token |-> minted', page |-> page, set |-> minted']
       ELSE [at |-> "answered", token |-> jar, page |-> page, set |-> 0]]

(* The token of a form, empty if its body was not read.                    *)
FormToken(t, read) == IF read THEN tab[t].token ELSE 0

VerifyCSRF(token) == jar # 0 /\ token # 0 /\ token = jar

-----------------------------------------------------------------------------
(* The browser                                                             *)

Open(t) ==
  /\ tab[t].at # "answered"
  /\ EnsureCSRF(t, TRUE)
  /\ UNCHANGED <<jar, clears, changes, refusals, unread>>

Arrive(t) ==
  /\ tab[t].at = "answered"
  /\ jar' = IF tab[t].set = 0 THEN jar ELSE tab[t].set
  /\ changes' = IF jar \notin {0, jar'} THEN changes + 1 ELSE changes
  /\ tab' = [tab EXCEPT ![t] =
       IF @.page THEN [at |-> "form", token |-> @.token, set |-> 0, page |-> TRUE]
                 ELSE Blank]
  /\ UNCHANGED <<minted, clears, refusals, unread>>

Lose(t) ==
  /\ tab[t].at = "answered"
  /\ tab' = [tab EXCEPT ![t] = Blank]
  /\ UNCHANGED <<jar, minted, clears, changes, refusals, unread>>

(* A form is sent with the cookie of that moment, which an accepted form   *)
(* leaves as it is.  A script's request that keeps its page is no step.    *)
Accept(t) ==
  /\ tab[t].at = "form"
  /\ VerifyCSRF(FormToken(t, TRUE))
  /\ tab' = [tab EXCEPT ![t] = Blank]
  /\ UNCHANGED <<jar, minted, clears, changes, refusals, unread>>

Refuse(t) ==
  /\ tab[t].at = "form"
  /\ \E read \in BOOLEAN :
       /\ ~VerifyCSRF(FormToken(t, read))
       /\ read \/ unread[t] < MaxUnread
       /\ unread' = IF read THEN unread ELSE [unread EXCEPT ![t] = @ + 1]
  /\ refusals' = [refusals EXCEPT ![t] = @ + 1]
  /\ UNCHANGED <<jar, clears, changes>>

RefuseWithForm(t) ==
  /\ Refuse(t)
  /\ \E page \in BOOLEAN : EnsureCSRF(t, page)

RefuseWithText(t) ==
  /\ Refuse(t)
  /\ tab' = [tab EXCEPT ![t] = Blank]
  /\ UNCHANGED minted

Clear ==
  /\ jar # 0 /\ clears < MaxClears
  /\ jar' = 0
  /\ clears' = clears + 1
  /\ changes' = changes + 1
  /\ UNCHANGED <<tab, minted, refusals, unread>>

Next ==
  \/ \E t \in Tabs :
       \/ Open(t) \/ Arrive(t) \/ Lose(t)
       \/ Accept(t) \/ RefuseWithForm(t) \/ RefuseWithText(t)
  \/ Clear

Spec == Init /\ [][Next]_vars

-----------------------------------------------------------------------------
(* "Tokens are ensured on form-rendering pages and verified on POSTs"      *)
(* (README.md:104): a form of this server that could be read is refused    *)
(* only because the cookie its page was made for has gone since, and each  *)
(* such loss costs a tab one refusal at most.                              *)
RefusalsArePaidFor == \A t \in Tabs : refusals[t] <= changes + unread[t]

(* Tabs that load their first page at the same time get a token each and   *)
(* overwrite each other's cookie; that ends once those pages have arrived, *)
(* until the cookie is cleared again.                                      *)
TokensSettle == changes <= clears + (clears + 1) * (Cardinality(Tabs) - 1)

=============================================================================
