--------------------------- MODULE FireflyAccounts ---------------------------
(***************************************************************************)
(* The asset account of a bank account in Firefly III, and its opening     *)
(* balance: GetOrCreateAccount and SetOpeningBalance of                    *)
(* src/firefly/store.go, one step per request, as a run, a review and the  *)
(* opening-balance page call them, one after another.                      *)
(*                                                                         *)
(* The user renames, opens, deletes and re-labels asset accounts at any    *)
(* moment.  The server keeps names and IBANs of asset accounts unique, as  *)
(* the comment of GetOrCreateAccount says Firefly does (the fixture checks *)
(* IBANs on an update only).  Currencies do not change.                    *)
(***************************************************************************)
EXTENDS Naturals

Blank == ""   \* a text that is absent

CONSTANTS
    Banks,               \* the bank accounts
    SpecOf,              \* the budget.AccountSpec of each: runName, pageName, iban,
                         \* currency
    AccountNames, IBANs, \* of asset accounts; without Blank
    Figures,             \* opening balances, none of them 0
    Within(_, _),        \* one text is part of another
    MaxAccountTrouble,   \* bound: answers lost
    MaxAccountEdits      \* bound: changes the user makes

ASSUME AccountsAssumption ==
    /\ Banks # {} /\ Blank \notin IBANs
    /\ Figures \subseteq Nat \ {0}
    /\ \A b \in Banks : SpecOf[b] \in [runName : AccountNames, pageName : AccountNames,
                                       iban : IBANs \cup {Blank}, currency : {SpecOf[b].currency}]
    /\ \A iban \in IBANs : Within(iban, iban)
    /\ {MaxAccountTrouble, MaxAccountEdits} \subseteq Nat

VARIABLES
    assets,              \* the asset accounts there are
    nextAsset,
    call,                \* the resolution or opening balance under way
    openingState,        \* OpeningBalanceState of each bank account
    \* History: the account a bank account was settled in under its IBAN, and
    \* whether the user set the opening balance since it was read.
    home, userSet,
    accountTrouble, accountEdits

serverState == <<assets, nextAsset>>
accountBounds == <<accountTrouble, accountEdits>>
accountVars == <<serverState, call, openingState, home, userSet, accountBounds>>

NoAsset == [id |-> 0, name |-> Blank, iban |-> Blank, currency |-> Blank, opening |-> 0]
NoCall == [step |-> "off", bank |-> CHOOSE b \in Banks : TRUE, name |-> Blank, found |-> NoAsset,
           figure |-> 0]

IsAsset(i) == \E a \in assets : a.id = i
Asset(i) == CHOOSE a \in assets : a.id = i
Wanted == SpecOf[call.bank]

Steps == {"off", "iban", "name", "adopt", "create", "have", "read", "set"}
Currencies == {SpecOf[b].currency : b \in Banks}
AssetType == [id : Nat, name : AccountNames \cup {Blank}, iban : IBANs \cup {Blank},
              currency : Currencies \cup {Blank}, opening : Figures \cup {0}]

\* The server's accounts are told apart by their ids, and by their IBANs where
\* they have one.
ServerTypeOK ==
    /\ assets \subseteq AssetType /\ nextAsset \in Nat \ {0}
    /\ \A a \in assets : a.id \in 1..(nextAsset - 1)
    /\ \A a, c \in assets : (a.id = c.id \/ (a.iban = c.iban /\ a.iban # Blank)) => a = c

CallTypeOK ==
    /\ call \in [step : Steps, bank : Banks, name : AccountNames \cup {Blank}, found : AssetType,
                 figure : Figures \cup {0}]
    /\ openingState \in [Banks -> {"auto", "writing", "written"}]
    /\ call.step \in {"read", "set"} => openingState[call.bank] = "writing"

AccountsTypeOK ==
    /\ ServerTypeOK
    /\ CallTypeOK
    /\ home \in [Banks -> 0..(nextAsset - 1)] /\ userSet \in BOOLEAN
    /\ accountTrouble \in 0..MaxAccountTrouble /\ accountEdits \in 0..MaxAccountEdits

-----------------------------------------------------------------------------
(* The server.                                                             *)

NameTaken(name) == \E a \in assets : a.name = name
IbanTaken(iban, i) ==
    iban # Blank /\ \E a \in assets : a.iban = iban /\ a.id # i

Opened(name, iban, currency) ==
    [id |-> nextAsset, name |-> name, iban |-> iban, currency |-> currency, opening |-> 0]
AddAccount(asset) == /\ assets' = assets \cup {asset}
                     /\ nextAsset' = nextAsset + 1

Submit(asset) == /\ assets' = {a \in assets : a.id # asset.id} \cup {asset}
                 /\ UNCHANGED nextAsset

\* A search finds the accounts in which the text occurs.
Searched(field, text) ==
    {a \in assets : a[field] # Blank /\ text # Blank /\ Within(text, a[field])}

-----------------------------------------------------------------------------
(* The user.                                                               *)

AccountEdit == /\ accountEdits < MaxAccountEdits
               /\ accountEdits' = accountEdits + 1
               /\ UNCHANGED <<call, openingState, accountTrouble>>

\* Taking the IBAN off an account ends what was settled under it.
Unsettle(i) == home' = [b \in Banks |-> IF home[b] = i THEN 0 ELSE home[b]]

RenameAccount(a, name) ==
    /\ AccountEdit /\ ~NameTaken(name)
    /\ Submit([a EXCEPT !.name = name])
    /\ UNCHANGED <<home, userSet>>

SetsIBAN(a, iban) ==
    /\ AccountEdit /\ a.iban # iban /\ ~IbanTaken(iban, a.id)
    /\ Submit([a EXCEPT !.iban = iban])
    /\ Unsettle(a.id)
    /\ UNCHANGED userSet

SetsOpening(a, figure) ==
    /\ AccountEdit /\ a.opening # figure
    /\ Submit([a EXCEPT !.opening = figure])
    /\ userSet' = (userSet \/ (call.step = "set" /\ call.found.id = a.id))
    /\ UNCHANGED home

OpensAccount(name, iban, currency) ==
    /\ AccountEdit /\ ~NameTaken(name) /\ ~IbanTaken(iban, 0)
    /\ AddAccount(Opened(name, iban, currency))
    /\ UNCHANGED <<home, userSet>>

DeletesAccount(a) ==
    /\ AccountEdit
    /\ assets' = assets \ {a}
    /\ Unsettle(a.id)
    /\ UNCHANGED <<nextAsset, userSet>>

-----------------------------------------------------------------------------
(* GetOrCreateAccount.                                                     *)

\* Where the row of a bank account names no budget account, the sync and the
\* pages ask for different names.
FallbackAccountName(b) == SpecOf[b].runName
BudgetAccountName(b) == SpecOf[b].pageName

ResolveBegins(b, name) ==
    /\ call.step = "off"
    /\ call' = [NoCall EXCEPT !.bank = b, !.name = name,
                              !.step = IF SpecOf[b].iban = Blank THEN "name" ELSE "iban"]
    /\ UNCHANGED <<serverState, openingState, home, userSet, accountBounds>>

\* The hit that is exactly what was asked for.
PickAsset(field, text) ==
    LET exact == {a \in Searched(field, text) : a[field] = text}
    IN  IF exact = {} THEN NoAsset ELSE CHOOSE a \in exact : TRUE

SameCurrency(asset) ==
    Wanted.currency = Blank \/ asset.currency = Blank \/ asset.currency = Wanted.currency

\* confirmCurrency.
ConfirmCurrency(asset) ==
    call' = IF SameCurrency(asset) THEN [call EXCEPT !.step = "have", !.found = asset] ELSE NoCall

Settles(asset) ==
    home' = IF Wanted.iban # Blank /\ asset.iban = Wanted.iban /\ home[call.bank] = 0
            THEN [home EXCEPT ![call.bank] = asset.id] ELSE home

SearchedByIBAN ==
    /\ call.step = "iban"
    /\ LET hit == PickAsset("iban", Wanted.iban)
       IN  IF hit = NoAsset THEN call' = [call EXCEPT !.step = "name"] /\ UNCHANGED home
           ELSE /\ ConfirmCurrency(hit)
                /\ IF SameCurrency(hit) THEN Settles(hit) ELSE UNCHANGED home
    /\ UNCHANGED <<serverState, openingState, userSet, accountBounds>>

\* Adopting is for a match that carries no IBAN.
AdoptsAny(hit) == Wanted.iban # Blank
Adopts(hit) == Wanted.iban # Blank /\ hit.iban = Blank

SearchedByName ==
    /\ call.step = "name"
    /\ LET hit == PickAsset("name", call.name)
       IN  CASE hit = NoAsset -> call' = [call EXCEPT !.step = "create"]
             [] hit # NoAsset /\ Adopts(hit) -> call' = [call EXCEPT !.step = "adopt", !.found = hit]
             [] OTHER -> ConfirmCurrency(hit)
    /\ UNCHANGED <<serverState, openingState, home, userSet, accountBounds>>

\* adoptIBAN: whatever becomes of the write, the account is used.  The IBAN
\* there may be by now is overwritten.
AdoptTaken == IsAsset(call.found.id) /\ ~IbanTaken(Wanted.iban, call.found.id)
Adopted == [Asset(call.found.id) EXCEPT !.iban = Wanted.iban]

AdoptAnswered ==
    /\ call.step = "adopt"
    /\ IF AdoptTaken
       THEN /\ Submit(Adopted)
            /\ Settles(Adopted)
       ELSE UNCHANGED <<serverState, home>>
    /\ ConfirmCurrency(call.found)
    /\ UNCHANGED <<openingState, userSet, accountBounds>>

\* The answer to the last attempt is lost; the write may have been made.
Lost == /\ accountTrouble < MaxAccountTrouble
        /\ accountTrouble' = accountTrouble + 1
        /\ UNCHANGED accountEdits

AdoptLost ==
    /\ call.step = "adopt" /\ Lost
    /\ \/ UNCHANGED <<serverState, home>>
       \/ /\ AdoptTaken
          /\ Submit(Adopted)
          /\ Settles(Adopted)
    /\ ConfirmCurrency(call.found)
    /\ UNCHANGED <<openingState, userSet>>

\* The account opened carries the IBAN from the first.
Posted == Opened(call.name, Wanted.iban, Wanted.currency)
CreateRefused == NameTaken(call.name) \/ IbanTaken(Wanted.iban, 0)

CreateAnswered ==
    /\ call.step = "create"
    /\ IF CreateRefused THEN call' = NoCall /\ UNCHANGED <<serverState, home>>
       ELSE /\ AddAccount(Posted)
            /\ Settles(Posted)
            /\ call' = [call EXCEPT !.step = "have", !.found = Posted]
    /\ UNCHANGED <<openingState, userSet, accountBounds>>

\* A POST is not sent again.
CreateLost ==
    /\ call.step = "create" /\ Lost
    /\ \/ UNCHANGED <<serverState, home>>
       \/ /\ ~CreateRefused
          /\ AddAccount(Posted)
          /\ Settles(Posted)
    /\ call' = NoCall
    /\ UNCHANGED <<openingState, userSet>>

-----------------------------------------------------------------------------
(* The opening balance, once per bank account.                             *)

\* Nothing is left to do for the account, or the figure is not certain yet.
Leaves ==
    /\ call.step = "have"
    /\ call' = NoCall
    /\ UNCHANGED <<serverState, openingState, home, userSet, accountBounds>>

ClaimsOpening(figure) ==
    /\ call.step = "have" /\ openingState[call.bank] = "auto"
    /\ openingState' = [openingState EXCEPT ![call.bank] = "writing"]
    /\ call' = [call EXCEPT !.step = "read", !.figure = figure]
    /\ UNCHANGED <<serverState, home, userSet, accountBounds>>

OpeningIs(state) == /\ openingState' = [openingState EXCEPT ![call.bank] = state]
                    /\ call' = NoCall

\* An opening balance that is there is left as it is.
NeverThere == FALSE
AlreadyThere == Asset(call.found.id).opening # 0

AccountRead ==
    /\ call.step = "read"
    /\ CASE ~IsAsset(call.found.id) -> OpeningIs("auto")
         [] IsAsset(call.found.id) /\ AlreadyThere -> OpeningIs("written")
         [] OTHER -> call' = [call EXCEPT !.step = "set"] /\ UNCHANGED openingState
    /\ userSet' = FALSE
    /\ UNCHANGED <<serverState, home, accountBounds>>

PutOpening == Submit([Asset(call.found.id) EXCEPT !.opening = call.figure])

OpeningAnswered ==
    /\ call.step = "set"
    /\ IF IsAsset(call.found.id) THEN PutOpening /\ OpeningIs("written")
       ELSE OpeningIs("auto") /\ UNCHANGED serverState
    /\ UNCHANGED <<home, userSet, accountBounds>>

\* Client.do sends a PUT again; the last answer lost is an error.
OpeningLost ==
    /\ call.step = "set" /\ Lost
    /\ \/ UNCHANGED serverState
       \/ IsAsset(call.found.id) /\ PutOpening
    /\ \/ UNCHANGED <<call, openingState>>
       \/ OpeningIs("auto")
    /\ UNCHANGED <<home, userSet>>

-----------------------------------------------------------------------------
AccountsInit ==
    /\ assets = {} /\ nextAsset = 1
    /\ call = NoCall
    /\ openingState = [b \in Banks |-> "auto"]
    /\ home = [b \in Banks |-> 0] /\ userSet = FALSE
    /\ accountTrouble = 0 /\ accountEdits = 0

AccountsUser ==
    \/ \E a \in assets :
          \/ DeletesAccount(a)
          \/ \E name \in AccountNames : RenameAccount(a, name)
          \/ \E iban \in IBANs \cup {Blank} : SetsIBAN(a, iban)
          \/ \E figure \in Figures \cup {0} : SetsOpening(a, figure)
    \/ \E name \in AccountNames, iban \in IBANs \cup {Blank}, b \in Banks :
          OpensAccount(name, iban, SpecOf[b].currency)

AccountsNext ==
    \/ AccountsUser
    \/ \E b \in Banks :
          \E name \in {FallbackAccountName(b), BudgetAccountName(b)} : ResolveBegins(b, name)
    \/ SearchedByIBAN
    \/ SearchedByName
    \/ AdoptAnswered
    \/ AdoptLost
    \/ CreateAnswered
    \/ CreateLost
    \/ Leaves
    \/ \E figure \in Figures : ClaimsOpening(figure)
    \/ AccountRead
    \/ OpeningAnswered
    \/ OpeningLost

AccountsSpec == AccountsInit /\ [][AccountsNext]_accountVars

-----------------------------------------------------------------------------
(* A bank account that was settled in an asset account under its IBAN is   *)
(* imported into that one and no other, and no second one is opened for    *)
(* it, whatever the accounts are renamed to and whichever answers were     *)
(* lost, until the user deletes the account or changes its IBAN            *)
(* (GetOrCreateAccount).                                                   *)
HomeStays ==
    home[call.bank] # 0 => /\ call.step # "create"
                           /\ call.step = "have" => call.found.id = home[call.bank]

\* An opening balance once in Firefly is replaced by the user only, also after
\* lost answers and new figures of the bank, unless the user set it while ours
\* was on its way (SetOpeningBalance reads, then writes).
OpeningKept ==
    [][\A a \in assets, c \in assets' :
          a.id = c.id /\ a.opening # 0 /\ accountEdits' = accountEdits
          => c.opening = a.opening \/ userSet]_accountVars
=============================================================================
