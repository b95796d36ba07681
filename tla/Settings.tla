-------------------------------- MODULE Settings --------------------------------
(***************************************************************************)
(* The settings of a household and of a user and the LLM and OCR providers *)
(* of a household (src/baskety/internal/settings), behind the middlewares  *)
(* of module Accounts, whose requests run at the same time.  Making a      *)
(* provider the default is the one transaction of the HTTP API: it clears  *)
(* the default of every row its first statement sees, changes the provider *)
(* and commits; the rows it wrote are locked until then, and a statement   *)
(* on a locked row waits (READ COMMITTED).  The other statements commit    *)
(* themselves.                                                             *)
(***************************************************************************)
EXTENDS Accounts, SettingsSQL

CONSTANTS
    LLMs, OCRs,     \* ids of the rows of the two tables
    Values,         \* values of a setting
    Bodies,         \* what a create or an update may say: see BodiesAssumption
    Stocked         \* the providers the model starts from: <<llm, ocr>>

LLMOps == {"ListLLMProviders", "CreateLLMProvider", "UpdateLLMProvider", "DeleteLLMProvider"}
OCROps == {"ListOCRProviders", "CreateOCRProvider", "UpdateOCRProvider", "DeleteOCRProvider"}
SettingOps == {"GetHouseholdSetting", "UpsertHouseholdSetting", "GetUserSetting",
               "UpsertUserSetting"}

\* name: provider as far as a check can tell; for LLMs, "" when there is no model either.
ASSUME BodiesAssumption == Bodies \subseteq [name : ProviderNames, key : BOOLEAN, default : BOOLEAN]

VARIABLES
    llm, ocr, hSettings, uSettings,     \* the tables
    tx      \* the transactions: the rows the first statement saw, the rows locked

providers == <<llm, ocr>>
settings == <<providers, hSettings, uSettings>>
vars == <<accounts, calls, removed, settings, tx>>

InTransaction == {"tx_unset", "tx_update", "tx_commit"}

\* name and key: what the request asks of the provider.
TxRecords ==
    [seen : (SUBSET LLMs) \union (SUBSET OCRs), held : (SUBSET LLMs) \union (SUBSET OCRs),
     id : LLMs \union OCRs, name : ProviderNames, key : BOOLEAN]

ASSUME SettingsAssumption ==
    /\ LLMs \intersect OCRs = {}
    /\ NoNull(ProviderRecords(Households)) /\ NoNull(TxRecords)
    /\ LLMOps \union OCROps \union SettingOps \subseteq ScopedOps
    /\ \A db \in Stocked : /\ db[1] \in [LLMs -> ProviderRecords(Households) \union {None, Gone}]
                           /\ db[2] \in [OCRs -> ProviderRecords(Households) \union {None, Gone}]

TypeOK ==
    /\ AccountsOK
    /\ llm \in [LLMs -> ProviderRecords(Households) \union {None, Gone}]
    /\ ocr \in [OCRs -> ProviderRecords(Households) \union {None, Gone}]
    /\ hSettings \in [Households -> Values \union {None}]
    /\ uSettings \in [Users -> Values \union {None}]
    /\ \A r \in Requests :
          \/ tx[r] = None /\ (calls[r] = None \/ calls[r].stage \notin InTransaction)
          \/ tx[r] \in TxRecords /\ calls[r] # None /\ calls[r].stage \in InTransaction

Init ==
    /\ AccountsInit
    /\ \E db \in Stocked : llm = db[1] /\ ocr = db[2]
    /\ hSettings = [h \in Households |-> None]
    /\ uSettings = [u \in Users |-> None]
    /\ tx = [r \in Requests |-> None]

Elsewhere == <<accounts, removed>>
Locked(r) == UNION {tx[q].held : q \in {q \in Requests \ {r} : tx[q] # None}}

--------------------------------------------------------------------------------
(* The repository.                                                          *)

\* None stands for ErrNotFound.
GetHouseholdSetting(h) == GetHouseholdSettingRow(hSettings, h)
GetUserSetting(u) == GetUserSettingRow(uSettings, u)

\* The default the receipt jobs look for; with several, any one of them.  Nothing asks for
\* the OCR one yet.
GetDefaultLLM(h) == GetDefaultLLMProvider(llm, h)
GetDefaultOCR(h) == GetDefaultOCRProvider(ocr, h)

UpsertHouseholdSetting(h, value) ==
    /\ hSettings' = UpsertHouseholdSettingRow(hSettings, h, value)
    /\ UNCHANGED <<providers, uSettings>>

UpsertUserSetting(u, value) ==
    /\ uSettings' = UpsertUserSettingRow(uSettings, u, value)
    /\ UNCHANGED <<providers, hSettings>>

\* The CHECK on provider.  Whatever the other rows of the household say of themselves.
CreateLLMProvider(p, h, a, outcome) ==
    /\ llm[p] = None
    /\ \/ /\ a.name = "known" /\ outcome = "ok"
          /\ llm' = CreateLLMProviderConfig(llm, p, h, a.key, a.default)
       \/ a.name # "known" /\ outcome = "internal" /\ UNCHANGED llm
    /\ UNCHANGED <<ocr, hSettings, uSettings>>

\* The service lets only names pass that pass the CHECK as well.
CreateOCRProvider(p, h, a, outcome) ==
    /\ ocr[p] = None /\ a.name = "known" /\ outcome = "ok"
    /\ ocr' = CreateOCRProviderConfig(ocr, p, h, a.key, a.default)
    /\ UNCHANGED <<llm, hSettings, uSettings>>

\* One statement, when the provider is not to be the default.
UpdateLLMProvider(r, p, a, outcome) ==
    /\ p \notin Locked(r)
    /\ \/ /\ p \in Own(llm, calls[r].household) /\ a.name = "known" /\ outcome = "ok"
          /\ llm' = UpdateLLMProviderRow(llm, p, a.key, FALSE)
       \/ /\ p \in Own(llm, calls[r].household) /\ a.name # "known" /\ outcome = "internal"
          /\ UNCHANGED llm
       \/ /\ p \notin Own(llm, calls[r].household) /\ outcome = "not_found"
          /\ UNCHANGED llm
    /\ UNCHANGED <<ocr, hSettings, uSettings>>

UpdateOCRProvider(r, p, a, outcome) ==
    /\ p \notin Locked(r)
    /\ \/ /\ p \in Own(ocr, calls[r].household) /\ a.name = "known" /\ outcome = "ok"
          /\ ocr' = UpdateOCRProviderRow(ocr, p, a.key, FALSE)
       \/ /\ p \in Own(ocr, calls[r].household) /\ a.name # "known" /\ outcome = "internal"
          /\ UNCHANGED ocr
       \/ /\ p \notin Own(ocr, calls[r].household) /\ outcome = "not_found"
          /\ UNCHANGED ocr
    /\ UNCHANGED <<llm, hSettings, uSettings>>

DeleteLLMProvider(r, p, outcome) ==
    /\ p \notin Locked(r)
    /\ llm' = DeleteLLMProviderRow(llm, p, calls[r].household)
    /\ outcome = (IF p \in Own(llm, calls[r].household) THEN "ok" ELSE "not_found")
    /\ UNCHANGED <<ocr, hSettings, uSettings>>

DeleteOCRProvider(r, p, outcome) ==
    /\ p \notin Locked(r)
    /\ ocr' = DeleteOCRProviderRow(ocr, p, calls[r].household)
    /\ outcome = (IF p \in Own(ocr, calls[r].household) THEN "ok" ELSE "not_found")
    /\ UNCHANGED <<llm, hSettings, uSettings>>

\* Begin: the first statement sees the rows that are committed now, ...
Begin(r, tab, p, a) ==
    /\ tx' = [tx EXCEPT ![r] = [seen |-> Own(tab, calls[r].household), held |-> {},
                                id |-> p, name |-> a.name, key |-> a.key]]
    /\ Proceed(r, "tx_unset")
    /\ UNCHANGED <<Elsewhere, settings>>

\* mutant: rows somebody else has locked are passed over
UnsetSkipLocked(r, tab) ==
    /\ Pending(r, "tx_unset")
    /\ tx' = [tx EXCEPT ![r].held =
                 (tx[r].seen \intersect Own(tab, calls[r].household)) \ Locked(r)]
    /\ Proceed(r, "tx_update")
    /\ UNCHANGED <<Elsewhere, settings>>

\* ... and writes them, once nobody else has them locked.
UnsetDefaults(r, tab) ==
    /\ Pending(r, "tx_unset")
    /\ tx[r].seen \intersect Locked(r) = {}
    /\ tx' = [tx EXCEPT ![r].held = tx[r].seen \intersect Own(tab, calls[r].household)]
    /\ Proceed(r, "tx_update")
    /\ UNCHANGED <<Elsewhere, settings>>

\* The provider itself; when there is none, or the CHECK fails, everything is rolled back.
UpdateWithin(r, tab) ==
    /\ Pending(r, "tx_update")
    /\ tx[r].id \notin Locked(r)
    /\ LET found == tx[r].id \in Own(tab, calls[r].household)
       IN  \/ /\ found /\ tx[r].name = "known"
              /\ tx' = [tx EXCEPT ![r].held = @ \union {tx[r].id}]
              /\ Proceed(r, "tx_commit")
           \/ /\ ~found \/ tx[r].name # "known"
              /\ tx' = [tx EXCEPT ![r] = None]
              /\ Answer(r, IF found THEN "internal" ELSE "not_found")
    /\ UNCHANGED <<Elsewhere, settings>>

\* The answer to COMMIT may be lost.
Ended(r) ==
    /\ Pending(r, "tx_commit")
    /\ tx' = [tx EXCEPT ![r] = None]
    /\ \E a \in {"ok", "internal"} : Answer(r, a)

\* Three statements and a commit, when the provider is to be the default.
MakeDefaultLLM(r) ==
    /\ calls[r] # None /\ calls[r].op = "UpdateLLMProvider"
    /\ \/ UnsetDefaults(r, llm)
       \/ UpdateWithin(r, llm)
       \/ /\ Ended(r)
          /\ llm' = UpdateLLMProviderRow(UnsetDefaultLLMProviders(llm, tx[r].held),
                                         tx[r].id, tx[r].key, TRUE)
          /\ UNCHANGED <<Elsewhere, ocr, hSettings, uSettings>>

\* mutant: the defaults are cleared for all to see before the provider is looked for
UnsetAtOnce(r) ==
    /\ calls[r] # None /\ calls[r].op = "UpdateOCRProvider"
    /\ \/ /\ Pending(r, "tx_unset")
          /\ Proceed(r, "tx_update")
          /\ ocr' = UnsetDefaultOCRProviders(ocr, tx[r].seen \intersect Rows(ocr))
          /\ UNCHANGED <<Elsewhere, llm, hSettings, uSettings, tx>>
       \/ UpdateWithin(r, ocr)

MakeDefaultOCR(r) ==
    /\ calls[r] # None /\ calls[r].op = "UpdateOCRProvider"
    /\ \/ UnsetDefaults(r, ocr)
       \/ UpdateWithin(r, ocr)
       \/ /\ Ended(r)
          /\ ocr' = UpdateOCRProviderRow(UnsetDefaultOCRProviders(ocr, tx[r].held),
                                         tx[r].id, tx[r].key, TRUE)
          /\ UNCHANGED <<Elsewhere, llm, hSettings, uSettings>>

--------------------------------------------------------------------------------
(* The service, with the body of the request where it has one.              *)

Refuse(r, outcome) == Answer(r, outcome) /\ UNCHANGED <<Elsewhere, settings, tx>>
Done(r, outcome) == Settle(r, outcome) /\ UNCHANGED <<accounts, tx>>

Outcomes == {"ok", "not_found", "internal"}

ServeGetHouseholdSetting(r) ==
    Refuse(r, IF GetHouseholdSetting(calls[r].household) = None THEN "not_found" ELSE "ok")

ServeUpsertHouseholdSetting(r, value) ==
    UpsertHouseholdSetting(calls[r].household, value) /\ Done(r, "ok")

ServeGetUserSetting(r) ==
    Refuse(r, IF GetUserSetting(calls[r].user) = None THEN "not_found" ELSE "ok")

ServeUpsertUserSetting(r, value) == UpsertUserSetting(calls[r].user, value) /\ Done(r, "ok")

ServeListLLMProviders(r) == Refuse(r, "ok")

ServeListOCRProviders(r) == Refuse(r, "ok")

\* An LLM provider needs a name and a model.
ServeCreateLLMProvider(r, a) ==
    \/ a.name = "" /\ Refuse(r, "bad_request")
    \/ /\ a.name # ""
       /\ \E p \in LLMs, o \in Outcomes :
             CreateLLMProvider(p, calls[r].household, a, o) /\ Done(r, o)

ServeUpdateLLMProvider(r, p, a) ==
    \/ a.name = "" /\ Refuse(r, "bad_request")
    \/ a.name # "" /\ a.default /\ Begin(r, llm, p, a)
    \/ a.name # "" /\ ~a.default /\ \E o \in Outcomes : UpdateLLMProvider(r, p, a, o) /\ Done(r, o)

ServeDeleteLLMProvider(r, p) == \E o \in Outcomes : DeleteLLMProvider(r, p, o) /\ Done(r, o)

\* Only here is the provider looked up among the names that are known.
ServeCreateOCRProvider(r, a) ==
    \/ a.name # "known" /\ Refuse(r, "bad_request")
    \/ /\ a.name = "known"
       /\ \E p \in OCRs, o \in Outcomes :
             CreateOCRProvider(p, calls[r].household, a, o) /\ Done(r, o)

ServeUpdateOCRProvider(r, p, a) ==
    \/ a.name = "" /\ Refuse(r, "bad_request")
    \/ a.name # "" /\ a.default /\ Begin(r, ocr, p, a)
    \/ a.name # "" /\ ~a.default /\ \E o \in Outcomes : UpdateOCRProvider(r, p, a, o) /\ Done(r, o)

ServeDeleteOCRProvider(r, p) == \E o \in Outcomes : DeleteOCRProvider(r, p, o) /\ Done(r, o)

--------------------------------------------------------------------------------
(* The handlers.                                                            *)

Unreadable(r) == Refuse(r, "bad_request")

HandleGetHouseholdSetting(r) ==
    Running(r, "GetHouseholdSetting") /\ ServeGetHouseholdSetting(r)
HandleUpsertHouseholdSetting(r) ==
    /\ Running(r, "UpsertHouseholdSetting")
    /\ Unreadable(r) \/ \E value \in Values : ServeUpsertHouseholdSetting(r, value)
HandleGetUserSetting(r) == Running(r, "GetUserSetting") /\ ServeGetUserSetting(r)
HandleUpsertUserSetting(r) ==
    /\ Running(r, "UpsertUserSetting")
    /\ Unreadable(r) \/ \E value \in Values : ServeUpsertUserSetting(r, value)

HandleListLLMProviders(r) == Running(r, "ListLLMProviders") /\ ServeListLLMProviders(r)
HandleCreateLLMProvider(r) ==
    /\ Running(r, "CreateLLMProvider")
    /\ Unreadable(r) \/ \E a \in Bodies : ServeCreateLLMProvider(r, a)
HandleUpdateLLMProvider(r) ==
    /\ Running(r, "UpdateLLMProvider")
    /\ Unreadable(r) \/ \E p \in LLMs, a \in Bodies : ServeUpdateLLMProvider(r, p, a)
HandleDeleteLLMProvider(r) ==
    Running(r, "DeleteLLMProvider") /\ \E p \in LLMs : ServeDeleteLLMProvider(r, p)

HandleListOCRProviders(r) == Running(r, "ListOCRProviders") /\ ServeListOCRProviders(r)
HandleCreateOCRProvider(r) ==
    /\ Running(r, "CreateOCRProvider")
    /\ Unreadable(r) \/ \E a \in Bodies : ServeCreateOCRProvider(r, a)
HandleUpdateOCRProvider(r) ==
    /\ Running(r, "UpdateOCRProvider")
    /\ Unreadable(r) \/ \E p \in OCRs, a \in Bodies : ServeUpdateOCRProvider(r, p, a)
HandleDeleteOCRProvider(r) ==
    Running(r, "DeleteOCRProvider") /\ \E p \in OCRs : ServeDeleteOCRProvider(r, p)

--------------------------------------------------------------------------------

\* The database refuses, cannot be reached, or breaks a deadlock: nothing was executed, and
\* a transaction is rolled back.  The middlewares and GetHousehold's second query answer as
\* if nothing had been found.
DatabaseFails(r) ==
    /\ calls[r] # None
    /\ calls[r].stage \notin {"session", "answered"}
    /\ calls[r].stage = "scope" => calls[r].household # None
    /\ ~(calls[r].stage = "second" /\ calls[r].op = "GetHousehold")
    /\ Answer(r, "internal")
    /\ tx' = [tx EXCEPT ![r] = None]
    /\ UNCHANGED <<Elsewhere, settings>>

\* The process ends: the requests it was serving get no answer.
Crash ==
    /\ \E r \in Requests : calls[r] # None /\ ~Pending(r, "answered")
    /\ calls' = [r \in Requests |->
           IF calls[r] = None \/ Pending(r, "answered") THEN calls[r]
           ELSE [Blank EXCEPT !.answer = "lost", !.late = calls[r].late, !.household =
                    IF calls[r].op = "CreateHousehold" THEN calls[r].household ELSE None]]
    /\ tx' = [r \in Requests |-> None]
    /\ UNCHANGED <<Elsewhere, settings>>

HandleSettings(r) ==
    \/ HandleGetHouseholdSetting(r) \/ HandleUpsertHouseholdSetting(r)
    \/ HandleGetUserSetting(r) \/ HandleUpsertUserSetting(r)
    \/ HandleListLLMProviders(r) \/ HandleCreateLLMProvider(r)
    \/ HandleUpdateLLMProvider(r) \/ HandleDeleteLLMProvider(r) \/ MakeDefaultLLM(r)
    \/ HandleListOCRProviders(r) \/ HandleCreateOCRProvider(r)
    \/ HandleUpdateOCRProvider(r) \/ HandleDeleteOCRProvider(r) \/ MakeDefaultOCR(r)

Next ==
    \/ AccountsStep /\ UNCHANGED <<settings, tx>>
    \/ \E r \in Requests : HandleSettings(r) \/ DatabaseFails(r)
    \/ Crash

Spec == Init /\ [][Next]_vars

--------------------------------------------------------------------------------
(* Properties.                                                              *)

IsDefault(tab, p) == IsRow(tab[p]) /\ tab[p].default

\* When "set as default" is answered, the provider is the household's only default among
\* those that existed when its transaction began, however many others are made the default
\* at the same time (settings/repository_pg.go:264, and what :166 inserts meanwhile).
OneDefault ==
    [][\A r \in Requests : Pending(r, "tx_commit") /\ calls'[r].answer = "ok" =>
          \A p \in tx[r].seen \ {tx[r].id} :
             \/ p \in LLMs /\ ~IsDefault(llm', p)
             \/ p \in OCRs /\ ~IsDefault(ocr', p)]_vars

\* A household whose jobs find a default of its own is never left to the system's, or to
\* none, by somebody who makes another one the default, not even for a moment or when that
\* fails: only deleting that provider, or a plain update of it, does it.  And a stored key
\* stays stored (settings/repository_pg.go:264-284, :323-343).
NothingIsLost ==
    [][/\ \A h \in Households :
             /\ /\ GetDefaultLLM(h) \intersect Own(llm, h) # {}
                /\ GetDefaultLLM(h)' \intersect Own(llm', h) = {}
                => \E r \in Requests :
                      Running(r, "DeleteLLMProvider") \/ Running(r, "UpdateLLMProvider")
             /\ /\ GetDefaultOCR(h) \intersect Own(ocr, h) # {}
                /\ GetDefaultOCR(h)' \intersect Own(ocr', h) = {}
                => \E r \in Requests :
                      Running(r, "DeleteOCRProvider") \/ Running(r, "UpdateOCRProvider")
       /\ \A p \in Rows(llm) : llm[p].key => llm'[p] = Gone \/ llm'[p].key
       /\ \A p \in Rows(ocr) : ocr[p].key => ocr'[p] = Gone \/ ocr'[p].key]_vars
================================================================================
