------------------------------ MODULE SettingsSQL ------------------------------
(***************************************************************************)
(* The statements on llm_provider_configs, ocr_provider_configs,           *)
(* household_settings and user_settings (src/baskety/gen/sqlc).  A row of  *)
(* a provider belongs to a household, or to the system: household None.    *)
(* Of what it says, the models tell apart whether a key is stored and      *)
(* whether it is the default; endpoints, models and extra_config are left  *)
(* out.  A statement of UpdateLLMProvider takes the row's lock; module     *)
(* Settings says who waits for it.                                         *)
(***************************************************************************)
EXTENDS AccountSQL

ProviderRecords(owners) ==
    [household : owners \union {None}, key : BOOLEAN, default : BOOLEAN]

\* provider, as the CHECK of the table and the services tell it apart.
ProviderNames == {"", "unknown", "known"}

Own(tab, h) == {p \in Rows(tab) : tab[p].household = h}

--------------------------------------------------------------------------------
(* providers.sql.go                                                         *)

CreateLLMProviderConfig(tab, p, h, key, default) ==
    [tab EXCEPT ![p] = [household |-> h, key |-> key, default |-> default]]

CreateOCRProviderConfig(tab, p, h, key, default) ==
    [tab EXCEPT ![p] = [household |-> h, key |-> key, default |-> default]]

DeleteLLMProviderRow(tab, p, h) == IF p \in Own(tab, h) THEN [tab EXCEPT ![p] = Gone] ELSE tab

DeleteOCRProviderRow(tab, p, h) == IF p \in Own(tab, h) THEN [tab EXCEPT ![p] = Gone] ELSE tab

\* ORDER BY household_id DESC NULLS LAST LIMIT 1: any one of these.
GetDefaultLLMProvider(tab, h) ==
    LET default(owner) == {p \in Own(tab, owner) : tab[p].default}
    IN  IF default(h) # {} THEN default(h) ELSE default(None)

GetDefaultOCRProvider(tab, h) ==
    LET default(owner) == {p \in Own(tab, owner) : tab[p].default}
    IN  IF default(h) # {} THEN default(h) ELSE default(None)

\* The rows an UnsetDefault statement finds, and what becomes of them.
UnsetDefaultLLMProviders(tab, held) ==
    [p \in DOMAIN tab |-> IF p \in held THEN [tab[p] EXCEPT !.default = FALSE] ELSE tab[p]]

UnsetDefaultOCRProviders(tab, held) ==
    [p \in DOMAIN tab |-> IF p \in held THEN [tab[p] EXCEPT !.default = FALSE] ELSE tab[p]]

\* COALESCE: without a new key the stored one stays.
UpdateLLMProviderRow(tab, p, key, default) ==
    [tab EXCEPT ![p].key = @ \/ key, ![p].default = default]

UpdateOCRProviderRow(tab, p, key, default) ==
    [tab EXCEPT ![p].key = @ \/ key, ![p].default = default]

--------------------------------------------------------------------------------
(* settings.sql.go: one key of a household's and of a user's settings.      *)

GetHouseholdSettingRow(tab, h) == tab[h]
UpsertHouseholdSettingRow(tab, h, value) == [tab EXCEPT ![h] = value]
GetUserSettingRow(tab, u) == tab[u]
UpsertUserSettingRow(tab, u, value) == [tab EXCEPT ![u] = value]
================================================================================
