----------------------------- MODULE SettingsProofs -----------------------------
(***************************************************************************)
(* Proofs about Settings and the Accounts it runs with, for any number of  *)
(* users, sessions, households, providers and requests: who is let in, and *)
(* that making a provider the default leaves the household one default of  *)
(* the rows it saw, and never none.                                        *)
(*                                                                         *)
(* A transaction's first statement sees rows that others may delete before *)
(* it locks them, so OneDefault needs TxOf: what it saw and does not hold  *)
(* is gone for good, and what it holds is the household's and cannot be    *)
(* deleted.  Later says what no write of a row undoes; Saved is what       *)
(* NothingIsLost says of one step.                                         *)
(***************************************************************************)
EXTENDS Settings, AccountsProofs

ProvidersOK ==
    /\ llm \in [LLMs -> ProviderRecords(Households) \union {None, Gone}]
    /\ ocr \in [OCRs -> ProviderRecords(Households) \union {None, Gone}]
    /\ hSettings \in [Households -> Values \union {None}]
    /\ uSettings \in [Users -> Values \union {None}]

\* What a request of household h knows at a stage of its transaction t on the table tab.
TxOf(h, stage, t, tab, ids) ==
    /\ t.seen \subseteq ids /\ t.held \subseteq Own(tab, h) /\ t.id \in ids
    /\ \A p \in t.seen : tab[p] # None /\ (IsRow(tab[p]) => tab[p].household = h)
    /\ stage # "tx_unset" => \A p \in t.seen \ t.held : ~IsRow(tab[p])
    /\ stage = "tx_commit" => t.id \in t.held

Within(c, t) ==
    \/ c.op = "UpdateLLMProvider" /\ TxOf(c.household, c.stage, t, llm, LLMs)
    \/ c.op = "UpdateOCRProvider" /\ TxOf(c.household, c.stage, t, ocr, OCRs)

TxInv(c, t) ==
    \/ t = None /\ (c = None \/ c.stage \notin InTransaction)
    \/ t \in TxRecords /\ c # None /\ c.stage \in InTransaction /\ Within(c, t)

IInv ==
    /\ AInv
    /\ ProvidersOK
    /\ tx \in [Requests -> TxRecords \union {None}]
    /\ \A r \in Requests : TxInv(calls[r], tx[r])

\* What no write of a provider undoes.
Later(old, new, ids) ==
    /\ new \in [ids -> ProviderRecords(Households) \union {None, Gone}]
    /\ \A p \in ids : old[p] # None =>
          /\ new[p] # None
          /\ IsRow(new[p]) => IsRow(old[p]) /\ new[p].household = old[p].household

\* No row is deleted that another request has locked.
KeepsLocked(r, old, new, ids) ==
    \A q \in Requests \ {r} : tx[q] # None =>
        \A p \in tx[q].held \intersect ids : IsRow(old[p]) => IsRow(new[p])

HasDefault(tab, h) == \E p \in Own(tab, h) : tab[p].default

\* A default that does not go, and a key that stays stored.
KeepsDefaults(old, new) == \A h \in Households : HasDefault(old, h) => HasDefault(new, h)
KeepsKeys(old, new, ids) ==
    \A p \in ids : IsRow(old[p]) /\ old[p].key => new[p] = Gone \/ new[p].key

Saved ==
    /\ KeepsKeys(llm, llm', LLMs) /\ KeepsKeys(ocr, ocr', OCRs)
    /\ \/ KeepsDefaults(llm, llm')
       \/ \E r \in Requests : Running(r, "DeleteLLMProvider") \/ Running(r, "UpdateLLMProvider")
    /\ \/ KeepsDefaults(ocr, ocr')
       \/ \E r \in Requests : Running(r, "DeleteOCRProvider") \/ Running(r, "UpdateOCRProvider")

\* What OneDefault says of one step.
Cleared ==
    \A r \in Requests : Pending(r, "tx_commit") /\ calls'[r].answer = "ok" =>
        \A p \in tx[r].seen \ {tx[r].id} :
            (p \in LLMs /\ ~IsDefault(llm', p)) \/ (p \in OCRs /\ ~IsDefault(ocr', p))

Kept == IInv' /\ Saved /\ Cleared

--------------------------------------------------------------------------------
(* The rows of a table of providers.                                        *)

\* A provider is a row.
LEMMA ProviderIsRow ==
    ASSUME NEW row \in ProviderRecords(Households)
    PROVE  IsRow(row)
BY SettingsAssumption DEF SettingsAssumption, NoNull, IsRow

\* A row is inserted or written.
LEMMA RowWritten ==
    ASSUME NEW ids, NEW tab \in [ids -> ProviderRecords(Households) \union {None, Gone}],
           NEW p \in ids, NEW row \in ProviderRecords(Households), NEW new,
           tab[p] = None \/ (p \in Own(tab, row.household) /\ (tab[p].key => row.key)),
           new = [tab EXCEPT ![p] = row]
    PROVE  /\ Later(tab, new, ids) /\ KeepsKeys(tab, new, ids)
           /\ \A q \in ids : IsRow(tab[q]) => IsRow(new[q])
           /\ (tab[p] = None \/ row.default) => KeepsDefaults(tab, new)
<1>1. /\ new \in [ids -> ProviderRecords(Households) \union {None, Gone}]
      /\ \A q \in ids : new[q] = IF q = p THEN row ELSE tab[q]
  OBVIOUS
<1>2. IsRow(row) /\ (tab[p] = None \/ (IsRow(tab[p]) /\ row.household = tab[p].household))
  BY ProviderIsRow DEF Own, Rows
<1>3. Later(tab, new, ids)
  <2>1. ASSUME NEW q \in ids, tab[q] # None
        PROVE  new[q] # None /\ (IsRow(new[q]) =>
                                    IsRow(tab[q]) /\ new[q].household = tab[q].household)
    <3>1. CASE q = p
      BY <1>1, <1>2, <2>1, <3>1 DEF IsRow
    <3>2. CASE q # p
      BY <1>1, <2>1, <3>2
    <3> QED BY <3>1, <3>2
  <2> QED BY <1>1, <2>1 DEF Later
<1>4. KeepsKeys(tab, new, ids)
  BY <1>1, <1>2 DEF KeepsKeys, IsRow
<1>5. \A q \in ids : IsRow(tab[q]) => IsRow(new[q])
  BY <1>1, <1>2
<1>6. ASSUME tab[p] = None \/ row.default PROVE KeepsDefaults(tab, new)
  <2> SUFFICES ASSUME NEW h \in Households, NEW q \in Own(tab, h), tab[q].default
               PROVE  HasDefault(new, h)
    BY DEF KeepsDefaults, HasDefault
  <2>1. q \in ids /\ IsRow(tab[q]) /\ tab[q].household = h
    BY DEF Own, Rows
  <2>2. IsRow(new[q]) /\ new[q].household = h /\ new[q].default
    BY <1>1, <1>2, <1>6, <2>1 DEF IsRow
  <2>3. q \in Own(new, h)
    BY <1>1, <2>1, <2>2 DEF Own, Rows
  <2> QED BY <2>2, <2>3 DEF HasDefault
<1> QED BY <1>3, <1>4, <1>5, <1>6

\* A row of the household's is changed by a plain update.
LEMMA RowUpdated ==
    ASSUME NEW ids, NEW tab \in [ids -> ProviderRecords(Households) \union {None, Gone}],
           NEW h, NEW p \in Own(tab, h), NEW key \in BOOLEAN, NEW new,
           new = UpdateLLMProviderRow(tab, p, key, FALSE)
    PROVE  /\ Later(tab, new, ids) /\ KeepsKeys(tab, new, ids)
           /\ \A q \in ids : IsRow(tab[q]) => IsRow(new[q])
<1>1. p \in ids /\ IsRow(tab[p]) /\ tab[p].household = h
  BY DEF Own, Rows
<1>2. tab[p] \in ProviderRecords(Households)
  BY <1>1 DEF IsRow
<1>3. PICK row : row = [tab[p] EXCEPT !.key = tab[p].key \/ key, !.default = FALSE]
  OBVIOUS
<1>4. row \in ProviderRecords(Households) /\ row.household = h /\ (tab[p].key => row.key)
  BY <1>1, <1>2, <1>3 DEF ProviderRecords
<1>5. new = [tab EXCEPT ![p] = row]
  BY <1>1, <1>2, <1>3 DEF UpdateLLMProviderRow, ProviderRecords
<1>6. tab[p] = None \/ (p \in Own(tab, row.household) /\ (tab[p].key => row.key))
  BY <1>4
<1>7. p \in ids /\ row \in ProviderRecords(Households)
  BY <1>1, <1>4
<1> QED BY <1>5, <1>6, <1>7, RowWritten, Zenon

\* A row is deleted.
LEMMA RowDeleted ==
    ASSUME NEW ids, NEW tab \in [ids -> ProviderRecords(Households) \union {None, Gone}],
           NEW h, NEW p \in ids, NEW new, new = DeleteLLMProviderRow(tab, p, h)
    PROVE  /\ Later(tab, new, ids) /\ KeepsKeys(tab, new, ids)
           /\ \A q \in ids \ {p} : IsRow(tab[q]) => IsRow(new[q])
<1>1. new \in [ids -> ProviderRecords(Households) \union {None, Gone}]
  BY DEF DeleteLLMProviderRow
<1>2. \A q \in ids : new[q] = tab[q] \/ (q = p /\ IsRow(tab[p]) /\ new[q] = Gone)
  BY DEF DeleteLLMProviderRow, Own, Rows
<1>3. Gone # None
  BY Nulls
<1> QED BY <1>1, <1>2, <1>3 DEF Later, KeepsKeys, IsRow

\* The statements on the two tables are the same.
LEMMA SameStatements ==
    /\ \A tab, p, h, key, default :
          CreateOCRProviderConfig(tab, p, h, key, default)
              = CreateLLMProviderConfig(tab, p, h, key, default)
    /\ \A tab, p, key, default :
          UpdateOCRProviderRow(tab, p, key, default) = UpdateLLMProviderRow(tab, p, key, default)
    /\ \A tab, p, h : DeleteOCRProviderRow(tab, p, h) = DeleteLLMProviderRow(tab, p, h)
    /\ \A tab, held : UnsetDefaultOCRProviders(tab, held) = UnsetDefaultLLMProviders(tab, held)
BY DEF CreateOCRProviderConfig, CreateLLMProviderConfig, UpdateOCRProviderRow,
       UpdateLLMProviderRow, DeleteOCRProviderRow, DeleteLLMProviderRow,
       UnsetDefaultOCRProviders, UnsetDefaultLLMProviders

\* A table nobody writes.
LEMMA TableUnwritten ==
    ASSUME NEW ids, NEW tab \in [ids -> ProviderRecords(Households) \union {None, Gone}]
    PROVE  Later(tab, tab, ids) /\ KeepsKeys(tab, tab, ids) /\ KeepsDefaults(tab, tab)
BY DEF Later, KeepsKeys, KeepsDefaults

\* The default a household has of its own.
LEMMA DefaultsFound ==
    ASSUME NEW ids, NEW tab \in [ids -> ProviderRecords(Households) \union {None, Gone}],
           NEW h \in Households
    PROVE  /\ GetDefaultLLMProvider(tab, h) \intersect Own(tab, h) # {} <=> HasDefault(tab, h)
           /\ GetDefaultOCRProvider(tab, h) \intersect Own(tab, h) # {} <=> HasDefault(tab, h)
<1>1. h # None
  BY Nulls
<1>2. Own(tab, None) \intersect Own(tab, h) = {}
  BY <1>1 DEF Own
<1> QED BY <1>2 DEF GetDefaultLLMProvider, GetDefaultOCRProvider, HasDefault

--------------------------------------------------------------------------------
(* The transactions.                                                        *)

\* What a transaction knows of a table stays true while it keeps its locks.
LEMMA TxLater ==
    ASSUME NEW h, NEW stage, NEW t, NEW ids,
           NEW tab \in [ids -> ProviderRecords(Households) \union {None, Gone}], NEW new,
           TxOf(h, stage, t, tab, ids), Later(tab, new, ids),
           \A p \in t.held \intersect ids : IsRow(tab[p]) => IsRow(new[p])
    PROVE  TxOf(h, stage, t, new, ids)
<1>1. \A p \in t.held : p \in ids /\ IsRow(tab[p]) /\ tab[p].household = h
  BY DEF TxOf, Own, Rows
<1>2. t.held \subseteq Own(new, h)
  <2> SUFFICES ASSUME NEW p \in t.held PROVE p \in Own(new, h)
    OBVIOUS
  <2>1. p \in ids /\ IsRow(tab[p]) /\ tab[p].household = h /\ IsRow(new[p])
    BY <1>1
  <2>2. new[p].household = h /\ p \in DOMAIN new
    BY <2>1 DEF Later, IsRow
  <2> QED BY <2>1, <2>2 DEF Own, Rows
<1>3. ASSUME NEW p \in t.seen
      PROVE  /\ new[p] # None /\ (IsRow(new[p]) => new[p].household = h)
             /\ IsRow(new[p]) => IsRow(tab[p])
  BY DEF TxOf, Later
<1> QED BY <1>2, <1>3 DEF TxOf

\* No transaction, before and after a step.
Outside(r) ==
    /\ calls[r] = None \/ calls[r].stage \notin InTransaction
    /\ calls'[r].stage \notin InTransaction

\* A request is answered once, and only then.
LEMMA Unanswered ==
    ASSUME AInv, NEW r \in Requests, NEW stage, stage # "answered", Pending(r, stage)
    PROVE  calls[r] \in CallRecords /\ calls[r].answer = None
BY DEF AInv, CallInv, Pending

\* Accounts has no transactions.
LEMMA NoTransaction ==
    ASSUME AInv, AccountsStep
    PROVE  \A q \in Requests : calls'[q] = calls[q] \/ Outside(q)
<1>1. ASSUME NEW r \in Requests, NEW a, Answer(r, a),
             NEW stage, stage \notin InTransaction, Pending(r, stage)
      PROVE  \A q \in Requests : calls'[q] = calls[q] \/ Outside(q)
  <2>1. calls'[r].stage = "answered"
    BY <1>1 DEF Answer, Blank, AInv
  <2> QED BY <1>1, <2>1 DEF Answer, AInv, Outside, Pending, InTransaction
<1>2. ASSUME NEW r \in Requests, NEW c, calls' = [calls EXCEPT ![r] = c],
             c.stage \notin InTransaction, calls[r] = None \/ calls[r].stage \notin InTransaction
      PROVE  \A q \in Requests : calls'[q] = calls[q] \/ Outside(q)
  BY <1>2 DEF AInv, Outside
<1>3. \A r \in Requests : calls[r] # None => calls[r] \in CallRecords
  BY DEF AInv
<1>4. ASSUME NEW r \in Requests, Receive(r)
      PROVE  \A q \in Requests : calls'[q] = calls[q] \/ Outside(q)
  <2>1. PICK op \in Ops, s \in Tokens : \E h \in HouseholdsNamed(op) :
           /\ calls[r] = None
           /\ calls' = [calls EXCEPT ![r] = Received(op, s, h)]
    BY <1>4, Reception
  <2>2. PICK h \in HouseholdsNamed(op) : calls' = [calls EXCEPT ![r] = Received(op, s, h)]
    BY <2>1
  <2>3. Received(op, s, h).stage \notin InTransaction
    BY ReceivedParts DEF InTransaction
  <2> QED BY <1>2, <2>1, <2>2, <2>3
<1>5. ASSUME NEW r \in Requests, Middleware(r)
      PROVE  \A q \in Requests : calls'[q] = calls[q] \/ Outside(q)
  <2>1. Pending(r, "session") /\ "session" \notin InTransaction
    BY <1>5 DEF Middleware, InTransaction
  <2>2. CASE Answer(r, "unauthorized")
    BY <1>1, <2>1, <2>2
  <2>3. ASSUME NEW user, calls' = [calls EXCEPT ![r].user = user,
                 ![r].stage = IF calls[r].op \in ScopedOps THEN "scope" ELSE "handler"]
        PROVE  \A q \in Requests : calls'[q] = calls[q] \/ Outside(q)
    <3>1. calls'[r].stage \notin InTransaction
      BY <1>3, <2>1, <2>3 DEF CallRecords, AInv, Pending, InTransaction
    <3> QED BY <2>1, <2>3, <3>1 DEF AInv, Outside, Pending
  <2> QED BY <1>5, <2>2, <2>3 DEF Middleware
<1>6. ASSUME NEW r \in Requests, NEW s, s \notin InTransaction, Proceed(r, s),
             NEW stage, stage \notin InTransaction, Pending(r, stage)
      PROVE  \A q \in Requests : calls'[q] = calls[q] \/ Outside(q)
  <2>1. calls'[r].stage = s
    BY <1>3, <1>6 DEF Proceed, CallRecords, AInv, Pending
  <2> QED BY <1>6, <2>1 DEF AInv, Outside, Pending, Proceed
<1>7. ASSUME NEW r \in Requests, ScopeMiddleware(r)
      PROVE  \A q \in Requests : calls'[q] = calls[q] \/ Outside(q)
  <2>1. Pending(r, "scope") /\ {"scope", "handler"} \intersect InTransaction = {}
    BY <1>7 DEF ScopeMiddleware, InTransaction
  <2>2. CASE \E a : Answer(r, a)
    BY <1>1, <2>1, <2>2
  <2>3. CASE Proceed(r, "handler")
    BY <1>6, <2>1, <2>3
  <2>4. ASSUME NEW h, calls' = [calls EXCEPT ![r].household = h, ![r].stage = "handler"]
        PROVE  \A q \in Requests : calls'[q] = calls[q] \/ Outside(q)
    <3>1. calls'[r].stage = "handler"
      BY <1>3, <2>1, <2>4 DEF CallRecords, AInv, Pending
    <3> QED BY <2>1, <2>4, <3>1 DEF AInv, Outside, Pending
  <2> QED BY <1>7, <2>2, <2>3, <2>4 DEF ScopeMiddleware
<1>8. ASSUME NEW r \in Requests, HandleAccounts(r)
      PROVE  \A q \in Requests : calls'[q] = calls[q] \/ Outside(q)
  <2>1. /\ {"handler", "member", "second", "answered"} \intersect InTransaction = {}
        /\ Pending(r, "handler") \/ Pending(r, "member") \/ Pending(r, "second")
    BY <1>8 DEF HandleAccounts, HandleRegister, HandleLogin, LoginSession, HandleLogout,
         HandleListHouseholds, HandleCreateHousehold, ServeAddOwner, HandleGetHousehold,
         ServeGetMembership, HandleAddMember, HandleRemoveMember, HandleCreateShareLink,
         HandleGetInventoryByShareToken, Running, InTransaction
  <2>2. CASE \E a : Answer(r, a)
    BY <1>1, <2>1, <2>2
  <2>3. CASE Proceed(r, "second")
    BY <1>6, <2>1, <2>3
  <2>4. CASE \E u : calls' = [calls EXCEPT ![r].user = u, ![r].stage = "second"]
    <3>1. calls'[r].stage = "second" /\ \A q \in Requests \ {r} : calls'[q] = calls[q]
      BY <1>3, <2>1, <2>4 DEF CallRecords, AInv, Pending
    <3> QED BY <2>1, <3>1 DEF AInv, Outside, Pending
  <2>5. CASE \E h, a : \E stage \in {"member", "answered"} :
               calls' = [calls EXCEPT ![r].household = h, ![r].stage = stage, ![r].answer = a]
    <3>1. /\ calls'[r].stage \in {"member", "answered"}
          /\ \A q \in Requests \ {r} : calls'[q] = calls[q]
      BY <1>3, <2>1, <2>5 DEF CallRecords, AInv, Pending
    <3> QED BY <2>1, <3>1 DEF AInv, Outside, Pending
  <2>6. (\E a : Answer(r, a)) \/ Proceed(r, "second")
        \/ (\E u : calls' = [calls EXCEPT ![r].user = u, ![r].stage = "second"])
        \/ (\E h, a : \E stage \in {"member", "answered"} :
              calls' = [calls EXCEPT ![r].household = h, ![r].stage = stage, ![r].answer = a])
    <3>1. CASE HandleRegister(r) \/ LoginSession(r) \/ HandleLogout(r)
      BY <3>1, Zenon DEF HandleRegister, LoginSession, HandleLogout, Register, Logout,
           BadRequest, Settle
    <3>2. CASE HandleLogin(r)
      BY <3>2, Zenon DEF HandleLogin, Login, BadRequest
    <3>3. CASE HandleCreateHousehold(r)
      BY <3>3, Zenon DEF HandleCreateHousehold, ServeCreateHousehold, BadRequest
    <3>4. CASE HandleListHouseholds(r) \/ ServeAddOwner(r) \/ HandleGetHousehold(r)
               \/ ServeGetMembership(r)
      BY <3>4, Zenon DEF HandleListHouseholds, ServeAddOwner, HandleGetHousehold,
           ServeGetMembership, ServeListHouseholds, ServeGetHousehold, Settle
    <3>5. CASE HandleAddMember(r) \/ HandleRemoveMember(r)
      BY <3>5, Zenon DEF HandleAddMember, HandleRemoveMember, ServeAddMember, ServeRemoveMember,
           BadRequest, Settle
    <3>6. CASE HandleCreateShareLink(r) \/ HandleGetInventoryByShareToken(r)
      BY <3>6, Zenon DEF HandleCreateShareLink, HandleGetInventoryByShareToken,
           ServeCreateShareLink, BadRequest, Settle
    <3> QED BY <1>8, <3>1, <3>2, <3>3, <3>4, <3>5, <3>6, Zenon DEF HandleAccounts
  <2> QED BY <2>2, <2>3, <2>4, <2>5, <2>6, Zenon
<1>9. CASE Expire \/ Purge
  BY <1>9 DEF Expire, Purge
<1> QED BY <1>4, <1>5, <1>7, <1>8, <1>9 DEF AccountsStep

\* Nobody has been told that his transaction is committed: there is nothing to show.
LEMMA NothingCommitted ==
    ASSUME \A r \in Requests : Pending(r, "tx_commit") => calls'[r].answer # "ok"
    PROVE  Cleared
BY DEF Cleared

\* A step of one request, with its transaction.
LEMMA OneRequest ==
    ASSUME IInv, AInv', NEW r \in Requests, NEW c, NEW t, TxInv(c, t)',
           calls' = [calls EXCEPT ![r] = c], tx' = [tx EXCEPT ![r] = t],
           Later(llm, llm', LLMs), Later(ocr, ocr', OCRs),
           KeepsLocked(r, llm, llm', LLMs), KeepsLocked(r, ocr, ocr', OCRs),
           hSettings' \in [Households -> Values \union {None}],
           uSettings' \in [Users -> Values \union {None}]
    PROVE  IInv'
<1>1. ProvidersOK'
  BY DEF ProvidersOK, Later
<1>2. t \in TxRecords \union {None}
  BY DEF TxInv
<1>3. tx' \in [Requests -> TxRecords \union {None}]
  BY <1>2 DEF IInv
<1>4. ASSUME NEW q \in Requests PROVE TxInv(calls[q], tx[q])'
  <2>1. CASE q = r
    BY <2>1 DEF IInv, AInv
  <2>2. CASE q # r
    <3>1. PICK d, s : d = calls[q] /\ s = tx[q]
      OBVIOUS
    <3>2. calls'[q] = d /\ tx'[q] = s
      BY <2>2, <3>1 DEF IInv, AInv
    <3>3. TxInv(d, s)
      BY <3>1 DEF IInv
    <3>4. TxInv(d, s)'
      <4>1. CASE s = None
        BY <3>3, <4>1, SettingsAssumption DEF TxInv, SettingsAssumption, NoNull
      <4>2. CASE s # None
        <5>1. s \in TxRecords /\ d # None /\ d.stage \in InTransaction /\ Within(d, s)
          BY <3>3, <4>2 DEF TxInv
        <5>2. /\ \A p \in s.held \intersect LLMs : IsRow(llm[p]) => IsRow(llm'[p])
              /\ \A p \in s.held \intersect OCRs : IsRow(ocr[p]) => IsRow(ocr'[p])
          BY <2>2, <3>1, <4>2 DEF KeepsLocked
        <5>3. TxOf(d.household, d.stage, s, llm, LLMs) => TxOf(d.household, d.stage, s, llm', LLMs)
          BY <5>2, TxLater DEF IInv, ProvidersOK
        <5>4. TxOf(d.household, d.stage, s, ocr, OCRs) => TxOf(d.household, d.stage, s, ocr', OCRs)
          BY <5>2, TxLater DEF IInv, ProvidersOK
        <5>5. Within(d, s)'
          BY <5>1, <5>3, <5>4 DEF Within
        <5> QED BY <5>1, <5>5 DEF TxInv
      <4> QED BY <4>1, <4>2
    <3> QED BY <3>2, <3>4
  <2> QED BY <2>1, <2>2
<1> QED BY <1>1, <1>3, <1>4 DEF IInv

\* The record of an answered request.
LEMMA AnswerRecord ==
    ASSUME NEW r \in Requests, NEW a, Answer(r, a)
    PROVE  \E c : /\ calls' = [calls EXCEPT ![r] = c]
                  /\ c.stage = "answered" /\ c.answer = a
<1>1. PICK c : c = [Blank EXCEPT !.answer = a, !.late = calls[r].late, !.household =
                       IF calls[r].op = "CreateHousehold" THEN calls[r].household ELSE None]
  OBVIOUS
<1>2. c.stage = "answered" /\ c.answer = a
  BY <1>1 DEF Blank
<1> QED BY <1>1, <1>2 DEF Answer

\* No provider is written.
Untouched == UNCHANGED providers /\ hSettings' \in [Households -> Values \union {None}]
                                 /\ uSettings' \in [Users -> Values \union {None}]

\* Then nothing of it is lost.
LEMMA UntouchedKeeps ==
    ASSUME IInv, NEW r \in Requests, Untouched
    PROVE  /\ Later(llm, llm', LLMs) /\ Later(ocr, ocr', OCRs)
           /\ KeepsLocked(r, llm, llm', LLMs) /\ KeepsLocked(r, ocr, ocr', OCRs)
           /\ Saved
<1>1. llm' = llm /\ ocr' = ocr
  BY DEF Untouched, providers
<1>2. /\ Later(llm, llm, LLMs) /\ KeepsKeys(llm, llm, LLMs) /\ KeepsDefaults(llm, llm)
      /\ Later(ocr, ocr, OCRs) /\ KeepsKeys(ocr, ocr, OCRs) /\ KeepsDefaults(ocr, ocr)
  BY TableUnwritten DEF IInv, ProvidersOK
<1>3. KeepsLocked(r, llm, llm, LLMs) /\ KeepsLocked(r, ocr, ocr, OCRs)
  BY DEF KeepsLocked
<1> QED BY <1>1, <1>2, <1>3 DEF Saved

\* A request is answered by its handler.
LEMMA Replied ==
    ASSUME IInv, NEW r \in Requests, NEW op \in Ops, Running(r, op),
           NEW a \in {"ok"} \union Errors, Answer(r, a), UNCHANGED <<accounts, removed, tx>>,
           Later(llm, llm', LLMs), Later(ocr, ocr', OCRs),
           KeepsLocked(r, llm, llm', LLMs), KeepsLocked(r, ocr, ocr', OCRs),
           hSettings' \in [Households -> Values \union {None}],
           uSettings' \in [Users -> Values \union {None}]
    PROVE  IInv' /\ Cleared
<1>1. AInv'
  BY Refused DEF IInv
<1>2. PICK c : calls' = [calls EXCEPT ![r] = c] /\ c.stage = "answered" /\ c.answer = a
  BY AnswerRecord
<1>3. Pending(r, "handler") /\ "handler" \notin InTransaction /\ "answered" \notin InTransaction
  BY DEF Running, InTransaction
<1>4. tx[r] = None
  BY <1>3 DEF IInv, TxInv, Pending
<1>5. tx' = [tx EXCEPT ![r] = None]
  BY <1>4 DEF IInv
<1>6. TxInv(c, None)'
  BY <1>2, <1>3 DEF TxInv
<1>7. Cleared
  <2>1. ASSUME NEW q \in Requests, Pending(q, "tx_commit") PROVE calls'[q].answer # "ok"
    <3>1. q # r
      BY <1>3, <2>1 DEF Pending
    <3>2. calls'[q] = calls[q]
      BY <1>2, <3>1 DEF IInv, AInv
    <3>3. calls[q].answer = None
      BY <2>1, Unanswered DEF IInv
    <3> QED BY <3>2, <3>3, Nulls
  <2> QED BY <2>1, NothingCommitted
<1> QED BY <1>1, <1>2, <1>5, <1>6, <1>7, OneRequest

\* Nothing is written, or only a setting.
LEMMA RepliedOnly ==
    ASSUME IInv, NEW r \in Requests, NEW op \in Ops, Running(r, op),
           NEW a \in {"ok"} \union Errors, Answer(r, a), UNCHANGED <<accounts, removed, tx>>,
           Untouched
    PROVE  Kept
BY UntouchedKeeps, Replied DEF Kept, Untouched

--------------------------------------------------------------------------------
(* The requests.                                                            *)

\* The settings.
LEMMA SettingSteps ==
    ASSUME IInv, NEW r \in Requests,
           \/ HandleGetHouseholdSetting(r) \/ HandleUpsertHouseholdSetting(r)
           \/ HandleGetUserSetting(r) \/ HandleUpsertUserSetting(r)
           \/ HandleListLLMProviders(r) \/ HandleListOCRProviders(r)
    PROVE  Kept
<1>1. /\ LLMOps \union OCROps \union SettingOps \subseteq ScopedOps /\ ScopedOps \subseteq Ops
      /\ {"bad_request", "not_found", "internal"} \subseteq Errors
  BY SettingsAssumption DEF SettingsAssumption, Ops, Errors
<1>2. /\ {"GetHouseholdSetting", "UpsertHouseholdSetting", "GetUserSetting", "UpsertUserSetting",
          "ListLLMProviders", "ListOCRProviders"} \subseteq ScopedOps
  BY <1>1 DEF LLMOps, OCROps, SettingOps
<1>3. ASSUME NEW op \in ScopedOps, Running(r, op), NEW a \in {"ok"} \union Errors, Refuse(r, a)
      PROVE  Kept
  <2>1. Answer(r, a) /\ UNCHANGED <<accounts, removed, tx>> /\ Untouched
    BY <1>3 DEF Refuse, Elsewhere, settings, Untouched, IInv, ProvidersOK
  <2> QED BY <1>1, <1>3, <2>1, RepliedOnly
<1>4. ASSUME NEW op \in ScopedOps, Running(r, op), Untouched, Done(r, "ok")
      PROVE  Kept
  <2>1. PICK a \in {"ok", "internal"} : Answer(r, a) /\ UNCHANGED <<accounts, removed, tx>>
    BY <1>4 DEF Done, Settle
  <2> QED BY <1>1, <1>4, <2>1, RepliedOnly
<1>5. CASE HandleGetHouseholdSetting(r)
  BY <1>1, <1>2, <1>3, <1>5 DEF HandleGetHouseholdSetting, ServeGetHouseholdSetting
<1>6. CASE HandleUpsertHouseholdSetting(r)
  <2>1. Running(r, "UpsertHouseholdSetting")
    BY <1>6 DEF HandleUpsertHouseholdSetting
  <2>2. CASE Unreadable(r)
    BY <1>1, <1>2, <1>3, <2>1, <2>2 DEF Unreadable
  <2>3. ASSUME NEW value \in Values, ServeUpsertHouseholdSetting(r, value) PROVE Kept
    <3>1. Untouched
      BY <2>3 DEF ServeUpsertHouseholdSetting, UpsertHouseholdSetting, UpsertHouseholdSettingRow,
           Untouched, IInv, ProvidersOK
    <3> QED BY <1>2, <1>4, <2>1, <2>3, <3>1 DEF ServeUpsertHouseholdSetting
  <2> QED BY <1>6, <2>2, <2>3 DEF HandleUpsertHouseholdSetting
<1>7. CASE HandleGetUserSetting(r)
  BY <1>1, <1>2, <1>3, <1>7 DEF HandleGetUserSetting, ServeGetUserSetting
<1>8. CASE HandleUpsertUserSetting(r)
  <2>1. Running(r, "UpsertUserSetting")
    BY <1>8 DEF HandleUpsertUserSetting
  <2>2. CASE Unreadable(r)
    BY <1>1, <1>2, <1>3, <2>1, <2>2 DEF Unreadable
  <2>3. ASSUME NEW value \in Values, ServeUpsertUserSetting(r, value) PROVE Kept
    <3>1. Untouched
      BY <2>3 DEF ServeUpsertUserSetting, UpsertUserSetting, UpsertUserSettingRow,
           Untouched, IInv, ProvidersOK
    <3> QED BY <1>2, <1>4, <2>1, <2>3, <3>1 DEF ServeUpsertUserSetting
  <2> QED BY <1>8, <2>2, <2>3 DEF HandleUpsertUserSetting
<1>9. CASE HandleListLLMProviders(r)
  BY <1>2, <1>3, <1>9 DEF HandleListLLMProviders, ServeListLLMProviders
<1>10. CASE HandleListOCRProviders(r)
  BY <1>2, <1>3, <1>10 DEF HandleListOCRProviders, ServeListOCRProviders
<1> QED BY <1>5, <1>6, <1>7, <1>8, <1>9, <1>10

\* A table is written for a request, and the locks of the others are respected.
LEMMA LocksRespected ==
    ASSUME IInv, NEW r \in Requests, NEW ids, NEW old, NEW new, NEW p, p \notin Locked(r),
           \A q \in ids \ {p} : IsRow(old[q]) => IsRow(new[q])
    PROVE  KeepsLocked(r, old, new, ids)
BY DEF KeepsLocked, Locked

\* A provider is created.
LEMMA CreateSteps ==
    ASSUME IInv, NEW r \in Requests, HandleCreateLLMProvider(r) \/ HandleCreateOCRProvider(r)
    PROVE  Kept
<1>1. /\ {"CreateLLMProvider", "CreateOCRProvider"} \subseteq ScopedOps /\ ScopedOps \subseteq Ops
      /\ {"bad_request", "not_found", "internal"} \subseteq Errors
  BY SettingsAssumption DEF SettingsAssumption, LLMOps, OCROps, Ops, Errors
<1>2. ASSUME NEW op \in ScopedOps, Running(r, op), NEW a \in {"ok"} \union Errors,
             Answer(r, a), UNCHANGED <<accounts, removed, settings, tx>>
      PROVE  Kept
  <2>1. Untouched
    BY <1>2 DEF settings, Untouched, IInv, ProvidersOK
  <2> QED BY <1>1, <1>2, <2>1, RepliedOnly
<1>3. KeepsLocked(r, llm, llm, LLMs) /\ KeepsLocked(r, ocr, ocr, OCRs)
  BY DEF KeepsLocked
<1>4. ASSUME NEW ids, NEW tab \in [ids -> ProviderRecords(Households) \union {None, Gone}],
             NEW p \in ids, tab[p] = None, NEW key \in BOOLEAN, NEW default \in BOOLEAN,
             NEW h \in Households, NEW new,
             new = CreateLLMProviderConfig(tab, p, h, key, default)
      PROVE  /\ Later(tab, new, ids) /\ KeepsKeys(tab, new, ids) /\ KeepsDefaults(tab, new)
             /\ KeepsLocked(r, tab, new, ids)
  <2>1. PICK row : row = [household |-> h, key |-> key, default |-> default]
    OBVIOUS
  <2>2. row \in ProviderRecords(Households)
    BY <2>1 DEF ProviderRecords
  <2>3. new = [tab EXCEPT ![p] = row]
    BY <1>4, <2>1 DEF CreateLLMProviderConfig
  <2>4. /\ Later(tab, new, ids) /\ KeepsKeys(tab, new, ids) /\ KeepsDefaults(tab, new)
        /\ \A q \in ids : IsRow(tab[q]) => IsRow(new[q])
    BY <1>4, <2>2, <2>3, RowWritten
  <2> QED BY <2>4 DEF KeepsLocked
<1>5. CASE HandleCreateLLMProvider(r)
  <2>1. Running(r, "CreateLLMProvider")
    BY <1>5 DEF HandleCreateLLMProvider
  <2>2. calls[r].household \in Households
    BY <1>1, <2>1, AtHandler DEF IInv
  <2>3. CASE \E a \in {"bad_request", "internal"} :
                Answer(r, a) /\ UNCHANGED <<accounts, removed, settings, tx>>
    BY <1>1, <1>2, <2>1, <2>3
  <2>4. ASSUME NEW p \in LLMs, llm[p] = None, NEW a \in Bodies,
               llm' = CreateLLMProviderConfig(llm, p, calls[r].household, a.key, a.default),
               UNCHANGED <<ocr, hSettings, uSettings, accounts, removed, tx>>,
               NEW o \in {"ok", "internal"}, Answer(r, o)
        PROVE  Kept
    <3>1. a.key \in BOOLEAN /\ a.default \in BOOLEAN
      BY BodiesAssumption DEF BodiesAssumption
    <3>2. PICK h : h = calls[r].household
      OBVIOUS
    <3>3. /\ Later(llm, llm', LLMs) /\ KeepsKeys(llm, llm', LLMs) /\ KeepsDefaults(llm, llm')
          /\ KeepsLocked(r, llm, llm', LLMs)
      BY <1>4, <2>2, <2>4, <3>1, <3>2 DEF IInv, ProvidersOK
    <3>4. /\ Later(ocr, ocr', OCRs) /\ KeepsKeys(ocr, ocr', OCRs) /\ KeepsDefaults(ocr, ocr')
          /\ KeepsLocked(r, ocr, ocr', OCRs)
      BY <1>3, <2>4, TableUnwritten DEF IInv, ProvidersOK
    <3>5. IInv' /\ Cleared
      BY <1>1, <2>1, <2>4, <3>3, <3>4, Replied DEF IInv, ProvidersOK
    <3> QED BY <3>3, <3>4, <3>5 DEF Kept, Saved
  <2>5. ASSUME NEW a \in Bodies, ServeCreateLLMProvider(r, a) PROVE Kept
    <3>1. CASE Refuse(r, "bad_request")
      BY <2>3, <3>1 DEF Refuse, Elsewhere
    <3>2. ASSUME NEW p \in LLMs, NEW o \in Outcomes, Done(r, o),
                 CreateLLMProvider(p, calls[r].household, a, o)
          PROVE  Kept
      BY <2>3, <2>4, <3>2 DEF Done, Settle, CreateLLMProvider, settings, providers
    <3> QED BY <2>5, <3>1, <3>2 DEF ServeCreateLLMProvider
  <2> QED BY <1>5, <2>3, <2>5 DEF HandleCreateLLMProvider, Unreadable, Refuse, Elsewhere
<1>6. CASE HandleCreateOCRProvider(r)
  <2>1. Running(r, "CreateOCRProvider")
    BY <1>6 DEF HandleCreateOCRProvider
  <2>2. calls[r].household \in Households
    BY <1>1, <2>1, AtHandler DEF IInv
  <2>3. CASE Answer(r, "bad_request") /\ UNCHANGED <<accounts, removed, settings, tx>>
    BY <1>1, <1>2, <2>1, <2>3
  <2>4. ASSUME NEW p \in OCRs, ocr[p] = None, NEW a \in Bodies,
               ocr' = CreateOCRProviderConfig(ocr, p, calls[r].household, a.key, a.default),
               UNCHANGED <<llm, hSettings, uSettings, accounts, removed, tx>>,
               NEW o \in {"ok", "internal"}, Answer(r, o)
        PROVE  Kept
    <3>1. a.key \in BOOLEAN /\ a.default \in BOOLEAN
      BY BodiesAssumption DEF BodiesAssumption
    <3>2. PICK h : h = calls[r].household
      OBVIOUS
    <3>6. ocr' = CreateLLMProviderConfig(ocr, p, h, a.key, a.default)
      BY <2>4, <3>2, SameStatements
    <3>3. /\ Later(ocr, ocr', OCRs) /\ KeepsKeys(ocr, ocr', OCRs) /\ KeepsDefaults(ocr, ocr')
          /\ KeepsLocked(r, ocr, ocr', OCRs)
      BY <1>4, <2>2, <2>4, <3>1, <3>2, <3>6 DEF IInv, ProvidersOK
    <3>4. /\ Later(llm, llm', LLMs) /\ KeepsKeys(llm, llm', LLMs) /\ KeepsDefaults(llm, llm')
          /\ KeepsLocked(r, llm, llm', LLMs)
      BY <1>3, <2>4, TableUnwritten DEF IInv, ProvidersOK
    <3>5. IInv' /\ Cleared
      BY <1>1, <2>1, <2>4, <3>3, <3>4, Replied DEF IInv, ProvidersOK
    <3> QED BY <3>3, <3>4, <3>5 DEF Kept, Saved
  <2>5. ASSUME NEW a \in Bodies, ServeCreateOCRProvider(r, a) PROVE Kept
    <3>1. CASE Refuse(r, "bad_request")
      BY <2>3, <3>1 DEF Refuse, Elsewhere
    <3>2. ASSUME NEW p \in OCRs, NEW o \in Outcomes, Done(r, o),
                 CreateOCRProvider(p, calls[r].household, a, o)
          PROVE  Kept
      BY <2>4, <3>2 DEF Done, Settle, CreateOCRProvider, settings, providers
    <3> QED BY <2>5, <3>1, <3>2 DEF ServeCreateOCRProvider
  <2> QED BY <1>6, <2>3, <2>5 DEF HandleCreateOCRProvider, Unreadable, Refuse, Elsewhere
<1> QED BY <1>5, <1>6

\* A provider is deleted, or nobody's is.
LEMMA DeleteSteps ==
    ASSUME IInv, NEW r \in Requests, HandleDeleteLLMProvider(r) \/ HandleDeleteOCRProvider(r)
    PROVE  Kept
<1>1. /\ {"DeleteLLMProvider", "DeleteOCRProvider"} \subseteq ScopedOps /\ ScopedOps \subseteq Ops
      /\ {"not_found", "internal"} \subseteq Errors
  BY SettingsAssumption DEF SettingsAssumption, LLMOps, OCROps, Ops, Errors
<1>2. KeepsLocked(r, llm, llm, LLMs) /\ KeepsLocked(r, ocr, ocr, OCRs)
  BY DEF KeepsLocked
<1>3. CASE HandleDeleteLLMProvider(r)
  <2>1. Running(r, "DeleteLLMProvider")
    BY <1>3 DEF HandleDeleteLLMProvider
  <2>2. PICK p \in LLMs, o \in Outcomes : DeleteLLMProvider(r, p, o) /\ Done(r, o)
    BY <1>3 DEF HandleDeleteLLMProvider, ServeDeleteLLMProvider
  <2>3. PICK a \in {"ok"} \union Errors :
           Answer(r, a) /\ UNCHANGED <<accounts, removed, tx, ocr, hSettings, uSettings>>
    BY <1>1, <2>2 DEF Done, Settle, DeleteLLMProvider, Outcomes
  <2>4. PICK h : h = calls[r].household
    OBVIOUS
  <2>5. llm' = DeleteLLMProviderRow(llm, p, h) /\ p \notin Locked(r)
    BY <2>2, <2>4 DEF DeleteLLMProvider
  <2>6. /\ Later(llm, llm', LLMs) /\ KeepsKeys(llm, llm', LLMs)
        /\ \A q \in LLMs \ {p} : IsRow(llm[q]) => IsRow(llm'[q])
    BY <2>5, RowDeleted DEF IInv, ProvidersOK
  <2>7. KeepsLocked(r, llm, llm', LLMs)
    BY <2>5, <2>6, LocksRespected
  <2>8. Later(ocr, ocr', OCRs) /\ KeepsKeys(ocr, ocr', OCRs) /\ KeepsDefaults(ocr, ocr')
    BY <2>3, TableUnwritten DEF IInv, ProvidersOK
  <2>9. IInv' /\ Cleared
    BY <1>1, <1>2, <2>1, <2>3, <2>6, <2>7, <2>8, Replied DEF IInv, ProvidersOK
  <2> QED BY <2>1, <2>6, <2>8, <2>9 DEF Kept, Saved
<1>4. CASE HandleDeleteOCRProvider(r)
  <2>1. Running(r, "DeleteOCRProvider")
    BY <1>4 DEF HandleDeleteOCRProvider
  <2>2. PICK p \in OCRs, o \in Outcomes : DeleteOCRProvider(r, p, o) /\ Done(r, o)
    BY <1>4 DEF HandleDeleteOCRProvider, ServeDeleteOCRProvider
  <2>3. PICK a \in {"ok"} \union Errors :
           Answer(r, a) /\ UNCHANGED <<accounts, removed, tx, llm, hSettings, uSettings>>
    BY <1>1, <2>2 DEF Done, Settle, DeleteOCRProvider, Outcomes
  <2>4. PICK h : h = calls[r].household
    OBVIOUS
  <2>5. ocr' = DeleteLLMProviderRow(ocr, p, h) /\ p \notin Locked(r)
    BY <2>2, <2>4, SameStatements DEF DeleteOCRProvider
  <2>6. /\ Later(ocr, ocr', OCRs) /\ KeepsKeys(ocr, ocr', OCRs)
        /\ \A q \in OCRs \ {p} : IsRow(ocr[q]) => IsRow(ocr'[q])
    BY <2>5, RowDeleted DEF IInv, ProvidersOK
  <2>7. KeepsLocked(r, ocr, ocr', OCRs)
    BY <2>5, <2>6, LocksRespected
  <2>8. Later(llm, llm', LLMs) /\ KeepsKeys(llm, llm', LLMs) /\ KeepsDefaults(llm, llm')
    BY <2>3, TableUnwritten DEF IInv, ProvidersOK
  <2>9. IInv' /\ Cleared
    BY <1>1, <1>2, <2>1, <2>3, <2>6, <2>7, <2>8, Replied DEF IInv, ProvidersOK
  <2> QED BY <2>1, <2>6, <2>8, <2>9 DEF Kept, Saved
<1> QED BY <1>3, <1>4

\* The table a request makes a provider of its household the default of.
IsTable(r, tab, ids) ==
    \/ tab = llm /\ ids = LLMs /\ calls[r].op = "UpdateLLMProvider"
    \/ tab = ocr /\ ids = OCRs /\ calls[r].op = "UpdateOCRProvider"

\* A request goes on in its transaction.
LEMMA Continues ==
    ASSUME IInv, NEW r \in Requests, NEW tab, NEW ids, IsTable(r, tab, ids),
           NEW from \in {"handler", "tx_unset", "tx_update"}, Pending(r, from),
           NEW to \in InTransaction, to = "tx_commit" => from = "tx_update", Proceed(r, to),
           NEW t \in TxRecords, tx' = [tx EXCEPT ![r] = t],
           UNCHANGED <<accounts, removed, settings>>,
           TxOf(calls[r].household, to, t, tab, ids)
    PROVE  Kept
<1>1. PICK d : d = calls[r]
  OBVIOUS
<1>2. /\ d # None /\ d \in CallRecords /\ CallInv(d) /\ d.stage = from /\ ~d.late
      /\ d.answer = None /\ d.op \in {"UpdateLLMProvider", "UpdateOCRProvider"}
  BY <1>1 DEF IInv, AInv, CallInv, LateStopped, Pending, IsTable
<1>3. d.op \in ScopedOps /\ "tx_commit" \in InTransaction /\ to \in Stages /\ to # "answered"
      /\ to \notin {"session", "scope", "second", "member"}
  BY <1>2, SettingsAssumption
     DEF SettingsAssumption, LLMOps, OCROps, InTransaction, Stages
<1>4. PICK c : c = [d EXCEPT !.stage = to]
  OBVIOUS
<1>5. /\ c \in CallRecords /\ c.stage = to /\ c.op = d.op /\ c.user = d.user
      /\ c.token = d.token /\ c.household = d.household /\ ~c.late /\ c.answer = None
  BY <1>2, <1>3, <1>4 DEF CallRecords
<1>6. calls' = [calls EXCEPT ![r] = c]
  BY <1>1, <1>4 DEF Proceed
<1>7. CallInv(c) /\ Entitled(r, c)
  BY <1>1, <1>2, <1>3, <1>5
     DEF CallInv, Carried, Admitted, LateStopped, OwnerDue, Entitled, Inside, LetIn
<1>8. AInv'
  <2>1. Sound /\ UNCHANGED households
    BY Unwritten DEF IInv, AInv, accounts
  <2> QED BY <1>1, <1>2, <1>6, <1>7, <2>1, GoesOn DEF IInv
<1>9. Untouched
  BY DEF Untouched, settings, IInv, ProvidersOK
<1>10. TxOf(c.household, c.stage, t, tab, ids)
  BY <1>1, <1>5
<1>11. Within(c, t)'
  <2>1. llm' = llm /\ ocr' = ocr
    BY DEF settings, providers
  <2>2. CASE tab = llm /\ ids = LLMs /\ d.op = "UpdateLLMProvider"
    BY <1>5, <1>10, <2>1, <2>2 DEF Within
  <2>3. CASE tab = ocr /\ ids = OCRs /\ d.op = "UpdateOCRProvider"
    BY <1>5, <1>10, <2>1, <2>3 DEF Within
  <2> QED BY <1>1, <2>2, <2>3 DEF IsTable
<1>12. c # None
  BY <1>5, Nulls
<1>13. TxInv(c, t)'
  BY <1>5, <1>11, <1>12 DEF TxInv
<1>14. Cleared
  <2>1. ASSUME NEW q \in Requests, Pending(q, "tx_commit") PROVE calls'[q].answer # "ok"
    <3>1. calls[q].answer = None
      BY <2>1, Unanswered DEF IInv
    <3> QED BY <1>5, <1>6, <3>1, Nulls DEF IInv, AInv
  <2> QED BY <2>1, NothingCommitted
<1>15. IInv'
  BY <1>6, <1>8, <1>9, <1>13, UntouchedKeeps, OneRequest DEF Untouched
<1> QED BY <1>9, <1>14, <1>15, UntouchedKeeps DEF Kept

\* A request is answered, and its transaction is over.
LEMMA Ends ==
    ASSUME IInv, NEW r \in Requests, NEW stage, stage # "answered", Pending(r, stage),
           NEW a \in {"ok"} \union Errors, Answer(r, a),
           calls[r].late => a # "ok", stage = "member" => a # "ok",
           UNCHANGED <<accounts, removed>>, tx' = [tx EXCEPT ![r] = None],
           Later(llm, llm', LLMs), Later(ocr, ocr', OCRs),
           KeepsLocked(r, llm, llm', LLMs), KeepsLocked(r, ocr, ocr', OCRs),
           hSettings' \in [Households -> Values \union {None}],
           uSettings' \in [Users -> Values \union {None}]
    PROVE  /\ IInv'
           /\ stage # "tx_commit" \/ a # "ok" => Cleared
<1>1. Sound /\ UNCHANGED households
  BY Unwritten DEF IInv, AInv, accounts
<1>2. AInv'
  BY <1>1, Answered DEF IInv, Pending
<1>3. PICK c : calls' = [calls EXCEPT ![r] = c] /\ c.stage = "answered" /\ c.answer = a
  BY AnswerRecord
<1>4. TxInv(c, None)'
  BY <1>3 DEF TxInv, InTransaction
<1>5. ASSUME stage # "tx_commit" \/ a # "ok" PROVE Cleared
  <2>1. ASSUME NEW q \in Requests, Pending(q, "tx_commit") PROVE calls'[q].answer # "ok"
    <3>1. CASE q = r
      BY <1>3, <1>5, <2>1, <3>1 DEF IInv, AInv, Pending
    <3>2. CASE q # r
      <4>1. calls'[q] = calls[q]
        BY <1>3, <3>2 DEF IInv, AInv
      <4>2. calls[q].answer = None
        BY <2>1, Unanswered DEF IInv
      <4> QED BY <4>1, <4>2, Nulls
    <3> QED BY <3>1, <3>2
  <2> QED BY <2>1, NothingCommitted
<1> QED BY <1>2, <1>3, <1>4, <1>5, OneRequest

\* What a request has in its transaction.
LEMMA InItsTransaction ==
    ASSUME IInv, NEW r \in Requests, NEW tab, NEW ids, IsTable(r, tab, ids),
           NEW stage \in InTransaction, Pending(r, stage)
    PROVE  /\ tx[r] \in TxRecords /\ TxOf(calls[r].household, calls[r].stage, tx[r], tab, ids)
           /\ tab \in [ids -> ProviderRecords(Households) \union {None, Gone}]
           /\ ids \in {LLMs, OCRs} /\ ~calls[r].late
<1>1. tx[r] \in TxRecords /\ Within(calls[r], tx[r])
  BY DEF IInv, TxInv, Pending
<1>2. TxOf(calls[r].household, calls[r].stage, tx[r], tab, ids)
  BY <1>1 DEF Within, IsTable
<1>3. ~calls[r].late
  BY DEF IInv, AInv, CallInv, LateStopped, Pending, InTransaction
<1> QED BY <1>1, <1>2, <1>3 DEF IsTable, IInv, ProvidersOK

\* Ids of one table.
LEMMA OneTable ==
    ASSUME NEW ids \in {LLMs, OCRs}, NEW S, S \subseteq ids
    PROVE  S \in (SUBSET LLMs) \union (SUBSET OCRs) /\ S \subseteq LLMs \union OCRs
OBVIOUS

\* Begin.
LEMMA BeginStep ==
    ASSUME IInv, NEW r \in Requests, NEW tab, NEW ids, IsTable(r, tab, ids),
           Pending(r, "handler"), NEW p \in ids, NEW a \in Bodies, Begin(r, tab, p, a)
    PROVE  Kept
<1>1. PICK h : h = calls[r].household
  OBVIOUS
<1>2. PICK t : t = [seen |-> Own(tab, h), held |-> {}, id |-> p, name |-> a.name, key |-> a.key]
  OBVIOUS
<1>3. ids \in {LLMs, OCRs} /\ tab \in [ids -> ProviderRecords(Households) \union {None, Gone}]
  BY DEF IsTable, IInv, ProvidersOK
<1>4. \A q \in Own(tab, h) : q \in ids /\ IsRow(tab[q]) /\ tab[q].household = h
  BY <1>3 DEF Own, Rows
<1>5. t \in TxRecords
  <2>3. Own(tab, h) \subseteq ids /\ {p} \subseteq ids
    BY <1>4
  <2>1. Own(tab, h) \in (SUBSET LLMs) \union (SUBSET OCRs) /\ p \in LLMs \union OCRs
    BY <1>3, <2>3, OneTable
  <2>2. a.name \in ProviderNames /\ a.key \in BOOLEAN
    BY BodiesAssumption DEF BodiesAssumption
  <2> QED BY <1>2, <2>1, <2>2 DEF TxRecords
<1>6. \A q \in ids : IsRow(tab[q]) => tab[q] # None
  BY DEF IsRow
<1>7. /\ tx' = [tx EXCEPT ![r] = t] /\ Proceed(r, "tx_unset")
      /\ UNCHANGED <<accounts, removed, settings>> /\ "tx_unset" \in InTransaction
  BY <1>1, <1>2 DEF Begin, Elsewhere, InTransaction
<1>8. TxOf(calls[r].household, "tx_unset", t, tab, ids)
  BY <1>1, <1>2, <1>4, <1>6 DEF TxOf
<1> QED BY <1>5, <1>7, <1>8, Continues

\* The rows are locked.
LEMMA UnsetStep ==
    ASSUME IInv, NEW r \in Requests, NEW tab, NEW ids, IsTable(r, tab, ids),
           UnsetDefaults(r, tab)
    PROVE  Kept
<1>1. Pending(r, "tx_unset") /\ {"tx_unset", "tx_update"} \subseteq InTransaction
  BY DEF UnsetDefaults, InTransaction
<1>2. PICK s : s = tx[r]
  OBVIOUS
<1>3. /\ s \in TxRecords /\ TxOf(calls[r].household, calls[r].stage, s, tab, ids)
      /\ ids \in {LLMs, OCRs}
      /\ tab \in [ids -> ProviderRecords(Households) \union {None, Gone}]
  BY <1>1, <1>2, InItsTransaction
<1>4. PICK h : h = calls[r].household
  OBVIOUS
<1>5. PICK t : t = [s EXCEPT !.held = s.seen \intersect Own(tab, h)]
  OBVIOUS
<1>6. /\ t \in TxRecords /\ t.seen = s.seen /\ t.id = s.id
      /\ t.held = s.seen \intersect Own(tab, h)
  BY <1>3, <1>5 DEF TxRecords
<1>7. /\ tx' = [tx EXCEPT ![r] = t] /\ Proceed(r, "tx_update")
      /\ UNCHANGED <<accounts, removed, settings>>
  BY <1>2, <1>4, <1>5 DEF UnsetDefaults, Elsewhere
<1>8. \A p \in t.seen \ t.held : ~IsRow(tab[p])
  BY <1>3, <1>4, <1>6 DEF TxOf, Own, Rows
<1>9. TxOf(calls[r].household, "tx_update", t, tab, ids)
  BY <1>3, <1>4, <1>6, <1>8 DEF TxOf
<1> QED BY <1>1, <1>6, <1>7, <1>9, Continues

\* The provider is locked as well, or everything is rolled back.
LEMMA UpdateWithinStep ==
    ASSUME IInv, NEW r \in Requests, NEW tab, NEW ids, IsTable(r, tab, ids),
           UpdateWithin(r, tab)
    PROVE  Kept
<1>1. Pending(r, "tx_update") /\ {"tx_update", "tx_commit"} \subseteq InTransaction
      /\ UNCHANGED <<accounts, removed, settings>>
  BY DEF UpdateWithin, InTransaction, Elsewhere
<1>2. PICK s : s = tx[r]
  OBVIOUS
<1>3. /\ s \in TxRecords /\ TxOf(calls[r].household, calls[r].stage, s, tab, ids)
      /\ ids \in {LLMs, OCRs}
      /\ tab \in [ids -> ProviderRecords(Households) \union {None, Gone}] /\ ~calls[r].late
  BY <1>1, <1>2, InItsTransaction
<1>4. CASE /\ s.id \in Own(tab, calls[r].household)
           /\ tx' = [tx EXCEPT ![r].held = @ \union {s.id}] /\ Proceed(r, "tx_commit")
  <2>1. PICK t : t = [s EXCEPT !.held = s.held \union {s.id}]
    OBVIOUS
  <2>2. t.seen = s.seen /\ t.id = s.id /\ t.held = s.held \union {s.id}
    BY <1>3, <2>1 DEF TxRecords
  <2>3. s.held \subseteq ids /\ s.id \in ids
    BY <1>3 DEF TxOf, Own, Rows
  <2>4. t \in TxRecords
    <3>2. s.held \union {s.id} \subseteq ids
      BY <2>3
    <3>1. s.held \union {s.id} \in (SUBSET LLMs) \union (SUBSET OCRs)
      BY <1>3, <3>2, OneTable
    <3> QED BY <1>3, <2>1, <3>1 DEF TxRecords
  <2>5. tx' = [tx EXCEPT ![r] = t]
    BY <1>2, <1>4, <2>1
  <2>6. TxOf(calls[r].household, "tx_commit", t, tab, ids)
    BY <1>1, <1>3, <1>4, <2>2 DEF TxOf, Pending
  <2> QED BY <1>1, <1>4, <2>4, <2>5, <2>6, Continues
<1>5. ASSUME tx' = [tx EXCEPT ![r] = None],
             NEW a \in {"internal", "not_found"}, Answer(r, a)
      PROVE  Kept
  <2>1. Untouched
    BY <1>1 DEF Untouched, settings, IInv, ProvidersOK
  <2>2. a \in Errors /\ a # "ok"
    BY DEF Errors
  <2>3. IInv' /\ Cleared
    BY <1>1, <1>5, <2>1, <2>2, UntouchedKeeps, Ends DEF Untouched
  <2> QED BY <2>1, <2>3, UntouchedKeeps DEF Kept
<1> QED BY <1>2, <1>4, <1>5 DEF UpdateWithin

\* What a plain update does to a table.
PlainlyUpdated(tab, new, p, a) ==
    \/ p \in Own(tab, tab[p].household) /\ new = UpdateLLMProviderRow(tab, p, a.key, FALSE)
    \/ new = tab

\* It takes nothing away but the provider's being the default.
LEMMA PlainUpdate ==
    ASSUME NEW ids, NEW tab \in [ids -> ProviderRecords(Households) \union {None, Gone}],
           NEW p, NEW a \in Bodies, NEW new, PlainlyUpdated(tab, new, p, a)
    PROVE  /\ Later(tab, new, ids) /\ KeepsKeys(tab, new, ids)
           /\ \A q \in ids : IsRow(tab[q]) => IsRow(new[q])
<1>1. a.key \in BOOLEAN
  BY BodiesAssumption DEF BodiesAssumption
<1>2. CASE new = tab
  BY <1>2, TableUnwritten
<1>3. CASE /\ p \in Own(tab, tab[p].household)
           /\ new = UpdateLLMProviderRow(tab, p, a.key, FALSE)
  <2>1. PICK key \in BOOLEAN : key = a.key
    BY <1>1
  <2>2. new = UpdateLLMProviderRow(tab, p, key, FALSE)
    BY <1>3, <2>1
  <2> QED BY <1>3, <2>2, RowUpdated
<1> QED BY <1>2, <1>3 DEF PlainlyUpdated

\* A plain update, or the begin of a transaction.
LEMMA UpdateSteps ==
    ASSUME IInv, NEW r \in Requests, HandleUpdateLLMProvider(r) \/ HandleUpdateOCRProvider(r)
    PROVE  Kept
<1>1. /\ {"UpdateLLMProvider", "UpdateOCRProvider"} \subseteq ScopedOps /\ ScopedOps \subseteq Ops
      /\ {"bad_request", "not_found", "internal"} \subseteq Errors
  BY SettingsAssumption DEF SettingsAssumption, LLMOps, OCROps, Ops, Errors
<1>2. ASSUME NEW op \in ScopedOps, Running(r, op), Refuse(r, "bad_request")
      PROVE  Kept
  <2>1. Answer(r, "bad_request") /\ UNCHANGED <<accounts, removed, tx>> /\ Untouched
    BY <1>2 DEF Refuse, Elsewhere, settings, Untouched, IInv, ProvidersOK
  <2> QED BY <1>1, <1>2, <2>1, RepliedOnly
<1>3. KeepsLocked(r, llm, llm, LLMs) /\ KeepsLocked(r, ocr, ocr, OCRs)
  BY DEF KeepsLocked
<1>4. CASE HandleUpdateLLMProvider(r)
  <2>1. Running(r, "UpdateLLMProvider")
    BY <1>4 DEF HandleUpdateLLMProvider
  <2>2. CASE Unreadable(r)
    BY <1>1, <1>2, <2>1, <2>2 DEF Unreadable
  <2>3. ASSUME NEW p \in LLMs, NEW a \in Bodies, ServeUpdateLLMProvider(r, p, a) PROVE Kept
    <3>1. CASE Refuse(r, "bad_request")
      BY <1>1, <1>2, <2>1, <3>1
    <3>2. CASE Begin(r, llm, p, a)
      <4>1. IsTable(r, llm, LLMs) /\ Pending(r, "handler")
        BY <2>1 DEF IsTable, Running
      <4> QED BY <3>2, <4>1, BeginStep
    <3>3. ASSUME NEW o \in Outcomes, UpdateLLMProvider(r, p, a, o), Done(r, o) PROVE Kept
      <4>1. PICK b \in {"ok"} \union Errors :
               Answer(r, b) /\ UNCHANGED <<accounts, removed, tx, ocr, hSettings, uSettings>>
        BY <1>1, <3>3 DEF Done, Settle, UpdateLLMProvider, Outcomes
      <4>7. PlainlyUpdated(llm, llm', p, a)
        BY <3>3 DEF UpdateLLMProvider, PlainlyUpdated, Own
      <4>2. /\ Later(llm, llm', LLMs) /\ KeepsKeys(llm, llm', LLMs)
            /\ \A q \in LLMs : IsRow(llm[q]) => IsRow(llm'[q])
        BY <4>7, PlainUpdate DEF IInv, ProvidersOK
      <4>3. KeepsLocked(r, llm, llm', LLMs)
        BY <4>2 DEF KeepsLocked
      <4>4. Later(ocr, ocr', OCRs) /\ KeepsKeys(ocr, ocr', OCRs) /\ KeepsDefaults(ocr, ocr')
        BY <4>1, TableUnwritten DEF IInv, ProvidersOK
      <4>5. IInv' /\ Cleared
        BY <1>1, <1>3, <2>1, <4>1, <4>2, <4>3, <4>4, Replied DEF IInv, ProvidersOK
      <4> QED BY <2>1, <4>2, <4>4, <4>5 DEF Kept, Saved
    <3> QED BY <2>3, <3>1, <3>2, <3>3 DEF ServeUpdateLLMProvider
  <2> QED BY <1>4, <2>2, <2>3 DEF HandleUpdateLLMProvider
<1>5. CASE HandleUpdateOCRProvider(r)
  <2>1. Running(r, "UpdateOCRProvider")
    BY <1>5 DEF HandleUpdateOCRProvider
  <2>2. CASE Unreadable(r)
    BY <1>1, <1>2, <2>1, <2>2 DEF Unreadable
  <2>3. ASSUME NEW p \in OCRs, NEW a \in Bodies, ServeUpdateOCRProvider(r, p, a) PROVE Kept
    <3>1. CASE Refuse(r, "bad_request")
      BY <1>1, <1>2, <2>1, <3>1
    <3>2. CASE Begin(r, ocr, p, a)
      <4>1. IsTable(r, ocr, OCRs) /\ Pending(r, "handler")
        BY <2>1 DEF IsTable, Running
      <4> QED BY <3>2, <4>1, BeginStep
    <3>3. ASSUME NEW o \in Outcomes, UpdateOCRProvider(r, p, a, o), Done(r, o) PROVE Kept
      <4>1. PICK b \in {"ok"} \union Errors :
               Answer(r, b) /\ UNCHANGED <<accounts, removed, tx, llm, hSettings, uSettings>>
        BY <1>1, <3>3 DEF Done, Settle, UpdateOCRProvider, Outcomes
      <4>7. PlainlyUpdated(ocr, ocr', p, a)
        BY <3>3, SameStatements DEF UpdateOCRProvider, PlainlyUpdated, Own
      <4>2. /\ Later(ocr, ocr', OCRs) /\ KeepsKeys(ocr, ocr', OCRs)
            /\ \A q \in OCRs : IsRow(ocr[q]) => IsRow(ocr'[q])
        BY <4>7, PlainUpdate DEF IInv, ProvidersOK
      <4>3. KeepsLocked(r, ocr, ocr', OCRs)
        BY <4>2 DEF KeepsLocked
      <4>4. Later(llm, llm', LLMs) /\ KeepsKeys(llm, llm', LLMs) /\ KeepsDefaults(llm, llm')
        BY <4>1, TableUnwritten DEF IInv, ProvidersOK
      <4>5. IInv' /\ Cleared
        BY <1>1, <1>3, <2>1, <4>1, <4>2, <4>3, <4>4, Replied DEF IInv, ProvidersOK
      <4> QED BY <2>1, <4>2, <4>4, <4>5 DEF Kept, Saved
    <3> QED BY <2>3, <3>1, <3>2, <3>3 DEF ServeUpdateOCRProvider
  <2> QED BY <1>5, <2>2, <2>3 DEF HandleUpdateOCRProvider
<1> QED BY <1>4, <1>5

\* What a commit does to its table: the rows the transaction saw are no defaults any more,
\* but for one.
LEMMA CommitTable ==
    ASSUME NEW ids, NEW tab \in [ids -> ProviderRecords(Households) \union {None, Gone}],
           NEW h, NEW t \in TxRecords, TxOf(h, "tx_commit", t, tab, ids), NEW new,
           new = UpdateLLMProviderRow(UnsetDefaultLLMProviders(tab, t.held), t.id, t.key, TRUE)
    PROVE  /\ Later(tab, new, ids) /\ KeepsKeys(tab, new, ids) /\ KeepsDefaults(tab, new)
           /\ \A q \in ids : IsRow(tab[q]) => IsRow(new[q])
           /\ \A q \in t.seen \ {t.id} : q \in ids /\ ~IsDefault(new, q)
<1>14. PICK held, id, key : held = t.held /\ id = t.id /\ key = t.key
  OBVIOUS
<1>15. /\ held \subseteq Own(tab, h) /\ id \in held /\ key \in BOOLEAN
       /\ new = UpdateLLMProviderRow(UnsetDefaultLLMProviders(tab, held), id, key, TRUE)
  BY <1>14 DEF TxOf, TxRecords
<1>1. \A q \in held : q \in ids /\ IsRow(tab[q]) /\ tab[q].household = h
  BY <1>15 DEF Own, Rows
<1>2. \A q \in held : tab[q] \in ProviderRecords(Households)
  BY <1>1 DEF IsRow
<1>3. PICK mid : mid = [q \in ids |-> IF q \in held THEN [tab[q] EXCEPT !.default = FALSE]
                                      ELSE tab[q]]
  OBVIOUS
<1>4. mid = UnsetDefaultLLMProviders(tab, held)
  BY <1>3 DEF UnsetDefaultLLMProviders
<1>5. ASSUME NEW q \in held
      PROVE  /\ mid[q] \in ProviderRecords(Households) /\ mid[q].household = h
             /\ mid[q].key = tab[q].key /\ ~mid[q].default
  BY <1>1, <1>2, <1>3 DEF ProviderRecords
<1>6. mid \in [ids -> ProviderRecords(Households) \union {None, Gone}]
  BY <1>3, <1>5
<1>7. PICK row : row = [mid[id] EXCEPT !.key = mid[id].key \/ key, !.default = TRUE]
  OBVIOUS
<1>8. /\ row \in ProviderRecords(Households) /\ row.household = h /\ row.default
      /\ tab[id].key => row.key
  BY <1>5, <1>7, <1>15 DEF ProviderRecords
<1>9. new = [mid EXCEPT ![id] = row]
  BY <1>15, <1>1, <1>4, <1>5, <1>6, <1>7 DEF UpdateLLMProviderRow, ProviderRecords
<1>10. /\ new \in [ids -> ProviderRecords(Households) \union {None, Gone}]
       /\ \A q \in ids : q \notin held => new[q] = tab[q]
       /\ \A q \in held \ {id} : new[q] = mid[q]
       /\ new[id] = row
  <2>1. id \in ids /\ id \in held /\ held \subseteq ids
    BY <1>1, <1>15
  <2>2. /\ new \in [ids -> ProviderRecords(Households) \union {None, Gone}]
        /\ \A q \in ids \ {id} : new[q] = mid[q]
        /\ new[id] = row
    BY <1>6, <1>8, <1>9, <2>1
  <2>3. \A q \in ids : q \notin held => mid[q] = tab[q]
    BY <1>3
  <2> QED BY <2>1, <2>2, <2>3
<1>11. ASSUME NEW q \in held
       PROVE  /\ IsRow(new[q]) /\ new[q].household = h /\ (tab[q].key => new[q].key)
              /\ q # id => ~new[q].default
  BY <1>5, <1>8, <1>10, ProviderIsRow
<1>12. Later(tab, new, ids) /\ KeepsKeys(tab, new, ids)
  <2>1. ASSUME NEW q \in ids, tab[q] # None
        PROVE  new[q] # None /\ (IsRow(new[q]) =>
                                    IsRow(tab[q]) /\ new[q].household = tab[q].household)
    <3>1. CASE q \in held
      BY <1>1, <1>11, <3>1 DEF IsRow
    <3>2. CASE q \notin held
      BY <1>10, <2>1, <3>2
    <3> QED BY <3>1, <3>2
  <2>2. ASSUME NEW q \in ids, IsRow(tab[q]), tab[q].key PROVE new[q] = Gone \/ new[q].key
    <3>1. CASE q \in held
      BY <1>11, <2>2, <3>1
    <3>2. CASE q \notin held
      BY <1>10, <2>2, <3>2
    <3> QED BY <3>1, <3>2
  <2> QED BY <1>10, <2>1, <2>2 DEF Later, KeepsKeys
<1>13. KeepsDefaults(tab, new)
  <2> SUFFICES ASSUME NEW g \in Households, NEW q \in Own(tab, g), tab[q].default
               PROVE  HasDefault(new, g)
    BY DEF KeepsDefaults, HasDefault
  <2>1. q \in ids /\ IsRow(tab[q]) /\ tab[q].household = g
    BY DEF Own, Rows
  <2>2. CASE q \in held
    <3>1. id \in Own(new, g) /\ new[id].default
      BY <1>1, <1>8, <1>10, <1>11, <1>15, <2>1, <2>2 DEF Own, Rows
    <3> QED BY <3>1 DEF HasDefault
  <2>3. CASE q \notin held
    <3>1. q \in Own(new, g) /\ new[q].default
      BY <1>10, <2>1, <2>3 DEF Own, Rows
    <3> QED BY <3>1 DEF HasDefault
  <2> QED BY <2>2, <2>3
<1>16. \A q \in ids : IsRow(tab[q]) <=> IsRow(new[q])
  BY <1>1, <1>10, <1>11
<1>17. ASSUME NEW q \in t.seen \ {t.id} PROVE q \in ids /\ ~IsDefault(new, q)
  <2>1. q \in ids /\ q # id /\ (q \in held \/ ~IsRow(tab[q]))
    BY <1>14 DEF TxOf
  <2>2. CASE q \in held
    BY <1>11, <2>1, <2>2 DEF IsDefault
  <2>3. CASE ~IsRow(tab[q])
    BY <1>16, <2>1, <2>3 DEF IsDefault
  <2> QED BY <2>1, <2>2, <2>3
<1> QED BY <1>12, <1>13, <1>16, <1>17

\* A commit shows what it was told of to all.
LEMMA CommitStep ==
    ASSUME IInv, NEW r \in Requests, NEW tab, NEW ids, IsTable(r, tab, ids), Ended(r),
           NEW new,
           new = UpdateLLMProviderRow(UnsetDefaultLLMProviders(tab, tx[r].held),
                                      tx[r].id, tx[r].key, TRUE),
           UNCHANGED <<accounts, removed, hSettings, uSettings>>,
           \/ tab = llm /\ ids = LLMs /\ llm' = new /\ ocr' = ocr
           \/ tab = ocr /\ ids = OCRs /\ ocr' = new /\ llm' = llm
    PROVE  Kept
<1>1. Pending(r, "tx_commit") /\ "tx_commit" \in InTransaction
      /\ tx' = [tx EXCEPT ![r] = None]
  BY DEF Ended, InTransaction
<1>2. PICK a \in {"ok", "internal"} : Answer(r, a)
  BY DEF Ended
<1>3. PICK t, h : t = tx[r] /\ h = calls[r].household
  OBVIOUS
<1>4. /\ t \in TxRecords /\ TxOf(h, "tx_commit", t, tab, ids) /\ ~calls[r].late
      /\ tab \in [ids -> ProviderRecords(Households) \union {None, Gone}]
  <2>1. calls[r].stage = "tx_commit"
    BY <1>1 DEF Pending
  <2> QED BY <1>1, <1>3, <2>1, InItsTransaction
<1>5. /\ Later(tab, new, ids) /\ KeepsKeys(tab, new, ids) /\ KeepsDefaults(tab, new)
      /\ \A q \in ids : IsRow(tab[q]) => IsRow(new[q])
      /\ \A q \in t.seen \ {t.id} : q \in ids /\ ~IsDefault(new, q)
  <2>1. new = UpdateLLMProviderRow(UnsetDefaultLLMProviders(tab, t.held), t.id, t.key, TRUE)
    BY <1>3
  <2> QED BY <1>4, <2>1, CommitTable
<1>6. KeepsLocked(r, tab, new, ids)
  BY <1>5 DEF KeepsLocked
<1>7. /\ Later(llm, llm', LLMs) /\ KeepsKeys(llm, llm', LLMs) /\ KeepsDefaults(llm, llm')
      /\ Later(ocr, ocr', OCRs) /\ KeepsKeys(ocr, ocr', OCRs) /\ KeepsDefaults(ocr, ocr')
      /\ KeepsLocked(r, llm, llm', LLMs) /\ KeepsLocked(r, ocr, ocr', OCRs)
  <2>1. /\ Later(llm, llm, LLMs) /\ KeepsKeys(llm, llm, LLMs) /\ KeepsDefaults(llm, llm)
        /\ Later(ocr, ocr, OCRs) /\ KeepsKeys(ocr, ocr, OCRs) /\ KeepsDefaults(ocr, ocr)
    BY TableUnwritten DEF IInv, ProvidersOK
  <2>2. KeepsLocked(r, llm, llm, LLMs) /\ KeepsLocked(r, ocr, ocr, OCRs)
    BY DEF KeepsLocked
  <2>3. CASE tab = llm /\ ids = LLMs /\ llm' = new /\ ocr' = ocr
    BY <1>5, <1>6, <2>1, <2>2, <2>3
  <2>4. CASE tab = ocr /\ ids = OCRs /\ ocr' = new /\ llm' = llm
    BY <1>5, <1>6, <2>1, <2>2, <2>4
  <2> QED BY <2>3, <2>4
<1>8. IInv'
  <2>1. a \in {"ok"} \union Errors
    BY DEF Errors
  <2>2. /\ hSettings' \in [Households -> Values \union {None}]
        /\ uSettings' \in [Users -> Values \union {None}]
    BY DEF IInv, ProvidersOK
  <2>3. "tx_commit" # "answered" /\ "tx_commit" # "member"
    OBVIOUS
  <2> QED BY <1>1, <1>2, <1>4, <1>7, <2>1, <2>2, <2>3, Ends, Zenon
<1>9. Cleared
  <2> SUFFICES ASSUME NEW q \in Requests, Pending(q, "tx_commit"), calls'[q].answer = "ok",
                      NEW p \in tx[q].seen \ {tx[q].id}
               PROVE  (p \in LLMs /\ ~IsDefault(llm', p)) \/ (p \in OCRs /\ ~IsDefault(ocr', p))
    BY DEF Cleared
  <2>1. q = r
    <3>1. q # r => calls'[q] = calls[q]
      BY <1>2 DEF Answer, IInv, AInv
    <3>2. calls[q].answer = None
      BY Unanswered DEF IInv
    <3> QED BY <3>1, <3>2, Nulls
  <2>2. p \in ids /\ ~IsDefault(new, p)
    BY <1>3, <1>5, <2>1
  <2> QED BY <2>2
<1> QED BY <1>7, <1>8, <1>9 DEF Kept, Saved

\* A provider is made the default.
LEMMA DefaultSteps ==
    ASSUME IInv, NEW r \in Requests, MakeDefaultLLM(r) \/ MakeDefaultOCR(r)
    PROVE  Kept
<1>1. CASE MakeDefaultLLM(r)
  <2>1. IsTable(r, llm, LLMs)
    BY <1>1 DEF MakeDefaultLLM, IsTable
  <2>2. CASE /\ Ended(r) /\ UNCHANGED <<Elsewhere, ocr, hSettings, uSettings>>
             /\ llm' = UpdateLLMProviderRow(UnsetDefaultLLMProviders(llm, tx[r].held),
                                            tx[r].id, tx[r].key, TRUE)
    BY <2>1, <2>2, CommitStep DEF Elsewhere
  <2> QED BY <1>1, <2>1, <2>2, UnsetStep, UpdateWithinStep DEF MakeDefaultLLM
<1>2. CASE MakeDefaultOCR(r)
  <2>1. IsTable(r, ocr, OCRs)
    BY <1>2 DEF MakeDefaultOCR, IsTable
  <2>2. CASE /\ Ended(r) /\ UNCHANGED <<Elsewhere, llm, hSettings, uSettings>>
             /\ ocr' = UpdateOCRProviderRow(UnsetDefaultOCRProviders(ocr, tx[r].held),
                                            tx[r].id, tx[r].key, TRUE)
    <3>1. ocr' = UpdateLLMProviderRow(UnsetDefaultLLMProviders(ocr, tx[r].held),
                                      tx[r].id, tx[r].key, TRUE)
      BY <2>2, SameStatements
    <3> QED BY <2>1, <2>2, <3>1, CommitStep DEF Elsewhere
  <2> QED BY <1>2, <2>1, <2>2, UnsetStep, UpdateWithinStep DEF MakeDefaultOCR
<1> QED BY <1>1, <1>2

--------------------------------------------------------------------------------
(* What goes wrong, and what the rest of the program does.                  *)

\* The database fails one request.
LEMMA FailsStep ==
    ASSUME IInv, NEW r \in Requests, DatabaseFails(r)
    PROVE  Kept
<1>1. PICK stage : stage = calls[r].stage
  OBVIOUS
<1>2. /\ Pending(r, stage) /\ stage # "answered" /\ "internal" \in {"ok"} \union Errors
      /\ "internal" # "ok" /\ Answer(r, "internal")
      /\ UNCHANGED <<accounts, removed, settings>> /\ tx' = [tx EXCEPT ![r] = None]
  BY <1>1 DEF DatabaseFails, Pending, Errors, Elsewhere
<1>3. Untouched
  BY <1>2 DEF Untouched, settings, IInv, ProvidersOK
<1>4. /\ Later(llm, llm', LLMs) /\ Later(ocr, ocr', OCRs)
      /\ KeepsLocked(r, llm, llm', LLMs) /\ KeepsLocked(r, ocr, ocr', OCRs) /\ Saved
  BY <1>3, UntouchedKeeps
<1>5. IInv' /\ Cleared
  BY <1>2, <1>3, <1>4, Ends DEF Untouched
<1> QED BY <1>4, <1>5 DEF Kept

\* The process ends.
LEMMA CrashStep ==
    ASSUME IInv, Crash
    PROVE  Kept
<1> DEFINE Lost(c) == [Blank EXCEPT !.answer = "lost", !.late = c.late, !.household =
                          IF c.op = "CreateHousehold" THEN c.household ELSE None]
<1>1. /\ UNCHANGED <<accounts, removed, settings>> /\ tx' = [r \in Requests |-> None]
      /\ calls' = [r \in Requests |->
             IF calls[r] = None \/ Pending(r, "answered") THEN calls[r] ELSE Lost(calls[r])]
  BY DEF Crash, Elsewhere
<1>2. ASSUME NEW c \in CallRecords
      PROVE  /\ Lost(c) \in CallRecords /\ Lost(c).stage = "answered"
             /\ Lost(c).answer = "lost" /\ Lost(c).late = c.late
             /\ c.op = "CreateHousehold" => Lost(c).household = c.household
  <2>1. (IF c.op = "CreateHousehold" THEN c.household ELSE None) \in Households \union {None, BadId}
    BY DEF CallRecords
  <2>2. PICK h : h = IF c.op = "CreateHousehold" THEN c.household ELSE None
    OBVIOUS
  <2>3. Lost(c) = [Blank EXCEPT !.answer = "lost", !.late = c.late, !.household = h]
    BY <2>2
  <2>4. c.late \in BOOLEAN /\ "lost" \in Errors
    BY DEF CallRecords, Errors
  <2> QED BY <2>1, <2>2, <2>3, <2>4 DEF CallRecords, Blank, Stages
<1> HIDE DEF Lost
<1>3. ASSUME NEW q \in Requests
      PROVE  /\ calls[q] = None => calls'[q] = None
             /\ calls[q] # None => /\ calls'[q] \in CallRecords /\ calls'[q] # None
                                   /\ calls'[q].stage = "answered"
             /\ calls[q] # None /\ ~Pending(q, "answered") =>
                   calls[q] \in CallRecords /\ calls'[q] = Lost(calls[q])
             /\ Pending(q, "answered") => calls'[q] = calls[q]
  BY <1>1, <1>2, Nulls DEF IInv, AInv, Pending
<1>4. Sound /\ UNCHANGED <<households, members, removed>>
  BY <1>1, Unwritten DEF IInv, AInv, accounts
<1>5. ASSUME NEW q \in Requests, calls'[q] # None PROVE CallInv(calls[q])'
  <2>1. PICK c : c = calls'[q]
    OBVIOUS
  <2>2. CASE Pending(q, "answered")
    <3>1. CallInv(c) /\ c = calls[q]
      BY <1>3, <1>5, <2>1, <2>2 DEF IInv, AInv
    <3>2. CallInv(c)'
      BY <1>4, <3>1, CallStable DEF IInv, AInv
    <3> QED BY <2>1, <3>2
  <2>3. CASE ~Pending(q, "answered")
    <3>1. calls[q] # None /\ calls[q] \in CallRecords
      BY <1>3, <1>5, <2>3
    <3>2. c = Lost(calls[q]) /\ c \in CallRecords /\ c.stage = "answered" /\ c.answer = "lost"
      BY <1>2, <1>3, <2>1, <2>3, <3>1
    <3>3. "lost" # None
      BY Nulls DEF Errors
    <3>4. CallInv(c)'
      BY <3>2, <3>3 DEF CallInv, Carried, Admitted, Inside, LateStopped, OwnerDue
    <3> QED BY <2>1, <3>4
  <2> QED BY <2>2, <2>3
<1>6. OwnerLeftovers'
  <2> SUFFICES ASSUME NEW h \in Rows(households),
                      members[h][households[h].creator] # "owner",
                      \A R \in SUBSET Requests : <<h, households[h].creator, R>> \notin removed
               PROVE  \E q \in Requests :
                         /\ \/ Pending(q, "answered")'
                            \/ Pending(q, "member")' /\ calls'[q].op = "CreateHousehold"
                         /\ calls'[q].household = h /\ calls'[q].answer # "ok"
    BY <1>4 DEF OwnerLeftovers
  <2>1. PICK q \in Requests : /\ \/ Pending(q, "answered")
                                 \/ Pending(q, "member") /\ calls[q].op = "CreateHousehold"
                              /\ calls[q].household = h /\ calls[q].answer # "ok"
    BY DEF IInv, AInv, OwnerLeftovers
  <2>2. calls'[q] # None /\ calls'[q].stage = "answered"
    BY <1>3, <2>1 DEF Pending
  <2>3. calls'[q].household = h /\ calls'[q].answer # "ok"
    <3>1. CASE Pending(q, "answered")
      BY <1>3, <2>1, <3>1
    <3>2. CASE ~Pending(q, "answered")
      <4>1. calls[q] # None /\ calls[q].op = "CreateHousehold"
        BY <2>1, <3>2 DEF Pending
      <4> QED BY <1>2, <1>3, <2>1, <3>2, <4>1
    <3> QED BY <3>1, <3>2
  <2> QED BY <2>2, <2>3 DEF Pending
<1>7. AInv'
  <2>1. calls' \in [Requests -> CallRecords \union {None}]
    BY <1>1, <1>3
  <2>2. MembersOnly'
    BY <1>3 DEF MembersOnly, LetIn
  <2> QED BY <1>4, <1>5, <1>6, <2>1, <2>2 DEF AInv, Sound
<1>8. \A q \in Requests : TxInv(calls[q], tx[q])'
  BY <1>1, <1>3 DEF TxInv, InTransaction
<1>9. Untouched
  BY <1>1 DEF Untouched, settings, IInv, ProvidersOK
<1>10. IInv'
  BY <1>1, <1>7, <1>8, <1>9 DEF IInv, ProvidersOK, Untouched, settings, providers
<1>11. Cleared
  <2>1. ASSUME NEW q \in Requests, Pending(q, "tx_commit") PROVE calls'[q].answer # "ok"
    <3>1. calls[q] \in CallRecords /\ calls'[q] = Lost(calls[q])
      BY <1>3, <2>1 DEF Pending
    <3> QED BY <1>2, <3>1
  <2> QED BY <2>1, NothingCommitted
<1>12. Saved
  <2>1. /\ KeepsKeys(llm, llm, LLMs) /\ KeepsDefaults(llm, llm)
        /\ KeepsKeys(ocr, ocr, OCRs) /\ KeepsDefaults(ocr, ocr)
    BY TableUnwritten DEF IInv, ProvidersOK
  <2> QED BY <1>9, <2>1 DEF Saved, Untouched, providers
<1> QED BY <1>10, <1>11, <1>12 DEF Kept

\* Nothing happens to the settings.
LEMMA SettingsUnwritten ==
    ASSUME IInv, AInv', UNCHANGED <<settings, tx>>,
           \A q \in Requests : calls'[q] = calls[q] \/ Outside(q)
    PROVE  Kept
<1>1. llm' = llm /\ ocr' = ocr /\ hSettings' = hSettings /\ uSettings' = uSettings /\ tx' = tx
  BY DEF settings, providers
<1>2. ASSUME NEW q \in Requests PROVE TxInv(calls[q], tx[q])'
  <2>1. TxInv(calls[q], tx[q])
    BY DEF IInv
  <2>2. CASE calls'[q] = calls[q]
    BY <1>1, <2>1, <2>2 DEF TxInv, Within
  <2>3. CASE Outside(q)
    <3>1. tx[q] = None
      BY <2>1, <2>3 DEF TxInv, Outside
    <3> QED BY <1>1, <2>3, <3>1 DEF TxInv, Outside
  <2> QED BY <2>2, <2>3
<1>3. IInv'
  BY <1>1, <1>2 DEF IInv, ProvidersOK
<1>4. Cleared
  <2>1. ASSUME NEW q \in Requests, Pending(q, "tx_commit") PROVE calls'[q].answer # "ok"
    <3>1. calls'[q] = calls[q]
      BY <2>1 DEF Outside, Pending, InTransaction
    <3>2. calls[q].answer = None
      BY <2>1, Unanswered DEF IInv
    <3> QED BY <3>1, <3>2, Nulls
  <2> QED BY <2>1, NothingCommitted
<1>5. Saved
  <2>1. /\ KeepsKeys(llm, llm, LLMs) /\ KeepsDefaults(llm, llm)
        /\ KeepsKeys(ocr, ocr, OCRs) /\ KeepsDefaults(ocr, ocr)
    BY TableUnwritten DEF IInv, ProvidersOK
  <2> QED BY <1>1, <2>1 DEF Saved
<1> QED BY <1>3, <1>4, <1>5 DEF Kept

\* Every step.
LEMMA NextKeeps ==
    ASSUME IInv, [Next]_vars
    PROVE  Kept
<1>1. CASE AccountsStep /\ UNCHANGED <<settings, tx>>
  <2>1. AInv' /\ \A q \in Requests : calls'[q] = calls[q] \/ Outside(q)
    BY <1>1, AccountsStepKeeps, NoTransaction DEF IInv
  <2> QED BY <1>1, <2>1, SettingsUnwritten
<1>2. ASSUME NEW r \in Requests, HandleSettings(r) PROVE Kept
  BY <1>2, SettingSteps, CreateSteps, DeleteSteps, UpdateSteps, DefaultSteps DEF HandleSettings
<1>3. ASSUME NEW r \in Requests, DatabaseFails(r) PROVE Kept
  BY <1>3, FailsStep
<1>4. CASE Crash
  BY <1>4, CrashStep
<1>5. CASE UNCHANGED vars
  <2>1. UNCHANGED <<accounts, calls, removed, settings, tx>>
    BY <1>5 DEF vars
  <2>2. AInv'
    <3>1. Sound
      BY <2>1, Unwritten DEF IInv, AInv, accounts
    <3>2. ASSUME NEW q \in Requests, calls[q] # None PROVE CallInv(calls[q])'
      <4>1. PICK c : c = calls[q]
        OBVIOUS
      <4>2. CallInv(c)'
        BY <2>1, <3>1, <3>2, <4>1, CallStable DEF IInv, AInv
      <4> QED BY <2>1, <4>1, <4>2
    <3>3. OwnerLeftovers'
      BY <2>1 DEF IInv, AInv, OwnerLeftovers, Pending, accounts
    <3>4. MembersOnly'
      BY <2>1 DEF IInv, AInv, MembersOnly, LetIn, accounts
    <3> QED BY <2>1, <3>1, <3>2, <3>3, <3>4 DEF IInv, AInv, Sound
  <2> QED BY <2>1, <2>2, SettingsUnwritten
<1> QED BY <1>1, <1>2, <1>3, <1>4, <1>5 DEF Next

\* The start.
LEMMA InitStarts ==
    ASSUME Init
    PROVE  IInv
<1>1. TablesOK /\ \A h \in Rows(households) : members[h][households[h].creator] = "owner"
  <2>1. PICK db \in Accts : /\ users = db[1] /\ sessions = db[2]
                            /\ households = db[3] /\ members = db[4]
    BY DEF Init, AccountsInit
  <2>2. links = [l \in Links |-> None]
    BY DEF Init, AccountsInit
  <2> QED BY <2>1, <2>2, AcctsAssumption DEF AcctsAssumption, TablesOK
<1>2. calls = [r \in Requests |-> None] /\ tx = [r \in Requests |-> None]
  BY DEF Init, AccountsInit
<1>4. ProvidersOK
  <2>1. PICK db \in Stocked : llm = db[1] /\ ocr = db[2]
    BY DEF Init
  <2> QED BY <2>1, SettingsAssumption DEF Init, SettingsAssumption, ProvidersOK
<1>3. AInv
  BY <1>1, <1>2 DEF AInv, OwnerLeftovers, MembersOnly, LetIn
<1> QED BY <1>2, <1>3, <1>4 DEF IInv, TxInv

--------------------------------------------------------------------------------
(* The theorems.                                                            *)

\* IInv holds in every state, and no step takes a default or a key away or answers that
\* a default is set while another the transaction saw still is one.
THEOREM SettingsInvariant == Spec => []IInv
<1>1. Init => IInv
  BY InitStarts
<1>2. IInv /\ [Next]_vars => IInv'
  BY NextKeeps DEF Kept
<1> QED BY <1>1, <1>2, PTL DEF Spec

\* Every table holds what its columns may hold, a member is a user of a household, a request
\* behind the middleware has its user, and a transaction is open just as long as its
\* request is in it (auth, household, settings repository_pg.go).
THEOREM SettingsTypes == Spec => []TypeOK
<1>1. IInv => TypeOK
  <2>1. IInv => AccountsOK
    <3> SUFFICES ASSUME IInv, NEW r \in Requests, calls[r] # None
                 PROVE  /\ calls[r] \in CallRecords
                        /\ calls[r].stage = "answered" <=> calls[r].answer # None
                        /\ calls[r].stage \notin {"session", "answered"}
                              /\ calls[r].op \notin Public => calls[r].user # None
      BY TypesOfAccounts DEF IInv, AInv
    <3> QED BY DEF IInv, AInv, CallInv, Carried
  <2>2. IInv => \A r \in Requests :
           \/ tx[r] = None /\ (calls[r] = None \/ calls[r].stage \notin InTransaction)
           \/ tx[r] \in TxRecords /\ calls[r] # None /\ calls[r].stage \in InTransaction
    BY DEF IInv, TxInv
  <2> QED BY <2>1, <2>2 DEF TypeOK, IInv, ProvidersOK
<1> QED BY <1>1, SettingsInvariant, PTL

\* Whoever comes with a token that is of no use any more gets nowhere, and a request is
\* served only in a household its user is a member of, or was one of until he was removed
\* during that very request (auth/middleware.go:38, household/middleware.go:40).
THEOREM SettingsAdmission == Spec => []Admission
<1>1. IInv => NothingAfterLogout
  <2> SUFFICES ASSUME IInv, NEW r \in Requests, calls[r] # None, calls[r].late
               PROVE  calls[r].stage \in {"session", "answered"} /\ calls[r].answer # "ok"
    BY DEF NothingAfterLogout
  <2> QED BY DEF IInv, AInv, CallInv, LateStopped
<1>2. IInv => MembersOnly
  BY DEF IInv, AInv
<1> QED BY <1>1, <1>2, SettingsInvariant, PTL DEF Admission

\* Whoever created a household owns it, unless he was removed from it or CreateHousehold did
\* not get through, or did not tell him (household/service.go:37, :85).
THEOREM SettingsOwnerLeftovers == Spec => []OwnerLeftovers
<1>1. IInv => OwnerLeftovers
  BY DEF IInv, AInv
<1> QED BY <1>1, SettingsInvariant, PTL

\* When "set as default" is answered, the provider is the only default of those that existed
\* when its transaction began, whoever makes others the default, deletes or updates them
\* meanwhile (settings/repository_pg.go:264).
THEOREM SettingsOneDefault == Spec => OneDefault
<1>1. IInv /\ [Next]_vars =>
         [\A r \in Requests : Pending(r, "tx_commit") /\ calls'[r].answer = "ok" =>
             \A p \in tx[r].seen \ {tx[r].id} :
                \/ p \in LLMs /\ ~IsDefault(llm', p)
                \/ p \in OCRs /\ ~IsDefault(ocr', p)]_vars
  BY NextKeeps DEF Kept, Cleared
<1> QED BY <1>1, SettingsInvariant, PTL DEF Spec, OneDefault

\* A household that has a default of its own keeps one, but for a delete or a plain update,
\* and a key that is stored stays stored (settings/repository_pg.go:264-284, :323-343).
THEOREM SettingsNothingIsLost == Spec => NothingIsLost
<1>1. ASSUME IInv, [Next]_vars
      PROVE  [/\ \A h \in Households :
                    /\ /\ GetDefaultLLM(h) \intersect Own(llm, h) # {}
                       /\ GetDefaultLLM(h)' \intersect Own(llm', h) = {}
                       => \E r \in Requests :
                             Running(r, "DeleteLLMProvider") \/ Running(r, "UpdateLLMProvider")
                    /\ /\ GetDefaultOCR(h) \intersect Own(ocr, h) # {}
                       /\ GetDefaultOCR(h)' \intersect Own(ocr', h) = {}
                       => \E r \in Requests :
                             Running(r, "DeleteOCRProvider") \/ Running(r, "UpdateOCRProvider")
              /\ \A p \in Rows(llm) : llm[p].key => llm'[p] = Gone \/ llm'[p].key
              /\ \A p \in Rows(ocr) : ocr[p].key => ocr'[p] = Gone \/ ocr'[p].key]_vars
  <2>1. Saved /\ ProvidersOK /\ ProvidersOK'
    BY <1>1, NextKeeps DEF Kept, IInv
  <2>2. ASSUME NEW h \in Households
        PROVE  /\ GetDefaultLLM(h) \intersect Own(llm, h) # {} <=> HasDefault(llm, h)
               /\ GetDefaultOCR(h) \intersect Own(ocr, h) # {} <=> HasDefault(ocr, h)
               /\ GetDefaultLLM(h)' \intersect Own(llm', h) # {} <=> HasDefault(llm', h)
               /\ GetDefaultOCR(h)' \intersect Own(ocr', h) # {} <=> HasDefault(ocr', h)
    BY <2>1, DefaultsFound DEF ProvidersOK, GetDefaultLLM, GetDefaultOCR
  <2>3. /\ \A p \in Rows(llm) : p \in LLMs /\ IsRow(llm[p])
        /\ \A p \in Rows(ocr) : p \in OCRs /\ IsRow(ocr[p])
    BY <2>1 DEF Rows, ProvidersOK
  <2> QED BY <2>1, <2>2, <2>3 DEF Saved, KeepsDefaults, KeepsKeys
<1> QED BY <1>1, SettingsInvariant, PTL DEF Spec, NothingIsLost

================================================================================
