-------------------------------- MODULE Accounts --------------------------------
(***************************************************************************)
(* Who may ask for what: the requests of src/baskety/internal/auth,        *)
(* household and share, and the two middlewares every other request goes   *)
(* through.  auth.Middleware turns a token into a user, ScopeMiddleware a  *)
(* user into a household he is a member of; what they found is in the      *)
(* request's context from then on, and may be past when the request is     *)
(* served.  Nothing here runs in a transaction.                            *)
(***************************************************************************)
EXTENDS AccountSQL

CONSTANTS
    Users, Sessions, Links,
    Households, \* numbered in the order of created_at
    Emails,
    Requests,
    BadId,      \* an X-Household-ID that is no UUID
    ScopedOps,  \* the operations behind ScopeMiddleware, for the modules that serve them
    Accts       \* the databases the model starts from: <<users, sessions, households, members>>

VARIABLES
    users, sessions, households, members, links,    \* the tables
    calls,      \* the requests, each None until it is received
    removed     \* history: <<household, user, the requests that were let in for him>>, for
                \* every member RemoveMember has removed

accounts == <<users, sessions, households, members, links>>

Public == {"Register", "Login", "GetShared"}
SignedIn == {"Logout", "ListHouseholds", "CreateHousehold", "GetHousehold", "AddMember",
             "RemoveMember", "CreateShareLink"}
Ops == Public \union SignedIn \union ScopedOps
Stages == {"session", "scope", "handler", "member", "second", "tx_unset", "tx_update",
           "tx_commit", "answered"}
Errors == {"bad_request", "unauthorized", "forbidden", "not_found", "conflict", "gone",
           "internal", "lost"}

\* household: the one in X-Household-ID or in the path, then the one in the context.
\* late is history: was its token of no use any more when the request came?
CallRecords ==
    [op : Ops \union {None}, token : Sessions \union {None},
     household : Households \union {None, BadId}, user : Users \union {None},
     stage : Stages, answer : {"ok", None} \union Errors, late : BOOLEAN]

ASSUME AccountsAssumption ==
    /\ None # Gone
    /\ NoNull(Users) /\ NoNull(Sessions) /\ NoNull(Households) /\ NoNull(Roles)
    /\ NoNull(UserRecords(Emails)) /\ NoNull(SessionRecords(Users))
    /\ NoNull(HouseholdRecords(Users)) /\ NoNull(LinkRecords) /\ NoNull(CallRecords)
    /\ NoNull(Ops) /\ NoNull(Errors \union {"ok"})
    /\ BadId \notin Households \union {None}
    /\ ScopedOps \intersect (Public \union SignedIn) = {}
    /\ Households \subseteq Nat /\ IsFiniteSet(Households)

\* The columns and the foreign keys; and every creator is an owner.
ASSUME AcctsAssumption == \A db \in Accts :
    /\ db[1] \in [Users -> UserRecords(Emails) \union {None}]
    /\ db[2] \in [Sessions -> SessionRecords(Users) \union {None, Gone}]
    /\ db[3] \in [Households -> HouseholdRecords(Users) \union {None}]
    /\ db[4] \in [Households -> [Users -> Roles \union {None}]]
    /\ \A h \in Households, u \in Users :
          db[4][h][u] # None => IsRow(db[3][h]) /\ IsRow(db[1][u])
    /\ \A h \in Rows(db[3]) : db[4][h][db[3][h].creator] = "owner"

AccountsOK ==
    /\ users \in [Users -> UserRecords(Emails) \union {None}]
    /\ sessions \in [Sessions -> SessionRecords(Users) \union {None, Gone}]
    /\ households \in [Households -> HouseholdRecords(Users) \union {None}]
    /\ members \in [Households -> [Users -> Roles \union {None}]]
    /\ links \in [Links -> LinkRecords \union {None}]
    /\ \A r \in Requests : calls[r] # None =>
          /\ calls[r] \in CallRecords
          /\ calls[r].stage = "answered" <=> calls[r].answer # None
          /\ calls[r].stage \notin {"session", "answered"} /\ calls[r].op \notin Public =>
                calls[r].user # None
    /\ \A h \in Households : \A u \in Users : members[h][u] # None =>
          IsRow(households[h]) /\ IsRow(users[u])

AccountsInit ==
    /\ \E db \in Accts : /\ users = db[1] /\ sessions = db[2]
                         /\ households = db[3] /\ members = db[4]
    /\ links = [l \in Links |-> None]
    /\ calls = [r \in Requests |-> None]
    /\ removed = {}

Pending(r, stage) == calls[r] # None /\ calls[r].stage = stage
Running(r, op) == Pending(r, "handler") /\ calls[r].op = op

\* ScopeMiddleware has let the request in, and it is not answered yet.
LetIn(r) ==
    /\ calls[r] # None /\ calls[r].op \in ScopedOps
    /\ calls[r].stage \notin {"session", "scope", "answered"}
Served(h, u) == {r \in Requests : LetIn(r) /\ calls[r].household = h /\ calls[r].user = u}

--------------------------------------------------------------------------------
(* The repositories: one statement each; what came of it in outcome.        *)

\* The unique index on email.
CreateUser(u, email, outcome) ==
    /\ users[u] = None
    /\ \/ EmailFree(users, email) /\ users' = CreateUserRow(users, u, email) /\ outcome = "ok"
       \/ ~EmailFree(users, email) /\ UNCHANGED users /\ outcome = "conflict"
    /\ UNCHANGED <<sessions, households, members, links>>

\* {} stands for ErrNotFound.
FindUserByEmail(email) == GetUserByEmail(users, email)

CreateSession(s, u) ==
    /\ sessions[s] = None
    /\ sessions' = CreateSessionRow(sessions, s, u)
    /\ UNCHANGED <<users, households, members, links>>

\* None stands for ErrNotFound, here and below.
FindSessionByTokenHash(s) ==
    LET row == GetSessionByTokenHash(sessions, s) IN IF IsRow(row) THEN row ELSE None

\* A session that is gone already is no error.
RevokeSession(s) ==
    /\ sessions' = RevokeSessionRow(sessions, s)
    /\ UNCHANGED <<users, households, members, links>>

CreateHousehold(h, u) ==
    /\ {g \in Households : households[g] = None /\ g <= h} = {h}   \* the next one
    /\ households' = CreateHouseholdRow(households, h, u)
    /\ UNCHANGED <<users, sessions, members, links>>

FindHouseholdByID(h) == GetHouseholdByID(households, h)

ListHouseholdsForUser(u) == ListHouseholdsByUser(members, u)

\* mutant: neither the foreign keys nor the CHECK
AddAnyMember(h, u, role, outcome) ==
    /\ outcome = "ok"
    /\ members' = AddHouseholdMember(members, h, u, role)
    /\ UNCHANGED <<users, sessions, households, links>>

\* The primary key, the foreign keys and the CHECK on role: all "internal".
AddMember(h, u, role, outcome) ==
    /\ outcome = (IF /\ IsRow(households[h]) /\ IsRow(users[u])
                     /\ role \in Roles /\ members[h][u] = None
                  THEN "ok" ELSE "internal")
    /\ members' = IF outcome = "ok" THEN AddHouseholdMember(members, h, u, role) ELSE members
    /\ UNCHANGED <<users, sessions, households, links>>

\* Somebody who is no member any more is no error.
RemoveMember(h, u) ==
    /\ members' = RemoveHouseholdMember(members, h, u)
    /\ UNCHANGED <<users, sessions, households, links>>

FindMember(h, u) == GetHouseholdMember(members, h, u)

\* The foreign key asks for the inventory.
CreateShareLink(l, inventory, locked, expires, outcome) ==
    /\ links[l] = None
    /\ \/ /\ inventory = "there"
          /\ links' = CreateShareLinkRow(links, l, locked, expires)
          /\ outcome = "ok"
       \/ /\ inventory # "there"
          /\ outcome = "internal"
          /\ UNCHANGED links
    /\ UNCHANGED <<users, sessions, households, members>>

FindShareLinkByToken(l) == GetShareLinkByToken(links, l)

--------------------------------------------------------------------------------
(* A request is received; what it asks for in its path and its body is read *)
(* when the middlewares have let it through to its handler.                 *)

Blank == [op |-> None, token |-> None, household |-> None, user |-> None,
          stage |-> "answered", answer |-> None, late |-> FALSE]

Tokens == Sessions \union {None}
Good(row) == row # None /\ ~row.expired /\ ~row.revoked

\* The household in X-Household-ID, or in the path.
HouseholdsNamed(op) ==
    IF op \in ScopedOps THEN Households \union {None, BadId}
    ELSE IF op \in {"GetHousehold", "AddMember", "RemoveMember"} THEN Households
    ELSE {None}

Receive(r) == \E op \in Ops, s \in Tokens : \E h \in HouseholdsNamed(op) :
    /\ calls[r] = None
    /\ op \in Public => s = None
    /\ s # None => sessions[s] # None
    /\ calls' = [calls EXCEPT ![r] =
          [Blank EXCEPT !.op = op, !.token = s, !.household = h,
                        !.stage = IF op \in Public THEN "handler" ELSE "session",
                        !.late = op \notin Public /\ ~Good(FindSessionByTokenHash(s))]]
    /\ UNCHANGED <<accounts, removed>>

Proceed(r, stage) == calls' = [calls EXCEPT ![r].stage = stage]

\* Of an answered request the model keeps the answer, and the household it has created.
Answer(r, a) ==
    calls' = [calls EXCEPT ![r] =
        [Blank EXCEPT !.answer = a, !.late = calls[r].late,
                      !.household = IF calls[r].op = "CreateHousehold" THEN calls[r].household
                                    ELSE None]]

\* The answer of a statement that was executed may be lost on its way back.
Settle(r, outcome) ==
    /\ \E a \in {outcome, "internal"} : Answer(r, a)
    /\ UNCHANGED removed

\* Something in the path or in the body is missing or cannot be read.
BadRequest(r) ==
    /\ Answer(r, "bad_request")
    /\ UNCHANGED <<accounts, removed>>

--------------------------------------------------------------------------------
(* The middlewares.                                                         *)

\* mutant: revoked_at is not looked at
MiddlewareUnrevoked(r) ==
    /\ Pending(r, "session")
    /\ LET row == FindSessionByTokenHash(calls[r].token) IN
       \/ Answer(r, "unauthorized")
       \/ /\ row # None /\ ~row.expired
          /\ calls' = [calls EXCEPT ![r].user = row.user,
                ![r].stage = IF calls[r].op \in ScopedOps THEN "scope" ELSE "handler"]
    /\ UNCHANGED <<accounts, removed>>

\* auth.Middleware: an unknown, an expired and a revoked token are refused alike, and so is
\* any token while the database does not answer.
Middleware(r) ==
    /\ Pending(r, "session")
    /\ LET row == FindSessionByTokenHash(calls[r].token) IN
       \/ Answer(r, "unauthorized")
       \/ /\ Good(row)
          /\ calls' = [calls EXCEPT ![r].user = row.user,
                ![r].stage = IF calls[r].op \in ScopedOps THEN "scope" ELSE "handler"]
    /\ UNCHANGED <<accounts, removed>>

\* mutant: whoever created a household is let in for good
ScopeOfCreator(r) ==
    /\ Pending(r, "scope")
    /\ LET h == calls[r].household IN
       \/ Answer(r, "forbidden")
       \/ /\ h \in Rows(households)
          /\ \/ FindMember(h, calls[r].user) # None
             \/ households[h].creator = calls[r].user
          /\ Proceed(r, "handler")
    /\ UNCHANGED <<accounts, removed>>

\* The household the client names, or the newest one the user is a member of.
ScopeMiddleware(r) ==
    /\ Pending(r, "scope")
    /\ LET h == calls[r].household
           own == ListHouseholdsForUser(calls[r].user)
       IN  \/ h = BadId /\ Answer(r, "bad_request")
           \/ /\ h \in Households /\ FindMember(h, calls[r].user) = None
              /\ Answer(r, "forbidden")
           \/ /\ h \in Households /\ FindMember(h, calls[r].user) # None
              /\ Proceed(r, "handler")
           \/ h = None /\ Answer(r, "forbidden")   \* no household, or no answer
           \/ /\ h = None /\ own # {}
              /\ calls' = [calls EXCEPT ![r].household = Max(own), ![r].stage = "handler"]
    /\ UNCHANGED <<accounts, removed>>

--------------------------------------------------------------------------------
(* auth: Register, Login, Logout.                                           *)

Register(r, email) ==
    \E u \in Users, o \in {"ok", "conflict"} : CreateUser(u, email, o) /\ Settle(r, o)

\* The user is found, the password compared, ...
Login(r, email, right) ==
    /\ LET found == FindUserByEmail(email) IN
       \/ /\ found = {} \/ ~right
          /\ Answer(r, "unauthorized")
       \/ /\ right
          /\ \E u \in found :
                calls' = [calls EXCEPT ![r].user = u, ![r].stage = "second"]
    /\ UNCHANGED <<accounts, removed>>

\* ... then the session inserted.
LoginSession(r) ==
    /\ Pending(r, "second") /\ calls[r].op = "Login"
    /\ \E s \in Sessions : CreateSession(s, calls[r].user)
    /\ Settle(r, "ok")

Logout(r) == RevokeSession(calls[r].token) /\ Settle(r, "ok")

\* A missing email, name or password is a bad request, like a body nobody can read.
HandleRegister(r) ==
    /\ Running(r, "Register")
    /\ BadRequest(r) \/ \E email \in Emails : Register(r, email)

HandleLogin(r) ==
    /\ Running(r, "Login")
    /\ BadRequest(r) \/ \E email \in Emails, right \in BOOLEAN : Login(r, email, right)

HandleLogout(r) == Running(r, "Logout") /\ Logout(r)

--------------------------------------------------------------------------------
(* household                                                                *)

ServeListHouseholds(r) == Answer(r, "ok") /\ UNCHANGED <<accounts, removed>>

\* The household, ...
ServeCreateHousehold(r) == \E h \in Households :
    /\ CreateHousehold(h, calls[r].user)
    /\ \E stage \in {"member", "answered"} :      \* the answer of the insert is lost
          calls' = [calls EXCEPT ![r].household = h, ![r].stage = stage,
                       ![r].answer = IF stage = "answered" THEN "internal" ELSE None]
    /\ UNCHANGED removed

\* mutant: the error of the second insert is dropped
OwnerDropped(r) ==
    /\ Pending(r, "member")
    /\ Answer(r, "ok")
    /\ UNCHANGED <<accounts, removed>>

\* ... then its owner.
ServeAddOwner(r) ==
    /\ Pending(r, "member")
    /\ \E o \in {"ok", "internal"} :
          AddMember(calls[r].household, calls[r].user, "owner", o) /\ Settle(r, o)

\* The household, ...
ServeGetHousehold(r) ==
    /\ \/ FindHouseholdByID(calls[r].household) = None /\ Answer(r, "not_found")
       \/ FindHouseholdByID(calls[r].household) # None /\ Proceed(r, "second")
    /\ UNCHANGED <<accounts, removed>>

\* ... then the membership; whoever is no member, or gets no answer, is told nothing.
ServeGetMembership(r) ==
    /\ Pending(r, "second") /\ calls[r].op = "GetHousehold"
    /\ \/ Answer(r, "not_found")
       \/ FindMember(calls[r].household, calls[r].user) # None /\ Answer(r, "ok")
    /\ UNCHANGED <<accounts, removed>>

ServeAddMember(r, u, role) == \E o \in {"ok", "internal"} :
    AddMember(calls[r].household, u, role, o) /\ Settle(r, o)

ServeRemoveMember(r, u) ==
    LET h == calls[r].household
    IN  /\ RemoveMember(h, u)
        /\ \E a \in {"ok", "internal"} : Answer(r, a)
        /\ removed' = removed \union
              (IF FindMember(h, u) # None THEN {<<h, u, Served(h, u)>>} ELSE {})

ServeCreateShareLink(r, inventory, locked, expires) ==
    \E l \in Links, o \in {"ok", "internal"} :
        CreateShareLink(l, inventory, locked, expires, o) /\ Settle(r, o)

HandleListHouseholds(r) == Running(r, "ListHouseholds") /\ ServeListHouseholds(r)

HandleCreateHousehold(r) ==
    Running(r, "CreateHousehold") /\ (BadRequest(r) \/ ServeCreateHousehold(r))

HandleGetHousehold(r) == Running(r, "GetHousehold") /\ ServeGetHousehold(r)

HandleAddMember(r) ==
    /\ Running(r, "AddMember")
    /\ BadRequest(r) \/ \E u \in Users, role \in {"member", "?"} : ServeAddMember(r, u, role)

HandleRemoveMember(r) ==
    Running(r, "RemoveMember") /\ \E u \in Users : ServeRemoveMember(r, u)

HandleCreateShareLink(r) ==
    /\ Running(r, "CreateShareLink")
    /\ \/ BadRequest(r)
       \/ \E i \in {"there", "missing"}, locked \in BOOLEAN, expires \in {"never", "later"} :
             ServeCreateShareLink(r, i, locked, expires)

--------------------------------------------------------------------------------

\* share: one query, then the checks; the items come from module Inventory's ListItems.
HandleGetInventoryByShareToken(r) ==
    /\ Running(r, "GetShared")
    /\ \E l \in Rows(links) \union {None}, right \in BOOLEAN :
       LET link == FindShareLinkByToken(l) IN
       \/ link = None /\ Answer(r, "not_found")
       \/ link # None /\ link.expires = "past" /\ Answer(r, "gone")
       \/ /\ link # None /\ link.expires # "past" /\ link.locked /\ ~right
          /\ Answer(r, "unauthorized")
       \/ /\ link # None /\ link.expires # "past" /\ (link.locked => right)
          /\ Answer(r, "ok")
    /\ UNCHANGED <<accounts, removed>>

--------------------------------------------------------------------------------

\* 30 days pass for a session, a link comes to its end; pg_cron runs.
Expire ==
    /\ \/ \E s \in Rows(sessions) : /\ ~sessions[s].expired
                                    /\ sessions' = [sessions EXCEPT ![s].expired = TRUE]
                                    /\ UNCHANGED links
       \/ \E l \in Rows(links) : /\ links[l].expires = "later"
                                 /\ links' = [links EXCEPT ![l].expires = "past"]
                                 /\ UNCHANGED sessions
    /\ UNCHANGED <<users, households, members, calls, removed>>

Purge ==
    /\ PurgeExpiredSessions(sessions) # sessions
    /\ sessions' = PurgeExpiredSessions(sessions)
    /\ UNCHANGED <<users, households, members, links, calls, removed>>

HandleAccounts(r) ==
    \/ HandleRegister(r) \/ HandleLogin(r) \/ LoginSession(r) \/ HandleLogout(r)
    \/ HandleListHouseholds(r) \/ HandleCreateHousehold(r) \/ ServeAddOwner(r)
    \/ HandleGetHousehold(r) \/ ServeGetMembership(r)
    \/ HandleAddMember(r) \/ HandleRemoveMember(r) \/ HandleCreateShareLink(r)
    \/ HandleGetInventoryByShareToken(r)

AccountsStep ==
    \/ \E r \in Requests :
          Receive(r) \/ Middleware(r) \/ ScopeMiddleware(r) \/ HandleAccounts(r)
    \/ Expire
    \/ Purge

--------------------------------------------------------------------------------
(* Properties.                                                              *)

\* A request that came after its session was logged out, expired or purged gets nowhere,
\* whatever was in flight with the same token (auth/middleware.go:38-56).
NothingAfterLogout ==
    \A r \in Requests : calls[r] # None /\ calls[r].late =>
        calls[r].stage \in {"session", "answered"} /\ calls[r].answer # "ok"

\* A request is served within a household only if its user is a member of it, or was one
\* until he was removed while this very request was being served: after the middleware had
\* looked and before the answer (household/middleware.go:40).
MembersOnly ==
    \A r \in Requests : LetIn(r) =>
        LET h == calls[r].household
            u == calls[r].user
        IN  /\ h \in Households
            /\ \/ members[h][u] # None
               \/ \E R \in SUBSET Requests : r \in R /\ <<h, u, R>> \in removed

\* What the two middlewares let through.
Admission == NothingAfterLogout /\ MembersOnly

\* The ways a household comes to be without an owner (household/service.go:37, :85): whoever
\* created it owns it, unless RemoveMember has taken him out of it, or CreateHousehold is
\* not through, or has not told him that it is.
OwnerLeftovers ==
    \A h \in Rows(households) :
        \/ members[h][households[h].creator] = "owner"
        \/ \E R \in SUBSET Requests : <<h, households[h].creator, R>> \in removed
        \/ \E r \in Requests :
              /\ \/ Pending(r, "answered")
                 \/ Pending(r, "member") /\ calls[r].op = "CreateHousehold"
              /\ calls[r].household = h /\ calls[r].answer # "ok"

\* "A household must always have at least one household_members row where role = owner"
\* (docs/superpowers/specs/2026-06-07-db-schema-design.md:77), save while CreateHousehold is
\* between its two inserts.  It does not hold.
HouseholdHasOwner ==
    \A h \in Rows(households) :
        \/ \E u \in Users : members[h][u] = "owner"
        \/ \E r \in Requests : Pending(r, "member") /\ calls[r].household = h
================================================================================
