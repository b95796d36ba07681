------------------------------ MODULE AccountSQL ------------------------------
(***************************************************************************)
(* The statements on users, sessions, households, household_members and    *)
(* inventory_share_links (src/baskety/gen/sqlc), each one atomic, on       *)
(* tables like those of InventorySQL.  Names and the hashes themselves are *)
(* left out; nothing in the program sets revoked_at or expires_at of a     *)
(* member, or revoked_at of a link, so those columns are NULL.             *)
(***************************************************************************)
EXTENDS FiniteSetsExt, Integers

CONSTANTS
    None,       \* SQL NULL, and no row yet
    Gone        \* the row was deleted

IsRow(row) == row \notin {None, Gone}
Rows(tab) == {id \in DOMAIN tab : IsRow(tab[id])}
NoNull(S) == {None, Gone} \intersect S = {}

UserRecords(emails) == [email : emails]
SessionRecords(users) == [user : users, expired : BOOLEAN, revoked : BOOLEAN]
HouseholdRecords(users) == [creator : users]
Roles == {"owner", "member", "guest"}
LinkRecords == [locked : BOOLEAN, expires : {"never", "later", "past"}]

--------------------------------------------------------------------------------
(* users.sql.go, sessions.sql.go                                            *)

EmailFree(tab, email) == \A u \in Rows(tab) : tab[u].email # email

CreateUserRow(tab, u, email) == [tab EXCEPT ![u] = [email |-> email]]

GetUserByEmail(tab, email) == {u \in Rows(tab) : tab[u].email = email}

CreateSessionRow(tab, s, u) ==
    [tab EXCEPT ![s] = [user |-> u, expired |-> FALSE, revoked |-> FALSE]]

\* By the hash of its token, which is the session's own.
GetSessionByTokenHash(tab, s) == IF s = None THEN None ELSE tab[s]

RevokeSessionRow(tab, s) == IF IsRow(tab[s]) THEN [tab EXCEPT ![s].revoked = TRUE] ELSE tab

\* pg_cron purge-expired-sessions.
PurgeExpiredSessions(tab) ==
    [s \in DOMAIN tab |-> IF IsRow(tab[s]) /\ tab[s].expired THEN Gone ELSE tab[s]]

--------------------------------------------------------------------------------
(* households.sql.go: the members of a household are a function from users  *)
(* to roles, None for a user who is no member.                              *)

CreateHouseholdRow(tab, h, u) == [tab EXCEPT ![h] = [creator |-> u]]

GetHouseholdByID(tab, h) == tab[h]

AddHouseholdMember(tab, h, u, role) == [tab EXCEPT ![h][u] = role]

RemoveHouseholdMember(tab, h, u) == [tab EXCEPT ![h][u] = None]

GetHouseholdMember(tab, h, u) == tab[h][u]

\* The newest first: households are numbered as they are created.
ListHouseholdsByUser(tab, u) == {h \in DOMAIN tab : tab[h][u] # None}

--------------------------------------------------------------------------------
(* inventory_share_links.sql.go                                             *)

CreateShareLinkRow(tab, l, locked, expires) ==
    [tab EXCEPT ![l] = [locked |-> locked, expires |-> expires]]

GetShareLinkByToken(tab, l) == IF l = None THEN None ELSE tab[l]
================================================================================
