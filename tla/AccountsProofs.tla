----------------------------- MODULE AccountsProofs -----------------------------
(***************************************************************************)
(* Lemmas about Accounts, for any number of users, sessions, households    *)
(* and requests: what the two middlewares found may be past when a request *)
(* is served, and yet a request that came too late is not, and nobody is   *)
(* served in a household he is no member of, unless he was removed from it *)
(* during that very request.  Accounts has no behaviours of its own:       *)
(* SettingsProofs has the theorems.                                        *)
(*                                                                         *)
(* CallInv says what a request may rely on at each stage, Stable what no   *)
(* step takes away from it: a token that is no good stays so, a member     *)
(* keeps his role or is removed, and then it is recorded which requests    *)
(* were let in for him, a household keeps its creator.                     *)
(***************************************************************************)
EXTENDS Accounts, FiniteSetTheorems, WellFoundedInduction, TLAPS

TablesOK ==
    /\ users \in [Users -> UserRecords(Emails) \union {None}]
    /\ sessions \in [Sessions -> SessionRecords(Users) \union {None, Gone}]
    /\ households \in [Households -> HouseholdRecords(Users) \union {None}]
    /\ members \in [Households -> [Users -> Roles \union {None}]]
    /\ links \in [Links -> LinkRecords \union {None}]
    /\ \A h \in Households : \A u \in Users : members[h][u] # None =>
          IsRow(households[h]) /\ IsRow(users[u])

\* What a request has with it at each stage, until it is answered.
Carried(c) == c.stage # "answered" =>
    /\ c.op # None
    /\ c.stage = "session" => c.op \notin Public
    /\ c.stage # "session" /\ c.op \notin Public => c.user # None /\ c.token # None
    /\ c.stage = "scope" => c.op \in ScopedOps
    /\ c.stage = "second" => c.op \in {"Login", "GetHousehold"} /\ c.user # None
    /\ c.stage = "member" => c.op = "CreateHousehold"
    /\ c.stage \in {"tx_unset", "tx_update", "tx_commit"} => c.op \in ScopedOps
    /\ c.op \in {"GetHousehold", "AddMember", "RemoveMember"} => c.household \in Households

\* What the middlewares let through has a household.
Inside(c) == c.op \in ScopedOps /\ c.stage \notin {"session", "scope", "answered"}
Admitted(c) == Inside(c) => c.household \in Households

\* What r becomes in this step may be inside: its user is a member, or it was inside already.
Entitled(r, c) == Inside(c) =>
    \/ members'[c.household][c.user] # None
    \/ LetIn(r) /\ calls[r].household = c.household /\ calls[r].user = c.user

\* Where a request that came too late is, and why it gets no further.
LateStopped(c) == c.late =>
    /\ c.stage \in {"session", "answered"} /\ c.answer # "ok"
    /\ c.stage = "session" /\ c.token # None =>
          sessions[c.token] # None /\ ~Good(FindSessionByTokenHash(c.token))

\* A household without an owner yet is its creator's.
OwnerDue(c) == c.stage = "member" =>
    /\ c.household \in Rows(households)
    /\ households[c.household].creator = c.user

CallInv(c) ==
    /\ c \in CallRecords
    /\ c.stage = "answered" <=> c.answer # None
    /\ Carried(c) /\ Admitted(c) /\ LateStopped(c) /\ OwnerDue(c)

AInv ==
    /\ TablesOK
    /\ calls \in [Requests -> CallRecords \union {None}]
    /\ \A r \in Requests : calls[r] # None => CallInv(calls[r])
    /\ MembersOnly
    /\ OwnerLeftovers

\* What no step undoes.
Stable ==
    /\ \A s \in Sessions : sessions[s] # None =>
          /\ sessions'[s] # None
          /\ IsRow(sessions'[s]) =>
                /\ IsRow(sessions[s])
                /\ sessions[s].expired => sessions'[s].expired
                /\ sessions[s].revoked => sessions'[s].revoked
    /\ removed \subseteq removed'
    /\ \A h \in Households : \A u \in Users :
          members[h][u] # None =>
             members'[h][u] = members[h][u] \/ <<h, u, Served(h, u)>> \in removed'
    /\ \A h \in Rows(households) : households'[h] = households[h]

Sound == TablesOK' /\ Stable

--------------------------------------------------------------------------------
(* Constants, and the newest of a user's households.                        *)

\* What the values for "nothing" are not.
LEMMA Nulls ==
    /\ None # Gone
    /\ \A u \in UserRecords(Emails) : IsRow(u)
    /\ \A s \in SessionRecords(Users) : IsRow(s)
    /\ \A h \in HouseholdRecords(Users) : IsRow(h)
    /\ \A l \in LinkRecords : IsRow(l)
    /\ None \notin CallRecords /\ None \notin Ops /\ None \notin Users /\ None \notin Sessions
    /\ None \notin Households /\ None \notin Roles /\ None # "ok"
    /\ \A a \in Errors : a # None
BY AccountsAssumption DEF AccountsAssumption, NoNull, IsRow

\* AccountsOK, in two parts.
LEMMA TypesOfAccounts ==
    AccountsOK <=> /\ TablesOK
                   /\ \A r \in Requests : calls[r] # None =>
                         /\ calls[r] \in CallRecords
                         /\ calls[r].stage = "answered" <=> calls[r].answer # None
                         /\ calls[r].stage \notin {"session", "answered"}
                               /\ calls[r].op \notin Public => calls[r].user # None
BY DEF AccountsOK, TablesOK

\* Of some subsets of a finite set one is smallest.
LEMMA SmallestSubset ==
    ASSUME NEW S, IsFiniteSet(S), NEW F, F \subseteq SUBSET S, F # {}
    PROVE  \E A \in F : \A B \in F : B \subseteq A => B = A
<1>1. F \subseteq FiniteSubsetsOf(S)
  BY FS_FiniteSubsetsOfFinite
<1>2. IsWellFoundedOn(StrictSubsetOrdering(S), FiniteSubsetsOf(S))
  BY FS_StrictSubsetOrderingWellFounded
<1>3. PICK A \in F : \A B \in F : <<B, A>> \notin StrictSubsetOrdering(S)
  BY <1>1, <1>2, WFMin
<1>4. ASSUME NEW B \in F, B \subseteq A, B # A PROVE FALSE
  BY <1>3, <1>4 DEF StrictSubsetOrdering
<1> QED BY <1>4

\* A set of households that is not empty has a newest one.
LEMMA MaxIsMember ==
    ASSUME NEW S \in SUBSET Households, S # {}
    PROVE  Max(S) \in S
<1> DEFINE Greatest(A) == \E m \in A : \A x \in A : m >= x
           Without == {A \in SUBSET S : A # {} /\ ~Greatest(A)}
<1>1. S \subseteq Nat /\ IsFiniteSet(S)
  BY FS_Subset, AccountsAssumption DEF AccountsAssumption
<1>2. Without = {}
  <2> SUFFICES ASSUME Without # {} PROVE FALSE
    OBVIOUS
  <2>1. Without \subseteq SUBSET S
    OBVIOUS
  <2>2. PICK A \in Without : \A B \in Without : B \subseteq A => B = A
    <3>1. PICK W : W = Without
      OBVIOUS
    <3>2. IsFiniteSet(S) /\ W \subseteq SUBSET S /\ W # {}
      BY <1>1, <2>1, <3>1
    <3> HIDE DEF Without
    <3>3. \E A \in W : \A B \in W : B \subseteq A => B = A
      BY <3>2, SmallestSubset
    <3> QED BY <3>1, <3>3
  <2>3. PICK a \in A : TRUE
    BY <2>2
  <2> DEFINE B == A \ {a}
  <2>4. B \in SUBSET S /\ B \notin Without
    BY <2>2, <2>3
  <2>5. \A x \in A : x \in Nat
    BY <1>1, <2>2
  <2>6. B # {}
    <3> SUFFICES ASSUME B = {} PROVE FALSE
      OBVIOUS
    <3>1. A = {a} /\ a >= a
      BY <2>3, <2>5
    <3> QED BY <2>2, <3>1
  <2>7. PICK m \in B : \A x \in B : m >= x
    BY <2>4, <2>6
  <2>8. a \in Nat /\ m \in Nat
    BY <2>3, <2>5, <2>7
  <2>9. CASE a >= m
    BY <2>2, <2>3, <2>5, <2>7, <2>8, <2>9
  <2>10. CASE ~(a >= m)
    BY <2>2, <2>3, <2>5, <2>7, <2>8, <2>10
  <2> QED BY <2>9, <2>10
<1>3. Greatest(S)
  BY <1>2
<1> QED BY <1>3 DEF Max

--------------------------------------------------------------------------------
(* The statements.                                                          *)

\* Nothing is written.
LEMMA Unwritten ==
    ASSUME TablesOK, UNCHANGED <<accounts, removed>>
    PROVE  Sound
BY DEF accounts, TablesOK, Rows, Sound, Stable

\* A user is created.
LEMMA CreateUserSound ==
    ASSUME TablesOK, NEW u \in Users, NEW email \in Emails, NEW o, CreateUser(u, email, o),
           UNCHANGED removed
    PROVE  Sound
<1>1. CASE UNCHANGED users
  BY <1>1, Unwritten DEF CreateUser, accounts
<1>2. CASE users' = CreateUserRow(users, u, email)
  <2>1. [email |-> email] \in UserRecords(Emails)
    BY DEF UserRecords
  <2>2. /\ users' \in [Users -> UserRecords(Emails) \union {None}]
        /\ \A v \in Users : IsRow(users[v]) => IsRow(users'[v])
    BY <1>2, <2>1, Nulls DEF CreateUserRow, TablesOK
  <2> QED BY <2>2 DEF CreateUser, TablesOK, Sound, Stable, Rows
<1> QED BY <1>1, <1>2 DEF CreateUser

\* A session is created.
LEMMA CreateSessionSound ==
    ASSUME TablesOK, NEW s \in Sessions, NEW u \in Users, CreateSession(s, u), UNCHANGED removed
    PROVE  Sound
<1> DEFINE row == [user |-> u, expired |-> FALSE, revoked |-> FALSE]
<1>1. row \in SessionRecords(Users)
  BY DEF SessionRecords
<1>2. sessions' = [sessions EXCEPT ![s] = row] /\ sessions[s] = None
  BY DEF CreateSession, CreateSessionRow
<1> HIDE DEF row
<1>3. /\ sessions' \in [Sessions -> SessionRecords(Users) \union {None, Gone}]
      /\ \A t \in Sessions : sessions[t] # None => sessions'[t] = sessions[t]
  BY <1>1, <1>2 DEF TablesOK
<1> QED BY <1>3 DEF CreateSession, TablesOK, Sound, Stable, Rows

\* A session of which something was set.
LEMMA SessionChanged ==
    ASSUME TablesOK, NEW s \in Rows(sessions), NEW row \in SessionRecords(Users),
           sessions[s].expired => row.expired, sessions[s].revoked => row.revoked,
           sessions' = [sessions EXCEPT ![s] = row],
           UNCHANGED <<users, households, members, links, removed>>
    PROVE  Sound
<1>1. s \in Sessions /\ IsRow(sessions[s])
  BY DEF Rows, TablesOK
<1>2. sessions' \in [Sessions -> SessionRecords(Users) \union {None, Gone}]
  BY DEF TablesOK
<1>3. \A t \in Sessions : sessions'[t] = IF t = s THEN row ELSE sessions[t]
  BY <1>1 DEF TablesOK
<1>4. IsRow(row)
  BY Nulls
<1>5. TablesOK'
  BY <1>2 DEF TablesOK
<1>6. \A t \in Sessions : sessions[t] # None =>
          /\ sessions'[t] # None
          /\ IsRow(sessions'[t]) =>
                /\ IsRow(sessions[t])
                /\ sessions[t].expired => sessions'[t].expired
                /\ sessions[t].revoked => sessions'[t].revoked
  BY <1>1, <1>3, <1>4 DEF IsRow
<1> QED BY <1>5, <1>6 DEF Sound, Stable, Rows, TablesOK

\* A session is revoked.
LEMMA RevokeSessionSound ==
    ASSUME TablesOK, NEW s \in Sessions, RevokeSession(s), UNCHANGED removed
    PROVE  Sound
<1>1. CASE ~IsRow(sessions[s])
  BY <1>1, Unwritten DEF RevokeSession, RevokeSessionRow, accounts
<1>2. CASE IsRow(sessions[s])
  <2>1. sessions[s] \in SessionRecords(Users) /\ s \in Rows(sessions)
    BY <1>2 DEF TablesOK, IsRow, Rows
  <2>2. PICK row : row = [sessions[s] EXCEPT !.revoked = TRUE]
    OBVIOUS
  <2>3. row \in SessionRecords(Users) /\ row.revoked /\ row.expired = sessions[s].expired
    BY <2>1, <2>2 DEF SessionRecords
  <2>4. sessions' = [sessions EXCEPT ![s] = row]
    BY <1>2, <2>2 DEF RevokeSession, RevokeSessionRow
  <2> QED BY <2>1, <2>3, <2>4, SessionChanged DEF RevokeSession
<1> QED BY <1>1, <1>2

\* A household is created, with nobody in it.
LEMMA CreateHouseholdSound ==
    ASSUME TablesOK, NEW h \in Households, NEW u \in Users, CreateHousehold(h, u),
           UNCHANGED removed
    PROVE  /\ Sound
           /\ households[h] = None /\ h \in Rows(households') /\ households'[h].creator = u
           /\ Rows(households') \subseteq Rows(households) \union {h}
<1> DEFINE row == [creator |-> u]
<1>1. row \in HouseholdRecords(Users) /\ row.creator = u
  BY DEF HouseholdRecords
<1>2. /\ households[h] = None /\ households' = [households EXCEPT ![h] = row]
      /\ UNCHANGED <<users, sessions, members, links, removed>>
  BY DEF CreateHousehold, CreateHouseholdRow
<1> HIDE DEF row
<1>3. IsRow(row)
  BY <1>1, Nulls
<1>4. /\ households' \in [Households -> HouseholdRecords(Users) \union {None}]
      /\ \A g \in Households : households'[g] = IF g = h THEN row ELSE households[g]
  BY <1>1, <1>2 DEF TablesOK
<1>5. TablesOK'
  BY <1>2, <1>3, <1>4 DEF TablesOK
<1>6. \A g \in Rows(households) : g \in Households /\ g # h
  BY <1>2 DEF Rows, IsRow, TablesOK
<1>7. Stable
  BY <1>2, <1>4, <1>6 DEF Stable
<1> QED BY <1>1, <1>2, <1>3, <1>4, <1>5, <1>7 DEF Sound, Rows, TablesOK

\* A member is added to a household that is there.
LEMMA AddMemberSound ==
    ASSUME TablesOK, NEW h \in Households, NEW u \in Users, NEW role, NEW o,
           AddMember(h, u, role, o), UNCHANGED removed
    PROVE  Sound /\ UNCHANGED households /\ (o = "ok" => members'[h][u] = role)
<1>1. UNCHANGED <<users, sessions, households, links, removed>>
  BY DEF AddMember
<1>2. CASE o = "ok"
  <2>1. /\ IsRow(households[h]) /\ IsRow(users[u]) /\ role \in Roles /\ members[h][u] = None
        /\ members' = [members EXCEPT ![h][u] = role]
    BY <1>2 DEF AddMember, AddHouseholdMember
  <2>2. role # None
    BY <2>1, Nulls
  <2>3. members' \in [Households -> [Users -> Roles \union {None}]]
    BY <2>1 DEF TablesOK
  <2>4. \A g \in Households : \A v \in Users :
           members'[g][v] = IF g = h /\ v = u THEN role ELSE members[g][v]
    BY <2>1 DEF TablesOK
  <2>5. TablesOK'
    BY <1>1, <2>1, <2>3, <2>4 DEF TablesOK
  <2>6. \A g \in Households : \A v \in Users :
           members[g][v] # None => members'[g][v] = members[g][v]
    BY <2>1, <2>4
  <2>7. Stable
    BY <1>1, <2>6 DEF Stable
  <2> QED BY <1>1, <2>4, <2>5, <2>7 DEF Sound
<1>3. CASE o # "ok"
  BY <1>1, <1>3, Unwritten DEF AddMember, accounts
<1> QED BY <1>2, <1>3

\* A member is removed, and it is recorded.
LEMMA RemoveMemberSound ==
    ASSUME TablesOK, NEW h \in Households, NEW u \in Users, RemoveMember(h, u),
           removed' = removed \union
              (IF FindMember(h, u) # None THEN {<<h, u, Served(h, u)>>} ELSE {})
    PROVE  Sound /\ UNCHANGED households
<1>1. /\ UNCHANGED <<users, sessions, households, links>>
      /\ members' = [members EXCEPT ![h][u] = None]
  BY DEF RemoveMember, RemoveHouseholdMember
<1>2. members' \in [Households -> [Users -> Roles \union {None}]]
  BY <1>1 DEF TablesOK
<1>3. \A g \in Households : \A v \in Users :
         members'[g][v] = IF g = h /\ v = u THEN None ELSE members[g][v]
  BY <1>1 DEF TablesOK
<1>4. TablesOK'
  BY <1>1, <1>2, <1>3 DEF TablesOK
<1>5. Stable
  <2>1. removed \subseteq removed'
    OBVIOUS
  <2>2. members[h][u] # None => <<h, u, Served(h, u)>> \in removed'
    BY DEF FindMember, GetHouseholdMember
  <2> QED BY <1>1, <1>3, <2>1, <2>2 DEF Stable
<1> QED BY <1>1, <1>4, <1>5 DEF Sound

\* A share link is created.
LEMMA CreateShareLinkSound ==
    ASSUME TablesOK, NEW l \in Links, NEW inventory, NEW locked \in BOOLEAN,
           NEW expires \in {"never", "later"}, NEW o,
           CreateShareLink(l, inventory, locked, expires, o), UNCHANGED removed
    PROVE  Sound /\ UNCHANGED households
<1>1. CASE UNCHANGED links
  BY <1>1, Unwritten DEF CreateShareLink, accounts
<1>2. CASE links' = CreateShareLinkRow(links, l, locked, expires)
  <2>1. [locked |-> locked, expires |-> expires] \in LinkRecords
    BY DEF LinkRecords
  <2>2. links' \in [Links -> LinkRecords \union {None}]
    BY <1>2, <2>1 DEF CreateShareLinkRow, TablesOK
  <2> QED BY <2>2 DEF CreateShareLink, TablesOK, Sound, Stable, Rows
<1> QED BY <1>1, <1>2 DEF CreateShareLink

\* A session or a link comes to its end.
LEMMA ExpireSound ==
    ASSUME TablesOK, Expire
    PROVE  Sound /\ UNCHANGED households
<1>1. ASSUME NEW s \in Rows(sessions), sessions' = [sessions EXCEPT ![s].expired = TRUE],
             UNCHANGED links
      PROVE  Sound
  <2>1. sessions[s] \in SessionRecords(Users) /\ s \in Sessions
    BY DEF TablesOK, IsRow, Rows
  <2>2. PICK row : row = [sessions[s] EXCEPT !.expired = TRUE]
    OBVIOUS
  <2>3. row \in SessionRecords(Users) /\ row.expired /\ row.revoked = sessions[s].revoked
    BY <2>1, <2>2 DEF SessionRecords
  <2>4. sessions' = [sessions EXCEPT ![s] = row]
    BY <1>1, <2>2
  <2> QED BY <1>1, <2>3, <2>4, SessionChanged DEF Expire
<1>2. ASSUME NEW l \in Rows(links), links' = [links EXCEPT ![l].expires = "past"],
             UNCHANGED sessions
      PROVE  Sound
  <2>1. links[l] \in LinkRecords
    BY DEF TablesOK, IsRow, Rows
  <2>2. PICK row : row = [links[l] EXCEPT !.expires = "past"]
    OBVIOUS
  <2>3. row \in LinkRecords
    BY <2>1, <2>2 DEF LinkRecords
  <2>4. links' = [links EXCEPT ![l] = row]
    BY <1>2, <2>2
  <2>5. links' \in [Links -> LinkRecords \union {None}]
    BY <2>3, <2>4 DEF TablesOK
  <2> QED BY <1>2, <2>5 DEF Expire, TablesOK, Sound, Stable, Rows
<1> QED BY <1>1, <1>2 DEF Expire

\* Expired sessions are purged.
LEMMA PurgeSound ==
    ASSUME TablesOK, Purge
    PROVE  Sound /\ UNCHANGED households
<1>1. sessions' = PurgeExpiredSessions(sessions)
      /\ UNCHANGED <<users, households, members, links, removed>>
  BY DEF Purge
<1>2. \A s \in Sessions : sessions'[s] \in {sessions[s], Gone}
  BY <1>1 DEF PurgeExpiredSessions, TablesOK
<1>3. sessions' \in [Sessions -> SessionRecords(Users) \union {None, Gone}]
  BY <1>1 DEF PurgeExpiredSessions, TablesOK
<1>4. TablesOK'
  BY <1>1, <1>3 DEF TablesOK
<1>5. Stable
  BY <1>1, <1>2, Nulls DEF Stable, Rows, TablesOK, IsRow
<1> QED BY <1>1, <1>4, <1>5 DEF Sound
--------------------------------------------------------------------------------
(* What a request knows survives what others do.                            *)

\* A token that is no good stays so.
LEMMA TokenStable ==
    ASSUME TablesOK, Sound, NEW s \in Sessions, sessions[s] # None,
           ~Good(FindSessionByTokenHash(s))
    PROVE  sessions'[s] # None /\ ~Good(FindSessionByTokenHash(s))'
<1>1. FindSessionByTokenHash(s) = IF IsRow(sessions[s]) THEN sessions[s] ELSE None
  BY Nulls DEF FindSessionByTokenHash, GetSessionByTokenHash
<1>2. FindSessionByTokenHash(s)' = IF IsRow(sessions'[s]) THEN sessions'[s] ELSE None
  BY Nulls DEF FindSessionByTokenHash, GetSessionByTokenHash
<1> QED BY <1>1, <1>2 DEF Sound, Stable, Good, IsRow

\* What a request relies on stays true while others write.
LEMMA CallStable ==
    ASSUME TablesOK, Sound, NEW c, CallInv(c)
    PROVE  CallInv(c)'
<1>1. c \in CallRecords /\ (c.stage = "answered" <=> c.answer # None) /\ Carried(c)
  BY DEF CallInv
<1>2. Carried(c)'
  BY <1>1 DEF Carried
<1>3. Admitted(c)'
  BY DEF CallInv, Admitted, Inside
<1>4. LateStopped(c)'
  <2>1. c.token \in Sessions \union {None}
    BY <1>1 DEF CallRecords
  <2> QED BY <2>1, TokenStable DEF CallInv, LateStopped
<1>5. OwnerDue(c)'
  BY DEF CallInv, OwnerDue, Sound, Stable, Rows, TablesOK
<1> QED BY <1>1, <1>2, <1>3, <1>4, <1>5 DEF CallInv

\* Who was let in for a member is so still, or was when the member was removed.
LEMMA StaysEntitled ==
    ASSUME AInv, Sound, NEW q \in Requests, LetIn(q)
    PROVE  LET h == calls[q].household
               u == calls[q].user
           IN  \/ members'[h][u] # None
               \/ \E R \in SUBSET Requests : q \in R /\ <<h, u, R>> \in removed'
<1> DEFINE h == calls[q].household
           u == calls[q].user
<1>1. CallInv(calls[q]) /\ calls[q] \in CallRecords /\ calls[q].op \notin Public
  BY AccountsAssumption DEF AInv, CallInv, LetIn, AccountsAssumption
<1>2. h \in Households /\ u \in Users
  BY <1>1 DEF CallInv, Carried, Admitted, Inside, LetIn, CallRecords
<1>3. CASE members[h][u] # None
  <2>1. q \in Served(h, u) /\ Served(h, u) \in SUBSET Requests
    BY DEF Served
  <2>2. members'[h][u] = members[h][u] \/ <<h, u, Served(h, u)>> \in removed'
    BY <1>2, <1>3 DEF Sound, Stable
  <2> QED BY <1>3, <2>1, <2>2
<1>4. CASE \E R \in SUBSET Requests : q \in R /\ <<h, u, R>> \in removed
  BY <1>4 DEF Sound, Stable
<1> QED BY <1>3, <1>4 DEF AInv, MembersOnly

\* Nobody gets in by the step of a request that is entitled to it.
LEMMA AdmissionKept ==
    ASSUME AInv, Sound, NEW r \in Requests, NEW c, CallInv(c)', Entitled(r, c),
           calls' = [calls EXCEPT ![r] = c]
    PROVE  MembersOnly'
<1> SUFFICES ASSUME NEW q \in Requests, LetIn(q)'
             PROVE  LET h == calls'[q].household
                        u == calls'[q].user
                    IN  /\ h \in Households
                        /\ \/ members'[h][u] # None
                           \/ \E R \in SUBSET Requests : q \in R /\ <<h, u, R>> \in removed'
  BY DEF MembersOnly
<1>1. CASE q = r
  <2>1. calls'[q] = c /\ Inside(c)
    BY <1>1 DEF AInv, LetIn, Inside
  <2>2. c.household \in Households
    BY <2>1 DEF CallInv, Admitted, Inside
  <2>3. CASE LetIn(r) /\ calls[r].household = c.household /\ calls[r].user = c.user
    BY <1>1, <2>1, <2>2, <2>3, StaysEntitled
  <2> QED BY <2>1, <2>2, <2>3 DEF Entitled
<1>2. CASE q # r
  <2>1. calls'[q] = calls[q]
    BY <1>2 DEF AInv
  <2>2. LetIn(q)
    BY <2>1 DEF LetIn
  <2>3. calls[q].household \in Households
    BY <2>2 DEF AInv, MembersOnly
  <2> QED BY <2>1, <2>2, <2>3, StaysEntitled
<1> QED BY <1>1, <1>2

\* Whoever explains a household its creator does not own goes on explaining it.
LEMMA OwnersKept ==
    ASSUME AInv, Sound, UNCHANGED households, NEW r \in Requests, NEW c \in CallRecords,
           calls' = [calls EXCEPT ![r] = c],
           calls[r] # None => calls[r].stage # "answered",
           calls[r] # None /\ calls[r].stage = "member" =>
              /\ c.stage = "answered" /\ c.household = calls[r].household
              /\ c.answer # "ok" \/ members'[c.household][calls[r].user] = "owner"
    PROVE  OwnerLeftovers'
<1> SUFFICES ASSUME NEW h \in Rows(households),
                    members'[h][households[h].creator] # "owner",
                    \A R \in SUBSET Requests : <<h, households[h].creator, R>> \notin removed'
             PROVE  \E q \in Requests :
                       /\ \/ Pending(q, "answered")'
                          \/ Pending(q, "member")' /\ calls'[q].op = "CreateHousehold"
                       /\ calls'[q].household = h /\ calls'[q].answer # "ok"
  BY DEF OwnerLeftovers
<1> DEFINE u == households[h].creator
<1>1. h \in Households /\ u \in Users
  BY DEF AInv, TablesOK, Rows, IsRow, HouseholdRecords
<1>2. members[h][u] # "owner" /\ \A R \in SUBSET Requests : <<h, u, R>> \notin removed
  <2>1. Served(h, u) \in SUBSET Requests
    BY DEF Served
  <2> QED BY <1>1, <2>1, Nulls DEF Sound, Stable, Roles
<1>3. PICK q \in Requests : /\ \/ Pending(q, "answered")
                               \/ Pending(q, "member") /\ calls[q].op = "CreateHousehold"
                            /\ calls[q].household = h /\ calls[q].answer # "ok"
  BY <1>2 DEF AInv, OwnerLeftovers
<1>4. CASE q # r
  BY <1>3, <1>4 DEF AInv, Pending
<1>5. CASE q = r
  <2>1. calls[r] # None /\ calls[r].stage = "member" /\ calls[r].household = h
    BY <1>3, <1>5 DEF Pending
  <2>2. calls[r].user = u
    BY <2>1 DEF AInv, CallInv, OwnerDue
  <2>3. c.stage = "answered" /\ c.household = h /\ c.answer # "ok"
    BY <2>1, <2>2
  <2>4. calls'[r] = c /\ c # None
    BY Nulls DEF AInv
  <2> QED BY <2>3, <2>4 DEF Pending
<1> QED BY <1>4, <1>5

\* A step of one request.
LEMMA CallStep ==
    ASSUME AInv, Sound, NEW r \in Requests, NEW c, CallInv(c)', Entitled(r, c),
           calls' = [calls EXCEPT ![r] = c], OwnerLeftovers'
    PROVE  AInv'
<1>1. c \in CallRecords
  BY DEF CallInv
<1>2. calls' \in [Requests -> CallRecords \union {None}]
  BY <1>1 DEF AInv
<1>3. ASSUME NEW q \in Requests, calls'[q] # None PROVE CallInv(calls[q])'
  <2>1. CASE q = r
    BY <2>1 DEF AInv
  <2>2. CASE q # r
    <3>1. PICK d : d = calls[q]
      OBVIOUS
    <3>2. calls'[q] = d
      BY <2>2, <3>1 DEF AInv
    <3>3. CallInv(d)
      BY <1>3, <3>1, <3>2 DEF AInv
    <3>4. CallInv(d)'
      BY <3>3, CallStable DEF AInv
    <3> QED BY <3>2, <3>4
  <2> QED BY <2>1, <2>2
<1> QED BY <1>2, <1>3, AdmissionKept DEF AInv, Sound

\* It goes on, with nothing written, or without a household.
LEMMA GoesOn ==
    ASSUME AInv, Sound, UNCHANGED households, NEW r \in Requests,
           calls[r] # None => calls[r].stage \notin {"answered", "member"},
           NEW c, CallInv(c), Entitled(r, c), calls' = [calls EXCEPT ![r] = c]
    PROVE  AInv'
<1>1. CallInv(c)'
  BY CallStable DEF AInv
<1>2. OwnerLeftovers'
  BY OwnersKept DEF CallInv
<1> QED BY <1>1, <1>2, CallStep

\* It is answered.
LEMMA Answered ==
    ASSUME AInv, Sound, UNCHANGED households, NEW r \in Requests, calls[r] # None,
           calls[r].stage # "answered", NEW a \in {"ok"} \union Errors, Answer(r, a),
           calls[r].late => a # "ok",
           calls[r].stage = "member" =>
              a # "ok" \/ members'[calls[r].household][calls[r].user] = "owner"
    PROVE  AInv'
<1>1. PICK d : d = calls[r]
  OBVIOUS
<1>2. d \in CallRecords /\ CallInv(d)
  BY <1>1 DEF AInv, CallInv
<1>3. PICK c : c = [Blank EXCEPT !.answer = a, !.late = d.late,
                      !.household = IF d.op = "CreateHousehold" THEN d.household ELSE None]
  OBVIOUS
<1>4. /\ c \in CallRecords /\ c.stage = "answered" /\ c.answer = a /\ c.late = d.late
      /\ d.op = "CreateHousehold" => c.household = d.household
  <2>1. PICK h : h = IF d.op = "CreateHousehold" THEN d.household ELSE None
    OBVIOUS
  <2>2. c = [op |-> None, token |-> None, household |-> h, user |-> None,
             stage |-> "answered", answer |-> a, late |-> d.late]
    BY <1>3, <2>1 DEF Blank
  <2>3. h \in Households \union {None, BadId} /\ d.late \in BOOLEAN
    BY <1>2, <2>1 DEF CallRecords
  <2> QED BY <2>1, <2>2, <2>3 DEF CallRecords, Stages
<1>5. calls' = [calls EXCEPT ![r] = c]
  BY <1>1, <1>3 DEF Answer
<1>6. a # None
  BY Nulls
<1>7. CallInv(c)' /\ Entitled(r, c)
  BY <1>1, <1>4, <1>6 DEF CallInv, Carried, Admitted, LateStopped, OwnerDue, Entitled, Inside
<1>8. d.stage = "member" => d.op = "CreateHousehold"
  BY <1>2 DEF CallInv, Carried
<1>9. OwnerLeftovers'
  <2>1. calls[r].stage = "member" =>
           /\ c.stage = "answered" /\ c.household = calls[r].household
           /\ c.answer # "ok" \/ members'[c.household][calls[r].user] = "owner"
    BY <1>1, <1>4, <1>8
  <2> QED BY <1>4, <1>5, <2>1, OwnersKept
<1> QED BY <1>5, <1>7, <1>9, CallStep

\* What a request at its handler is known to be.
LEMMA AtHandler ==
    ASSUME AInv, NEW r \in Requests, NEW op \in Ops, Running(r, op)
    PROVE  /\ calls[r] # None /\ calls[r] \in CallRecords /\ CallInv(calls[r])
           /\ calls[r].op = op /\ calls[r].stage = "handler"
           /\ ~calls[r].late /\ calls[r].answer = None
           /\ op \notin Public => calls[r].user \in Users /\ calls[r].token \in Sessions
           /\ op \in {"GetHousehold", "AddMember", "RemoveMember"} =>
                 calls[r].household \in Households
           /\ op \in ScopedOps =>
                 calls[r].household \in Households /\ calls[r].user \in Users /\ LetIn(r)
<1>1. PICK d : d = calls[r]
  OBVIOUS
<1>2. d # None /\ d.op = op /\ d.stage = "handler" /\ CallInv(d) /\ d \in CallRecords
  BY <1>1 DEF Running, Pending, AInv, CallInv
<1>3. d.late \in BOOLEAN /\ d.user \in Users \union {None} /\ d.token \in Sessions \union {None}
  BY <1>2 DEF CallRecords
<1>4. op \in ScopedOps => op \notin Public
  BY AccountsAssumption DEF AccountsAssumption
<1> QED BY <1>1, <1>2, <1>3, <1>4
       DEF CallInv, Carried, Admitted, Inside, LetIn, LateStopped

\* A request whose statement was executed is answered so, or not told.
LEMMA Settled ==
    ASSUME AInv, Sound, UNCHANGED households, NEW r \in Requests, NEW op \in Ops,
           Running(r, op), NEW a \in {"ok"} \union Errors, Answer(r, a)
    PROVE  AInv'
BY AtHandler, Answered

\* Nothing is written.
LEMMA Refused ==
    ASSUME AInv, UNCHANGED <<accounts, removed>>, NEW r \in Requests, NEW op \in Ops,
           Running(r, op), NEW a \in {"ok"} \union Errors, Answer(r, a)
    PROVE  AInv'
<1>1. Sound /\ UNCHANGED households
  BY Unwritten DEF AInv, accounts
<1> QED BY <1>1, Settled

--------------------------------------------------------------------------------
(* The requests.                                                            *)

\* A request as Receive leaves it.
Received(op, s, h) ==
    [Blank EXCEPT !.op = op, !.token = s, !.household = h,
                  !.stage = IF op \in Public THEN "handler" ELSE "session",
                  !.late = op \notin Public /\ ~Good(FindSessionByTokenHash(s))]

\* It is so, field by field ...
LEMMA ReceivedParts ==
    ASSUME NEW op, NEW s, NEW h
    PROVE  LET c == Received(op, s, h) IN
           /\ c.op = op /\ c.token = s /\ c.household = h /\ c.user = None /\ c.answer = None
           /\ c.stage \in {"handler", "session"} /\ c.late \in BOOLEAN
           /\ c.stage = "handler" <=> op \in Public
           /\ c.late => op \notin Public /\ ~Good(FindSessionByTokenHash(s))
           /\ c = [op |-> op, token |-> s, household |-> h, user |-> None, stage |-> c.stage,
                   answer |-> None, late |-> c.late]
<1>1. PICK late \in BOOLEAN : late = (op \notin Public /\ ~Good(FindSessionByTokenHash(s)))
  OBVIOUS
<1>2. PICK stage \in {"handler", "session"} :
         stage = IF op \in Public THEN "handler" ELSE "session"
  OBVIOUS
<1>3. PICK c : c = [Blank EXCEPT !.op = op, !.token = s, !.household = h, !.stage = stage,
                                 !.late = late]
  OBVIOUS
<1>4. Received(op, s, h) = c
  BY <1>1, <1>2, <1>3 DEF Received
<1>5. c = [op |-> op, token |-> s, household |-> h, user |-> None, stage |-> stage,
           answer |-> None, late |-> late]
  BY <1>3 DEF Blank
<1>6. /\ c.op = op /\ c.token = s /\ c.household = h /\ c.user = None /\ c.answer = None
      /\ c.stage = stage /\ c.late = late
  BY <1>5
<1>7. /\ stage = "handler" <=> op \in Public
      /\ late => op \notin Public /\ ~Good(FindSessionByTokenHash(s))
  BY <1>1, <1>2
<1> QED BY <1>4, <1>5, <1>6, <1>7, Zenon

\* ... and a request that is received is one of these.
LEMMA Reception ==
    ASSUME NEW r, Receive(r)
    PROVE  \E op \in Ops, s \in Tokens : \E h \in HouseholdsNamed(op) :
              /\ calls[r] = None
              /\ op \in Public => s = None
              /\ s # None => sessions[s] # None
              /\ calls' = [calls EXCEPT ![r] = Received(op, s, h)]
              /\ UNCHANGED <<accounts, removed>>
BY Zenon DEF Receive, Received

\* A request is received.
LEMMA ReceiveStep ==
    ASSUME AInv, NEW r \in Requests, Receive(r)
    PROVE  AInv'
<1>1. PICK op \in Ops, s \in Tokens : \E h \in HouseholdsNamed(op) :
         /\ calls[r] = None
         /\ op \in Public => s = None
         /\ s # None => sessions[s] # None
         /\ calls' = [calls EXCEPT ![r] = Received(op, s, h)]
  BY Reception
<1>2. PICK h \in HouseholdsNamed(op) : calls' = [calls EXCEPT ![r] = Received(op, s, h)]
  BY <1>1
<1>3. PICK c : c = Received(op, s, h)
  OBVIOUS
<1>4. /\ calls' = [calls EXCEPT ![r] = c]
      /\ c.op = op /\ c.token = s /\ c.household = h /\ c.user = None /\ c.answer = None
      /\ c.stage \in {"handler", "session"} /\ c.late \in BOOLEAN
      /\ c.stage = "handler" <=> op \in Public
      /\ c.late => op \notin Public /\ ~Good(FindSessionByTokenHash(s))
      /\ c = [op |-> op, token |-> s, household |-> h, user |-> None, stage |-> c.stage,
              answer |-> None, late |-> c.late]
  BY <1>2, <1>3, ReceivedParts
<1>5. h \in Households \union {None, BadId}
      /\ (op \in {"GetHousehold", "AddMember", "RemoveMember"} => h \in Households)
  BY AccountsAssumption DEF AccountsAssumption, HouseholdsNamed, SignedIn
<1>6. c \in CallRecords
  BY <1>4, <1>5 DEF CallRecords, Tokens, Stages
<1>7. op # None
  BY Nulls
<1>8. op \in ScopedOps => op \notin Public
  BY AccountsAssumption DEF AccountsAssumption
<1>9. CallInv(c) /\ Entitled(r, c)
  <2>1. Carried(c) /\ OwnerDue(c)
    BY <1>1, <1>4, <1>5, <1>7 DEF Carried, OwnerDue
  <2>2. Admitted(c) /\ Entitled(r, c)
    BY <1>1, <1>4, <1>8 DEF Admitted, Entitled, Inside
  <2>3. LateStopped(c)
    BY <1>1, <1>4, Nulls DEF LateStopped
  <2> QED BY <1>4, <1>6, <2>1, <2>2, <2>3 DEF CallInv
<1>10. Sound /\ UNCHANGED households
  BY Unwritten DEF AInv, Receive, accounts
<1> QED BY <1>1, <1>4, <1>9, <1>10, GoesOn

\* auth.Middleware.
LEMMA MiddlewareStep ==
    ASSUME AInv, NEW r \in Requests, Middleware(r)
    PROVE  AInv'
<1>1. Sound /\ UNCHANGED households
  BY Unwritten DEF AInv, Middleware, accounts
<1>2. PICK d : d = calls[r]
  OBVIOUS
<1>3. d # None /\ d.stage = "session" /\ CallInv(d) /\ d \in CallRecords
  BY <1>2 DEF Middleware, Pending, AInv, CallInv
<1>4. CASE Answer(r, "unauthorized")
  BY <1>1, <1>2, <1>3, <1>4, Answered DEF Errors
<1>5. CASE /\ Good(FindSessionByTokenHash(d.token))
           /\ calls' = [calls EXCEPT ![r].user = FindSessionByTokenHash(d.token).user,
                 ![r].stage = IF d.op \in ScopedOps THEN "scope" ELSE "handler"]
  <2>1. PICK row : row = FindSessionByTokenHash(d.token)
    OBVIOUS
  <2>2. row # None /\ d.token \in Sessions \union {None}
    BY <1>3, <1>5, <2>1 DEF Good, CallRecords
  <2>3. d.token # None /\ row = sessions[d.token] /\ row \in SessionRecords(Users)
    BY <2>1, <2>2, Nulls DEF FindSessionByTokenHash, GetSessionByTokenHash, IsRow, AInv, TablesOK
  <2>4. row.user \in Users
    BY <2>3 DEF SessionRecords
  <2>5. ~d.late
    BY <1>3, <1>5, <2>3 DEF CallInv, LateStopped
  <2>6. PICK c : c = [d EXCEPT !.user = row.user,
                         !.stage = IF d.op \in ScopedOps THEN "scope" ELSE "handler"]
    OBVIOUS
  <2>7. /\ c \in CallRecords /\ c.user = row.user
        /\ c.stage = IF d.op \in ScopedOps THEN "scope" ELSE "handler"
        /\ c.op = d.op /\ c.token = d.token /\ c.household = d.household
        /\ c.late = d.late /\ c.answer = d.answer
    BY <1>3, <2>4, <2>6 DEF CallRecords, Stages
  <2>8. calls' = [calls EXCEPT ![r] = c]
    BY <1>2, <1>3, <1>5, <2>1, <2>6 DEF AInv, CallRecords
  <2>9. c.user # None
    BY <2>4, <2>7, Nulls
  <2>10. CallInv(c) /\ Entitled(r, c)
    BY <1>3, <2>3, <2>5, <2>7, <2>9
       DEF CallInv, Carried, Admitted, LateStopped, OwnerDue, Entitled, Inside, Public
  <2> QED BY <1>1, <1>2, <1>3, <2>8, <2>10, GoesOn
<1> QED BY <1>2, <1>4, <1>5 DEF Middleware

\* ScopeMiddleware.
LEMMA ScopeMiddlewareStep ==
    ASSUME AInv, NEW r \in Requests, ScopeMiddleware(r)
    PROVE  AInv'
<1>1. Sound /\ UNCHANGED households /\ UNCHANGED <<accounts, removed>>
  BY Unwritten DEF AInv, ScopeMiddleware, accounts
<1>2. PICK d : d = calls[r]
  OBVIOUS
<1>3. /\ d # None /\ d.stage = "scope" /\ CallInv(d) /\ d \in CallRecords
      /\ d.op \in ScopedOps /\ d.op \notin Public /\ ~d.late
  BY <1>2, AccountsAssumption
     DEF ScopeMiddleware, Pending, AInv, CallInv, Carried, LateStopped, AccountsAssumption
<1>4. d.user \in Users /\ d.token # None /\ d.answer = None /\ d.op # None
  BY <1>3 DEF CallInv, Carried, CallRecords
<1>5. CASE \E a \in {"bad_request", "forbidden"} : Answer(r, a)
  BY <1>1, <1>2, <1>3, <1>5, Answered DEF Errors
<1>6. ASSUME NEW h \in Households, members[h][d.user] # None,
             calls' = [calls EXCEPT ![r].household = h, ![r].stage = "handler"]
      PROVE  AInv'
  <2>1. PICK c : c = [d EXCEPT !.household = h, !.stage = "handler"]
    OBVIOUS
  <2>2. /\ c \in CallRecords /\ c.household = h /\ c.stage = "handler" /\ c.user = d.user
        /\ c.op = d.op /\ c.token = d.token /\ c.late = d.late /\ c.answer = d.answer
    BY <1>3, <2>1 DEF CallRecords, Stages
  <2>3. calls' = [calls EXCEPT ![r] = c]
    BY <1>2, <1>3, <1>6, <2>1 DEF AInv, CallRecords
  <2>4. CallInv(c)
    BY <1>3, <1>4, <1>6, <2>2, Nulls
       DEF CallInv, Carried, Admitted, Inside, LateStopped, OwnerDue
  <2>5. Entitled(r, c)
    BY <1>1, <1>6, <2>2 DEF Entitled, accounts
  <2> QED BY <1>1, <1>2, <1>3, <2>3, <2>4, <2>5, GoesOn
<1>7. CASE /\ d.household \in Households /\ FindMember(d.household, d.user) # None
           /\ Proceed(r, "handler")
  <2>1. calls' = [calls EXCEPT ![r].household = d.household, ![r].stage = "handler"]
    BY <1>2, <1>3, <1>7 DEF Proceed, AInv, CallRecords
  <2> QED BY <1>6, <1>7, <2>1 DEF FindMember, GetHouseholdMember
<1>8. CASE /\ ListHouseholdsForUser(d.user) # {}
           /\ calls' = [calls EXCEPT ![r].household = Max(ListHouseholdsForUser(d.user)),
                                     ![r].stage = "handler"]
  <2>1. PICK own : own = ListHouseholdsForUser(d.user)
    OBVIOUS
  <2>2. own \in SUBSET Households /\ \A h \in own : members[h][d.user] # None
    BY <2>1 DEF ListHouseholdsForUser, ListHouseholdsByUser, AInv, TablesOK
  <2>3. Max(own) \in own
    BY <1>8, <2>1, <2>2, MaxIsMember
  <2> QED BY <1>6, <1>8, <2>1, <2>2, <2>3
<1> QED BY <1>2, <1>5, <1>7, <1>8 DEF ScopeMiddleware

\* Register, Login, Logout.
LEMMA SessionSteps ==
    ASSUME AInv, NEW r \in Requests,
           HandleRegister(r) \/ HandleLogin(r) \/ LoginSession(r) \/ HandleLogout(r)
    PROVE  AInv'
<1>0. /\ {"Register", "Login", "Logout"} \subseteq Ops /\ "Logout" \notin Public
      /\ {"conflict", "bad_request", "unauthorized", "internal"} \subseteq Errors
  BY DEF Ops, Public, SignedIn, Errors
<1>1. CASE HandleRegister(r)
  <2>1. Running(r, "Register")
    BY <1>1 DEF HandleRegister
  <2>2. CASE BadRequest(r)
    BY <1>0, <2>1, <2>2, Refused DEF BadRequest
  <2>3. ASSUME NEW email \in Emails, Register(r, email) PROVE AInv'
    <3>1. PICK u \in Users, o \in {"ok", "conflict"} : CreateUser(u, email, o) /\ Settle(r, o)
      BY <2>3 DEF Register
    <3>2. Sound /\ UNCHANGED households
      BY <3>1, CreateUserSound DEF AInv, CreateUser, Settle
    <3> QED BY <1>0, <2>1, <3>1, <3>2, Settled DEF Settle
  <2> QED BY <1>1, <2>2, <2>3 DEF HandleRegister
<1>2. CASE HandleLogin(r)
  <2>1. Running(r, "Login")
    BY <1>2 DEF HandleLogin
  <2>2. CASE BadRequest(r)
    BY <1>0, <2>1, <2>2, Refused DEF BadRequest
  <2>3. CASE Answer(r, "unauthorized") /\ UNCHANGED <<accounts, removed>>
    BY <1>0, <2>1, <2>3, Refused
  <2>4. ASSUME NEW u \in Users, UNCHANGED <<accounts, removed>>,
               calls' = [calls EXCEPT ![r].user = u, ![r].stage = "second"]
        PROVE  AInv'
    <3>1. PICK d : d = calls[r]
      OBVIOUS
    <3>2. /\ d # None /\ d \in CallRecords /\ CallInv(d) /\ d.op = "Login"
          /\ d.stage = "handler" /\ ~d.late /\ d.answer = None
      BY <1>0, <2>1, <3>1, AtHandler
    <3>3. PICK c : c = [d EXCEPT !.user = u, !.stage = "second"]
      OBVIOUS
    <3>4. /\ c \in CallRecords /\ c.user = u /\ c.stage = "second" /\ c.op = "Login"
          /\ ~c.late /\ c.answer = None
      BY <3>2, <3>3 DEF CallRecords, Stages
    <3>5. calls' = [calls EXCEPT ![r] = c]
      BY <2>4, <3>1, <3>2, <3>3 DEF AInv, CallRecords
    <3>6. "Login" \notin ScopedOps /\ "Login" # None /\ "Login" \in Public /\ u # None
      BY <1>0, AccountsAssumption, Nulls DEF AccountsAssumption, Public
    <3>7. CallInv(c) /\ Entitled(r, c)
      BY <3>4, <3>6 DEF CallInv, Carried, Admitted, LateStopped, OwnerDue, Entitled, Inside
    <3>8. Sound /\ UNCHANGED households
      BY <2>4, Unwritten DEF AInv, accounts
    <3> QED BY <3>1, <3>2, <3>5, <3>7, <3>8, GoesOn
  <2>5. \A email : FindUserByEmail(email) \subseteq Users
    BY DEF FindUserByEmail, GetUserByEmail, Rows, AInv, TablesOK
  <2> QED BY <1>2, <2>2, <2>3, <2>4, <2>5 DEF HandleLogin, Login
<1>3. CASE LoginSession(r)
  <2>1. PICK s \in Sessions : CreateSession(s, calls[r].user)
    BY <1>3 DEF LoginSession
  <2>2. PICK a \in {"ok", "internal"} : Answer(r, a)
    BY <1>3 DEF LoginSession, Settle
  <2>3. /\ calls[r] # None /\ calls[r].stage = "second" /\ CallInv(calls[r])
        /\ calls[r] \in CallRecords
    BY <1>3 DEF LoginSession, Pending, AInv, CallInv
  <2>4. calls[r].user \in Users /\ ~calls[r].late
    BY <2>3 DEF CallInv, Carried, LateStopped, CallRecords
  <2>5. Sound /\ UNCHANGED households
    BY <1>3, <2>1, <2>4, CreateSessionSound DEF AInv, LoginSession, Settle, CreateSession
  <2> QED BY <1>0, <2>2, <2>3, <2>4, <2>5, Answered
<1>4. CASE HandleLogout(r)
  <2>1. /\ Running(r, "Logout") /\ RevokeSession(calls[r].token) /\ UNCHANGED removed
        /\ Answer(r, "ok") \/ Answer(r, "internal")
    BY <1>4 DEF HandleLogout, Logout, Settle
  <2>2. calls[r].token \in Sessions
    BY <1>0, <2>1, AtHandler
  <2>3. Sound /\ UNCHANGED households
    <3>1. TablesOK
      BY DEF AInv
    <3> QED BY <2>1, <2>2, <3>1, RevokeSessionSound DEF RevokeSession
  <2> QED BY <1>0, <2>1, <2>3, Settled
<1> QED BY <1>1, <1>2, <1>3, <1>4

\* What CreateHousehold makes of its request once the household is inserted.
Created(c, h, s, a) == [c EXCEPT !.household = h, !.stage = s, !.answer = a]

\* It is a request still, with what it came with.
LEMMA CallCreated ==
    ASSUME NEW c \in CallRecords, NEW h \in Households, NEW s \in Stages,
           NEW a \in {None} \union Errors
    PROVE  LET d == Created(c, h, s, a) IN
           /\ d \in CallRecords /\ d.household = h /\ d.stage = s /\ d.answer = a
           /\ d.op = c.op /\ d.user = c.user /\ d.token = c.token /\ d.late = c.late
BY DEF Created, CallRecords

\* CreateHousehold inserts the household, and its owner in a second statement.
LEMMA CreateHouseholdStep ==
    ASSUME AInv, NEW r \in Requests, Running(r, "CreateHousehold"), ServeCreateHousehold(r)
    PROVE  AInv'
<1>1. PICK d : d = calls[r]
  OBVIOUS
<1>2. /\ d # None /\ d \in CallRecords /\ CallInv(d) /\ d.op = "CreateHousehold"
      /\ d.stage = "handler" /\ ~d.late /\ d.answer = None /\ d.user \in Users
      /\ d.token \in Sessions /\ calls[r] = d
  <2>1. "CreateHousehold" \in Ops \ Public
    BY DEF Ops, SignedIn, Public
  <2> QED BY <1>1, <2>1, AtHandler
<1>3. PICK h \in Households, stage \in {"member", "answered"} :
         /\ CreateHousehold(h, d.user)
         /\ calls' = [calls EXCEPT ![r].household = h, ![r].stage = stage,
                         ![r].answer = IF stage = "answered" THEN "internal" ELSE None]
  BY <1>2 DEF ServeCreateHousehold
<1>4. /\ Sound /\ h \in Rows(households') /\ households'[h].creator = d.user
      /\ Rows(households') \subseteq Rows(households) \union {h}
      /\ removed' = removed /\ members' = members /\ households[h] = None
  BY <1>2, <1>3, CreateHouseholdSound DEF AInv, ServeCreateHousehold, CreateHousehold
<1>5. PICK answer : answer = IF stage = "answered" THEN "internal" ELSE None
  OBVIOUS
<1>6. PICK c : c = [d EXCEPT !.household = h, !.stage = stage, !.answer = answer]
  OBVIOUS
<1>7. /\ c \in CallRecords /\ c.household = h /\ c.stage = stage /\ c.answer = answer
      /\ c.op = d.op /\ c.user = d.user /\ c.token = d.token /\ ~c.late
  <2>1. d \in CallRecords /\ stage \in Stages /\ answer \in {None} \union Errors
    BY <1>2, <1>5 DEF Stages, Errors
  <2>2. c = Created(d, h, stage, answer)
    BY <1>6, Zenon DEF Created
  <2> QED BY <1>2, <2>1, <2>2, CallCreated
<1>8. calls' = [calls EXCEPT ![r] = c]
  BY <1>2, <1>3, <1>5, <1>6 DEF AInv, CallRecords
<1>9. /\ "internal" # None /\ "internal" # "ok" /\ None # "ok"
      /\ "CreateHousehold" \notin ScopedOps
      /\ d.op # None /\ d.user # None /\ d.token # None
  BY <1>2, Nulls, AccountsAssumption DEF AccountsAssumption, SignedIn, Ops, Errors
<1>10. CallInv(c)' /\ Entitled(r, c)
  BY <1>2, <1>4, <1>5, <1>7, <1>9
     DEF CallInv, Carried, Admitted, LateStopped, OwnerDue, Entitled, Inside
<1>11. OwnerLeftovers'
  <2> SUFFICES ASSUME NEW g \in Rows(households'),
                      members'[g][households'[g].creator] # "owner",
                      \A R \in SUBSET Requests :
                         <<g, households'[g].creator, R>> \notin removed'
               PROVE  \E q \in Requests :
                         /\ \/ Pending(q, "answered")'
                            \/ Pending(q, "member")' /\ calls'[q].op = "CreateHousehold"
                         /\ calls'[q].household = g /\ calls'[q].answer # "ok"
    BY DEF OwnerLeftovers
  <2>1. calls'[r] = c /\ c # None /\ \A q \in Requests \ {r} : calls'[q] = calls[q]
    BY <1>7, <1>8, Nulls DEF AInv
  <2>2. CASE g = h
    BY <1>2, <1>5, <1>7, <1>9, <2>1, <2>2 DEF Pending
  <2>3. CASE g # h
    <3>1. g \in Rows(households) /\ households'[g] = households[g]
      BY <1>4, <2>3 DEF Sound, Stable
    <3>2. PICK q \in Requests :
             /\ \/ Pending(q, "answered")
                \/ Pending(q, "member") /\ calls[q].op = "CreateHousehold"
             /\ calls[q].household = g /\ calls[q].answer # "ok"
      BY <1>4, <3>1 DEF AInv, OwnerLeftovers
    <3>3. q # r
      BY <1>2, <3>2 DEF Pending
    <3> QED BY <2>1, <3>2, <3>3 DEF Pending
  <2> QED BY <2>2, <2>3
<1> QED BY <1>4, <1>8, <1>10, <1>11, CallStep

\* ... which is when the household has its owner, or else the request says so.
LEMMA AddOwnerStep ==
    ASSUME AInv, NEW r \in Requests, ServeAddOwner(r)
    PROVE  AInv'
<1>1. PICK o \in {"ok", "internal"}, a \in {"ok", "internal"} :
         /\ AddMember(calls[r].household, calls[r].user, "owner", o)
         /\ a \in {o, "internal"} /\ Answer(r, a)
  BY DEF ServeAddOwner, Settle
<1>2. /\ calls[r] # None /\ calls[r].stage = "member" /\ CallInv(calls[r])
      /\ UNCHANGED removed
  BY <1>1 DEF ServeAddOwner, Settle, Pending, AInv
<1>3. calls[r].household \in Households /\ calls[r].user \in Users /\ ~calls[r].late
  <2>1. households[calls[r].household].creator = calls[r].user
        /\ calls[r].household \in Rows(households) /\ ~calls[r].late
    BY <1>2 DEF CallInv, OwnerDue, LateStopped
  <2> QED BY <2>1 DEF AInv, TablesOK, Rows, IsRow, HouseholdRecords
<1>4. /\ Sound /\ UNCHANGED households
      /\ o = "ok" => members'[calls[r].household][calls[r].user] = "owner"
  BY <1>1, <1>2, <1>3, AddMemberSound DEF AInv
<1>5. a \in {"ok"} \union Errors
  BY DEF Errors
<1>6. a # "ok" \/ members'[calls[r].household][calls[r].user] = "owner"
  BY <1>1, <1>4
<1> QED BY <1>1, <1>2, <1>3, <1>4, <1>5, <1>6, Answered

\* The other requests about households and share links.
LEMMA HouseholdSteps ==
    ASSUME AInv, NEW r \in Requests,
           \/ HandleListHouseholds(r) \/ HandleCreateHousehold(r) \/ HandleGetHousehold(r)
           \/ ServeGetMembership(r) \/ HandleAddMember(r) \/ HandleRemoveMember(r)
           \/ HandleCreateShareLink(r) \/ HandleGetInventoryByShareToken(r)
    PROVE  AInv'
<1>0. /\ SignedIn \subseteq Ops /\ "GetShared" \in Ops /\ SignedIn \intersect Public = {}
      /\ SignedIn \intersect ScopedOps = {} /\ TablesOK
      /\ {"bad_request", "not_found", "gone", "unauthorized", "internal"} \subseteq Errors
  BY AccountsAssumption DEF AccountsAssumption, Ops, Public, SignedIn, Errors, AInv
<1>1. /\ {"ListHouseholds", "CreateHousehold", "GetHousehold", "AddMember", "RemoveMember",
          "CreateShareLink"} \subseteq SignedIn
  BY DEF SignedIn
<1>2. ASSUME NEW op \in Ops, Running(r, op), BadRequest(r) PROVE AInv'
  BY <1>0, <1>2, Refused DEF BadRequest
<1>3. CASE HandleListHouseholds(r)
  BY <1>0, <1>1, <1>3, Refused DEF HandleListHouseholds, ServeListHouseholds
<1>4. CASE HandleCreateHousehold(r)
  BY <1>0, <1>1, <1>2, <1>4, CreateHouseholdStep DEF HandleCreateHousehold
<1>5. CASE HandleGetHousehold(r)
  <2>1. Running(r, "GetHousehold") /\ UNCHANGED <<accounts, removed>>
    BY <1>5 DEF HandleGetHousehold, ServeGetHousehold
  <2>2. CASE Answer(r, "not_found")
    BY <1>0, <1>1, <2>1, <2>2, Refused
  <2>3. CASE Proceed(r, "second")
    <3>1. PICK d : d = calls[r]
      OBVIOUS
    <3>2. /\ d # None /\ d \in CallRecords /\ CallInv(d) /\ d.op = "GetHousehold"
          /\ d.stage = "handler" /\ ~d.late /\ d.answer = None /\ d.user \in Users
          /\ d.token \in Sessions /\ d.household \in Households
      BY <1>0, <1>1, <2>1, <3>1, AtHandler
    <3>3. PICK c : c = [d EXCEPT !.stage = "second"]
      OBVIOUS
    <3>4. /\ c \in CallRecords /\ c.stage = "second" /\ c.op = d.op /\ c.user = d.user
          /\ c.token = d.token /\ c.household = d.household /\ ~c.late /\ c.answer = None
      BY <3>2, <3>3 DEF CallRecords, Stages
    <3>5. calls' = [calls EXCEPT ![r] = c]
      BY <2>3, <3>1, <3>3 DEF Proceed
    <3>6. /\ c.op \notin ScopedOps /\ c.op # None /\ c.user # None /\ c.token # None
      BY <1>0, <1>1, <3>2, <3>4, Nulls
    <3>7. CallInv(c) /\ Entitled(r, c)
      BY <3>2, <3>4, <3>6
         DEF CallInv, Carried, Admitted, LateStopped, OwnerDue, Entitled, Inside
    <3>8. Sound /\ UNCHANGED households
      BY <1>0, <2>1, Unwritten DEF accounts
    <3> QED BY <3>1, <3>2, <3>5, <3>7, <3>8, GoesOn
  <2> QED BY <1>5, <2>2, <2>3 DEF HandleGetHousehold, ServeGetHousehold
<1>6. CASE ServeGetMembership(r)
  <2>1. /\ Sound /\ UNCHANGED households /\ calls[r] # None /\ calls[r].stage = "second"
        /\ Answer(r, "not_found") \/ Answer(r, "ok")
    BY <1>0, <1>6, Unwritten DEF ServeGetMembership, Pending, accounts
  <2>2. ~calls[r].late
    BY <2>1 DEF AInv, CallInv, LateStopped
  <2> QED BY <1>0, <2>1, <2>2, Answered
<1>7. CASE HandleAddMember(r)
  <2>1. Running(r, "AddMember") /\ calls[r].household \in Households
    BY <1>0, <1>1, <1>7, AtHandler DEF HandleAddMember
  <2>2. ASSUME NEW u \in Users, NEW role, ServeAddMember(r, u, role) PROVE AInv'
    <3>1. PICK o \in {"ok", "internal"} :
             AddMember(calls[r].household, u, role, o) /\ Settle(r, o)
      BY <2>2 DEF ServeAddMember
    <3>2. Sound /\ UNCHANGED households
      BY <1>0, <2>1, <3>1, AddMemberSound DEF Settle
    <3>3. PICK a \in {"ok", "internal"} : Answer(r, a)
      BY <3>1 DEF Settle
    <3> QED BY <1>0, <1>1, <2>1, <3>2, <3>3, Settled
  <2> QED BY <1>0, <1>1, <1>2, <1>7, <2>1, <2>2 DEF HandleAddMember
<1>8. CASE HandleRemoveMember(r)
  <2>1. Running(r, "RemoveMember") /\ calls[r].household \in Households
    BY <1>0, <1>1, <1>8, AtHandler DEF HandleRemoveMember
  <2>2. PICK u \in Users : ServeRemoveMember(r, u)
    BY <1>8 DEF HandleRemoveMember
  <2>3. Sound /\ UNCHANGED households
    BY <1>0, <2>1, <2>2, RemoveMemberSound DEF ServeRemoveMember
  <2>4. PICK a \in {"ok", "internal"} : Answer(r, a)
    BY <2>2 DEF ServeRemoveMember
  <2> QED BY <1>0, <1>1, <2>1, <2>3, <2>4, Settled
<1>9. CASE HandleCreateShareLink(r)
  <2>1. Running(r, "CreateShareLink")
    BY <1>9 DEF HandleCreateShareLink
  <2>2. ASSUME NEW i \in {"there", "missing"}, NEW locked \in BOOLEAN,
               NEW expires \in {"never", "later"}, ServeCreateShareLink(r, i, locked, expires)
        PROVE  AInv'
    <3>1. PICK l \in Links, o \in {"ok", "internal"} :
             CreateShareLink(l, i, locked, expires, o) /\ Settle(r, o)
      BY <2>2 DEF ServeCreateShareLink
    <3>2. Sound /\ UNCHANGED households
      BY <1>0, <3>1, CreateShareLinkSound DEF Settle
    <3>3. PICK a \in {"ok", "internal"} : Answer(r, a)
      BY <3>1 DEF Settle
    <3> QED BY <1>0, <1>1, <2>1, <3>2, <3>3, Settled
  <2> QED BY <1>0, <1>1, <1>2, <1>9, <2>1, <2>2 DEF HandleCreateShareLink
<1>10. CASE HandleGetInventoryByShareToken(r)
  <2>1. /\ Running(r, "GetShared") /\ UNCHANGED <<accounts, removed>>
        /\ \E a \in {"not_found", "gone", "unauthorized", "ok"} : Answer(r, a)
    BY <1>10 DEF HandleGetInventoryByShareToken
  <2> QED BY <1>0, <2>1, Refused
<1> QED BY <1>3, <1>4, <1>5, <1>6, <1>7, <1>8, <1>9, <1>10

\* Time passes, and pg_cron runs.
LEMMA AroundStep ==
    ASSUME AInv, Expire \/ Purge
    PROVE  AInv'
<1>1. Sound /\ UNCHANGED <<households, calls, removed, members>>
  BY ExpireSound, PurgeSound DEF AInv, Expire, Purge
<1>2. ASSUME NEW r \in Requests, calls[r] # None PROVE CallInv(calls[r])'
  <2>1. PICK c : c = calls[r]
    OBVIOUS
  <2>2. CallInv(c)'
    BY <1>2, <2>1, <1>1, CallStable DEF AInv
  <2> QED BY <1>1, <2>1, <2>2
<1>3. OwnerLeftovers /\ MembersOnly
  BY DEF AInv
<1>4. OwnerLeftovers'
  BY <1>1, <1>3 DEF OwnerLeftovers, Pending
<1>5. MembersOnly'
  BY <1>1, <1>3 DEF MembersOnly, LetIn
<1> QED BY <1>1, <1>2, <1>4, <1>5 DEF AInv, Sound

\* Whatever happens in Accounts.
LEMMA AccountsStepKeeps ==
    ASSUME AInv, AccountsStep
    PROVE  AInv'
BY ReceiveStep, MiddlewareStep, ScopeMiddlewareStep, SessionSteps, HouseholdSteps, AddOwnerStep,
   AroundStep DEF AccountsStep, HandleAccounts

================================================================================
