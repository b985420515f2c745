-------------------------------- MODULE Accounts --------------------------------
(***************************************************************************)
(* Accounts, their refresh sessions and access tokens.                     *)
(*                                                                         *)
(*   internal/auth      Service, PostgresRepository, TokenManager          *)
(*   internal/admin     UsersHandler, RoleService                          *)
(*   internal/waitlist  Service.Join, the super admins                     *)
(*                                                                         *)
(* One person with an email, a Google identity and a phone, who may be a   *)
(* lead of the waitlist, register, be changed or deleted by an             *)
(* administrator and come back.  Requests are the statements they execute, *)
(* so that any two of them may be under way together.                      *)
(***************************************************************************)
EXTENDS Naturals, Sequences, FiniteSets

CONSTANTS
  Logins,        \* requests in flight
  MaxRow,        \* bound on the rows the email has had
  MaxChanges,    \* bound on token_version
  MaxSessions,   \* bound on refresh sessions
  MaxTokens,     \* bound on the access tokens followed
  Nobody         \* holds no lock

ASSUME AccountAssumption ==
  /\ {MaxRow, MaxChanges, MaxSessions, MaxTokens} \subseteq Nat
  /\ IsFiniteSet(Logins) /\ Nobody \notin Logins

VARIABLES
  user,          \* users: the row with the email, if there is one
  listed,        \* super_admins has the email
  refresh,       \* refresh_sessions, in order of creation
  tokens,        \* access tokens that were issued, the ones that are followed
  rowLock,       \* who holds the row of the user FOR UPDATE
  sessionLock,   \* who holds the row of a refresh session
  login          \* what each request is doing

accountRows == <<user, listed, refresh>>
accountLocks == <<rowLock, sessionLock>>
accountVars == <<accountRows, tokens, accountLocks, login>>

Roles == {"STUDENT", "ADMIN"}

\* WAITING and INVITED are one here: both are leads.
NoUser == [row |-> 0, status |-> "none", role |-> "STUDENT", editor |-> FALSE, blocked |-> FALSE,
           version |-> 0]

UserRow ==
  [row : 0..MaxRow, status : {"none", "lead", "registered"}, role : Roles, editor : BOOLEAN,
   blocked : BOOLEAN, version : 0..MaxChanges]

Token == [row : 1..MaxRow, role : Roles, editor : BOOLEAN, version : 0..MaxChanges]

RefreshSession ==
  [row : 1..MaxRow, state : {"active", "revoked", "deleted"}, lapsed : BOOLEAN, family : Nat]

AdminKinds == {"update", "invalidate", "role", "delete"}

NoLogin ==
  [kind |-> "none", at |-> "idle", row |-> 0, role |-> "STUDENT", session |-> 0, family |-> 0,
   doomed |-> {}, change |-> NoUser]

LoginRecord ==
  [kind : {"none", "password", "google", "register", "complete", "refresh"} \cup AdminKinds,
   at : {"idle", "reading", "rereading", "elevating", "setting", "upgrading", "making", "issuing",
         "storing", "rotating", "inspecting", "revoking", "locked", "found"},
   row : 0..MaxRow, role : Roles, session : 0..MaxSessions, family : Nat,
   doomed : SUBSET (1..MaxSessions), change : UserRow]

AccountTypeOK ==
  /\ user \in UserRow
  /\ listed \in BOOLEAN
  /\ refresh \in Seq(RefreshSession)
  /\ tokens \subseteq Token
  /\ rowLock \in Logins \cup {Nobody}
  /\ sessionLock \in [1..MaxSessions -> Logins \cup {Nobody}]
  /\ login \in [Logins -> LoginRecord]

AccountInit ==
  /\ user = NoUser
  /\ listed \in BOOLEAN
  /\ refresh = <<>>
  /\ tokens = {}
  /\ rowLock = Nobody
  /\ sessionLock = [s \in 1..MaxSessions |-> Nobody]
  /\ login = [t \in Logins |-> NoLogin]

Lead == user.status = "lead"
Registered == user.status = "registered"
\* UpdateUser and DeleteUser lock the row FOR UPDATE: a session's foreign key waits.
KeyShared == \A t \in Logins : rowLock = t => login[t].kind \in {"invalidate", "role"}

Active(s) == refresh[s].state = "active"

-------------------------------------------------------------------------------
(* Faulty variants, the slips the properties are there to notice.           *)

AnyVersion(k) ==
  user.row = k.row /\ ~user.blocked /\ user.role = k.role

RotatesRevoked(s) == refresh[s].state # "deleted" /\ ~refresh[s].lapsed

StoresForAnyone(t) == TRUE

-------------------------------------------------------------------------------
(* Requests.                                                                *)

LoginAt(t, kinds, at) == login[t].kind \in kinds /\ login[t].at = at

Unlock(t) ==
  /\ rowLock' = IF rowLock = t THEN Nobody ELSE rowLock
  /\ sessionLock' = [s \in 1..MaxSessions |-> IF sessionLock[s] = t THEN Nobody ELSE sessionLock[s]]

LoginEnd(t) == login' = [login EXCEPT ![t] = NoLogin] /\ Unlock(t)

\* An error, a client that is gone, a deadlock: the transaction under way is undone.
LoginAbort(t) ==
  /\ login[t] # NoLogin
  /\ LoginEnd(t)
  /\ UNCHANGED <<accountRows, tokens>>

\* Bound: room for the session each request may insert.
SessionRoom ==
  Len(refresh) + Cardinality({t \in Logins : login[t].kind # "none"}) < MaxSessions

LoginBegin(t, request) ==
  /\ login[t] = NoLogin
  /\ SessionRoom
  /\ login' = [login EXCEPT ![t] = request]

\* A request that looks at the account as it is now.
Reads(kind, at) == [NoLogin EXCEPT !.kind = kind, !.at = at, !.row = user.row]

-------------------------------------------------------------------------------
(* Tokens.                                                                  *)

\* ParseAccessToken: the row of the account as it is now.
Accepted(k) ==
  user.row = k.row /\ ~user.blocked /\ user.role = k.role /\ user.version = k.version

\* NewAccessToken: capabilities and version are read together; what the request has
\* read of the account before may be stale, and then there is no token.
MayIssue(t) == user.row = login[t].row /\ ~user.blocked /\ user.role = login[t].role

CurrentToken == [row |-> user.row, role |-> user.role, editor |-> user.editor, version |-> user.version]

\* FindUserByID.  A sign-in with Google then asks whether the email is of a super admin.
ReadUser(t) ==
  /\ LoginAt(t, {"password", "google", "refresh"}, "reading") \/ LoginAt(t, {"google"}, "rereading")
  /\ IF user.row = login[t].row
     THEN /\ login' = [login EXCEPT ![t].role = user.role, ![t].at =
                IF login[t].kind = "google" /\ @ = "reading" /\ user.role # "ADMIN" THEN "elevating" ELSE "issuing"]
          /\ UNCHANGED accountLocks
     ELSE LoginEnd(t)
  /\ UNCHANGED <<accountRows, tokens>>

\* issueSession signs the token first; Refresh has rotated already.
IssueToken(t) ==
  /\ LoginAt(t, {"password", "google", "register", "complete", "refresh"}, "issuing")
  /\ IF ~MayIssue(t) THEN LoginEnd(t) /\ UNCHANGED tokens
     ELSE /\ \E followed \in SUBSET tokens :
               /\ Cardinality(followed) < MaxTokens
               /\ tokens' = followed \cup {CurrentToken}
          /\ IF login[t].kind = "refresh" THEN LoginEnd(t)
             ELSE login' = [login EXCEPT ![t].at = "storing"] /\ UNCHANGED accountLocks
  /\ UNCHANGED <<accountRows>>

\* CreateSession.  The foreign key wants the account to exist.
Stores(t) == user.row = login[t].row

CreateSession(t) ==
  /\ login[t].at = "storing"
  /\ KeyShared
  /\ refresh' = IF ~Stores(t) THEN refresh
                ELSE Append(refresh, [row |-> login[t].row, state |-> "active", lapsed |-> FALSE,
                                      family |-> Len(refresh) + 1])
  /\ LoginEnd(t)
  /\ UNCHANGED <<user, listed, tokens>>

-------------------------------------------------------------------------------
(* Signing in and up.                                                       *)

\* Service.Login: the row and its password are read first.
Login(t) ==
  /\ Registered
  /\ LoginBegin(t, Reads("password", "reading"))
  /\ UNCHANGED <<accountRows, tokens, accountLocks>>

\* Service.GoogleLogin for an account that is registered: FindUserByGoogleSub, or by
\* email and then LinkGoogleSub, which only stores what Google calls it.
GoogleLogin(t) ==
  /\ Registered
  /\ LoginBegin(t, Reads("google", "reading"))
  /\ UNCHANGED <<accountRows, tokens, accountLocks>>

\* Anyone else gets a token to finish registration with (nothing is stored), or, when
\* the email is of a super admin, an account.  A lead that joined with this Google account
\* is found by it before the email is looked at, and only ever gets the token: the leads
\* that are upgraded are those found by email.
GoogleUnknown(t) ==
  /\ ~Registered /\ listed
  /\ LoginBegin(t, Reads("google", "upgrading"))
  /\ UNCHANGED <<accountRows, tokens, accountLocks>>

\* googleSessionForUser: IsSuperAdmin, and SetRole by email in another statement.
IsSuperAdmin(t) ==
  /\ LoginAt(t, {"google"}, "elevating")
  /\ login' = [login EXCEPT ![t].at = IF listed THEN "setting" ELSE "issuing"]
  /\ UNCHANGED <<accountRows, tokens, accountLocks>>

SetRole(t) ==
  /\ LoginAt(t, {"google"}, "setting")
  /\ rowLock = Nobody /\ user.row # 0
  /\ user' = [user EXCEPT !.role = "ADMIN"]
  /\ login' = [login EXCEPT ![t].at = "rereading"]
  /\ UNCHANGED <<listed, refresh, tokens, accountLocks>>

LastRow ==
  LET rows == {user.row} \cup {refresh[s].row : s \in DOMAIN refresh} \cup {k.row : k \in tokens}
                \cup {login[t].row : t \in Logins}
  IN  CHOOSE r \in rows : \A q \in rows : q <= r

\* A new row, unless the email is taken.
NewUser(u, role) ==
  {n \in {[NoUser EXCEPT !.row = LastRow + 1, !.status = "registered", !.role = role]} :
     u = 0 /\ user.row = 0 /\ n.row <= MaxRow}

\* The row of a lead: WHERE status IN ('WAITING', 'INVITED').
Completed(u) == {n \in {[user EXCEPT !.status = "registered"]} : user.row = u /\ Lead}

Upgraded(u) == {[n EXCEPT !.role = "ADMIN"] : n \in Completed(u)}

\* UpgradeWaitlistToAdmin and CreateGoogleUser.  Whoever comes second signs in.
GoogleAdmin(t) ==
  /\ LoginAt(t, {"google"}, "upgrading")
  /\ rowLock = Nobody
  /\ \/ \E u \in NewUser(login[t].row, "ADMIN") \cup Upgraded(login[t].row) :
          /\ user' = u
          /\ login' = [login EXCEPT ![t].row = u.row, ![t].role = u.role, ![t].at = "issuing"]
     \/ /\ NewUser(login[t].row, "ADMIN") \cup Upgraded(login[t].row) = {} /\ user' = user
        /\ \/ login[t].row # 0 /\ login' = [login EXCEPT ![t].at = "reading"]
           \/ /\ login[t].row = 0 /\ user.row # 0
              /\ login' = [login EXCEPT ![t].row = user.row, ![t].at = IF Lead THEN "upgrading" ELSE "rereading"]
  /\ UNCHANGED <<listed, refresh, tokens, accountLocks>>

\* Both look for the email first, and take the row of a lead.
Register(t) ==
  /\ ~Registered
  /\ LoginBegin(t, Reads("register", "making"))
  /\ UNCHANGED <<accountRows, tokens, accountLocks>>

CompleteGoogleRegistration(t) ==
  /\ ~Registered
  /\ LoginBegin(t, Reads("complete", "making"))
  /\ UNCHANGED <<accountRows, tokens, accountLocks>>

\* CreateUser or CompleteWaitlistUser, for a phone module PhoneVerification has let
\* through.  An email that was taken meanwhile, or a lead somebody else completed, ends
\* the request.
CreateUser(t) ==
  /\ LoginAt(t, {"register"}, "making")
  /\ rowLock = Nobody
  /\ \E u \in NewUser(login[t].row, "STUDENT") \cup Completed(login[t].row) :
       /\ user' = u
       /\ login' = [login EXCEPT ![t].row = u.row, ![t].role = u.role, ![t].at = "issuing"]
  /\ UNCHANGED <<listed, refresh, tokens, accountLocks>>

\* CreateGoogleCompletedUser or CompleteWaitlistUser.
CreateGoogleUser(t) ==
  /\ LoginAt(t, {"complete"}, "making")
  /\ rowLock = Nobody
  /\ \E u \in NewUser(login[t].row, "STUDENT") \cup Completed(login[t].row) :
       /\ user' = u
       /\ login' = [login EXCEPT ![t].row = u.row, ![t].role = u.role, ![t].at = "issuing"]
  /\ UNCHANGED <<listed, refresh, tokens, accountLocks>>

\* waitlist: Join inserts a lead; an email that is taken is refused.
Join ==
  /\ user.row = 0 /\ LastRow < MaxRow
  /\ user' = [NoUser EXCEPT !.row = LastRow + 1, !.status = "lead"]
  /\ UNCHANGED <<listed, refresh, tokens, accountLocks, login>>

-------------------------------------------------------------------------------
(* Refresh sessions.                                                        *)

\* RotateSession, one statement: the row is locked, looked at, replaced and revoked.
\* What it inserts is not seen before it commits.
Rotatable(s) == Active(s) /\ ~refresh[s].lapsed

RotateSession(t, s) ==
  /\ refresh[s].state # "deleted"
  /\ sessionLock[s] = Nobody
  /\ LoginBegin(t, [NoLogin EXCEPT !.kind = "refresh", !.row = refresh[s].row, !.session = s,
       !.at = IF Rotatable(s) THEN "rotating" ELSE "inspecting", !.family = refresh[s].family])
  /\ sessionLock' = IF Rotatable(s) THEN [sessionLock EXCEPT ![s] = t] ELSE sessionLock
  /\ UNCHANGED <<accountRows, tokens, rowLock>>

CommitRotation(t) ==
  /\ LoginAt(t, {"refresh"}, "rotating")
  /\ KeyShared
  /\ refresh' = Append([refresh EXCEPT ![login[t].session].state = "revoked"],
       [row |-> login[t].row, state |-> "active", lapsed |-> FALSE, family |-> login[t].family])
  /\ login' = [login EXCEPT ![t].at = "reading"]
  /\ Unlock(t)
  /\ UNCHANGED <<user, listed, tokens>>

\* rotateSessionFailure: a token that was used before ends every session of its
\* owner, one that has expired only itself.
InspectReuse(t) ==
  /\ LoginAt(t, {"refresh"}, "inspecting")
  /\ LET s == login[t].session IN
       IF refresh[s].state = "revoked"
       THEN login' = [login EXCEPT ![t].at = "revoking",
              ![t].doomed = {q \in DOMAIN refresh : refresh[q].row = login[t].row /\ Active(q)}]
            /\ UNCHANGED accountLocks
       ELSE IF refresh[s].state = "active" /\ refresh[s].lapsed
       THEN login' = [login EXCEPT ![t].at = "revoking", ![t].doomed = {s}] /\ UNCHANGED accountLocks
       ELSE LoginEnd(t)
  /\ UNCHANGED <<accountRows, tokens>>

\* The UPDATE waits for rows that are locked, and looks at them again.
RowsFree(t) == \A s \in login[t].doomed : sessionLock[s] \in {Nobody, t}

Ended(t, how) ==
  [s \in DOMAIN refresh |->
     IF s \in login[t].doomed /\ refresh[s].state # "deleted" THEN [refresh[s] EXCEPT !.state = how] ELSE refresh[s]]

RevokeReused(t) ==
  /\ LoginAt(t, {"refresh"}, "revoking")
  /\ RowsFree(t)
  /\ refresh' = Ended(t, "revoked")
  /\ LoginEnd(t)
  /\ UNCHANGED <<user, listed, tokens>>

\* Logout
Logout(s) ==
  /\ Active(s) /\ sessionLock[s] = Nobody
  /\ refresh' = [refresh EXCEPT ![s].state = "revoked"]
  /\ UNCHANGED <<user, listed, tokens, accountLocks, login>>

Lapse(s) ==
  /\ Active(s) /\ ~refresh[s].lapsed
  /\ refresh' = [refresh EXCEPT ![s].lapsed = TRUE]
  /\ UNCHANGED <<user, listed, tokens, accountLocks, login>>

-------------------------------------------------------------------------------
(* Administrators.                                                          *)

\* UsersHandler.UpdateUser: a change of anything that is not the name or the phone.
Updated(r, e, b) == [user EXCEPT !.version = @ + 1, !.role = r, !.editor = e, !.blocked = b]

Updates ==
  {[kind |-> "update", row |-> Updated(r, e, b)] :
     r \in IF listed THEN {user.role} ELSE Roles, e \in BOOLEAN, b \in BOOLEAN}

\* ChangePassword, RevokeSessions
Invalidation == [kind |-> "invalidate", row |-> [user EXCEPT !.version = @ + 1]]

\* RoleService.SetRole
RoleChanges == {[kind |-> "role", row |-> [user EXCEPT !.role = r]] : r \in Roles}

Deletion == [kind |-> "delete", row |-> NoUser]

Changes ==
  (IF user.version < MaxChanges THEN Updates \cup {Invalidation} ELSE {}) \cup RoleChanges \cup {Deletion}

\* The row is locked and changed; nobody sees it yet.
ChangeUser(t, c) ==
  /\ login[t] = NoLogin
  /\ user.row # 0 /\ rowLock = Nobody
  /\ c.kind = "update" => [c.row EXCEPT !.version = user.version] # user
  /\ login' = [login EXCEPT ![t] =
       [NoLogin EXCEPT !.kind = c.kind, !.at = "locked", !.row = user.row, !.change = c.row]]
  /\ rowLock' = t
  /\ UNCHANGED <<accountRows, tokens, sessionLock>>

\* DELETE FROM refresh_sessions, or the UPDATE of SetRole: the sessions that are there
\* when the statement begins.
FindSessions(t) ==
  /\ LoginAt(t, AdminKinds, "locked")
  /\ login' = [login EXCEPT ![t].at = "found",
       ![t].doomed = {s \in DOMAIN refresh : refresh[s].row = login[t].row /\
                        (login[t].kind = "role" => Active(s))}]
  /\ UNCHANGED <<accountRows, tokens, accountLocks>>

\* DeleteUser also takes the email off the list of super admins.
CommitChange(t) ==
  /\ LoginAt(t, AdminKinds, "found")
  /\ RowsFree(t)
  /\ user' = login[t].change
  /\ IF login[t].kind = "delete"
     THEN /\ refresh' = [s \in DOMAIN refresh |->
               IF refresh[s].row = login[t].row THEN [refresh[s] EXCEPT !.state = "deleted"] ELSE refresh[s]]
          /\ listed' = FALSE
     ELSE /\ refresh' = Ended(t, IF login[t].kind = "role" THEN "revoked" ELSE "deleted")
          /\ UNCHANGED <<listed>>
  /\ LoginEnd(t)
  /\ UNCHANGED tokens

\* AddAdmin, RemoveAdmin
ListAdmin ==
  /\ listed' = ~listed
  /\ UNCHANGED <<user, refresh, tokens, accountLocks, login>>

-------------------------------------------------------------------------------
AccountStep(t) ==
  \/ ReadUser(t) \/ IssueToken(t) \/ CreateSession(t) \/ IsSuperAdmin(t)
  \/ SetRole(t) \/ GoogleAdmin(t) \/ CreateUser(t) \/ CreateGoogleUser(t)
  \/ CommitRotation(t) \/ InspectReuse(t) \/ RevokeReused(t) \/ FindSessions(t) \/ CommitChange(t)

AccountNext ==
  \/ \E t \in Logins :
       \/ AccountStep(t) \/ LoginAbort(t)
       \/ Login(t) \/ GoogleLogin(t) \/ GoogleUnknown(t) \/ Register(t)
       \/ CompleteGoogleRegistration(t)
       \/ \E s \in DOMAIN refresh : RotateSession(t, s)
       \/ \E c \in Changes : ChangeUser(t, c)
  \/ \E s \in DOMAIN refresh : Logout(s) \/ Lapse(s)
  \/ Join \/ ListAdmin

AccountSpec == AccountInit /\ [][AccountNext]_accountVars

-------------------------------------------------------------------------------
(* Properties.                                                              *)

\* A token that is accepted says what the account may do now: an administrator's
\* change, a block or a deletion ends every token issued before, also one that a
\* request under way signs from what it read earlier.
TokenIsCurrent ==
  \A k \in tokens : Accepted(k) => k.editor = user.editor /\ Registered

\* One login has one refresh session at a time, whichever tabs rotate it together.
OneTabAtATime ==
  \A s, q \in DOMAIN refresh :
    Active(s) /\ Active(q) /\ refresh[s].family = refresh[q].family => s = q

\* Nobody has a session before registration is complete, and a deleted account leaves
\* none to its successor of the same email.
SessionsOfMembers ==
  \A s \in DOMAIN refresh : Active(s) => Registered /\ refresh[s].row = user.row

\* Sessions of members only, one at a time, and tokens that say what the account may do.
SessionsHold == AccountTypeOK /\ TokenIsCurrent /\ OneTabAtATime /\ SessionsOfMembers
===============================================================================
