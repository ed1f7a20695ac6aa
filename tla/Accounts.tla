------------------------------ MODULE Accounts ------------------------------
(***************************************************************************)
(* Users, sessions and access tokens: the login pages, the handlers under  *)
(* /users and the command pmctl user.  A handler loads the session, does   *)
(* its work and saves the whole session; the database is updated by single *)
(* statements.                                                             *)
(*                                                                         *)
(* A password is known by who set it: "given" by someone else, "own", or   *)
(* "trusted" (pmctl user add --initialized).                               *)
(***************************************************************************)
EXTENDS Naturals

CONSTANTS
    Names,            \* names of users
    MaxUsers,         \* bound on users ever added
    Sessions,         \* browsers
    AccountReqs,      \* requests that can be under way at a time
    MaxTokens,        \* bound on tokens ever created
    MaxAccountFaults  \* bound on calls that fail

ASSUME AccountAssumption == {MaxUsers, MaxTokens, MaxAccountFaults} \subseteq Nat

VARIABLES
    users,        \* the rows of the table users: id to row, or NoUser
    session,      \* access_token and change_password_user_id of each session, 0 if unset
    tokens,       \* the owner of each token, 0 if it does not exist or was revoked
    lastToken,    \* tokens created
    accountReq,   \* the requests
    settled,      \* users who were initialized at some time
    accountFaults

accountVars == <<users, session, tokens, lastToken, accountReq, settled, accountFaults>>

Ids == 1..MaxUsers
Row == [name : Names, password : {"given", "own", "trusted"}, initialized : BOOLEAN]
NoUser == [name |-> "none"]
SessionValues == [token : 0..MaxTokens, change : 0..MaxUsers]
NoRequest == [at |-> "none"]

AccountsTypeOK ==
    /\ users \in [Ids -> Row \cup {NoUser}]
    /\ session \in [Sessions -> SessionValues]
    /\ tokens \in [1..MaxTokens -> 0..MaxUsers]
    /\ lastToken \in 0..MaxTokens
    /\ accountReq \in [AccountReqs ->
          {NoRequest} \cup [at : {"login", "change"}, session : Sessions, user : Ids]
          \cup [at : {"token"}, session : Sessions, user : Ids, values : SessionValues]
          \cup [at : {"save"}, session : Sessions, values : SessionValues]
          \cup [at : {"update"}, user : Ids]]
    /\ settled \subseteq Ids
    /\ accountFaults \in 0..MaxAccountFaults

AccountsInit ==
    /\ users = [i \in Ids |-> NoUser]
    /\ session = [s \in Sessions |-> [token |-> 0, change |-> 0]]
    /\ tokens = [t \in 1..MaxTokens |-> 0] /\ lastToken = 0
    /\ accountReq = [r \in AccountReqs |-> NoRequest]
    /\ settled = {}
    /\ accountFaults = 0

AccountFault == accountFaults < MaxAccountFaults /\ accountFaults' = accountFaults + 1
Goes(r, to) == accountReq' = [accountReq EXCEPT ![r] = to]
Free(r) == accountReq[r] = NoRequest
Saves(r, s, values) == Goes(r, [at |-> "save", session |-> s, values |-> values])

\* The update of password and initialized: one statement, WHERE id = ...
SetPassword(i, password, initialized) ==
    /\ users' = [users EXCEPT ![i].password = password, ![i].initialized = initialized]
    /\ settled' = IF initialized THEN settled \cup {i} ELSE settled

\* The insert, which fails on a name that exists.
Insert(name, password, initialized) ==
    /\ \A i \in Ids : users[i].name # name
    /\ \E i \in Ids :
          /\ users[i] = NoUser /\ \A j \in 1..(i - 1) : users[j] # NoUser
          /\ users' = [users EXCEPT ![i] =
                [name |-> name, password |-> password, initialized |-> initialized]]
          /\ settled' = IF initialized THEN settled \cup {i} ELSE settled

-----------------------------------------------------------------------------
(***************************************************************************)
(* handleLogin, handleLogout, handleLoginResetPassword                     *)
(***************************************************************************)

\* Mutation of CheckLogin: every user who knows the password gets a token.
CheckLoginAny(r, s, i) ==
    /\ Free(r) /\ users[i] # NoUser
    /\ Goes(r, [at |-> "login", session |-> s, user |-> i])
    /\ UNCHANGED <<users, session, tokens, lastToken, settled, accountFaults>>

\* The row is read and the password is the right one.
CheckLogin(r, s, i) ==
    /\ Free(r) /\ users[i] # NoUser
    /\ Goes(r, [at |-> IF users[i].initialized THEN "login" ELSE "change",
                session |-> s, user |-> i])
    /\ UNCHANGED <<users, session, tokens, lastToken, settled, accountFaults>>

\* A user who is not initialized must change the password first.
AskChange(r) ==
    /\ accountReq[r].at = "change"
    /\ LET s == accountReq[r].session IN
       Saves(r, s, [session[s] EXCEPT !.change = accountReq[r].user])
    /\ UNCHANGED <<users, session, tokens, lastToken, settled, accountFaults>>

\* session.Get of one who is.
LoadSession(r) ==
    /\ accountReq[r].at = "login"
    /\ LET s == accountReq[r].session IN
       Goes(r, [at |-> "token", session |-> s, user |-> accountReq[r].user,
                values |-> session[s]])
    /\ UNCHANGED <<users, session, tokens, lastToken, settled, accountFaults>>

CreateToken(r) ==
    /\ accountReq[r].at = "token" /\ lastToken < MaxTokens
    /\ \/ /\ lastToken' = lastToken + 1
          /\ tokens' = [tokens EXCEPT ![lastToken'] = accountReq[r].user]
          /\ Saves(r, accountReq[r].session, [accountReq[r].values EXCEPT !.token = lastToken'])
          /\ UNCHANGED accountFaults
       \/ AccountFault /\ Goes(r, NoRequest) /\ UNCHANGED <<tokens, lastToken>>
    /\ UNCHANGED <<users, session, settled>>

\* session.Save, whose error is ignored.
SaveSession(r) ==
    /\ accountReq[r].at = "save"
    /\ \/ /\ session' = [session EXCEPT ![accountReq[r].session] = accountReq[r].values]
          /\ UNCHANGED accountFaults
       \/ AccountFault /\ UNCHANGED session
    /\ Goes(r, NoRequest)
    /\ UNCHANGED <<users, tokens, lastToken, settled>>

Logout(r, s) ==
    /\ Free(r) /\ session[s].token # 0
    /\ \/ /\ tokens' = [tokens EXCEPT ![session[s].token] = 0]
          /\ Saves(r, s, [session[s] EXCEPT !.token = 0])
          /\ UNCHANGED accountFaults
       \/ AccountFault /\ UNCHANGED <<tokens, accountReq>>
    /\ UNCHANGED <<users, session, lastToken, settled>>

ResetPassword(r, s) ==
    /\ Free(r) /\ session[s].change # 0
    /\ \/ /\ SetPassword(session[s].change, "own", TRUE)
          /\ Saves(r, s, [session[s] EXCEPT !.change = 0])
          /\ UNCHANGED accountFaults
       \/ AccountFault /\ UNCHANGED <<users, settled, accountReq>>
    /\ UNCHANGED <<session, tokens, lastToken>>

\* A token lives for 30 days.
ExpireToken(t) ==
    /\ tokens[t] # 0 /\ tokens' = [tokens EXCEPT ![t] = 0]
    /\ UNCHANGED <<users, session, lastToken, accountReq, settled, accountFaults>>

-----------------------------------------------------------------------------
(***************************************************************************)
(* Handlers behind accessTokenMiddleware, and pmctl user                   *)
(***************************************************************************)

\* accessTokenMiddleware: a page sends the token that handleSessionData gave it at
\* some time.
Authorized(t) == tokens[t] # 0

\* handleApiUsersChangePassword: the row is read and compared, then updated.
CheckPassword(r, t) ==
    /\ Free(r) /\ Authorized(t)
    /\ Goes(r, [at |-> "update", user |-> tokens[t]])
    /\ UNCHANGED <<users, session, tokens, lastToken, settled, accountFaults>>

ChangePassword(r) ==
    /\ accountReq[r].at = "update"
    /\ \/ SetPassword(accountReq[r].user, "own", TRUE) /\ UNCHANGED accountFaults
       \/ AccountFault /\ UNCHANGED <<users, settled>>
    /\ Goes(r, NoRequest)
    /\ UNCHANGED <<session, tokens, lastToken>>

\* handleApiUsersAdd.
AddUser(t, name) ==
    /\ Authorized(t)
    /\ Insert(name, "given", FALSE)
    /\ UNCHANGED <<session, tokens, lastToken, accountReq, accountFaults>>

RunAddUser(name) ==
    /\ Insert(name, "given", FALSE) \/ Insert(name, "trusted", TRUE)
    /\ UNCHANGED <<session, tokens, lastToken, accountReq, accountFaults>>

RunResetPassword(i) ==
    /\ users[i] # NoUser
    /\ SetPassword(i, "given", FALSE)
    /\ UNCHANGED <<session, tokens, lastToken, accountReq, accountFaults>>

RunRename(i, name) ==
    /\ users[i] # NoUser /\ \A j \in Ids : users[j].name # name
    /\ users' = [users EXCEPT ![i].name = name]
    /\ UNCHANGED <<session, tokens, lastToken, accountReq, settled, accountFaults>>

AccountsNext ==
    \/ \E r \in AccountReqs :
          \/ AskChange(r) \/ LoadSession(r) \/ CreateToken(r) \/ SaveSession(r) \/ ChangePassword(r)
          \/ \E s \in Sessions :
                \/ Logout(r, s) \/ ResetPassword(r, s)
                \/ \E i \in Ids : CheckLogin(r, s, i)
          \/ \E t \in 1..MaxTokens : CheckPassword(r, t)
    \/ \E t \in 1..MaxTokens : ExpireToken(t)
    \/ \E name \in Names :
          \/ RunAddUser(name)
          \/ \E t \in 1..MaxTokens : AddUser(t, name)
          \/ \E i \in Ids : RunRename(i, name)
    \/ \E i \in Ids : RunResetPassword(i)

-----------------------------------------------------------------------------

\* A user counts as initialized only with a password that nobody else gave them, and
\* no session gets a token before its user was initialized: whatever a login, a reset
\* from the page and pmctl do to the same row between each other's steps.
OwnPasswordFirst ==
    /\ \A i \in Ids :
          users[i] # NoUser /\ users[i].initialized => users[i].password # "given"
    /\ \A t \in 1..MaxTokens : tokens[t] # 0 => tokens[t] \in settled
=============================================================================
