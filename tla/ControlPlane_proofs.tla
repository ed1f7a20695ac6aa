------------------------- MODULE ControlPlane_proofs -------------------------
(***************************************************************************)
(* Theorems about the parts of the control plane beside a launch: the      *)
(* pending configuration, the accounts, the bucket of worlds and the boot  *)
(* storage.  Each part has its inductive invariant; a step of one leaves   *)
(* the variables of the others alone.                                      *)
(***************************************************************************)
EXTENDS MCControlPlane, FiniteSetTheorems, TLAPS

-----------------------------------------------------------------------------
(***************************************************************************)
(* The pending configuration                                               *)
(***************************************************************************)

ConfigInv == ConfigTypeOK /\ ValidConfigLaunches

\* The field that stops the validation is a field, if there is one.
LEMMA FailsAtField ==
    ASSUME NEW c \in Config
    PROVE  FailsAt(c) \in Fields \cup {"none"}
BY DEF Config, FailsAt, Fields

\* A configuration that is normalized is a configuration.
LEMMA NormalizeType ==
    ASSUME NEW c \in Config
    PROVE  Normalize(c) \in Config
BY FailsAtField DEF Config, Normalize, Fields, Values

\* The empty and the default configuration are configurations.
LEMMA NilConfig == Nil \in Config /\ DefaultConfig \in Config
BY DEF Config, DefaultConfig, Nil, Fields, Values

\* An update merged into a configuration gives a configuration.
LEMMA MergeType ==
    ASSUME NEW c \in Config, NEW new \in Updates
    PROVE  Merge(c, new) \in Config
BY ConfigAssumption DEF Config, Merge

\* A configuration that fails the first two checks lacks what a launch looks at first;
\* one that passes them has guessVersion.
LEMMA NormalizedNeverPanics ==
    ASSUME NEW c \in Config
    PROVE  ConvertToLaunchConfig(Normalize(c), "new") # "panic"
<1> DEFINE n == Normalize(c)
<1>1. CASE FailsAt(c) \in {"machineType", "serverVersion"}
  <2>1. n[FailsAt(c)] = "nil"
    BY <1>1 DEF Normalize, Config, Fields
  <2> QED BY <1>1, <2>1 DEF ConvertToLaunchConfig, Unset
<1>2. CASE FailsAt(c) \notin {"machineType", "serverVersion"}
  <2>1. n.guessVersion # "nil"
    BY <1>2, FailsAtField DEF Normalize, Config, Fields, FailsAt
  <2> QED BY <2>1 DEF ConvertToLaunchConfig, SetWorld, GenerateWorld
<1> QED BY <1>1, <1>2

\* What passes all checks passes those of the conversion.
LEMMA ValidLaunches ==
    ASSUME NEW c \in Config, IsValid(c)
    PROVE  ConvertToLaunchConfig(Normalize(c), "new") = Normalize(c).worldSource
<1> DEFINE n == Normalize(c)
<1>1. /\ c.machineType = "ok" /\ c.serverVersion \notin Unset /\ c.worldName \notin Unset
      /\ c.worldSource \in {"backups", "new-world"}
      /\ c.worldSource = "backups" => c.backupGen \notin Unset
      /\ c.worldSource = "new-world" => c.levelType \in {"nil", "ok"}
  BY DEF IsValid, FailsAt
<1>2. FailsAt(c) = "none"
  BY DEF IsValid
<1>3. /\ n.machineType = "ok" /\ n.serverVersion = c.serverVersion /\ n.worldName = c.worldName
      /\ n.worldSource = c.worldSource /\ n.guessVersion # "nil"
      /\ c.worldSource = "backups" => n.backupGen = c.backupGen
      /\ c.worldSource = "new-world" => n.levelType = c.levelType
  BY <1>1, <1>2 DEF Normalize, Config, Fields
<1> QED BY <1>1, <1>3 DEF ConvertToLaunchConfig, SetWorld, GenerateWorld, HasVersion, Unset

\* Every request for the pending configuration preserves its invariant.
LEMMA ConfigStep == ConfigInv /\ [ConfigNext]_configVars => ConfigInv'
<1> SUFFICES ASSUME ConfigInv, [ConfigNext]_configVars PROVE ConfigInv'
  OBVIOUS
<1> USE ConfigAssumption
<1>0. ConfigTypeOK /\ ValidConfigLaunches
  BY DEF ConfigInv
<1>kept. ASSUME UNCHANGED <<pending, told>>, ConfigTypeOK' PROVE ConfigInv'
  BY <1>0, <1>kept DEF ConfigInv, ValidConfigLaunches
<1>1. CASE UNCHANGED configVars
  BY <1>0, <1>1, <1>kept DEF configVars, ConfigTypeOK
<1>2. CASE ExpireConfig
  BY <1>0, <1>2 DEF ExpireConfig, ConfigInv, ConfigTypeOK, ValidConfigLaunches
<1>3. CASE ExpireVersions \/ PublishVersion
  BY <1>0, <1>3, <1>kept DEF ExpireVersions, PublishVersion, ConfigTypeOK
<1>new. ASSUME NEW e \in Editors, NewRequest(e) PROVE requests' \in 0..MaxRequests
  BY <1>0, <1>new DEF NewRequest, ConfigTypeOK
<1>fault. ASSUME UNCHANGED configFaults \/ ConfigFault PROVE configFaults' \in 0..MaxConfigFaults
  BY <1>0, <1>fault DEF ConfigFault, ConfigTypeOK
<1>write. ASSUME NEW e \in Editors, NEW c \in Config, GoWrite(e, c)
          PROVE request' \in [Editors -> {Idle} \cup [at : {"write"}, config : Config]]
  BY <1>0, <1>write DEF GoWrite, ConfigTypeOK
<1>4. ASSUME NEW e \in Editors, GetConfig(e) PROVE ConfigInv'
  <2>1. pending # NoConfig => pending \in Config
    BY <1>0 DEF ConfigTypeOK
  <2>2. request' \in [Editors -> {Idle} \cup [at : {"write"}, config : Config]]
    BY <1>4, <1>write, <2>1, NilConfig DEF GetConfig
  <2>3. requests' \in 0..MaxRequests /\ configFaults' \in 0..MaxConfigFaults
    BY <1>4, <1>new, <1>fault DEF GetConfig
  <2> QED BY <1>0, <1>4, <1>kept, <2>2, <2>3 DEF GetConfig, ConfigTypeOK
<1>5. ASSUME NEW e \in Editors, UpdateConfig(e) PROVE ConfigInv'
  <2>1. pending # NoConfig => pending \in Config
    BY <1>0 DEF ConfigTypeOK
  <2>2. request' \in [Editors -> {Idle} \cup [at : {"write"}, config : Config]]
    <3>1. CASE UNCHANGED request
      BY <1>0, <3>1 DEF ConfigTypeOK
    <3>2. CASE pending # NoConfig /\ \E new \in Updates : GoWrite(e, Merge(pending, new))
      BY <1>write, <2>1, <3>2, MergeType
    <3> QED BY <1>5, <3>1, <3>2 DEF UpdateConfig
  <2>3. requests' \in 0..MaxRequests /\ configFaults' \in 0..MaxConfigFaults
    BY <1>5, <1>new, <1>fault DEF UpdateConfig
  <2> QED BY <1>0, <1>5, <1>kept, <2>2, <2>3 DEF UpdateConfig, ConfigTypeOK
<1>6. ASSUME NEW e \in Editors, WriteConfig(e) PROVE ConfigInv'
  <2>1. request[e].config \in Config
    BY <1>0, <1>6 DEF WriteConfig, ConfigTypeOK, Idle
  <2>2. /\ request' \in [Editors -> {Idle} \cup [at : {"write"}, config : Config]]
        /\ configFaults' \in 0..MaxConfigFaults
        /\ UNCHANGED <<launchResult, manifest, cached, requests>>
    BY <1>0, <1>6, <1>fault DEF WriteConfig, ConfigTypeOK
  <2>3. CASE UNCHANGED <<pending, told>>
    BY <1>0, <1>kept, <2>2, <2>3 DEF ConfigTypeOK
  <2>4. CASE pending' = Normalize(request[e].config) /\ told' = IsValid(request[e].config)
    <3>1. pending' \in Config /\ told' \in BOOLEAN
      BY <2>1, <2>4, NormalizeType DEF IsValid
    <3>2. /\ ConvertToLaunchConfig(pending', "new") # "panic"
          /\ told' => ConvertToLaunchConfig(pending', "new") = pending'.worldSource
      BY <2>1, <2>4, NormalizedNeverPanics, ValidLaunches
    <3>3. ValidConfigLaunches'
      BY <3>2 DEF ValidConfigLaunches
    <3> QED BY <1>0, <2>2, <3>1, <3>3 DEF ConfigInv, ConfigTypeOK
  <2> QED BY <1>6, <2>3, <2>4 DEF WriteConfig
<1>versions. ASSUME NEW answer \in {"none", "old", "new"}, GetVersions(answer)
             PROVE /\ cached' \in {"none", "old", "new"}
                   /\ configFaults' \in 0..MaxConfigFaults
  BY <1>0, <1>versions, <1>fault DEF GetVersions, ConfigTypeOK
<1>7. ASSUME NEW e \in Editors, ListVersions(e) PROVE ConfigInv'
  <2>1. /\ requests' \in 0..MaxRequests
        /\ cached' \in {"none", "old", "new"} /\ configFaults' \in 0..MaxConfigFaults
    BY <1>7, <1>new, <1>versions DEF ListVersions
  <2> QED BY <1>0, <1>7, <1>kept, <2>1 DEF ListVersions, ConfigTypeOK
<1>8. ASSUME NEW e \in Editors, LaunchPending(e) PROVE ConfigInv'
  <2>1. requests' \in 0..MaxRequests /\ UNCHANGED <<pending, told, request, manifest>>
    BY <1>8, <1>new DEF LaunchPending
  <2>2. \A c, m : ConvertToLaunchConfig(c, m) \in {"refused", "panic", "backups", "new-world"}
    BY DEF ConvertToLaunchConfig, SetWorld, GenerateWorld
  <2>3. launchResult' \in {"none", "refused", "panic", "backups", "new-world"}
    BY <1>8, <2>2 DEF LaunchPending
  <2>4. cached' \in {"none", "old", "new"} /\ configFaults' \in 0..MaxConfigFaults
    <3>1. \/ \E answer \in {"none", "old", "new"} : GetVersions(answer)
          \/ UNCHANGED cached /\ (UNCHANGED configFaults \/ ConfigFault)
      BY <1>8 DEF LaunchPending
    <3> QED BY <1>0, <1>fault, <1>versions, <3>1 DEF ConfigTypeOK
  <2> QED BY <1>0, <1>kept, <2>1, <2>3, <2>4 DEF ConfigTypeOK
<1> QED
  BY <1>1, <1>2, <1>3, <1>4, <1>5, <1>6, <1>7, <1>8 DEF ConfigNext

\* Without a pending configuration the invariant holds.
LEMMA ConfigStart == ConfigInit => ConfigInv
<1> SUFFICES ASSUME ConfigInit PROVE ConfigInv
  OBVIOUS
<1>1. /\ pending = NoConfig /\ told = FALSE /\ request = [e \in Editors |-> Idle]
      /\ launchResult = "none" /\ manifest = "old" /\ cached = "none"
      /\ requests \in 0..MaxRequests /\ configFaults \in 0..MaxConfigFaults
  BY ConfigAssumption DEF ConfigInit
<1>2. request \in [Editors -> {Idle} \cup [at : {"write"}, config : Config]]
  BY <1>1
<1>3. ConfigTypeOK
  BY <1>1, <1>2 DEF ConfigTypeOK
<1> QED BY <1>1, <1>3 DEF ConfigInv, ValidConfigLaunches

-----------------------------------------------------------------------------
(***************************************************************************)
(* The accounts                                                            *)
(***************************************************************************)

Exists(i) == users[i] \in Row

\* The user of a request, and the one its session values name, exist; one that leads
\* to a token or to a new password has been initialized.
Fits(q) ==
    /\ q.at = "change" => Exists(q.user)
    /\ q.at \in {"login", "token", "update"} => q.user \in settled
    /\ q.at \in {"token", "save"} /\ q.values.change # 0 => Exists(q.values.change)
RequestsHaveUsers == \A r \in AccountReqs : Fits(accountReq[r])

SessionsHaveUsers ==
    \A s \in Sessions : session[s].change # 0 => Exists(session[s].change)

\* Who is initialized, or was, exists.
SettledInv ==
    /\ \A i \in settled : Exists(i)
    /\ \A i \in Ids : users[i] # NoUser /\ users[i].initialized => i \in settled

AccountsInv ==
    AccountsTypeOK /\ OwnPasswordFirst /\ SettledInv /\ SessionsHaveUsers /\ RequestsHaveUsers

ReqType == {NoRequest} \cup [at : {"login", "change"}, session : Sessions, user : Ids]
          \cup [at : {"token"}, session : Sessions, user : Ids, values : SessionValues]
          \cup [at : {"save"}, session : Sessions, values : SessionValues]
          \cup [at : {"update"}, user : Ids]

\* What a request about accounts holds at the step it is at.
LEMMA RequestFields ==
    ASSUME AccountsTypeOK, NEW r \in AccountReqs
    PROVE  /\ accountReq[r].at \in {"login", "change"} =>
                  accountReq[r].session \in Sessions /\ accountReq[r].user \in Ids
           /\ accountReq[r].at = "token" =>
                  /\ accountReq[r].session \in Sessions /\ accountReq[r].user \in Ids
                  /\ accountReq[r].values \in SessionValues
           /\ accountReq[r].at = "save" =>
                  accountReq[r].session \in Sessions /\ accountReq[r].values \in SessionValues
           /\ accountReq[r].at = "update" => accountReq[r].user \in Ids
BY DEF AccountsTypeOK, NoRequest

\* A step fails at most once.
LEMMA FaultBound ==
    ASSUME AccountsTypeOK, AccountFault \/ UNCHANGED accountFaults
    PROVE  accountFaults' \in 0..MaxAccountFaults
BY AccountAssumption DEF AccountsTypeOK, AccountFault

\* A password that is changed keeps the rows, and only an own password initializes.
LEMMA SetPasswordStep ==
    ASSUME AccountsTypeOK, NEW i \in Ids, Exists(i), SettledInv, OwnPasswordFirst,
           NEW password \in {"given", "own"}, NEW init \in BOOLEAN,
           password = "given" <=> ~init,
           SetPassword(i, password, init), UNCHANGED tokens
    PROVE  /\ users' \in [Ids -> Row \cup {NoUser}] /\ settled' \subseteq Ids
           /\ settled \subseteq settled'
           /\ \A j \in Ids : Exists(j) => Exists(j)'
           /\ SettledInv' /\ OwnPasswordFirst'
<1>1. users'[i] = [users[i] EXCEPT !.password = password, !.initialized = init]
  BY DEF SetPassword, AccountsTypeOK
<1>2. users'[i] \in Row /\ users'[i].password = password /\ users'[i].initialized = init
  BY <1>1 DEF Exists, Row
<1>3. \A j \in Ids : j # i => users'[j] = users[j]
  BY DEF SetPassword, AccountsTypeOK
<1>4. users' \in [Ids -> Row \cup {NoUser}] /\ settled' \subseteq Ids /\ settled \subseteq settled'
  BY <1>2 DEF SetPassword, AccountsTypeOK
<1>5. \A j \in Ids : Exists(j) => Exists(j)'
  BY <1>2, <1>3 DEF Exists
<1>6. init => i \in settled'
  BY DEF SetPassword
<1>7. \A j \in settled' : j \in settled \/ j = i
  BY DEF SetPassword
<1>8. SettledInv'
  BY <1>2, <1>3, <1>4, <1>5, <1>6, <1>7 DEF SettledInv, Exists, AccountsTypeOK
<1>9. OwnPasswordFirst'
  BY <1>2, <1>3, <1>4 DEF OwnPasswordFirst
<1> QED BY <1>4, <1>5, <1>8, <1>9

\* What a step must leave in place for the others' requests and sessions: users stay,
\* and so does who has been initialized.
Kept == settled \subseteq settled' /\ \A i \in Ids : Exists(i) => Exists(i)'

\* A user that is added takes a new row.
LEMMA InsertStep ==
    ASSUME AccountsTypeOK, SettledInv, OwnPasswordFirst, NEW name \in Names,
           NEW password \in {"given", "trusted"}, NEW init \in BOOLEAN,
           password = "given" <=> ~init,
           Insert(name, password, init), UNCHANGED tokens
    PROVE  /\ users' \in [Ids -> Row \cup {NoUser}] /\ settled' \subseteq Ids
           /\ Kept /\ SettledInv' /\ OwnPasswordFirst'
<1> PICK i \in Ids :
          /\ users[i] = NoUser
          /\ users' = [users EXCEPT ![i] =
                [name |-> name, password |-> password, initialized |-> init]]
          /\ settled' = IF init THEN settled \cup {i} ELSE settled
  BY DEF Insert
<1>2. users'[i] \in Row /\ users'[i].password = password /\ users'[i].initialized = init
  BY DEF Row, AccountsTypeOK
<1>3. \A j \in Ids : j # i => users'[j] = users[j]
  BY DEF AccountsTypeOK
<1>4. users' \in [Ids -> Row \cup {NoUser}] /\ settled' \subseteq Ids
  BY <1>2 DEF AccountsTypeOK
<1>5. Kept
  BY <1>2, <1>3 DEF Exists, Kept
<1>8. SettledInv'
  BY <1>2, <1>3, <1>4, <1>5 DEF SettledInv, Exists, AccountsTypeOK, Kept
<1>9. OwnPasswordFirst'
  BY <1>2, <1>3, <1>4 DEF OwnPasswordFirst
<1> QED BY <1>4, <1>5, <1>8, <1>9

\* A request that goes on to what fits leaves the others as they are.
LEMMA GoesStep ==
    ASSUME AccountsInv, Kept, NEW r \in AccountReqs, NEW to \in ReqType, Goes(r, to), Fits(to)'
    PROVE  accountReq' \in [AccountReqs -> ReqType] /\ RequestsHaveUsers'
<1>1. accountReq' \in [AccountReqs -> ReqType]
  BY DEF AccountsInv, AccountsTypeOK, Goes, ReqType
<1>2. accountReq'[r] = to /\ \A q \in AccountReqs : q # r => accountReq'[q] = accountReq[q]
  BY DEF AccountsInv, AccountsTypeOK, Goes
<1>3. ASSUME NEW q \in AccountReqs PROVE Fits(accountReq[q])'
  <2>1. CASE q = r
    BY <1>2, <2>1 DEF Fits, Exists
  <2>2. CASE q # r
    <3>1. accountReq'[q] = accountReq[q]
       BY <1>2, <2>2
    <3>2. accountReq[q].at = "change" => accountReq[q].user \in Ids
      BY RequestFields DEF AccountsInv
    <3>3. accountReq[q].at \in {"token", "save"} /\ accountReq[q].values.change # 0 => accountReq[q].values.change \in Ids
      BY RequestFields, AccountAssumption DEF AccountsInv, SessionValues, Ids
    <3> QED BY <3>1, <3>2, <3>3 DEF AccountsInv, RequestsHaveUsers, Kept, Fits, Exists
  <2> QED BY <2>1, <2>2
<1> QED BY <1>1, <1>3 DEF RequestsHaveUsers

\* Every request about users, sessions and tokens preserves the invariant.
LEMMA AccountsStep == AccountsInv /\ [AccountsNext]_accountVars => AccountsInv'
<1> SUFFICES ASSUME AccountsInv, [AccountsNext]_accountVars PROVE AccountsInv'
  OBVIOUS
<1> USE AccountAssumption
<1>0. /\ AccountsTypeOK /\ OwnPasswordFirst /\ SettledInv /\ SessionsHaveUsers
      /\ RequestsHaveUsers
  BY DEF AccountsInv
<1> DEFINE Same == UNCHANGED <<users, settled>>
           Rest == /\ session' \in [Sessions -> SessionValues]
                   /\ tokens' \in [1..MaxTokens -> 0..MaxUsers]
                   /\ lastToken' \in 0..MaxTokens
                   /\ accountFaults' \in 0..MaxAccountFaults
<1>same. ASSUME Same, Rest, SessionsHaveUsers',
              \A t \in 1..MaxTokens : tokens'[t] # 0 => tokens'[t] = tokens[t] \/ tokens'[t] \in settled,
              \/ UNCHANGED accountReq
              \/ \E r \in AccountReqs : \E to \in ReqType : Goes(r, to) /\ Fits(to)
         PROVE AccountsInv'
  <2>1. Kept /\ SettledInv' /\ OwnPasswordFirst' /\ users' \in [Ids -> Row \cup {NoUser}] /\ settled' \subseteq Ids
    BY <1>0, <1>same DEF Kept, Exists, SettledInv, OwnPasswordFirst, AccountsTypeOK
  <2>2. accountReq' \in [AccountReqs -> ReqType] /\ RequestsHaveUsers'
    <3>1. CASE UNCHANGED accountReq
      BY <1>0, <1>same, <3>1 DEF RequestsHaveUsers, Fits, Exists, AccountsTypeOK, ReqType
    <3>2. ASSUME NEW r \in AccountReqs, NEW to \in ReqType, Goes(r, to), Fits(to)
          PROVE accountReq' \in [AccountReqs -> ReqType] /\ RequestsHaveUsers'
      <4>1. Fits(to)'
        BY <1>same, <3>2 DEF Fits, Exists
      <4> QED BY <2>1, <3>2, <4>1, GoesStep
    <3> QED BY <1>same, <3>1, <3>2
  <2> QED BY <1>same, <2>1, <2>2 DEF AccountsInv, AccountsTypeOK, ReqType
<1>1. CASE UNCHANGED accountVars
  <2>1. Same /\ Rest /\ UNCHANGED <<accountReq, session, tokens>>
    BY <1>0, <1>1 DEF accountVars, AccountsTypeOK
  <2>2. SessionsHaveUsers'
    BY <1>0, <2>1 DEF SessionsHaveUsers, Exists
  <2> QED BY <1>same, <2>1, <2>2
<1>2. ASSUME NEW r \in AccountReqs, NEW s \in Sessions, NEW i \in Ids, CheckLogin(r, s, i)
      PROVE AccountsInv'
  <2>1. Same /\ Rest /\ UNCHANGED <<session, tokens>>
    BY <1>0, <1>2 DEF CheckLogin, AccountsTypeOK
  <2>2. SessionsHaveUsers'
    BY <1>0, <2>1 DEF SessionsHaveUsers, Exists
  <2> DEFINE to == [at |-> IF users[i].initialized THEN "login" ELSE "change",
                session |-> s, user |-> i]
  <2>3. to \in ReqType /\ Goes(r, to) 
    BY <1>2 DEF CheckLogin, ReqType
  <2>4. Fits(to)
    BY <1>0, <1>2 DEF CheckLogin, Fits, SettledInv, Exists, AccountsTypeOK
  <2> QED BY <1>same, <2>1, <2>2, <2>3, <2>4
<1>3. ASSUME NEW r \in AccountReqs, AskChange(r) PROVE AccountsInv'
  <2> DEFINE s == accountReq[r].session
             to == [at |-> "save", session |-> s,
                    values |-> [session[s] EXCEPT !.change = accountReq[r].user]]
  <2>1. Same /\ Rest /\ UNCHANGED <<session, tokens>> /\ Goes(r, to)
    BY <1>0, <1>3 DEF AskChange, Saves, AccountsTypeOK
  <2>2. SessionsHaveUsers'
    BY <1>0, <2>1 DEF SessionsHaveUsers, Exists
  <2>3. s \in Sessions /\ accountReq[r].user \in Ids /\ Exists(accountReq[r].user)
    BY <1>0, <1>3, RequestFields DEF AskChange, RequestsHaveUsers, Fits
  <2>4. session[s] \in SessionValues
    BY <1>0, <2>3 DEF AccountsTypeOK
  <2>5. to.values \in SessionValues /\ to.values.change = accountReq[r].user
    BY <2>3, <2>4 DEF SessionValues, Ids
  <2>6. to \in ReqType /\ Fits(to)
    BY <2>3, <2>5 DEF ReqType, Fits
  <2> QED BY <1>same, <2>1, <2>2, <2>6
<1>4. ASSUME NEW r \in AccountReqs, LoadSession(r) PROVE AccountsInv'
  <2> DEFINE s == accountReq[r].session
             to == [at |-> "token", session |-> s, user |-> accountReq[r].user,
                    values |-> session[s]]
  <2>1. Same /\ Rest /\ UNCHANGED <<session, tokens>> /\ Goes(r, to)
    BY <1>0, <1>4 DEF LoadSession, AccountsTypeOK
  <2>2. SessionsHaveUsers'
    BY <1>0, <2>1 DEF SessionsHaveUsers, Exists
  <2>3. s \in Sessions /\ accountReq[r].user \in Ids /\ accountReq[r].user \in settled
    BY <1>0, <1>4, RequestFields DEF LoadSession, RequestsHaveUsers, Fits
  <2>4. session[s] \in SessionValues /\ (session[s].change # 0 => Exists(session[s].change))
    BY <1>0, <2>3 DEF AccountsTypeOK, SessionsHaveUsers
  <2>6. to \in ReqType /\ Fits(to)
    BY <2>3, <2>4 DEF ReqType, Fits
  <2> QED BY <1>same, <2>1, <2>2, <2>6
<1>5. ASSUME NEW r \in AccountReqs, CreateToken(r) PROVE AccountsInv'
  <2> DEFINE q == accountReq[r]
             to == [at |-> "save", session |-> q.session,
                    values |-> [q.values EXCEPT !.token = lastToken']]
  <2>1. /\ q.session \in Sessions /\ q.user \in Ids /\ q.user \in settled
        /\ q.values \in SessionValues /\ (q.values.change # 0 => Exists(q.values.change))
    BY <1>0, <1>5, RequestFields DEF CreateToken, RequestsHaveUsers, Fits
  <2>2. Same /\ UNCHANGED session /\ lastToken \in 0..MaxTokens /\ lastToken < MaxTokens
    BY <1>0, <1>5 DEF CreateToken, AccountsTypeOK
  <2>3. SessionsHaveUsers'
    BY <1>0, <2>2 DEF SessionsHaveUsers, Exists
  <2>4. CASE AccountFault /\ Goes(r, NoRequest) /\ UNCHANGED <<tokens, lastToken>>
    <3>1. Rest
      BY <1>0, <2>2, <2>4 DEF AccountsTypeOK, AccountFault
    <3>2. NoRequest \in ReqType /\ Fits(NoRequest)
      BY DEF ReqType, Fits, NoRequest
    <3> QED BY <1>same, <2>2, <2>3, <2>4, <3>1, <3>2
  <2>5. CASE /\ lastToken' = lastToken + 1
             /\ tokens' = [tokens EXCEPT ![lastToken'] = accountReq[r].user]
             /\ Saves(r, q.session, [q.values EXCEPT !.token = lastToken'])
             /\ UNCHANGED accountFaults
    <3>1. lastToken' \in 1..MaxTokens
      BY <2>2, <2>5
    <3>2. Rest /\ Goes(r, to)
      BY <1>0, <2>1, <2>2, <2>5, <3>1 DEF AccountsTypeOK, Saves, Ids
    <3>3. \A t \in 1..MaxTokens : tokens'[t] # 0 => tokens'[t] = tokens[t] \/ tokens'[t] \in settled
      BY <1>0, <2>1, <2>5, <3>1 DEF AccountsTypeOK
    <3>4. to.values \in SessionValues /\ to.values.change = q.values.change
      BY <2>1, <3>1 DEF SessionValues
    <3>5. to \in ReqType /\ Fits(to)
      BY <2>1, <3>4 DEF ReqType, Fits
    <3> QED BY <1>same, <2>2, <2>3, <3>2, <3>3, <3>5
  <2> QED BY <1>5, <2>4, <2>5 DEF CreateToken
<1>6. ASSUME NEW r \in AccountReqs, SaveSession(r) PROVE AccountsInv'
  <2> DEFINE q == accountReq[r]
  <2>1. /\ q.session \in Sessions /\ q.values \in SessionValues
        /\ q.values.change # 0 => Exists(q.values.change)
    BY <1>0, <1>6, RequestFields DEF SaveSession, RequestsHaveUsers, Fits
  <2>2. Same /\ Rest /\ UNCHANGED tokens /\ Goes(r, NoRequest)
    BY <1>0, <1>6, <2>1 DEF SaveSession, AccountFault, AccountsTypeOK
  <2>3. \A s \in Sessions : session'[s] = session[s] \/ session'[s] = q.values
    BY <1>0, <1>6, <2>1 DEF SaveSession, AccountsTypeOK
  <2>4. SessionsHaveUsers'
    BY <1>0, <2>1, <2>2, <2>3 DEF SessionsHaveUsers, Exists
  <2>5. NoRequest \in ReqType /\ Fits(NoRequest)
    BY DEF ReqType, Fits, NoRequest
  <2> QED BY <1>same, <2>2, <2>4, <2>5
<1>7. ASSUME NEW r \in AccountReqs, NEW s \in Sessions, Logout(r, s) PROVE AccountsInv'
  <2> DEFINE to == [at |-> "save", session |-> s, values |-> [session[s] EXCEPT !.token = 0]]
  <2>1. session[s] \in SessionValues /\ (session[s].change # 0 => Exists(session[s].change))
    BY <1>0 DEF AccountsTypeOK, SessionsHaveUsers
  <2>2. session[s].token \in 1..MaxTokens
    BY <1>7, <2>1 DEF Logout, SessionValues
  <2>3. Same /\ Rest /\ UNCHANGED session
    <3>1. accountFaults' \in 0..MaxAccountFaults
      BY <1>0, <1>7, FaultBound DEF Logout
    <3> QED BY <1>0, <1>7, <2>2, <3>1 DEF Logout, AccountsTypeOK
  <2>4. SessionsHaveUsers'
    BY <1>0, <2>3 DEF SessionsHaveUsers, Exists
  <2>5. \A t \in 1..MaxTokens : tokens'[t] # 0 => tokens'[t] = tokens[t]
    BY <1>0, <1>7, <2>2 DEF Logout, AccountsTypeOK
  <2>6. to.values \in SessionValues /\ to.values.change = session[s].change
    BY <2>1 DEF SessionValues
  <2>7. to \in ReqType /\ Fits(to)
    BY <2>1, <2>6 DEF ReqType, Fits
  <2>8. UNCHANGED accountReq \/ Goes(r, to)
    BY <1>7 DEF Logout, Saves
  <2> QED BY <1>same, <2>3, <2>4, <2>5, <2>7, <2>8
<1>8. ASSUME NEW t \in 1..MaxTokens, ExpireToken(t) PROVE AccountsInv'
  <2>1. Same /\ Rest /\ UNCHANGED <<session, accountReq>>
    BY <1>0, <1>8 DEF ExpireToken, AccountsTypeOK
  <2>2. SessionsHaveUsers'
    BY <1>0, <2>1 DEF SessionsHaveUsers, Exists
  <2>3. \A u \in 1..MaxTokens : tokens'[u] # 0 => tokens'[u] = tokens[u]
    BY <1>0, <1>8 DEF ExpireToken, AccountsTypeOK
  <2> QED BY <1>same, <2>1, <2>2, <2>3
<1>9. ASSUME NEW r \in AccountReqs, NEW t \in 1..MaxTokens, CheckPassword(r, t) PROVE AccountsInv'
  <2> DEFINE to == [at |-> "update", user |-> tokens[t]]
  <2>1. Same /\ Rest /\ UNCHANGED <<session, tokens>> /\ Goes(r, to)
    BY <1>0, <1>9 DEF CheckPassword, AccountsTypeOK
  <2>2. SessionsHaveUsers'
    BY <1>0, <2>1 DEF SessionsHaveUsers, Exists
  <2>3. tokens[t] \in settled /\ tokens[t] \in Ids
    BY <1>0, <1>9 DEF CheckPassword, Authorized, OwnPasswordFirst, AccountsTypeOK
  <2>4. to \in ReqType /\ Fits(to)
    BY <2>3 DEF ReqType, Fits
  <2> QED BY <1>same, <2>1, <2>2, <2>4
\* Steps that change the row of a user.
<1> DEFINE RowStep == /\ users' \in [Ids -> Row \cup {NoUser}] /\ settled' \subseteq Ids
                      /\ Kept /\ SettledInv' /\ OwnPasswordFirst'
<1>row. ASSUME RowStep, UNCHANGED <<session, tokens, lastToken>>,
               accountFaults' \in 0..MaxAccountFaults,
               \/ UNCHANGED accountReq
               \/ \E r \in AccountReqs : \E to \in ReqType : Goes(r, to) /\ to.at \notin {"change", "login", "token", "update"}
                     /\ (to.at = "save" => to.values.change = 0)
        PROVE AccountsInv'
  <2>1. accountReq' \in [AccountReqs -> ReqType] /\ RequestsHaveUsers'
    <3>1. CASE UNCHANGED accountReq
      <4>1. accountReq' \in [AccountReqs -> ReqType]
        BY <1>0, <3>1 DEF AccountsTypeOK, ReqType
      <4>2. ASSUME NEW r \in AccountReqs PROVE Fits(accountReq[r])'
        <5>1. accountReq[r].at = "change" => accountReq[r].user \in Ids
          BY <1>0, RequestFields
        <5>2. accountReq[r].at \in {"token", "save"} /\ accountReq[r].values.change # 0
                  => accountReq[r].values.change \in Ids
          BY <1>0, RequestFields DEF SessionValues, Ids
        <5> QED BY <1>0, <1>row, <3>1, <5>1, <5>2 DEF RequestsHaveUsers, Fits, Kept, Exists
      <4> QED BY <4>1, <4>2 DEF RequestsHaveUsers
    <3>2. ASSUME NEW r \in AccountReqs, NEW to \in ReqType, Goes(r, to), to.at \notin {"change", "login", "token", "update"},
                 to.at = "save" => to.values.change = 0
          PROVE accountReq' \in [AccountReqs -> ReqType] /\ RequestsHaveUsers'
      <4>1. Fits(to)'
        BY <3>2 DEF Fits
      <4> QED BY <1>row, <3>2, <4>1, GoesStep
    <3> QED BY <1>row, <3>1, <3>2
  <2>2. SessionsHaveUsers'
    <3>1. \A s \in Sessions : session[s].change # 0 => session[s].change \in Ids
      BY <1>0 DEF AccountsTypeOK, SessionValues, Ids
    <3> QED BY <1>0, <1>row, <3>1 DEF SessionsHaveUsers, Kept, Exists
  <2> QED BY <1>0, <1>row, <2>1, <2>2 DEF AccountsInv, AccountsTypeOK, ReqType
<1>10. ASSUME NEW r \in AccountReqs, NEW s \in Sessions, ResetPassword(r, s) PROVE AccountsInv'
  <2> DEFINE i == session[s].change
             to == [at |-> "save", session |-> s, values |-> [session[s] EXCEPT !.change = 0]]
  <2>1. session[s] \in SessionValues /\ i \in Ids /\ Exists(i)
    BY <1>0, <1>10 DEF ResetPassword, AccountsTypeOK, SessionsHaveUsers, SessionValues, Ids
  <2>2. accountFaults' \in 0..MaxAccountFaults
    BY <1>0, <1>10, FaultBound DEF ResetPassword
  <2>3. CASE SetPassword(i, "own", TRUE) /\ Saves(r, s, [session[s] EXCEPT !.change = 0])
    <3>1. RowStep
      <4>1. UNCHANGED tokens
        BY <1>10 DEF ResetPassword
      <4> QED BY <1>0, <2>1, <2>3, <4>1, SetPasswordStep DEF Kept
    <3>2. to.values \in SessionValues /\ to.values.change = 0
      BY <2>1 DEF SessionValues
    <3>3. to \in ReqType /\ Goes(r, to)
      BY <2>3, <3>2 DEF ReqType, Saves
    <3> QED BY <1>10, <1>row, <2>2, <3>1, <3>2, <3>3 DEF ResetPassword
  <2>4. CASE UNCHANGED <<users, settled, accountReq>>
    <3>1. RowStep
      BY <1>0, <1>10, <2>4 DEF ResetPassword, Kept, Exists, SettledInv, OwnPasswordFirst, AccountsTypeOK
    <3> QED BY <1>10, <1>row, <2>2, <2>4, <3>1 DEF ResetPassword
  <2> QED BY <1>10, <2>3, <2>4 DEF ResetPassword
<1>11. ASSUME NEW r \in AccountReqs, ChangePassword(r) PROVE AccountsInv'
  <2> DEFINE i == accountReq[r].user
  <2>1. i \in Ids /\ Exists(i)
    BY <1>0, <1>11, RequestFields DEF ChangePassword, RequestsHaveUsers, Fits, SettledInv
  <2>2. accountFaults' \in 0..MaxAccountFaults /\ Goes(r, NoRequest) /\ UNCHANGED <<session, tokens, lastToken>>
    BY <1>0, <1>11, FaultBound DEF ChangePassword
  <2>3. NoRequest \in ReqType /\ NoRequest.at = "none"
    BY DEF ReqType, NoRequest
  <2>4. RowStep
    <3>1. CASE SetPassword(i, "own", TRUE)
      BY <1>0, <2>1, <2>2, <3>1, SetPasswordStep DEF Kept
    <3>2. CASE UNCHANGED <<users, settled>>
      BY <1>0, <2>2, <3>2 DEF Kept, Exists, SettledInv, OwnPasswordFirst, AccountsTypeOK
    <3> QED BY <1>11, <3>1, <3>2 DEF ChangePassword
  <2> QED BY <1>row, <2>2, <2>3, <2>4
<1>12. ASSUME NEW name \in Names, RunAddUser(name) \/ \E t \in 1..MaxTokens : AddUser(t, name)
       PROVE AccountsInv'
  <2>1. /\ UNCHANGED <<session, tokens, lastToken, accountReq, accountFaults>>
        /\ Insert(name, "given", FALSE) \/ Insert(name, "trusted", TRUE)
    BY <1>12 DEF RunAddUser, AddUser
  <2>2. RowStep
    BY <1>0, <2>1, InsertStep
  <2> QED BY <1>0, <1>row, <2>1, <2>2 DEF AccountsTypeOK
<1>13. ASSUME NEW i \in Ids, RunResetPassword(i) PROVE AccountsInv'
  <2>1. /\ UNCHANGED <<session, tokens, lastToken, accountReq, accountFaults>>
        /\ Exists(i) /\ SetPassword(i, "given", FALSE)
    BY <1>0, <1>13 DEF RunResetPassword, Exists, AccountsTypeOK
  <2>2. RowStep
    BY <1>0, <2>1, SetPasswordStep DEF Kept
  <2> QED BY <1>0, <1>row, <2>1, <2>2 DEF AccountsTypeOK
<1>14. ASSUME NEW i \in Ids, NEW name \in Names, RunRename(i, name) PROVE AccountsInv'
  <2>1. UNCHANGED <<session, tokens, lastToken, accountReq, settled, accountFaults>>
    BY <1>14 DEF RunRename
  <2>2. users[i] \in Row /\ users'[i] = [users[i] EXCEPT !.name = name]
    BY <1>0, <1>14 DEF RunRename, AccountsTypeOK
  <2>3. /\ users'[i] \in Row /\ users'[i].password = users[i].password
        /\ users'[i].initialized = users[i].initialized
    BY <2>2 DEF Row
  <2>4. \A j \in Ids : j # i => users'[j] = users[j]
    BY <1>0, <1>14 DEF RunRename, AccountsTypeOK
  <2>5. users' \in [Ids -> Row \cup {NoUser}] /\ settled' \subseteq Ids /\ Kept
    BY <1>0, <1>14, <2>1, <2>3, <2>4 DEF RunRename, AccountsTypeOK, Kept, Exists
  <2>6. users[i] # NoUser
    BY <1>14 DEF RunRename
  <2>7. SettledInv' /\ OwnPasswordFirst'
    BY <1>0, <2>1, <2>3, <2>4, <2>5, <2>6 DEF SettledInv, OwnPasswordFirst, Exists, Kept
  <2> QED BY <1>0, <1>row, <2>1, <2>5, <2>7 DEF AccountsTypeOK
<1> QED
  BY <1>1, <1>2, <1>3, <1>4, <1>5, <1>6, <1>7, <1>8, <1>9, <1>10, <1>11, <1>12, <1>13, <1>14
  DEF AccountsNext

\* The invariant holds in an empty database.
LEMMA AccountsStart == AccountsInit => AccountsInv
<1> SUFFICES ASSUME AccountsInit PROVE AccountsInv
  OBVIOUS
<1>1. MaxUsers \in Nat /\ MaxTokens \in Nat /\ MaxAccountFaults \in Nat
  BY AccountAssumption
<1>2. /\ users = [i \in Ids |-> NoUser] /\ tokens = [t \in 1..MaxTokens |-> 0]
      /\ session = [s \in Sessions |-> [token |-> 0, change |-> 0]]
      /\ accountReq = [r \in AccountReqs |-> NoRequest] /\ settled = {}
  BY DEF AccountsInit
<1>3. AccountsTypeOK
  <2>1. session \in [Sessions -> SessionValues]
    BY <1>1, <1>2 DEF SessionValues
  <2>2. tokens \in [1..MaxTokens -> 0..MaxUsers]
    BY <1>1, <1>2
  <2>3. lastToken \in 0..MaxTokens /\ accountFaults \in 0..MaxAccountFaults
    BY <1>1 DEF AccountsInit
  <2> QED BY <1>2, <2>1, <2>2, <2>3 DEF AccountsTypeOK
<1>4. OwnPasswordFirst /\ SettledInv
  BY <1>2 DEF OwnPasswordFirst, SettledInv
<1>5. SessionsHaveUsers
  BY <1>2 DEF SessionsHaveUsers
<1>6. RequestsHaveUsers
  BY <1>2 DEF RequestsHaveUsers, Fits, NoRequest
<1> QED BY <1>3, <1>4, <1>5, <1>6 DEF AccountsInv

-----------------------------------------------------------------------------
(***************************************************************************)
(* The bucket of worlds                                                    *)
(***************************************************************************)

\* Generations that Prune spares, as many as it must, are there and none is older than k.
Outlived(k) ==
    \E kept \in SUBSET ListObjects(k.world) :
        /\ IsFiniteSet(kept) /\ Cardinality(kept) = Preserve
        /\ kept \cap prune.keys = {}
        /\ \A other \in kept : bucket[other] >= bucket[k]

\* What Prune has listed is still outlived, unless users have changed the world.
PruneInv ==
    \A k \in prune.keys : prune.at # "idle" /\ k.world \notin disturbed => Outlived(k)

\* The key of an upload is new: no generation has its name, and Prune has not seen it.
KeyInv ==
    /\ \A k \in Keys : bucket[k] # 0 => k.name <= clock
    /\ \A k \in prune.keys : k.name <= clock
    /\ playing.at = "upload" =>
          /\ playing.key \in Keys \ prune.keys
          /\ playing.key.name # 0 /\ playing.key.name <= clock
          /\ bucket[playing.key] = 0

WorldInv == WorldTypeOK /\ KeyInv /\ PruneInv

\* The bounds of the world storage are numbers.
LEMMA WorldBounds ==
    Preserve \in Nat /\ MaxSeconds \in Nat /\ MaxStoreFaults \in Nat /\ MaxSeconds > 0
BY WorldAssumption

\* A key of the bucket is a world and the time of a save.
LEMMA KeyFields ==
    /\ \A k \in Keys : k.world \in Worlds /\ k.name \in 0..MaxSeconds
    /\ \A w \in Worlds, n \in 0..MaxSeconds : [world |-> w, name |-> n] \in Keys
BY WorldAssumption DEF Keys

\* The objects of a world can be counted.
LEMMA FiniteListing ==
    ASSUME WorldTypeOK, NEW w
    PROVE  IsFiniteSet(ListObjects(w))
<1> DEFINE Seconds == 0..MaxSeconds
           F == {[world |-> w, name |-> n] : n \in Seconds}
<1>1. IsFiniteSet(Seconds)
  BY FS_Interval, WorldAssumption
<1>2. IsFiniteSet(F)
  <2>1. [n \in Seconds |-> [world |-> w, name |-> n]] \in Surjection(Seconds, F)
    BY DEF Surjection
  <2> QED BY <1>1, <2>1, FS_Surjection
<1>3. ListObjects(w) \subseteq F
  BY WorldAssumption DEF ListObjects, Keys
<1> QED BY <1>2, <1>3, FS_Subset

\* What pruneSlice leaves of a world are its newest generations.
LEMMA SliceOutlived ==
    ASSUME WorldTypeOK, NEW w \in Worlds, NEW keys \in PruneSlice(w), NEW k \in keys
    PROVE  /\ k \in Keys /\ k.world = w /\ bucket[k] # 0
           /\ \E kept \in SUBSET ListObjects(w) :
                 /\ IsFiniteSet(kept) /\ Cardinality(kept) = Preserve
                 /\ kept \cap keys = {}
                 /\ \A other \in kept : bucket[other] >= bucket[k]
<1>1. /\ keys \subseteq ListObjects(w)
      /\ Cardinality(ListObjects(w)) = Cardinality(keys) + Preserve
      /\ \A kept \in ListObjects(w) \ keys : bucket[k] <= bucket[kept]
  BY DEF PruneSlice
<1>2. k \in Keys /\ k.world = w /\ bucket[k] # 0
  BY <1>1 DEF ListObjects
<1> DEFINE kept == ListObjects(w) \ keys
<1>3. IsFiniteSet(ListObjects(w))
  BY FiniteListing
<1>4. IsFiniteSet(keys) /\ Cardinality(keys) \in Nat
  BY <1>1, <1>3, FS_Subset, FS_CardinalityType
<1>5. /\ IsFiniteSet(kept)
      /\ Cardinality(kept) = Cardinality(ListObjects(w)) - Cardinality(ListObjects(w) \cap keys)
  BY <1>3, FS_Difference
<1>6. ListObjects(w) \cap keys = keys
  BY <1>1
<1>7. Cardinality(kept) = Preserve
  <2>1. Cardinality(kept) = Cardinality(ListObjects(w)) - Cardinality(keys)
    BY <1>5, <1>6, Zenon
  <2> HIDE DEF kept
  <2> QED BY <1>1, <1>4, <2>1, WorldAssumption
<1>8. \A other \in kept : bucket[other] >= bucket[k]
  <2> SUFFICES ASSUME NEW other \in kept PROVE bucket[other] >= bucket[k]
    OBVIOUS
  <2>1. other \in Keys
    BY DEF ListObjects
  <2> QED BY <1>1, <1>2, <2>1, WorldAssumption DEF WorldTypeOK
<1>9. kept \in SUBSET ListObjects(w) /\ kept \cap keys = {}
  OBVIOUS
<1> HIDE DEF kept
<1> QED BY <1>2, <1>5, <1>7, <1>8, <1>9

\* Who is outlived stays so while neither its generation nor those that are there
\* change.
LEMMA StaysOutlived ==
    ASSUME WorldTypeOK, NEW k \in Keys, Outlived(k), prune.keys' \subseteq prune.keys,
           \A o \in Keys : o.world = k.world /\ bucket[o] # 0 /\ o \notin prune.keys => bucket'[o] = bucket[o],
           bucket'[k] = bucket[k]
    PROVE  Outlived(k)'
<1> PICK kept \in SUBSET ListObjects(k.world) :
        /\ IsFiniteSet(kept) /\ Cardinality(kept) = Preserve
        /\ kept \cap prune.keys = {}
        /\ \A other \in kept : bucket[other] >= bucket[k]
  BY DEF Outlived
<1>1. \A o \in kept : o \in Keys /\ o.world = k.world /\ bucket[o] # 0 /\ bucket'[o] = bucket[o]
  BY DEF ListObjects
<1>2. kept \in SUBSET ListObjects(k.world)'
  BY <1>1 DEF ListObjects
<1>3. kept \cap prune.keys' = {}
  OBVIOUS
<1>4. \A other \in kept : bucket'[other] >= bucket'[k]
  BY <1>1
<1> QED BY <1>2, <1>3, <1>4 DEF Outlived

\* Every step of saving, listing, deleting and pruning preserves the invariant.
LEMMA WorldStep == WorldInv /\ [WorldNext]_worldVars => WorldInv'
<1> SUFFICES ASSUME WorldInv, [WorldNext]_worldVars PROVE WorldInv'
  OBVIOUS
<1> USE WorldBounds
<1>0. WorldTypeOK /\ KeyInv /\ PruneInv
  BY DEF WorldInv
<1>p. /\ playing \in [at : PlayStates, world : Worlds, key : Keys \cup {NoKey}]
      /\ playing.at \in PlayStates /\ playing.world \in Worlds /\ playing.key \in Keys \cup {NoKey}
      /\ prune.keys \subseteq Keys /\ prune.at \in {"idle", "listed", "one by one"}
  BY <1>0 DEF WorldTypeOK
<1>c. clock \in 1..MaxSeconds /\ bucket \in [Keys -> 0..MaxSeconds]
  BY <1>0 DEF WorldTypeOK
<1>fault. ASSUME UNCHANGED storeFaults \/ StoreFault PROVE storeFaults' \in 0..MaxStoreFaults
  <2>1. storeFaults \in 0..MaxStoreFaults
    BY <1>0 DEF WorldTypeOK
  <2> QED BY <1>fault, <2>1 DEF StoreFault
<1>same. ASSUME UNCHANGED <<bucket, prune, disturbed>> PROVE PruneInv'
  BY <1>0, <1>same DEF PruneInv, Outlived, ListObjects
<1>1. CASE UNCHANGED worldVars
  <2>1. WorldTypeOK'
    BY <1>0, <1>1 DEF worldVars, WorldTypeOK
  <2>2. KeyInv'
    BY <1>0, <1>1 DEF worldVars, KeyInv
  <2> QED BY <1>1, <1>same, <2>1, <2>2 DEF worldVars, WorldInv
<1>2. CASE Second
  <2>1. /\ clock' \in 1..MaxSeconds /\ clock' = clock + 1
        /\ UNCHANGED <<bucket, playing, listing, page, prune, disturbed, storeFaults>>
    BY <1>c, <1>2 DEF Second
  <2>2. \A k \in Keys : k.name <= clock => k.name <= clock'
    BY <1>c, <2>1, KeyFields
  <2>3. KeyInv'
    BY <1>0, <1>p, <2>1, <2>2 DEF KeyInv
  <2> QED BY <1>0, <1>same, <2>1, <2>3 DEF WorldInv, WorldTypeOK
\* The runner finds a world, gets it or not, and plays.
<1>3. CASE FindLatest \/ ChooseGeneration \/ GenerateNewWorld \/ DownloadWorld
  <2>1. UNCHANGED <<clock, bucket, listing, page, prune, disturbed, storeFaults>>
    BY <1>3 DEF FindLatest, ChooseGeneration, GenerateNewWorld, DownloadWorld
  <2>2. \E at \in PlayStates \ {"upload"}, w \in Worlds, k \in Keys \cup {NoKey} : Plays(at, w, k)
    <3>1. CASE FindLatest
      <4> PICK w \in Worlds : \E k \in ListObjects(w) : Plays("found", w, k)
        BY <3>1 DEF FindLatest
      <4> PICK k \in ListObjects(w) : Plays("found", w, k)
        OBVIOUS
      <4>1. k \in Keys
        BY DEF ListObjects
      <4> QED BY <4>1 DEF PlayStates
    <3>2. CASE ChooseGeneration
      <4> PICK k \in page : Plays("found", k.world, k)
        BY <3>2 DEF ChooseGeneration
      <4>1. k \in Keys /\ k.world \in Worlds
        BY <1>0, KeyFields DEF WorldTypeOK
      <4> QED BY <4>1 DEF PlayStates
    <3>3. CASE GenerateNewWorld
      BY <3>3 DEF GenerateNewWorld, PlayStates
    <3>4. CASE DownloadWorld
      BY <1>p, <3>4 DEF DownloadWorld, PlayStates
    <3> QED BY <1>3, <3>1, <3>2, <3>3, <3>4
  <2>3. playing' \in [at : PlayStates, world : Worlds, key : Keys \cup {NoKey}] /\ playing'.at # "upload"
    BY <2>2 DEF Plays
  <2>4. KeyInv'
    BY <1>0, <2>1, <2>3 DEF KeyInv
  <2> QED BY <1>0, <1>same, <2>1, <2>3, <2>4 DEF WorldInv, WorldTypeOK
<1>4. CASE CreateUploadURL
  <2> DEFINE new == [world |-> playing.world, name |-> clock']
  <2>1. /\ clock' = clock + 1 /\ clock' \in 1..MaxSeconds
        /\ UNCHANGED <<bucket, listing, page, prune, disturbed, storeFaults>>
        /\ playing' = [at |-> "upload", world |-> playing.world, key |-> new]
    BY <1>c, <1>4 DEF CreateUploadURL, Plays
  <2>2. new \in Keys /\ new.name = clock + 1
    <3>1. clock' \in 0..MaxSeconds
      BY <2>1
    <3> QED BY <1>p, <2>1, <3>1, KeyFields
  <2>x. ~(new.name <= clock)
    BY <1>c, <2>2
  <2>3. bucket[new] = 0 /\ new \notin prune.keys
    BY <1>0, <2>2, <2>x DEF KeyInv
  <2>4. playing'.at = "upload" /\ playing'.key = new
    BY <2>1
  <2>5. playing' \in [at : PlayStates, world : Worlds, key : Keys \cup {NoKey}]
    BY <1>p, <2>1, <2>2 DEF PlayStates
  <2>6. \A k \in Keys : k.name <= clock => k.name <= clock'
    BY <1>c, <2>1, KeyFields
  <2>y. new.name # 0 /\ new.name <= clock'
    BY <1>c, <2>1
  <2>7. KeyInv'
    <3> HIDE DEF new
    <3>1. \A k \in Keys : bucket'[k] # 0 => k.name <= clock'
      BY <1>0, <2>1, <2>6 DEF KeyInv
    <3>2. \A k \in prune'.keys : k.name <= clock'
      BY <1>0, <1>p, <2>1, <2>6 DEF KeyInv
    <3> QED BY <2>1, <2>2, <2>3, <2>4, <2>y, <3>1, <3>2 DEF KeyInv
  <2> QED BY <1>0, <1>same, <2>1, <2>5, <2>7 DEF WorldInv, WorldTypeOK
<1>5. CASE UploadWorld
  <2>1. /\ playing.key \in Keys \ prune.keys /\ bucket[playing.key] = 0
        /\ playing.key.name # 0 /\ playing.key.name <= clock
    BY <1>0, <1>5 DEF UploadWorld, KeyInv
  <2>2. /\ UNCHANGED <<clock, listing, page, prune, disturbed>>
        /\ storeFaults' \in 0..MaxStoreFaults
        /\ bucket' \in [Keys -> 0..MaxSeconds]
        /\ \A o \in Keys : o # playing.key => bucket'[o] = bucket[o]
        /\ playing' = [at |-> "idle", world |-> playing.world, key |-> NoKey]
    <3>1. UNCHANGED storeFaults \/ StoreFault
      BY <1>5 DEF UploadWorld
    <3>2. bucket' = [bucket EXCEPT ![playing.key] = clock] \/ UNCHANGED bucket
      BY <1>5 DEF UploadWorld
    <3>3. clock \in 0..MaxSeconds
      BY <1>c
    <3>4. bucket' \in [Keys -> 0..MaxSeconds] /\ \A o \in Keys : o # playing.key => bucket'[o] = bucket[o]
      BY <1>c, <2>1, <3>2, <3>3
    <3> QED BY <1>5, <1>fault, <3>1, <3>4 DEF UploadWorld, Plays
  <2>3. playing' \in [at : PlayStates, world : Worlds, key : Keys \cup {NoKey}] /\ playing'.at # "upload"
    BY <1>p, <2>2 DEF PlayStates
  <2>4. KeyInv'
    BY <1>0, <2>1, <2>2, <2>3 DEF KeyInv
  <2>5. PruneInv'
    <3> SUFFICES ASSUME NEW k \in prune.keys, prune.at # "idle", k.world \notin disturbed
                 PROVE  Outlived(k)'
      BY <2>2 DEF PruneInv
    <3>1. k \in Keys /\ Outlived(k) /\ bucket'[k] = bucket[k]
      BY <1>0, <1>p, <2>1, <2>2 DEF PruneInv
    <3>2. \A o \in Keys : bucket[o] # 0 => bucket'[o] = bucket[o]
      BY <2>1, <2>2
    <3> QED BY <1>0, <2>2, <3>1, <3>2, StaysOutlived
  <2> QED BY <1>0, <2>2, <2>3, <2>4, <2>5 DEF WorldInv, WorldTypeOK
<1>6. CASE ListWorlds
  <2>1. UNCHANGED <<clock, bucket, playing, prune, disturbed>> /\ storeFaults' \in 0..MaxStoreFaults
    BY <1>6, <1>fault DEF ListWorlds
  <2>2. page' \subseteq Keys
    BY <1>0, <1>6 DEF ListWorlds, WorldTypeOK, Listed
  <2>3. listing' = page' \/ listing' = listing
    BY <1>6 DEF ListWorlds
  <2>4. KeyInv'
    BY <1>0, <2>1 DEF KeyInv
  <2> QED BY <1>0, <1>same, <2>1, <2>2, <2>3, <2>4 DEF WorldInv, WorldTypeOK
<1>7. CASE ExpireListing
  <2>1. KeyInv'
    BY <1>0, <1>7 DEF ExpireListing, KeyInv
  <2> QED BY <1>0, <1>same, <1>7, <2>1 DEF ExpireListing, WorldInv, WorldTypeOK
\* A user's change to one key, whose world is disturbed.
<1>user. ASSUME NEW k \in Keys, NEW t \in {0, clock}, k.name = 0 \/ t = 0,
                bucket' = [bucket EXCEPT ![k] = t], disturbed' = disturbed \cup {k.world},
                UNCHANGED <<clock, playing, listing, page, prune, storeFaults>>
         PROVE  WorldInv'
  <2>1. /\ bucket' \in [Keys -> 0..MaxSeconds] /\ disturbed' \subseteq Worlds
        /\ bucket'[k] = t /\ \A o \in Keys : o # k => bucket'[o] = bucket[o]
    <3>1. t \in 0..MaxSeconds
      BY <1>c
    <3>2. disturbed \subseteq Worlds
      BY <1>0 DEF WorldTypeOK
    <3> QED BY <1>c, <1>user, <3>1, <3>2, KeyFields
  <2>2. playing.at = "upload" => bucket'[playing.key] = 0
    BY <1>0, <1>user, <2>1 DEF KeyInv
  <2>3. \A o \in Keys : bucket'[o] # 0 => o.name <= clock
    <3>1. 0 <= clock
      BY <1>c
    <3> QED BY <1>0, <1>user, <2>1, <3>1 DEF KeyInv
  <2>4. KeyInv'
    BY <1>0, <1>user, <2>2, <2>3 DEF KeyInv
  <2>5. PruneInv'
    <3> SUFFICES ASSUME NEW q \in prune.keys, prune.at # "idle", q.world \notin disturbed'
                 PROVE  Outlived(q)'
      BY <1>user DEF PruneInv
    <3>1. q \in Keys /\ Outlived(q) /\ q.world # k.world
      BY <1>0, <1>p, <1>user DEF PruneInv
    <3>2. \A o \in Keys : o.world = q.world => bucket'[o] = bucket[o]
      BY <2>1, <3>1
    <3> QED BY <1>0, <1>user, <3>1, <3>2, StaysOutlived
  <2> QED BY <1>0, <1>user, <2>1, <2>4, <2>5 DEF WorldInv, WorldTypeOK
<1>8. CASE DeleteWorld
  <2> PICK k \in page : bucket' = [bucket EXCEPT ![k] = 0] /\ disturbed' = disturbed \cup {k.world}
    BY <1>8 DEF DeleteWorld
  <2>1. k \in Keys
    BY <1>0 DEF WorldTypeOK
  <2> QED BY <1>8, <1>user, <2>1 DEF DeleteWorld
<1>9. ASSUME NEW w \in Worlds, UploadByUser(w) PROVE WorldInv'
  <2>1. UserKey(w) \in Keys /\ UserKey(w).name = 0 /\ UserKey(w).world = w
    BY KeyFields DEF UserKey
  <2>2. /\ bucket' = [bucket EXCEPT ![UserKey(w)] = clock]
        /\ disturbed' = disturbed \cup {UserKey(w).world}
        /\ UNCHANGED <<clock, playing, listing, page, prune, storeFaults>>
    BY <1>9, <2>1 DEF UploadByUser
  <2> HIDE DEF UserKey
  <2> QED BY <1>user, <2>1, <2>2
<1>10. CASE PruneList
  <2> PICK w \in Worlds : \E keys \in PruneSlice(w) : prune' = [at |-> "listed", keys |-> keys]
    BY <1>10 DEF PruneList
  <2> PICK keys \in PruneSlice(w) : prune' = [at |-> "listed", keys |-> keys]
    OBVIOUS
  <2>1. /\ UNCHANGED <<clock, bucket, playing, listing, page, storeFaults>>
        /\ disturbed' = {} /\ prune'.keys = keys /\ prune'.at = "listed"
    BY <1>10 DEF PruneList
  <2>2. \A k \in keys : k \in Keys /\ k.world = w /\ bucket[k] # 0
    BY <1>0, SliceOutlived
  <2>3. prune' \in [at : {"idle", "listed", "one by one"}, keys : SUBSET Keys]
    BY <2>2
  <2>4. KeyInv'
    BY <1>0, <2>1, <2>2 DEF KeyInv
  <2>5. PruneInv'
    <3> SUFFICES ASSUME NEW k \in keys PROVE Outlived(k)'
      BY <2>1 DEF PruneInv
    <3>1. k.world = w
      BY <2>2
    <3>2. PICK kept \in SUBSET ListObjects(w) :
                 /\ IsFiniteSet(kept) /\ Cardinality(kept) = Preserve
                 /\ kept \cap keys = {}
                 /\ \A other \in kept : bucket[other] >= bucket[k]
      BY <1>0, SliceOutlived
    <3>3. kept \in SUBSET ListObjects(k.world)'
      BY <2>1, <3>1, <3>2 DEF ListObjects
    <3> QED BY <2>1, <3>2, <3>3 DEF Outlived
  <2> QED BY <1>0, <2>1, <2>3, <2>4, <2>5 DEF WorldInv, WorldTypeOK
\* Prune deletes some of what it has listed, and is over or has the rest before it.
<1>delete. ASSUME UNCHANGED <<clock, playing, listing, page, disturbed>>,
                  storeFaults' \in 0..MaxStoreFaults,
                  prune' \in [at : {"idle", "listed", "one by one"}, keys : SUBSET Keys],
                  prune'.keys \subseteq prune.keys, prune'.at = "idle" \/ prune.at # "idle",
                  bucket' \in [Keys -> 0..MaxSeconds],
                  \A k \in Keys : bucket'[k] = bucket[k]
                        \/ (bucket'[k] = 0 /\ k \in prune.keys /\ k \notin prune'.keys)
           PROVE  WorldInv'
  <2>1. KeyInv'
    BY <1>0, <1>delete DEF KeyInv
  <2>2. PruneInv'
    <3> SUFFICES ASSUME NEW k \in prune'.keys, prune'.at # "idle", k.world \notin disturbed
                 PROVE  Outlived(k)'
      BY <1>delete DEF PruneInv
    <3>1. k \in Keys /\ Outlived(k) /\ bucket'[k] = bucket[k]
      BY <1>0, <1>p, <1>delete DEF PruneInv
    <3>2. \A o \in Keys : o \notin prune.keys => bucket'[o] = bucket[o]
      BY <1>delete
    <3> QED BY <1>0, <1>delete, <3>1, <3>2, StaysOutlived
  <2> QED BY <1>0, <1>delete, <2>1, <2>2 DEF WorldInv, WorldTypeOK
<1>r. prune \in [at : {"idle", "listed", "one by one"}, keys : SUBSET Keys]
  BY <1>0 DEF WorldTypeOK
<1>ends. ASSUME PruneEnds
         PROVE  /\ prune' \in [at : {"idle", "listed", "one by one"}, keys : SUBSET Keys]
                /\ prune'.keys = {} /\ prune'.at = "idle"
  BY <1>ends DEF PruneEnds
<1>11. CASE PruneBulk
  <2>1. /\ UNCHANGED <<clock, playing, listing, page, disturbed>>
        /\ prune.at # "idle" /\ storeFaults' \in 0..MaxStoreFaults
    <3>1. UNCHANGED storeFaults \/ StoreFault
      BY <1>11 DEF PruneBulk
    <3> QED BY <1>11, <1>fault, <3>1 DEF PruneBulk
  <2>2. CASE /\ bucket' = [k \in Keys |-> IF k \in prune.keys THEN 0 ELSE bucket[k]]
             /\ PruneEnds
    <3>1. /\ bucket' \in [Keys -> 0..MaxSeconds]
          /\ \A k \in Keys : bucket'[k] = bucket[k] \/ (bucket'[k] = 0 /\ k \in prune.keys)
      BY <1>c, <2>2
    <3>2. prune'.keys \subseteq prune.keys /\ \A k \in Keys : k \notin prune'.keys
      BY <1>ends, <2>2
    <3> QED BY <1>delete, <1>ends, <2>1, <2>2, <3>1, <3>2
  <2>3. CASE prune' = [prune EXCEPT !.at = "one by one"] /\ UNCHANGED bucket
    <3>1. /\ prune' \in [at : {"idle", "listed", "one by one"}, keys : SUBSET Keys]
          /\ prune'.keys = prune.keys
      BY <1>r, <2>3
    <3>2. \A k \in Keys : bucket'[k] = bucket[k]
      BY <2>3
    <3>3. bucket' \in [Keys -> 0..MaxSeconds]
      BY <1>c, <2>3
    <3>4. prune'.keys \subseteq prune.keys
      BY <3>1
    <3> QED BY <1>delete, <2>1, <3>1, <3>2, <3>3, <3>4
  <2>4. CASE PruneEnds /\ UNCHANGED bucket
    <3>1. \A k \in Keys : bucket'[k] = bucket[k]
      BY <2>4
    <3>2. bucket' \in [Keys -> 0..MaxSeconds]
      BY <1>c, <2>4
    <3>3. prune'.keys \subseteq prune.keys
      BY <1>ends, <2>4
    <3> QED BY <1>delete, <1>ends, <2>1, <2>4, <3>1, <3>2, <3>3
  <2> QED BY <1>11, <2>2, <2>3, <2>4 DEF PruneBulk
<1>12. CASE PruneOne
  <2>1. UNCHANGED <<clock, playing, listing, page, disturbed>> /\ prune.at # "idle"
    BY <1>12 DEF PruneOne
  <2>2. CASE PruneEnds /\ UNCHANGED <<bucket, storeFaults>>
    BY <1>c, <1>delete, <1>ends, <1>fault, <2>1, <2>2
  <2>3. ASSUME NEW k \in prune.keys, prune' = [prune EXCEPT !.keys = @ \ {k}],
               \/ bucket' = [bucket EXCEPT ![k] = 0] /\ UNCHANGED storeFaults
               \/ StoreFault /\ UNCHANGED bucket
        PROVE  WorldInv'
    <3>1. /\ prune' \in [at : {"idle", "listed", "one by one"}, keys : SUBSET Keys]
          /\ prune'.keys = prune.keys \ {k} /\ k \in Keys
      BY <1>r, <2>3
    <3>2. /\ bucket' \in [Keys -> 0..MaxSeconds]
          /\ \A o \in Keys : bucket'[o] = bucket[o] \/ (bucket'[o] = 0 /\ o = k)
      <4>1. bucket' = [bucket EXCEPT ![k] = 0] \/ bucket' = bucket
        BY <2>3
      <4>2. 0 \in 0..MaxSeconds
        OBVIOUS
      <4>3. CASE bucket' = [bucket EXCEPT ![k] = 0]
        BY <1>c, <3>1, <4>2, <4>3
      <4>4. CASE bucket' = bucket
        BY <1>c, <4>4
      <4> QED BY <4>1, <4>3, <4>4
    <3>3. storeFaults' \in 0..MaxStoreFaults
      BY <1>fault, <2>3
    <3> QED BY <1>delete, <2>1, <3>1, <3>2, <3>3
  <2> QED BY <1>12, <2>2, <2>3 DEF PruneOne
<1> QED
  BY <1>1, <1>2, <1>3, <1>4, <1>5, <1>6, <1>7, <1>8, <1>9, <1>10, <1>11, <1>12 DEF WorldNext

\* What is outlived has as many newer generations as Prune must keep.
LEMMA OutlivedByMany ==
    ASSUME WorldInv, NEW k \in prune.keys, Outlived(k)
    PROVE  Cardinality({other \in ListObjects(k.world) \ {k} : bucket[other] >= bucket[k]}) >= Preserve
<1> DEFINE newer == {other \in ListObjects(k.world) \ {k} : bucket[other] >= bucket[k]}
<1> PICK kept \in SUBSET ListObjects(k.world) :
        /\ IsFiniteSet(kept) /\ Cardinality(kept) = Preserve
        /\ kept \cap prune.keys = {}
        /\ \A other \in kept : bucket[other] >= bucket[k]
  BY DEF Outlived
<1>1. kept \in SUBSET newer
  OBVIOUS
<1>2. IsFiniteSet(newer)
  <2>1. IsFiniteSet(ListObjects(k.world)) /\ newer \in SUBSET ListObjects(k.world)
    BY FiniteListing DEF WorldInv
  <2> QED BY <2>1, FS_Subset
<1> HIDE DEF newer
<1>3. Cardinality(newer) \in Nat
  BY <1>2, FS_CardinalityType
<1>4. Cardinality(kept) <= Cardinality(newer)
  BY <1>1, <1>2, FS_Subset
<1>5. Cardinality(newer) >= Preserve
  BY <1>3, <1>4, WorldAssumption
<1> QED BY <1>5 DEF newer

\* What a prune is about to delete has enough newer saves beside it, as long as nobody
\* else deletes saves of the world.
LEMMA PruneStep ==
    ASSUME WorldInv, [WorldNext]_worldVars, prune.at # "idle",
           NEW k \in prune.keys, k.world \notin disturbed'
    PROVE  Cardinality({other \in ListObjects(k.world) \ {k} : bucket[other] >= bucket[k]}) >= Preserve
<1>1. disturbed \subseteq disturbed'
  BY DEF WorldNext, worldVars, Second, FindLatest, ChooseGeneration, GenerateNewWorld, DownloadWorld,
     CreateUploadURL, UploadWorld, ListWorlds, ExpireListing, DeleteWorld, UploadByUser,
     PruneList, PruneBulk, PruneOne
<1>2. Outlived(k)
  BY <1>1 DEF WorldInv, PruneInv
<1> QED BY <1>2, OutlivedByMany

\* The invariant holds before the first save.
LEMMA WorldStart == WorldInit => WorldInv
BY WorldAssumption, KeyFields DEF WorldInit, WorldInv, WorldTypeOK, KeyInv, PruneInv, PlayStates

-----------------------------------------------------------------------------
(***************************************************************************)
(* The boot storage                                                        *)
(***************************************************************************)

\* Only the job that creates volumes does so, and it has seen that there is none.
VolumeInv ==
    /\ \E v \in Volumes : volumes \subseteq {v}
    /\ job["save"].call # "CreateBootVolume"
    /\ job["create"].call \in {"ListImages", "CreateBootVolume"} => volumes = {}

InClient(j, clients) == job[j].call # "none" /\ job[j].client \in clients

\* A new token is at most a tick old until both halves of it are written, so that the
\* halves of two of them differ by one tick at most; and what a request carries
\* outlasts the step that sends it.
JobTokenInv(j) ==
    /\ InClient(j, {"check", "refresh"}) => job[j].age = 0
    /\ InClient(j, {"token", "expiry"}) => job[j].held + job[j].age = ticks + TokenLife
    /\ InClient(j, {"expiry"}) => job[j].held <= token + 1
    /\ InClient(j, {"send"}) => job[j].held + job[j].age > ticks + 1
TokenInv ==
    /\ expiresAt <= ticks + TokenLife /\ expiresAt <= token + 1
    /\ \A j \in Jobs : JobTokenInv(j)

StorageInv == StorageTypeOK /\ VolumeInv /\ TokenInv

\* What a job in a call to ConoHa holds.
LEMMA JobFields ==
    ASSUME StorageTypeOK, NEW j \in Jobs, job[j].call # "none"
    PROVE  /\ job[j] \in InCall
           /\ job[j].call \in Calls /\ job[j].found \in Found
           /\ job[j].client \in {"check", "refresh", "token", "expiry", "send"}
           /\ job[j].held \in Nat /\ job[j].age \in 0..1
BY DEF StorageTypeOK, InCall, Over

\* What a client's step makes of its job.
LEMMA ClientAtStep ==
    ASSUME StorageTypeOK, NEW j \in Jobs, job[j].call # "none",
           NEW client \in {"check", "refresh", "token", "expiry", "send"}, NEW held \in Nat,
           ClientAt(j, client, held)
    PROVE  /\ job' \in [Jobs -> InCall \cup {Over}]
           /\ \A k \in Jobs : k # j => job'[k] = job[k]
           /\ job'[j].call = job[j].call /\ job'[j].client = client
           /\ job'[j].held = held /\ job'[j].age = 0
<1>1. job[j] \in InCall
  BY JobFields
<1>2. /\ job'[j] = [job[j] EXCEPT !.client = client, !.held = held, !.age = 0]
      /\ \A k \in Jobs : k # j => job'[k] = job[k]
  BY DEF ClientAt, StorageTypeOK
<1>a. job'[j] = [call |-> job[j].call, client |-> client, found |-> job[j].found,
                 held |-> held, age |-> 0]
  BY <1>1, <1>2 DEF InCall
<1>3. /\ job'[j] \in InCall /\ job'[j].call = job[j].call /\ job'[j].client = client
      /\ job'[j].held = held /\ job'[j].age = 0
  BY <1>1, <1>a DEF InCall
<1>4. job' \in [Jobs -> InCall \cup {Over}]
  BY <1>2, <1>3 DEF ClientAt, StorageTypeOK
<1> QED BY <1>2, <1>3, <1>4

\* A job that begins a call holds no token yet.
LEMMA CallStep ==
    ASSUME StorageTypeOK, NEW j \in Jobs, NEW call \in Calls, NEW i \in Found, Call(j, call, i)
    PROVE  /\ job' \in [Jobs -> InCall \cup {Over}]
           /\ \A k \in Jobs : k # j => job'[k] = job[k]
           /\ job'[j].call = call /\ job'[j].client = "check" /\ job'[j].age = 0
<1>1. [call |-> call, client |-> "check", found |-> i, held |-> 0, age |-> 0] \in InCall
  BY DEF InCall
<1> QED BY <1>1 DEF Call, StorageTypeOK

\* A job that ends leaves the others alone.
LEMMA EndStep ==
    ASSUME StorageTypeOK, NEW j \in Jobs, End(j)
    PROVE  /\ job' \in [Jobs -> InCall \cup {Over}]
           /\ \A k \in Jobs : k # j => job'[k] = job[k]
           /\ job'[j].call = "none"
BY DEF End, StorageTypeOK, Over

\* A job goes on to another call or ends, and creates a volume only after the check.
LEMMA GoesOnStep ==
    ASSUME StorageTypeOK, NEW j \in Jobs, NEW i \in Found,
           NEW answered \in {"ListImages", "DeleteImage", "ListVolumes"}, GoesOn(j, answered, i)
    PROVE  \/ End(j)
           \/ \E call \in Calls :
                 /\ Call(j, call, i)
                 /\ call = "CreateBootVolume" => j = "create" /\ answered = "ListImages"
                 /\ call = "ListImages" /\ j = "create" => volumes = {}
<1> DEFINE next == IF j = "save" THEN SaveStorageJob(answered, i) ELSE CreateStorageJob(answered, i)
<1>1. /\ next \in Calls \cup {"none"}
      /\ next = "CreateBootVolume" => j # "save" /\ answered = "ListImages"
      /\ next = "ListImages" /\ j # "save" => volumes = {}
  BY DEF SaveStorageJob, CreateStorageJob, Calls
<1>2. IF next = "none" THEN End(j) ELSE Call(j, next, i)
  BY DEF GoesOn
<1>3. j # "save" => j = "create"
  BY DEF Jobs
<1> HIDE DEF next
<1> QED BY <1>1, <1>2, <1>3 DEF Jobs

\* The answer to a request, or a new turn, leaves the client at its beginning or the
\* job over; the token is as it was.
LEMMA RequestStep ==
    ASSUME StorageInv, NEW j \in Jobs, UNCHANGED <<token, expiresAt, ticks>>,
           End(j) \/ \E call \in Calls, i \in Found : Call(j, call, i)
    PROVE  job' \in [Jobs -> InCall \cup {Over}] /\ TokenInv'
<1>1. /\ job' \in [Jobs -> InCall \cup {Over}]
      /\ \A k \in Jobs : k # j => job'[k] = job[k]
      /\ job'[j].call = "none" \/ (job'[j].client = "check" /\ job'[j].age = 0)
  BY CallStep, EndStep DEF StorageInv
<1>2. ASSUME NEW k \in Jobs PROVE JobTokenInv(k)'
  <2>1. CASE k = j
    BY <1>1, <2>1 DEF JobTokenInv, InClient
  <2>2. CASE k # j
    BY <1>1, <2>2 DEF StorageInv, TokenInv, JobTokenInv, InClient
  <2> QED BY <2>1, <2>2
<1> QED BY <1>1, <1>2 DEF StorageInv, TokenInv

\* Every step of the jobs and the token cache preserves the invariant.
LEMMA StorageStep == StorageInv /\ [StorageNext]_storageVars => StorageInv'
<1> SUFFICES ASSUME StorageInv, [StorageNext]_storageVars PROVE StorageInv'
  OBVIOUS
<1> USE StorageAssumption
<1>0. StorageTypeOK /\ VolumeInv /\ TokenInv
  BY DEF StorageInv
<1>n. token \in Nat /\ expiresAt \in Nat /\ ticks \in Nat
  BY <1>0 DEF StorageTypeOK
\* Steps of the client.
<1> DEFINE Cloud == UNCHANGED <<image, volumes, usedVolumes, ticks>>
<1>client. ASSUME Cloud, token' \in Nat, expiresAt' \in Nat, storageFaults' \in 0..MaxStorageFaults,
                  job' \in [Jobs -> InCall \cup {Over}], TokenInv',
                  \A k \in Jobs : job'[k].call \in {job[k].call, "none"}
           PROVE  StorageInv'
  <2>1. VolumeInv'
    BY <1>0, <1>client DEF VolumeInv, Jobs
  <2> QED BY <1>0, <1>client, <2>1 DEF StorageInv, StorageTypeOK
<1>1. CASE UNCHANGED storageVars
  BY <1>0, <1>1 DEF storageVars, StorageInv, StorageTypeOK, VolumeInv, TokenInv, JobTokenInv, InClient
<1>2. ASSUME NEW j \in Jobs, CheckToken(j) PROVE StorageInv'
  <2>1. Cloud /\ UNCHANGED <<token, expiresAt, storageFaults>> /\ InClient(j, {"check"})
    BY <1>2 DEF CheckToken, InClient
  <2> DEFINE fresh == expiresAt > ticks + Margin
  <2>2. ClientAt(j, IF fresh THEN "send" ELSE "refresh", IF fresh THEN token ELSE 0)
    BY <1>2 DEF CheckToken
  <2>3. /\ job' \in [Jobs -> InCall \cup {Over}]
        /\ \A k \in Jobs : k # j => job'[k] = job[k]
        /\ job'[j].call = job[j].call /\ job'[j].age = 0
        /\ job'[j].client = (IF fresh THEN "send" ELSE "refresh")
        /\ job'[j].held = (IF fresh THEN token ELSE 0)
    BY <1>0, <1>n, <2>1, <2>2, ClientAtStep DEF InClient
  <2>4. JobTokenInv(j)'
    BY <1>0, <1>n, <2>1, <2>3 DEF JobTokenInv, InClient, TokenInv
  <2>5. TokenInv'
    BY <1>0, <2>1, <2>3, <2>4 DEF JobTokenInv, InClient, TokenInv
  <2> QED BY <1>0, <1>n, <1>client, <2>1, <2>3, <2>5 DEF StorageTypeOK
<1>3. ASSUME NEW j \in Jobs, CreateCloudToken(j) PROVE StorageInv'
  <2>1. Cloud /\ UNCHANGED <<token, expiresAt>> /\ job[j].call # "none"
    BY <1>3 DEF CreateCloudToken
  <2>2. CASE ClientAt(j, "token", ticks + TokenLife) /\ UNCHANGED storageFaults
    <3>1. /\ job' \in [Jobs -> InCall \cup {Over}]
          /\ \A k \in Jobs : k # j => job'[k] = job[k]
          /\ job'[j].call = job[j].call /\ job'[j].age = 0
          /\ job'[j].client = "token" /\ job'[j].held = ticks + TokenLife
      BY <1>0, <1>n, <2>1, <2>2, ClientAtStep
    <3>2. JobTokenInv(j)'
      BY <1>n, <2>1, <3>1 DEF JobTokenInv, InClient
    <3>3. TokenInv'
      BY <1>0, <2>1, <3>1, <3>2 DEF JobTokenInv, InClient, TokenInv
    <3> QED BY <1>0, <1>n, <1>client, <2>1, <2>2, <3>1, <3>3 DEF StorageTypeOK
  <2>3. CASE StorageFault /\ End(j)
    <3>1. job' \in [Jobs -> InCall \cup {Over}] /\ TokenInv'
      BY <2>1, <2>3, RequestStep
    <3>2. \A k \in Jobs : job'[k].call \in {job[k].call, "none"}
      BY <1>0, <2>3, EndStep
    <3> QED BY <1>0, <1>n, <1>client, <2>1, <2>3, <3>1, <3>2 DEF StorageTypeOK, StorageFault
  <2> QED BY <1>3, <2>2, <2>3 DEF CreateCloudToken
<1>4. ASSUME NEW j \in Jobs, WriteToken(j) PROVE StorageInv'
  <2>1. Cloud /\ UNCHANGED <<expiresAt, storageFaults>> /\ InClient(j, {"token"}) /\ token' = job[j].held
    BY <1>4 DEF WriteToken, InClient
  <2>2. /\ job[j] \in InCall /\ job[j].held \in Nat /\ job[j].age \in 0..1
        /\ job[j].held + job[j].age = ticks + TokenLife
    BY <1>0, <2>1, JobFields DEF InClient, TokenInv, JobTokenInv
  <2>3. /\ job'[j] = [job[j] EXCEPT !.client = "expiry"]
        /\ \A k \in Jobs : k # j => job'[k] = job[k]
    BY <1>0, <1>4 DEF WriteToken, StorageTypeOK
  <2>4. job'[j] = [call |-> job[j].call, client |-> "expiry", found |-> job[j].found,
                   held |-> job[j].held, age |-> job[j].age]
    BY <2>2, <2>3 DEF InCall
  <2>5. job'[j] \in InCall
    BY <2>2, <2>4 DEF InCall
  <2>6. job' \in [Jobs -> InCall \cup {Over}]
    BY <1>0, <1>4, <2>3, <2>5 DEF WriteToken, StorageTypeOK
  <2>7. ASSUME NEW k \in Jobs PROVE JobTokenInv(k)'
    <3>1. CASE k = j
      BY <1>n, <2>1, <2>2, <2>4, <3>1 DEF JobTokenInv, InClient
    <3>2. CASE k # j
      <4>1. job'[k] = job[k] /\ JobTokenInv(k)
        BY <1>0, <2>3, <3>2 DEF TokenInv
      <4>2. InClient(k, {"expiry"}) => job[k].held \in Nat /\ job[k].age \in 0..1
        BY <1>0, JobFields DEF InClient
      <4>3. InClient(k, {"expiry"}) => job[k].held <= token' + 1
        BY <1>n, <2>1, <2>2, <4>1, <4>2 DEF JobTokenInv, InClient
      <4> QED BY <2>1, <4>1, <4>3 DEF JobTokenInv, InClient
    <3> QED BY <3>1, <3>2
  <2>8. expiresAt' <= ticks' + TokenLife /\ expiresAt' <= token' + 1
    BY <1>0, <1>n, <2>1, <2>2 DEF TokenInv
  <2>9. TokenInv'
    BY <2>7, <2>8 DEF TokenInv
  <2> QED BY <1>0, <1>n, <1>client, <2>1, <2>2, <2>3, <2>4, <2>6, <2>9 DEF StorageTypeOK
<1>5. ASSUME NEW j \in Jobs, WriteExpiry(j) PROVE StorageInv'
  <2>1. /\ Cloud /\ UNCHANGED <<token, storageFaults>> /\ InClient(j, {"expiry"})
        /\ expiresAt' = job[j].held /\ ClientAt(j, "send", token)
    BY <1>5 DEF WriteExpiry, InClient
  <2>2. /\ job[j].held \in Nat /\ job[j].age \in 0..1
        /\ job[j].held + job[j].age = ticks + TokenLife /\ job[j].held <= token + 1
    BY <1>0, <2>1, JobFields DEF InClient, TokenInv, JobTokenInv
  <2>3. /\ job' \in [Jobs -> InCall \cup {Over}]
        /\ \A k \in Jobs : k # j => job'[k] = job[k]
        /\ job'[j].call = job[j].call /\ job'[j].age = 0
        /\ job'[j].client = "send" /\ job'[j].held = token
    BY <1>0, <1>n, <2>1, ClientAtStep DEF InClient
  <2>4. JobTokenInv(j)'
    BY <1>n, <2>1, <2>2, <2>3 DEF JobTokenInv, InClient
  <2>5. expiresAt' <= ticks' + TokenLife /\ expiresAt' <= token' + 1
    BY <1>n, <2>1, <2>2
  <2>6. TokenInv'
    BY <1>0, <2>1, <2>3, <2>4, <2>5 DEF JobTokenInv, InClient, TokenInv
  <2> QED BY <1>0, <1>n, <1>client, <2>1, <2>2, <2>3, <2>6 DEF StorageTypeOK
<1>6. CASE Restart
  <2>1. \A k \in Jobs : job'[k] = Over /\ job'[k].call = "none"
    BY <1>6 DEF Restart, Over
  <2>2. TokenInv'
    BY <1>n, <1>6, <2>1 DEF Restart, TokenInv, JobTokenInv, InClient
  <2>3. /\ Cloud /\ token' \in Nat /\ expiresAt' \in Nat
        /\ storageFaults' \in 0..MaxStorageFaults /\ job' \in [Jobs -> InCall \cup {Over}]
    BY <1>0, <1>6 DEF Restart, StorageTypeOK, StorageFault
  <2> QED BY <1>client, <2>1, <2>2, <2>3
<1>7. CASE ClockTick
  <2>1. UNCHANGED <<image, volumes, usedVolumes, token, expiresAt, storageFaults>> /\ ticks' = ticks + 1
        /\ ticks' \in 0..MaxTicks
    BY <1>0, <1>7 DEF ClockTick, StorageTypeOK
  <2>2. ASSUME NEW k \in Jobs
        PROVE /\ job'[k] \in InCall \cup {Over} /\ job'[k].call = job[k].call
              /\ JobTokenInv(k)'
    <3>1. CASE InClient(k, {"token", "expiry", "send"})
      <4>1. job[k] \in InCall /\ job[k].held \in Nat /\ job[k].age = 0
        BY <1>0, <1>7, <3>1, JobFields DEF InClient, ClockTick
      <4>2. job'[k] = [job[k] EXCEPT !.age = 1]
        BY <1>7, <3>1 DEF ClockTick, InClient
      <4>3. job'[k] = [call |-> job[k].call, client |-> job[k].client, found |-> job[k].found,
                       held |-> job[k].held, age |-> 1]
        BY <4>1, <4>2 DEF InCall
      <4>4. job'[k] \in InCall
        BY <4>1, <4>3 DEF InCall
      <4>5. JobTokenInv(k)
        BY <1>0 DEF TokenInv
      <4>6. JobTokenInv(k)'
        BY <1>n, <2>1, <3>1, <4>1, <4>3, <4>5 DEF JobTokenInv, InClient
      <4> QED BY <4>3, <4>4, <4>6
    <3>2. CASE ~InClient(k, {"token", "expiry", "send"})
      <4>1. job'[k] = job[k]
        BY <1>7, <3>2 DEF ClockTick, InClient
      <4>2. JobTokenInv(k)'
        BY <1>0, <3>2, <4>1 DEF JobTokenInv, InClient, TokenInv
      <4> QED BY <1>0, <4>1, <4>2 DEF StorageTypeOK
    <3> QED BY <3>1, <3>2
  <2>3. job' \in [Jobs -> InCall \cup {Over}]
    BY <1>7, <2>2 DEF ClockTick
  <2>4. TokenInv'
    BY <1>0, <1>n, <2>1, <2>2 DEF TokenInv
  <2>5. VolumeInv'
    BY <1>0, <2>1, <2>2 DEF VolumeInv, Jobs
  <2> QED BY <1>0, <2>1, <2>3, <2>4, <2>5 DEF StorageInv, StorageTypeOK
\* What the cloud does.
<1>8. CASE ImageSaved
  BY <1>0, <1>8 DEF ImageSaved, StorageInv, StorageTypeOK, VolumeInv, TokenInv, JobTokenInv, InClient
<1>9. CASE VolumeDeleted
  BY <1>0, <1>9 DEF VolumeDeleted, StorageInv, StorageTypeOK, VolumeInv, TokenInv, JobTokenInv, InClient
\* Requests.
<1> DEFINE Requested(j) ==
        /\ UNCHANGED <<token, expiresAt, ticks>> /\ storageFaults' \in 0..MaxStorageFaults
        /\ \/ End(j)
           \/ \E call \in Calls, i \in Found :
                 /\ Call(j, call, i)
                 /\ call = "CreateBootVolume" => j = "create" /\ job[j].call = "ListImages"
                 /\ call = "ListImages" /\ j = "create" => volumes = {}
<1>request. ASSUME NEW j \in Jobs, Requested(j), UNCHANGED <<volumes, usedVolumes>>,
                   image' \in [Images -> {"none", "saving", "active", "deleted"}]
            PROVE  StorageInv'
  <2>1. job' \in [Jobs -> InCall \cup {Over}] /\ TokenInv'
    BY <1>request, RequestStep
  <2>2. /\ \A k \in Jobs : k # j => job'[k] = job[k]
        /\ job'[j].call = "CreateBootVolume" => j = "create" /\ volumes = {}
        /\ job'[j].call = "ListImages" /\ j = "create" => volumes = {}
    BY <1>0, <1>request, CallStep, EndStep DEF VolumeInv
  <2>3. VolumeInv'
    BY <1>0, <1>request, <2>2 DEF VolumeInv, Jobs
  <2> QED BY <1>0, <1>request, <2>1, <2>3 DEF StorageInv, StorageTypeOK
<1>fault. ASSUME UNCHANGED storageFaults \/ StorageFault PROVE storageFaults' \in 0..MaxStorageFaults
  BY <1>0, <1>fault DEF StorageFault, StorageTypeOK
<1>10. ASSUME NEW j \in Jobs, Start(j) PROVE StorageInv'
  <2> DEFINE call == IF j = "save" THEN "ListImages" ELSE "ListVolumes"
  <2>1. call \in Calls /\ NoImage \in Found /\ Call(j, call, NoImage) /\ (j = "create" => call # "ListImages") /\ call # "CreateBootVolume"
    BY <1>10 DEF Start, Calls, Found
  <2> HIDE DEF call
  <2>2. UNCHANGED <<image, volumes, usedVolumes, token, expiresAt, ticks, storageFaults>>
    BY <1>10 DEF Start
  <2>3. Requested(j)
    BY <1>fault, <2>1, <2>2
  <2> QED BY <1>0, <1>request, <2>2, <2>3 DEF StorageTypeOK
<1>11. ASSUME NEW j \in Jobs, ListImages(j) PROVE StorageInv'
  <2>1. /\ UNCHANGED <<image, volumes, usedVolumes, token, expiresAt, ticks>>
        /\ job[j].call = "ListImages"
        /\ UNCHANGED storageFaults \/ StorageFault
        /\ End(j) \/ \E i \in Found : GoesOn(j, "ListImages", i)
    BY <1>11 DEF ListImages, Sending, Fails, Found, Existing
  <2>2. Requested(j)
    BY <1>0, <1>fault, <2>1, GoesOnStep
  <2> QED BY <1>0, <1>request, <2>1, <2>2 DEF StorageTypeOK
<1>12. ASSUME NEW j \in Jobs, ListVolumes(j) PROVE StorageInv'
  <2>1. /\ UNCHANGED <<image, volumes, usedVolumes, token, expiresAt, ticks>>
        /\ UNCHANGED storageFaults \/ StorageFault
        /\ End(j) \/ GoesOn(j, "ListVolumes", NoImage)
        /\ NoImage \in Found
    BY <1>12 DEF ListVolumes, Fails, Found
  <2>2. Requested(j)
    BY <1>0, <1>fault, <2>1, GoesOnStep
  <2> QED BY <1>0, <1>request, <2>1, <2>2 DEF StorageTypeOK
<1>13. ASSUME NEW j \in Jobs, DeleteImage(j) PROVE StorageInv'
  <2>1. /\ UNCHANGED <<volumes, usedVolumes, token, expiresAt, ticks>>
        /\ UNCHANGED storageFaults \/ StorageFault
        /\ End(j) \/ GoesOn(j, "DeleteImage", NoImage)
        /\ NoImage \in Found
    BY <1>13 DEF DeleteImage, Fails, Found
  <2>2. Requested(j)
    BY <1>0, <1>fault, <2>1, GoesOnStep
  <2>3. image' \in [Images -> {"none", "saving", "active", "deleted"}]
    <3>1. image' \in {image, [image EXCEPT ![job[j].found] = "deleted"]}
      BY <1>13 DEF DeleteImage
    <3> QED BY <1>0, <3>1 DEF StorageTypeOK
  <2> QED BY <1>request, <2>1, <2>2, <2>3
<1>14. ASSUME NEW j \in Jobs, SaveVolumeImage(j) PROVE StorageInv'
  <2>1. /\ UNCHANGED <<volumes, usedVolumes, token, expiresAt, ticks>>
        /\ UNCHANGED storageFaults \/ StorageFault
        /\ End(j)
        /\ UNCHANGED image \/ \E i \in NewImage : image' = [image EXCEPT ![i] = "saving"]
    BY <1>14 DEF SaveVolumeImage, Fails
  <2>2. image' \in [Images -> {"none", "saving", "active", "deleted"}]
    BY <1>0, <2>1 DEF StorageTypeOK
  <2> QED BY <1>fault, <1>request, <2>1, <2>2
<1>15. ASSUME NEW j \in Jobs, CreateBootVolume(j) PROVE StorageInv'
  <2>1. /\ UNCHANGED <<image, token, expiresAt, ticks>>
        /\ UNCHANGED storageFaults \/ StorageFault
        /\ job[j].call = "CreateBootVolume" /\ End(j)
        /\ \/ UNCHANGED <<volumes, usedVolumes>>
           \/ \E v \in Volumes \ usedVolumes :
                volumes' = volumes \cup {v} /\ usedVolumes' = usedVolumes \cup {v}
    BY <1>15 DEF CreateBootVolume, Fails, Sending
  <2>2. j = "create" /\ volumes = {}
    BY <1>0, <2>1 DEF VolumeInv, Jobs
  <2>3. CASE UNCHANGED <<volumes, usedVolumes>>
    BY <1>0, <1>fault, <1>request, <2>1, <2>3 DEF StorageTypeOK
  <2>4. ASSUME NEW v \in Volumes, volumes' = {v}, usedVolumes' = usedVolumes \cup {v} PROVE StorageInv'
    <3>1. job' \in [Jobs -> InCall \cup {Over}] /\ TokenInv'
      BY <2>1, RequestStep
    <3>2. job'["create"].call = "none" /\ job'["save"] = job["save"]
      <4>1. job'[j].call = "none" /\ \A k \in Jobs : k # j => job'[k] = job[k]
        BY <1>0, <2>1, EndStep
      <4> QED BY <2>2, <4>1 DEF Jobs
    <3>3. VolumeInv'
      BY <1>0, <2>4, <3>2 DEF VolumeInv, Jobs
    <3> QED BY <1>0, <1>fault, <2>1, <2>4, <3>1, <3>3 DEF StorageInv, StorageTypeOK
  <2> QED BY <2>1, <2>2, <2>3, <2>4
<1> QED
  BY <1>1, <1>2, <1>3, <1>4, <1>5, <1>6, <1>7, <1>8, <1>9, <1>10, <1>11, <1>12, <1>13, <1>14, <1>15
  DEF StorageNext

\* The invariant holds before the first job.
LEMMA StorageStart == StorageInit => StorageInv
<1> SUFFICES ASSUME StorageInit PROVE StorageInv
  OBVIOUS
<1> USE StorageAssumption
<1>1. \A j \in Jobs : job[j] = Over /\ job[j].call = "none"
  BY DEF StorageInit, Over
<1>2. TokenInv
  BY <1>1 DEF StorageInit, TokenInv, JobTokenInv, InClient
<1>3. VolumeInv
  <2>1. (CHOOSE v \in Volumes : TRUE) \in Volumes
    OBVIOUS
  <2> QED BY <1>1, <2>1 DEF StorageInit, VolumeInv, Jobs
<1>4. StorageTypeOK
  <2>1. (CHOOSE v \in Volumes : TRUE) \in Volumes
    OBVIOUS
  <2> QED BY <2>1 DEF StorageInit, StorageTypeOK
<1> QED BY <1>2, <1>3, <1>4 DEF StorageInv

\* The invariant says that there is one volume and that tokens are live.
LEMMA StorageSafe == StorageInv => AtMostOneVolume /\ CallsCarryLiveToken
<1> SUFFICES ASSUME StorageInv PROVE AtMostOneVolume /\ CallsCarryLiveToken
  OBVIOUS
<1>1. AtMostOneVolume
  <2> PICK v \in Volumes : volumes \subseteq {v}
    BY DEF StorageInv, VolumeInv
  <2>1. IsFiniteSet({v}) /\ Cardinality({v}) = 1
    BY FS_Singleton
  <2>2. Cardinality(volumes) <= Cardinality({v})
    BY <2>1, FS_Subset
  <2> QED BY <2>1, <2>2 DEF AtMostOneVolume
<1>2. CallsCarryLiveToken
  <2> SUFFICES ASSUME NEW j \in Jobs, job[j].call # "none", job[j].client = "send"
               PROVE  job[j].held > ticks
    BY DEF CallsCarryLiveToken
  <2>1. job[j].held \in Nat /\ job[j].age \in 0..1 /\ ticks \in 0..MaxTicks
    BY JobFields DEF StorageInv, StorageTypeOK
  <2>2. job[j].held + job[j].age > ticks + 1
    BY DEF StorageInv, TokenInv, JobTokenInv, InClient
  <2> QED BY <2>1, <2>2, StorageAssumption
<1> QED BY <1>1, <1>2

-----------------------------------------------------------------------------
(***************************************************************************)
(* The control plane                                                       *)
(***************************************************************************)

controlVars == <<part, configVars, accountVars, worldVars, storageVars>>

ControlInv == ConfigInv /\ AccountsInv /\ WorldInv /\ StorageInv

\* The four parts begin in their invariants.
LEMMA ControlStart == Init => ControlInv
BY ConfigStart, AccountsStart, WorldStart, StorageStart DEF Init, ControlInv

\* A step of the system is a step of each part, or leaves it alone.
LEMMA PartSteps ==
    [Next]_controlVars =>
        /\ [ConfigNext]_configVars /\ [AccountsNext]_accountVars
        /\ [WorldNext]_worldVars /\ [StorageNext]_storageVars
BY DEF Next, controlVars

\* A step of one part leaves the others alone.
LEMMA ControlStep == ControlInv /\ [Next]_controlVars => ControlInv'
BY PartSteps, ConfigStep, AccountsStep, WorldStep, StorageStep DEF ControlInv

\* The invariants of the four parts hold together.
LEMMA ControlSafe == Spec => []ControlInv
BY ControlStart, ControlStep, PTL DEF Spec, controlVars

\* The variables of the pending configuration, the accounts, the bucket and the boot
\* storage keep their types through every request, job, expiry and failing call.
THEOREM TypeCorrect == Spec => []TypeOK
<1>1. ControlInv => TypeOK
  BY DEF ControlInv, ConfigInv, AccountsInv, WorldInv, StorageInv, TypeOK
<1> QED BY <1>1, ControlSafe, PTL

\* What PUT /config stores never makes the next launch panic, and what it answered to
\* be valid converts, with its world source, whatever other editors, expiries of the key
\* and failing calls came between.
THEOREM ValidConfigurations == Spec => []ValidConfigLaunches
<1>1. ControlInv => ValidConfigLaunches
  BY DEF ControlInv, ConfigInv
<1> QED BY <1>1, ControlSafe, PTL

\* A user counts as initialized only with a password of their own, and no session gets
\* a token before its user was initialized, however logins, the reset page and pmctl
\* interleave on the same row.
THEOREM PasswordReplacedFirst == Spec => []OwnPasswordFirst
<1>1. ControlInv => OwnPasswordFirst
  BY DEF ControlInv, AccountsInv
<1> QED BY <1>1, ControlSafe, PTL

\* The jobs of the boot image leave at most one volume, though creating one races with
\* deleting it, and every call they send carries a token that has not expired.
THEOREM BootStorageSafe == Spec => [](AtMostOneVolume /\ CallsCarryLiveToken)
<1>1. ControlInv => AtMostOneVolume /\ CallsCarryLiveToken
  BY StorageSafe DEF ControlInv
<1> QED BY <1>1, ControlSafe, PTL

\* However late Prune deletes what it has listed, the generation it deletes is not among
\* the Preserve newest of its world, uploads of runners in the meantime included, unless
\* users changed that world since.
THEOREM PruningSpares == Spec => PruneSparesNewest
<1> DEFINE Spares ==
        prune.at # "idle" =>
            \A k \in prune.keys :
                (bucket[k] # 0 /\ bucket'[k] = 0 /\ k.world \notin disturbed') =>
                    Cardinality({other \in ListObjects(k.world) \ {k} : bucket[other] >= bucket[k]})
                        >= Preserve
<1>1. ControlInv /\ [Next]_controlVars => [Spares]_worldVars
  BY PartSteps, PruneStep DEF ControlInv
<1> QED BY <1>1, ControlSafe, PTL DEF Spec, controlVars, PruneSparesNewest
=============================================================================
