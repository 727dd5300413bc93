--------------------------- MODULE SchedulerProofs ---------------------------
(***************************************************************************)
(* What runs beside the requests, and the accounts the requests are made   *)
(* for: the modules of the scheduled_jobs run.                             *)
(*                                                                         *)
(* Accounts, for any number of users, service accounts, tokens,            *)
(* environments and requests at a time: a token is bounded by its owner    *)
(* and by the scope it was made with.  And requests that are handled one   *)
(* after the other leave an admin.                                         *)
(*                                                                         *)
(* HealthAlerts, for every threshold and cooldown: alerts are due, spaced  *)
(* and answered by at most one recovery.  AgentStatus, for every interval, *)
(* window and threshold: an agent that pushes on schedule is not marked.   *)
(* BackupRuns, for any number of backups: a completed backup has its file. *)
(***************************************************************************)
EXTENDS Accounts, HealthAlerts, AgentStatus, BackupRuns, SequenceTheorems, TLAPS

TokenRecords == [owner : Owners \cup {None}, role : 0 .. 3, all : BOOLEAN, envs : SUBSET Environments]

RequestRecords ==
    [pc : {"idle", "handle", "insert", "register"}, who : Owners \cup {None},
     token : Tokens \cup {None}, role : 0 .. 3, op : Ops \cup {<<"none">>}]

WorkRecords == Tokens \X {"work", "plan"} \X Environments \X Environments

Types ==
    /\ role \in [Owners -> 0 .. 3]
    /\ token \in [Tokens -> TokenRecords]
    /\ request \in [Requests -> RequestRecords]
    /\ granted \in [Tokens -> SUBSET Environments]
    /\ worked \subseteq WorkRecords

\* What a request is about depends on where it is.
Places ==
    \A r \in Requests :
        /\ request[r].pc = "idle" => request[r].token = None
        /\ request[r].pc \in {"handle", "insert"} => request[r].op \in Ops
        /\ request[r].pc = "insert" => request[r].op[1] = "createToken"
        /\ request[r].pc = "register" => request[r].who \in Users

\* The scope of a token can only shrink, and the route on which a change is about
\* to be made with a token was in the scope the token was made with.
Scopes ==
    /\ \A t \in Tokens :
         /\ token[t].all => granted[t] = Environments
         /\ token[t].envs \subseteq granted[t]
    /\ \A r \in Requests :
         request[r].pc = "handle" /\ request[r].op[1] \in {"work", "plan"} /\ request[r].token # None =>
             request[r].op[2] \in granted[request[r].token]

\* The inductive invariant of the tokens.
TokenInv == Types /\ Places /\ OwnersExist /\ Scopes /\ WorkInScope

-----------------------------------------------------------------------------
(* The requests. *)

\* What a request of each kind carries.
LEMMA OpShapes ==
    ASSUME NEW op \in Ops
    PROVE  /\ op # <<"none">>
           /\ op[1] \in {"work", "plan", "createOwner", "setRole", "deleteOwner", "disable",
                         "createToken", "revoke", "deleteEnvironment"}
           /\ op[1] \in {"work", "plan", "deleteEnvironment"} => op[2] \in Environments
           /\ op[1] \in {"work", "plan"} => op[3] \in Environments
           /\ op[1] \in {"createOwner", "setRole"} => op[2] \in Owners /\ op[3] \in 1 .. 3
           /\ op[1] = "deleteOwner" => op[2] \in Owners
           /\ op[1] = "disable" => op[2] \in ServiceAccounts
           /\ op[1] = "createToken" =>
                /\ op[2] \in Tokens /\ op[3] \in Owners /\ op[4] \in 1 .. 3
                /\ op[5] \in SUBSET (Environments \cup {None})
           /\ op[1] = "revoke" => op[2] \in Tokens
<1>1. CASE op \in {<<"work", e, target>> : e \in Environments, target \in Environments} BY <1>1
<1>9. CASE op \in {<<"plan", e, target>> : e \in Environments, target \in Environments} BY <1>9
<1>2. CASE op \in {<<"createOwner", o, k>> : o \in Owners, k \in Roles}
    BY <1>2 DEF Roles, Viewer, Admin
<1>3. CASE op \in {<<"setRole", o, k>> : o \in Owners, k \in Roles}
    BY <1>3 DEF Roles, Viewer, Admin
<1>4. CASE op \in {<<"deleteOwner", o>> : o \in Owners} BY <1>4
<1>5. CASE op \in {<<"disable", a>> : a \in ServiceAccounts} BY <1>5
<1>6. CASE op \in {<<"createToken", t, o, k, envs>> : t \in Tokens, o \in Owners, k \in Roles,
                                envs \in {{e} : e \in Environments \cup {None}}}
    <2>1. PICK t \in Tokens, o \in Owners, k \in Roles, envs \in {{e} : e \in Environments \cup {None}} :
              op = <<"createToken", t, o, k, envs>>
        BY <1>6
    <2>2. envs \in SUBSET (Environments \cup {None})
        OBVIOUS
    <2> QED BY <2>1, <2>2 DEF Roles, Viewer, Admin
<1>7. CASE op \in {<<"revoke", t>> : t \in Tokens} BY <1>7
<1>8. CASE op \in {<<"deleteEnvironment", e>> : e \in Environments} BY <1>8
<1> QED BY <1>1, <1>2, <1>3, <1>4, <1>5, <1>6, <1>7, <1>8, <1>9 DEF Ops

\* Nobody is there at the start.
LEMMA TokenInvInit == Init => TokenInv
<1> SUFFICES ASSUME Init PROVE TokenInv
    OBVIOUS
<1>1. NoToken \in TokenRecords BY DEF NoToken, TokenRecords
<1>2. NoRequest \in RequestRecords BY DEF NoRequest, RequestRecords
<1>3. Types BY <1>1, <1>2 DEF Init, Types
<1>4. Places BY DEF Init, Places, NoRequest
<1>5. OwnersExist BY DEF Init, OwnersExist, NoToken
<1>6. Scopes BY DEF Init, Scopes, NoToken, NoRequest
<1>7. WorkInScope BY DEF Init, WorkInScope
<1> QED BY <1>3, <1>4, <1>5, <1>6, <1>7 DEF TokenInv

-----------------------------------------------------------------------------
(* Authentication. *)

\* The lower of two roles is below both.
LEMMA LowerIsLower ==
    ASSUME NEW a \in 0 .. 3, NEW b \in 0 .. 3
    PROVE  Lower(a, b) \in 0 .. 3 /\ Lower(a, b) <= a /\ Lower(a, b) <= b
BY DEF Lower

\* The role of a token is a role, below that of its owner.
LEMMA RoleOfToken ==
    ASSUME Types, NEW t \in Tokens, Valid(t), token[t].owner \in Owners
    PROVE  EffectiveRole(t) \in 0 .. 3 /\ EffectiveRole(t) <= role[token[t].owner]
<1>1. PICK a \in 0 .. 3 : a = token[t].role BY DEF Types, TokenRecords
<1>2. PICK b \in 0 .. 3 : b = role[token[t].owner] BY DEF Types
<1> QED BY <1>1, <1>2, LowerIsLower DEF EffectiveRole

\* The owner of a token that is valid.
LEMMA OwnerOfToken ==
    ASSUME Types, NEW t \in Tokens, Valid(t)
    PROVE  token[t].owner \in Owners
BY DEF Types, TokenRecords, Valid

\* An authenticated request, given that it is in the scope of its token.
LEMMA BeginStep ==
    ASSUME TokenInv, NEW r \in Requests, NEW who \in Owners, NEW t \in Tokens \cup {None},
           NEW k \in 0 .. 3, NEW op \in Ops, Begin(r, who, t, k, op),
           op[1] \in {"work", "plan"} /\ t # None => op[2] \in granted[t]
    PROVE  TokenInv'
<1> DEFINE q == [pc |-> "handle", who |-> who, token |-> t, role |-> k, op |-> op]
<1>1. q \in RequestRecords BY DEF RequestRecords
<1>2. request \in [Requests -> RequestRecords] /\ request' = [request EXCEPT ![r] = q]
    BY DEF TokenInv, Types, Begin
<1> HIDE DEF q
<1>3. request' \in [Requests -> RequestRecords] BY <1>1, <1>2
<1>4. request'[r] = q /\ \A s \in Requests : s # r => request'[s] = request[s] BY <1>2
<1>5. q.pc = "handle" /\ q.op = op /\ q.token = t BY DEF q
<1>6. /\ role' = role /\ token' = token /\ granted' = granted /\ worked' = worked
    BY DEF Begin, accounts, history
<1>7. Types' BY <1>3, <1>6 DEF TokenInv, Types
<1>8. Places' BY <1>4, <1>5 DEF TokenInv, Places
<1>9. OwnersExist' BY <1>6 DEF TokenInv, OwnersExist
<1>10. Scopes'
    <2>1. ASSUME NEW s \in Requests, request'[s].pc = "handle",
                 request'[s].op[1] \in {"work", "plan"}, request'[s].token # None
          PROVE  request'[s].op[2] \in granted[request'[s].token]
        <3>1. CASE s = r
            <4>1. request'[s] = q BY <3>1, <1>4
            <4> QED BY <4>1, <2>1, <1>5
        <3>2. CASE s # r
            <4>1. request'[s] = request[s] BY <3>2, <1>4
            <4> QED BY <4>1, <2>1 DEF TokenInv, Scopes
        <3> QED BY <3>1, <3>2
    <2> QED BY <2>1, <1>6 DEF TokenInv, Scopes
<1>11. WorkInScope' BY <1>6 DEF TokenInv, WorkInScope
<1> QED BY <1>7, <1>8, <1>9, <1>10, <1>11 DEF TokenInv

\* A session.
LEMMA SessionStep ==
    ASSUME TokenInv, NEW r \in Requests, NEW u \in Users, NEW op \in Ops, AuthenticateSession(r, u, op)
    PROVE  TokenInv'
<1>1. PICK k \in 0 .. 3 : k = role[u] BY DEF TokenInv, Types, Owners
<1> QED BY <1>1, BeginStep DEF AuthenticateSession, Owners

\* A token.
LEMMA TokenStep ==
    ASSUME TokenInv, NEW r \in Requests, NEW t \in Tokens, NEW op \in Ops, AuthenticateToken(r, t, op)
    PROVE  TokenInv'
<1>1. Valid(t) BY DEF AuthenticateToken
<1>2. PICK o \in Owners : o = token[t].owner BY <1>1, OwnerOfToken DEF TokenInv
<1>3. PICK k \in 0 .. 3 : k = EffectiveRole(t) BY <1>1, <1>2, RoleOfToken DEF TokenInv
<1>4. Begin(r, o, t, k, op) BY <1>2, <1>3 DEF AuthenticateToken
<1>5. ASSUME op[1] \in {"work", "plan"} PROVE op[2] \in granted[t]
    <2>1. op[2] \in Environments /\ EnvironmentOf(op) = op[2]
        BY <1>5, OpShapes DEF EnvironmentOf
    <2>2. token[t].all \/ op[2] \in token[t].envs
        BY <2>1 DEF AuthenticateToken, InScope
    <2> QED BY <2>1, <2>2 DEF TokenInv, Scopes
<1> QED BY <1>4, <1>5, BeginStep

-----------------------------------------------------------------------------
(* Handlers.  A request that has been answered, or whose place in its handler *)
(* changes, leaves the others alone.                                       *)

\* The end of a handler that has not made the owners, the scopes or the work
\* of tokens wrong.
LEMMA DoneStep ==
    ASSUME TokenInv, NEW r \in Requests, Done(r),
           role' \in [Owners -> 0 .. 3], token' \in [Tokens -> TokenRecords],
           granted' \in [Tokens -> SUBSET Environments], worked' \subseteq WorkRecords,
           OwnersExist', WorkInScope',
           \A t \in Tokens :
             /\ granted[t] # {} => granted'[t] = granted[t]
             /\ token'[t].all => granted'[t] = Environments
             /\ token'[t].envs \subseteq granted'[t]
    PROVE  TokenInv'
<1>1. NoRequest \in RequestRecords BY DEF NoRequest, RequestRecords
<1>2. request \in [Requests -> RequestRecords] /\ request' = [request EXCEPT ![r] = NoRequest]
    BY DEF TokenInv, Types, Done
<1>3. request' \in [Requests -> RequestRecords] BY <1>1, <1>2
<1>4. request'[r] = NoRequest /\ \A s \in Requests : s # r => request'[s] = request[s] BY <1>2
<1>5. NoRequest.pc = "idle" /\ NoRequest.token = None BY DEF NoRequest
<1>6. Types' BY <1>3 DEF Types
<1>7. Places' BY <1>4, <1>5 DEF TokenInv, Places
<1>8. Scopes'
    <2>1. ASSUME NEW s \in Requests, request'[s].pc = "handle", request'[s].op[1] \in {"work", "plan"},
                 request'[s].token # None
          PROVE  request'[s].op[2] \in granted'[request'[s].token]
        <3>1. request'[s] = request[s] BY <2>1, <1>4, <1>5
        <3>2. request[s].token \in Tokens /\ request[s].op[2] \in granted[request[s].token]
            BY <3>1, <2>1, <1>2 DEF TokenInv, Scopes, RequestRecords
        <3> QED BY <3>1, <3>2
    <2> QED BY <2>1 DEF Scopes
<1> QED BY <1>6, <1>7, <1>8 DEF TokenInv

\* What a handler that changes neither tokens nor their work has to show.
LEMMA DoneRoles ==
    ASSUME TokenInv, NEW r \in Requests, Done(r), UNCHANGED <<token, granted, worked>>,
           role' \in [Owners -> 0 .. 3], \A o \in Owners : role[o] # 0 => role'[o] # 0
    PROVE  TokenInv'
<1>1. OwnersExist' BY DEF TokenInv, OwnersExist, Types, TokenRecords
<1>2. WorkInScope' BY DEF TokenInv, WorkInScope
<1>3. \A t \in Tokens :
             /\ granted[t] # {} => granted'[t] = granted[t]
             /\ token'[t].all => granted'[t] = Environments
             /\ token'[t].envs \subseteq granted'[t]
    BY DEF TokenInv, Scopes
<1> QED BY <1>1, <1>2, <1>3, DoneStep DEF TokenInv, Types

\* Handlers that write roles or nothing.
LEMMA RoleSteps ==
    ASSUME TokenInv, NEW r \in Requests,
           CreateOwner(r) \/ SetRole(r) \/ Disable(r) \/ RegisterCreate(r)
    PROVE  TokenInv'
<1>1. PICK op : op = request[r].op OBVIOUS
<1>2. request[r].pc = "handle" => op \in Ops BY <1>1 DEF TokenInv, Places
<1>3. role \in [Owners -> 0 .. 3] BY DEF TokenInv, Types
<1>4. CASE CreateOwner(r)
    <2>1. op[2] \in Owners /\ op[3] \in 1 .. 3
        BY <1>1, <1>2, <1>4, OpShapes DEF CreateOwner, Handling
    <2>2. role' = [role EXCEPT ![op[2]] = IF @ = 0 THEN op[3] ELSE @]
        BY <1>1, <1>4 DEF CreateOwner, Arg
    <2>3. role' \in [Owners -> 0 .. 3] /\ \A o \in Owners : role[o] # 0 => role'[o] # 0
        BY <2>1, <2>2, <1>3
    <2> QED BY <2>3, <1>4, DoneRoles DEF CreateOwner
<1>5. CASE SetRole(r)
    <2>1. op[2] \in Owners /\ op[3] \in 1 .. 3
        BY <1>1, <1>2, <1>5, OpShapes DEF SetRole, Handling
    <2>2. role' = [role EXCEPT ![op[2]] = IF @ = 0 THEN @ ELSE op[3]]
        BY <1>1, <1>5 DEF SetRole, Arg
    <2>3. role' \in [Owners -> 0 .. 3] /\ \A o \in Owners : role[o] # 0 => role'[o] # 0
        BY <2>1, <2>2, <1>3
    <2> QED BY <2>3, <1>5, DoneRoles DEF SetRole
<1>6. CASE Disable(r)
    BY <1>3, <1>6, DoneRoles DEF Disable, history
<1>7. CASE RegisterCreate(r)
    <2>1. PICK u \in Owners : u = request[r].who
        BY <1>7 DEF RegisterCreate, TokenInv, Places, Owners
    <2>3. role' = [role EXCEPT ![u] = IF @ = 0 THEN 3 ELSE @]
        BY <1>7, <2>1 DEF RegisterCreate, Admin
    <2>2. role' \in [Owners -> 0 .. 3] /\ \A o \in Owners : role[o] # 0 => role'[o] # 0
        BY <2>3, <1>3
    <2> QED BY <2>2, <1>7, DoneRoles DEF RegisterCreate, history
<1> QED BY <1>4, <1>5, <1>6, <1>7

\* A change made with a token: on the route of its scope, and what is looked for
\* in the environment of the route is there.
LEMMA WorkStep ==
    ASSUME TokenInv, NEW r \in Requests, Work(r) \/ DeployPlan(r)
    PROVE  TokenInv'
<1>1. PICK op \in Ops : op = request[r].op BY DEF Work, DeployPlan, Handling, TokenInv, Places
<1>2. op[1] \in {"work", "plan"} /\ op[2] \in Environments /\ op[3] \in Environments
    BY <1>1, OpShapes DEF Work, DeployPlan, Handling
<1>3. PICK t \in Tokens \cup {None} : t = request[r].token BY DEF TokenInv, Types, RequestRecords
<1>4. t # None => op[2] \in granted[t]
    BY <1>1, <1>2, <1>3 DEF Work, DeployPlan, Handling, TokenInv, Scopes
<1>12. PICK w : w = <<t, op[1], op[2], op[3]>> OBVIOUS
<1>5. \/ worked' = worked
      \/ t # None /\ worked' = worked \cup {w} /\ (op[1] = "plan" \/ op[2] = op[3])
    BY <1>1, <1>3, <1>12 DEF Work, DeployPlan, Handling, Effect, Arg
<1>13. t # None => w \in WorkRecords BY <1>2, <1>3, <1>12 DEF WorkRecords
<1>14. w[1] = t /\ w[2] = op[1] /\ w[3] = op[2] /\ w[4] = op[3] BY <1>12
<1>6. worked' \subseteq WorkRecords
    BY <1>5, <1>13 DEF TokenInv, Types
<1>7. granted' = granted /\ token' = token /\ role' = role /\ Done(r)
    BY DEF Work, DeployPlan, Effect, accounts
<1>8. WorkInScope'
    <2>1. \A v \in worked : v[3] \in granted[v[1]] /\ (v[2] # "plan" => v[4] \in granted[v[1]])
        BY DEF TokenInv, WorkInScope
    <2>2. t # None /\ (op[1] = "plan" \/ op[2] = op[3]) =>
              w[3] \in granted[w[1]] /\ (w[2] # "plan" => w[4] \in granted[w[1]])
        BY <1>4, <1>14
    <2> QED BY <1>5, <1>7, <2>1, <2>2 DEF WorkInScope
<1>9. OwnersExist' BY <1>7 DEF TokenInv, OwnersExist
<1>10. \A u \in Tokens :
             /\ granted[u] # {} => granted'[u] = granted[u]
             /\ token'[u].all => granted'[u] = Environments
             /\ token'[u].envs \subseteq granted'[u]
    BY <1>7 DEF TokenInv, Scopes
<1>11. role' \in [Owners -> 0 .. 3] /\ token' \in [Tokens -> TokenRecords]
       /\ granted' \in [Tokens -> SUBSET Environments]
    BY <1>7 DEF TokenInv, Types
<1> QED BY <1>6, <1>7, <1>8, <1>9, <1>10, <1>11, DoneStep

\* What a handler that takes tokens, or environments from them, has to show.
LEMMA DoneTokens ==
    ASSUME TokenInv, NEW r \in Requests, Done(r), UNCHANGED <<granted, worked>>,
           role' \in [Owners -> 0 .. 3], token' \in [Tokens -> TokenRecords],
           \A t \in Tokens :
             \/ token'[t] = NoToken
             \/ /\ token'[t].owner = token[t].owner /\ token'[t].all = token[t].all
                /\ token'[t].envs \subseteq token[t].envs
                /\ token[t].owner # None => role'[token[t].owner] # 0
    PROVE  TokenInv'
<1>1. NoToken.owner = None /\ NoToken.all = FALSE /\ NoToken.envs = {} BY DEF NoToken
<1>2. OwnersExist' BY <1>1 DEF OwnersExist
<1>3. WorkInScope' BY DEF TokenInv, WorkInScope
<1>4. \A t \in Tokens :
             /\ granted[t] # {} => granted'[t] = granted[t]
             /\ token'[t].all => granted'[t] = Environments
             /\ token'[t].envs \subseteq granted'[t]
    BY <1>1 DEF TokenInv, Scopes
<1> QED BY <1>2, <1>3, <1>4, DoneStep DEF TokenInv, Types

\* Tokens go with their owner, by revocation, and lose an environment.
LEMMA TakingSteps ==
    ASSUME TokenInv, NEW r \in Requests, DeleteOwner(r) \/ Revoke(r) \/ DeleteEnvironment(r)
    PROVE  TokenInv'
<1>1. PICK op \in Ops : op = request[r].op
    BY DEF DeleteOwner, Revoke, DeleteEnvironment, Handling, TokenInv, Places
<1>2. role \in [Owners -> 0 .. 3] /\ token \in [Tokens -> TokenRecords] BY DEF TokenInv, Types
<1>3. NoToken \in TokenRecords BY DEF NoToken, TokenRecords
<1>4. \A t \in Tokens : token[t].owner # None => token[t].owner \in Owners /\ role[token[t].owner] # 0
    BY <1>2 DEF TokenInv, OwnersExist, TokenRecords
<1>5. CASE DeleteOwner(r)
    <2>1. op[2] \in Owners BY <1>1, <1>5, OpShapes DEF DeleteOwner, Handling
    <2>2. CASE UNCHANGED <<role, token>>
        BY <1>2, <1>4, <1>5, <2>2, DoneTokens DEF DeleteOwner, history
    <2>3. CASE /\ role' = [role EXCEPT ![op[2]] = 0]
               /\ token' = [t \in Tokens |-> IF token[t].owner = op[2] THEN NoToken ELSE token[t]]
        <3>1. role' \in [Owners -> 0 .. 3] /\ \A o \in Owners : o # op[2] => role'[o] = role[o]
            BY <2>1, <2>3, <1>2
        <3>2. token' \in [Tokens -> TokenRecords] BY <2>3, <1>2, <1>3
        <3>3. \A t \in Tokens : token'[t] = NoToken \/ (token'[t] = token[t] /\ token[t].owner # op[2])
            BY <2>3
        <3>4. \A t \in Tokens :
                 \/ token'[t] = NoToken
                 \/ /\ token'[t].owner = token[t].owner /\ token'[t].all = token[t].all
                    /\ token'[t].envs \subseteq token[t].envs
                    /\ token[t].owner # None => role'[token[t].owner] # 0
            BY <3>1, <3>3, <1>4
        <3> QED BY <3>1, <3>2, <3>4, <1>5, DoneTokens DEF DeleteOwner, history
    <2> QED BY <2>2, <2>3, <1>1, <1>5 DEF DeleteOwner, Arg
<1>6. CASE Revoke(r)
    <2>1. op[2] \in Tokens BY <1>1, <1>6, OpShapes DEF Revoke, Handling
    <2>2. token' = [token EXCEPT ![op[2]] = NoToken] BY <1>1, <1>6 DEF Revoke, Arg
    <2>3. token' \in [Tokens -> TokenRecords]
          /\ \A t \in Tokens : token'[t] = NoToken \/ token'[t] = token[t]
        BY <2>1, <2>2, <1>2, <1>3
    <2>4. role' = role BY <1>6 DEF Revoke
    <2> QED BY <2>3, <2>4, <1>2, <1>4, <1>6, DoneTokens DEF Revoke, history
<1>7. CASE DeleteEnvironment(r)
    <2>1. token' = [t \in Tokens |-> [token[t] EXCEPT !.envs = @ \ {op[2]}]]
        BY <1>1, <1>7 DEF DeleteEnvironment, Arg
    <2>2. ASSUME NEW t \in Tokens
          PROVE  /\ token'[t] \in TokenRecords
                 /\ token'[t].owner = token[t].owner /\ token'[t].all = token[t].all
                 /\ token'[t].envs \subseteq token[t].envs
        <3>1. PICK k \in TokenRecords : k = token[t] BY <1>2
        <3>2. token'[t] = [k EXCEPT !.envs = @ \ {op[2]}] BY <2>1, <3>1
        <3>3. [k EXCEPT !.envs = @ \ {op[2]}] \in TokenRecords BY DEF TokenRecords
        <3>4. LET j == [k EXCEPT !.envs = @ \ {op[2]}] IN
              j.owner = k.owner /\ j.all = k.all /\ j.envs \subseteq k.envs
            BY DEF TokenRecords
        <3> QED BY <3>1, <3>2, <3>3, <3>4
    <2>3. token' \in [Tokens -> TokenRecords] BY <2>1, <2>2
    <2>4. role' = role BY <1>7 DEF DeleteEnvironment
    <2> QED BY <2>2, <2>3, <2>4, <1>2, <1>4, <1>7, DoneTokens DEF DeleteEnvironment, history
<1> QED BY <1>5, <1>6, <1>7

\* A token is made.
LEMMA InsertStep ==
    ASSUME TokenInv, NEW r \in Requests, CreateTokenInsert(r)
    PROVE  TokenInv'
<1>1. PICK op \in Ops : op = request[r].op BY DEF CreateTokenInsert, TokenInv, Places
<1>2. op[1] = "createToken" BY <1>1 DEF CreateTokenInsert, TokenInv, Places
<1>3. PICK t \in Tokens, o \in Owners, k \in 1 .. 3, s \in SUBSET Environments :
          t = op[2] /\ o = op[3] /\ k = op[4] /\ s = op[5] \ {None}
    BY <1>2, OpShapes
<1>4. Types BY DEF TokenInv
<1>5. CASE UNCHANGED <<token, granted>>
    <2>1. role' = role /\ worked' = worked /\ Done(r) BY DEF CreateTokenInsert
    <2> QED BY <2>1, <1>4, <1>5, DoneRoles DEF Types
<1>6. CASE /\ role[o] # 0 /\ granted[t] = {}
           /\ token' = [token EXCEPT ![t] = [owner |-> o, role |-> k, all |-> s = {}, envs |-> s]]
           /\ granted' = [granted EXCEPT ![t] = IF s = {} THEN Environments ELSE s]
    <2>1. role' = role /\ worked' = worked /\ Done(r) BY DEF CreateTokenInsert
    <2>2. PICK a \in BOOLEAN : a = (s = {}) OBVIOUS
    <2>13. [owner |-> o, role |-> k, all |-> a, envs |-> s] \in TokenRecords
        BY DEF TokenRecords
    <2>3. PICK new \in TokenRecords : new = [owner |-> o, role |-> k, all |-> a, envs |-> s]
        BY <2>13
    <2>4. token' = [token EXCEPT ![t] = new] BY <1>6, <2>2, <2>3
    <2>5. token' \in [Tokens -> TokenRecords] /\ token'[t] = new
          /\ \A u \in Tokens : u # t => token'[u] = token[u]
        BY <2>4, <1>4 DEF Types
    <2>6. granted' \in [Tokens -> SUBSET Environments]
          /\ granted'[t] = (IF s = {} THEN Environments ELSE s)
          /\ \A u \in Tokens : u # t => granted'[u] = granted[u]
        BY <1>4, <1>6 DEF Types
    <2>7. new.owner = o /\ new.all = a /\ new.envs = s BY <2>3
    <2>8. OwnersExist' BY <1>6, <2>1, <2>5, <2>7 DEF TokenInv, OwnersExist
    <2>9. WorkInScope'
        <3>1. ASSUME NEW w \in worked
              PROVE  w[3] \in granted'[w[1]] /\ (w[2] # "plan" => w[4] \in granted'[w[1]])
            <4>1. w[1] \in Tokens BY <1>4 DEF Types, WorkRecords
            <4>2. w[3] \in granted[w[1]] /\ (w[2] # "plan" => w[4] \in granted[w[1]])
                BY DEF TokenInv, WorkInScope
            <4>3. granted[t] = {} /\ \A u \in Tokens : u # t => granted'[u] = granted[u]
                BY <1>6, <2>6
            <4>4. w[1] # t BY <4>2, <4>3
            <4> QED BY <4>1, <4>2, <4>3, <4>4
        <3> QED BY <3>1, <2>1 DEF WorkInScope
    <2>10. \A u \in Tokens : granted[u] # {} => granted'[u] = granted[u] BY <1>6, <2>6
    <2>11. \A u \in Tokens : token'[u].envs \subseteq granted'[u]
        BY <2>5, <2>6, <2>7 DEF TokenInv, Scopes
    <2>12. \A u \in Tokens : token'[u].all => granted'[u] = Environments
        BY <2>2, <2>5, <2>6, <2>7 DEF TokenInv, Scopes
    <2> QED BY <1>4, <2>1, <2>5, <2>6, <2>8, <2>9, <2>10, <2>11, <2>12, DoneStep DEF Types
<1> QED BY <1>1, <1>3, <1>5, <1>6 DEF CreateTokenInsert, Arg

\* The role of the owner is read.
LEMMA CheckStep ==
    ASSUME TokenInv, NEW r \in Requests, CreateTokenCheck(r)
    PROVE  TokenInv'
<1>1. role' = role /\ token' = token /\ granted' = granted /\ worked' = worked
    BY DEF CreateTokenCheck, accounts, history
<1>2. CASE Done(r)
    BY <1>1, <1>2, DoneRoles DEF TokenInv, Types
<1>3. CASE request' = [request EXCEPT ![r].pc = "insert"]
    <2>1. PICK q \in RequestRecords : q = request[r] BY DEF TokenInv, Types
    <2>2. PICK n \in RequestRecords : n = [q EXCEPT !.pc = "insert"] BY DEF RequestRecords
    <2>3. n.pc = "insert" /\ n.op = q.op /\ n.token = q.token BY <2>2 DEF RequestRecords
    <2>4. request' = [request EXCEPT ![r] = n] BY <1>3, <2>1, <2>2
    <2>5. request' \in [Requests -> RequestRecords] /\ request'[r] = n
          /\ \A s \in Requests : s # r => request'[s] = request[s]
        BY <2>4 DEF TokenInv, Types
    <2>6. Types' BY <1>1, <2>5 DEF TokenInv, Types
    <2>7. q.op \in Ops /\ q.op[1] = "createToken"
        BY <2>1 DEF CreateTokenCheck, Handling, TokenInv, Places
    <2>8. Places' BY <2>3, <2>5, <2>7 DEF TokenInv, Places
    <2>9. Scopes' BY <1>1, <2>3, <2>5 DEF TokenInv, Scopes
    <2>10. OwnersExist' /\ WorkInScope' BY <1>1 DEF TokenInv, OwnersExist, WorkInScope
    <2> QED BY <2>6, <2>8, <2>9, <2>10 DEF TokenInv
<1> QED BY <1>2, <1>3 DEF CreateTokenCheck

\* The users are counted.
LEMMA CountStep ==
    ASSUME TokenInv, NEW r \in Requests, NEW u \in Users, RegisterCount(r, u)
    PROVE  TokenInv'
<1>1. role' = role /\ token' = token /\ granted' = granted /\ worked' = worked
    BY DEF RegisterCount, accounts
<1>10. NoRequest \in RequestRecords BY DEF NoRequest, RequestRecords
<1>2. [NoRequest EXCEPT !.pc = "register", !.who = u] \in RequestRecords
    <2>1. PICK q \in RequestRecords : q = NoRequest BY <1>10
    <2>2. [q EXCEPT !.pc = "register", !.who = u] \in RequestRecords BY DEF RequestRecords, Owners
    <2> QED BY <2>1, <2>2
<1>3. PICK n \in RequestRecords : n = [NoRequest EXCEPT !.pc = "register", !.who = u]
    BY <1>2
<1>4. n.pc = "register" /\ n.who = u BY <1>3 DEF NoRequest
<1>5. request' \in [Requests -> RequestRecords] /\ request'[r] = n
      /\ \A s \in Requests : s # r => request'[s] = request[s]
    BY <1>3 DEF RegisterCount, TokenInv, Types
<1>6. Types' BY <1>1, <1>5 DEF TokenInv, Types
<1>7. Places' BY <1>4, <1>5 DEF TokenInv, Places
<1>8. Scopes' BY <1>1, <1>4, <1>5 DEF TokenInv, Scopes
<1>9. OwnersExist' /\ WorkInScope' BY <1>1 DEF TokenInv, OwnersExist, WorkInScope
<1> QED BY <1>6, <1>7, <1>8, <1>9 DEF TokenInv

\* Every step keeps the invariant of the tokens.
LEMMA TokenInvNext == TokenInv /\ [Next]_vars => TokenInv'
<1> SUFFICES ASSUME TokenInv, [Next]_vars PROVE TokenInv'
    OBVIOUS
<1>1. CASE UNCHANGED vars
    <2>1. UNCHANGED <<role, token, request, granted, worked>> BY <1>1 DEF vars, accounts, history
    <2> QED BY <2>1 DEF TokenInv, Types, Places, OwnersExist, Scopes, WorkInScope
<1>2. CASE Next
    BY <1>2, CountStep, SessionStep, TokenStep, RoleSteps, WorkStep, TakingSteps, CheckStep, InsertStep
    DEF Next
<1> QED BY <1>1, <1>2

\* The inductive invariant of the tokens, with any number of requests at a time.
THEOREM TokenInvariance == Spec => []TokenInv
BY TokenInvInit, TokenInvNext, PTL DEF Spec

\* A request gets a token only at authentication, with a role that is not above
\* the one its owner has.
LEMMA ActsWithinOwner ==
    ASSUME TokenInv, [Next]_vars
    PROVE  WithinOwner
<1> SUFFICES ASSUME NEW s \in Requests, NEW t \in Tokens, request[s].pc = "idle", request'[s].token = t
             PROVE  request'[s].role <= role[token[t].owner]
    BY DEF WithinOwner
<1>0. None \notin Tokens BY NoneAssumption
<1>1. request \in [Requests -> RequestRecords] BY DEF TokenInv, Types
<1>2. request[s].token = None BY DEF TokenInv, Places
<1>3. request'[s] # request[s] BY <1>0, <1>2
<1>4. PICK r \in Requests :
          \/ \E u \in Users : RegisterCount(r, u)
          \/ \E u \in Users, op \in Ops : AuthenticateSession(r, u, op)
          \/ \E u \in Tokens, op \in Ops : AuthenticateToken(r, u, op)
          \/ Done(r)
          \/ Handling(r, "createToken") /\ request' = [request EXCEPT ![r].pc = "insert"]
    BY <1>3 DEF Next, vars, Work, DeployPlan, Effect, CreateOwner, SetRole, Disable, DeleteOwner,
                CreateTokenCheck, CreateTokenInsert, Revoke, DeleteEnvironment, RegisterCreate
<1>5. CASE \E u \in Users : RegisterCount(r, u)
    BY <1>0, <1>1, <1>2, <1>5 DEF RegisterCount, NoRequest
<1>6. CASE \E u \in Users, op \in Ops : AuthenticateSession(r, u, op)
    BY <1>0, <1>1, <1>2, <1>6 DEF AuthenticateSession, Begin
<1>7. CASE \E u \in Tokens, op \in Ops : AuthenticateToken(r, u, op)
    <2>1. PICK u \in Tokens, op \in Ops : AuthenticateToken(r, u, op) BY <1>7
    <2>2. s = r /\ u = t /\ request'[s].role = EffectiveRole(u)
        BY <2>1, <1>1, <1>3 DEF AuthenticateToken, Begin
    <2>3. Valid(t) BY <2>1, <2>2 DEF AuthenticateToken
    <2> QED BY <2>2, <2>3, OwnerOfToken, RoleOfToken DEF TokenInv
<1>8. CASE Done(r)
    BY <1>0, <1>1, <1>2, <1>8 DEF Done, NoRequest
<1>9. CASE Handling(r, "createToken") /\ request' = [request EXCEPT ![r].pc = "insert"]
    BY <1>1, <1>3, <1>9 DEF Handling
<1> QED BY <1>4, <1>5, <1>6, <1>7, <1>8, <1>9

\* auth.ts and plugins/authenticate.ts: whatever becomes of owners, roles and
\* environments while a token is made, while it is used and after, its owner
\* exists, it acts with no higher role than its owner has, is used on the routes
\* of the environments it was made for only and, but for the services that a
\* plan names, changes nothing outside of them.
THEOREM TokensBoundedHolds == Spec => TokensBounded
<1>1. TokenInv /\ [Next]_vars => WithinOwner
    BY ActsWithinOwner
<1>2. TokenInv => OwnersExist /\ WorkInScope
    BY DEF TokenInv
<1> QED BY <1>1, <1>2, TokenInvInit, TokenInvNext, PTL DEF Spec, TokensBounded

-----------------------------------------------------------------------------
(* Admins. *)

Busy(r) == request[r].pc # "idle"
SomeAdmin == (\E u \in Users : role[u] # 0) => \E u \in Users : role[u] = Admin

\* The admin a handler works for is still there, and nobody is when the first
\* user is about to be created.
OnBehalf(r) ==
    /\ request[r].pc = "handle" /\ request[r].op[1] \notin {"work", "plan"} =>
         request[r].who \in Users /\ role[request[r].who] = Admin
    /\ request[r].pc = "register" => \A v \in Users : role[v] = 0

\* The inductive invariant: as long as nothing has interfered, one request at
\* most is handled, and no service account exists.
AdminInv ==
    ~interfered =>
       /\ SomeAdmin
       /\ \A o \in Owners \ Users : role[o] = 0
       /\ \A r, s \in Requests : Busy(r) /\ Busy(s) => r = s
       /\ \A r \in Requests : OnBehalf(r)

\* The end of the one handler.
LEMMA AdminDone ==
    ASSUME TokenInv, AdminInv, NEW r \in Requests, Busy(r), Done(r),
           ~interfered' => /\ ~interfered
                           /\ SomeAdmin'
                           /\ \A o \in Owners \ Users : role'[o] = 0
    PROVE  AdminInv'
<1> SUFFICES ASSUME ~interfered' PROVE AdminInv'
    BY DEF AdminInv
<1>1. ~interfered OBVIOUS
<1>2. request \in [Requests -> RequestRecords] BY DEF TokenInv, Types
<1>3. \A s \in Requests : s # r => request[s].pc = "idle"
    BY <1>1 DEF AdminInv, Busy
<1>4. \A s \in Requests : request'[s].pc = "idle"
    BY <1>2, <1>3 DEF Done, NoRequest
<1>5. /\ \A q, s \in Requests : Busy(q)' /\ Busy(s)' => q = s
      /\ \A s \in Requests : OnBehalf(s)'
    BY <1>4 DEF Busy, OnBehalf
<1> QED BY <1>5 DEF AdminInv

\* A request that begins with the role of an admin.
LEMMA AdminBegin ==
    ASSUME TokenInv, AdminInv, NEW r \in Requests, NEW who \in Owners, NEW t \in Tokens \cup {None},
           NEW k \in 0 .. 3, NEW op \in Ops, k <= role[who], Begin(r, who, t, k, op),
           role[who] # 0
    PROVE  AdminInv'
<1> SUFFICES ASSUME ~interfered' PROVE AdminInv'
    BY DEF AdminInv
<1>1. ~interfered /\ Alone BY DEF Begin
<1>2. request \in [Requests -> RequestRecords] /\ role \in [Owners -> 0 .. 3] BY DEF TokenInv, Types
<1>3. role' = role BY DEF Begin, accounts
<1>4. who \in Users BY <1>1 DEF AdminInv
<1>5. /\ request'[r] = [pc |-> "handle", who |-> who, token |-> t, role |-> k, op |-> op]
      /\ \A s \in Requests : s # r => request'[s].pc = "idle"
    BY <1>1, <1>2 DEF Begin, Alone
<1>6. op[1] \notin {"work", "plan"} => role[who] = Admin
    BY <1>2 DEF Begin, RoleFor, Admin
<1>7. \A s \in Requests : OnBehalf(s)' BY <1>3, <1>4, <1>5, <1>6 DEF OnBehalf
<1>8. \A q, s \in Requests : Busy(q)' /\ Busy(s)' => q = s BY <1>5 DEF Busy
<1>9. SomeAdmin' /\ \A o \in Owners \ Users : role'[o] = 0 BY <1>1, <1>3 DEF AdminInv, SomeAdmin
<1> QED BY <1>7, <1>8, <1>9 DEF AdminInv

\* Handlers that leave the roles alone.
LEMMA AdminSame ==
    ASSUME TokenInv, AdminInv, NEW r \in Requests, Busy(r), Done(r), UNCHANGED <<role, interfered>>
    PROVE  AdminInv'
BY AdminDone DEF AdminInv, SomeAdmin

\* Every step keeps an admin.
LEMMA AdminInvNext == TokenInv /\ AdminInv /\ [Next]_vars => AdminInv'
<1> SUFFICES ASSUME TokenInv, AdminInv, [Next]_vars PROVE AdminInv'
    OBVIOUS
<1>1. request \in [Requests -> RequestRecords] /\ role \in [Owners -> 0 .. 3] BY DEF TokenInv, Types
<1>2. CASE UNCHANGED vars
    <2>1. UNCHANGED <<role, request, interfered>> BY <1>2 DEF vars, accounts, history
    <2> QED BY <2>1 DEF AdminInv, SomeAdmin, Busy, OnBehalf
<1>3. ASSUME NEW r \in Requests, NEW name, Handling(r, name), name \notin {"work", "plan"}, ~interfered
      PROVE  request[r].who \in Users /\ role[request[r].who] = Admin
    BY <1>3 DEF Handling, AdminInv, OnBehalf
<1>4. ASSUME NEW r \in Requests, NEW u \in Users, RegisterCount(r, u) PROVE AdminInv'
    <2> SUFFICES ASSUME ~interfered' PROVE AdminInv'
        BY DEF AdminInv
    <2>1. role' = role /\ ~interfered /\ Alone /\ \A v \in Users : role[v] = 0
        BY <1>4 DEF RegisterCount, accounts
    <2>2. request'[r].pc = "register" /\ \A s \in Requests : s # r => request'[s].pc = "idle"
        BY <1>1, <1>4, <2>1 DEF RegisterCount, NoRequest, Alone
    <2> QED BY <2>1, <2>2 DEF AdminInv, SomeAdmin, Busy, OnBehalf
<1>5. ASSUME NEW r \in Requests, NEW u \in Users, NEW op \in Ops, AuthenticateSession(r, u, op)
      PROVE  AdminInv'
    <2>1. PICK k \in 0 .. 3 : k = role[u] BY <1>1 DEF Owners
    <2>2. Begin(r, u, None, k, op) /\ k <= role[u] /\ role[u] # 0 BY <1>5, <2>1 DEF AuthenticateSession
    <2> QED BY <2>2, AdminBegin DEF Owners
<1>6. ASSUME NEW r \in Requests, NEW t \in Tokens, NEW op \in Ops, AuthenticateToken(r, t, op)
      PROVE  AdminInv'
    <2>1. Valid(t) BY <1>6 DEF AuthenticateToken
    <2>2. PICK o \in Owners : o = token[t].owner BY <2>1, OwnerOfToken DEF TokenInv
    <2>3. PICK k \in 0 .. 3 : k = EffectiveRole(t) /\ k <= role[o]
        BY <2>1, <2>2, RoleOfToken DEF TokenInv
    <2>4. Begin(r, o, t, k, op) BY <1>6, <2>2, <2>3 DEF AuthenticateToken
    <2>5. role[o] # 0 BY <2>1, <2>2 DEF Valid, TokenInv, OwnersExist
    <2> QED BY <2>3, <2>4, <2>5, AdminBegin
<1>7. ASSUME NEW r \in Requests, RegisterCreate(r) PROVE AdminInv'
    <2>1. PICK u \in Users : u = request[r].who BY <1>7 DEF RegisterCreate, TokenInv, Places
    <2>2. ASSUME ~interfered PROVE SomeAdmin' /\ \A o \in Owners \ Users : role'[o] = 0
        <3>1. role[u] = 0 BY <1>7, <2>2 DEF AdminInv, OnBehalf, RegisterCreate
        <3>2. role' = [role EXCEPT ![u] = Admin] BY <1>7, <2>1, <3>1 DEF RegisterCreate
        <3>3. role'[u] = Admin /\ \A o \in Owners \ Users : role'[o] = role[o] BY <1>1, <3>2 DEF Owners
        <3> QED BY <2>2, <3>3 DEF AdminInv, SomeAdmin
    <2>3. Busy(r) /\ Done(r) /\ interfered' = interfered BY <1>7 DEF RegisterCreate, Busy, history
    <2> QED BY <2>2, <2>3, AdminDone
<1>8. ASSUME NEW r \in Requests,
             \/ Work(r) \/ DeployPlan(r) \/ Disable(r) \/ CreateTokenInsert(r)
             \/ Revoke(r) \/ DeleteEnvironment(r)
      PROVE  AdminInv'
    <2>1. Busy(r) /\ Done(r) /\ UNCHANGED <<role, interfered>>
        BY <1>8 DEF Work, DeployPlan, Effect, Disable, CreateTokenInsert, Revoke, DeleteEnvironment,
                    Handling, Busy, accounts, history
    <2> QED BY <2>1, AdminSame
<1>9. ASSUME NEW r \in Requests, CreateTokenCheck(r) PROVE AdminInv'
    <2>1. UNCHANGED <<role, interfered>> /\ Busy(r)
        BY <1>9 DEF CreateTokenCheck, accounts, history, Handling, Busy
    <2>2. CASE Done(r) BY <2>1, <2>2, AdminSame
    <2>3. CASE request' = [request EXCEPT ![r].pc = "insert"]
        <3>1. request'[r].pc = "insert" /\ \A s \in Requests : s # r => request'[s] = request[s]
            BY <1>1, <2>3 DEF RequestRecords
        <3> QED BY <2>1, <3>1 DEF AdminInv, SomeAdmin, Busy, OnBehalf
    <2> QED BY <1>9, <2>2, <2>3 DEF CreateTokenCheck
<1>10. ASSUME NEW r \in Requests, SetRole(r) PROVE AdminInv'
    BY <1>10 DEF SetRole, AdminInv
<1>11. ASSUME NEW r \in Requests, CreateOwner(r) PROVE AdminInv'
    <2>1. PICK op \in Ops : op = request[r].op BY <1>11 DEF CreateOwner, Handling, TokenInv, Places
    <2>2. op[2] \in Owners /\ op[3] \in 1 .. 3 BY <1>11, <2>1, OpShapes DEF CreateOwner, Handling
    <2>3. role' = [role EXCEPT ![op[2]] = IF @ = 0 THEN op[3] ELSE @]
        BY <1>11, <2>1 DEF CreateOwner, Arg
    <2>4. ASSUME ~interfered' PROVE ~interfered /\ SomeAdmin' /\ \A o \in Owners \ Users : role'[o] = 0
        <3>1. ~interfered /\ op[2] \notin ServiceAccounts BY <1>11, <2>1, <2>4 DEF CreateOwner, Arg
        <3>2. PICK u \in Users : u = request[r].who /\ role[u] = Admin
            BY <1>3, <1>11, <3>1 DEF CreateOwner
        <3>3. role'[u] = Admin BY <1>1, <2>2, <2>3, <3>2 DEF Admin, Owners
        <3>4. \A o \in Owners \ Users : role'[o] = role[o] BY <1>1, <2>2, <2>3, <3>1 DEF Owners
        <3> QED BY <3>1, <3>3, <3>4 DEF AdminInv, SomeAdmin
    <2>5. Busy(r) /\ Done(r) BY <1>11 DEF CreateOwner, Handling, Busy
    <2> QED BY <2>4, <2>5, AdminDone
<1>12. ASSUME NEW r \in Requests, DeleteOwner(r) PROVE AdminInv'
    <2>1. PICK op \in Ops : op = request[r].op BY <1>12 DEF DeleteOwner, Handling, TokenInv, Places
    <2>2. op[2] \in Owners BY <1>12, <2>1, OpShapes DEF DeleteOwner, Handling
    <2>3. interfered' = interfered /\ Busy(r) /\ Done(r)
        BY <1>12 DEF DeleteOwner, history, Handling, Busy
    <2>4. ASSUME ~interfered PROVE SomeAdmin' /\ \A o \in Owners \ Users : role'[o] = 0
        <3>1. PICK u \in Users : u = request[r].who /\ role[u] = Admin
            BY <1>3, <1>12, <2>4 DEF DeleteOwner
        <3>2. role' = role \/ (op[2] # u /\ role' = [role EXCEPT ![op[2]] = 0])
            BY <1>12, <2>1, <3>1 DEF DeleteOwner, Arg
        <3>3. role'[u] = Admin /\ \A o \in Owners : role'[o] \in {0, role[o]}
            BY <1>1, <2>2, <3>1, <3>2 DEF Owners
        <3> QED BY <2>4, <3>3 DEF AdminInv, SomeAdmin
    <2> QED BY <2>3, <2>4, AdminDone
<1> QED BY <1>2, <1>4, <1>5, <1>6, <1>7, <1>8, <1>9, <1>10, <1>11, <1>12 DEF Next

\* routes/users.ts, "Cannot delete your own account": for any number of users,
\* tokens and requests, as long as requests are handled one after the other,
\* roles are not changed and no service account is created, an admin remains.
THEOREM AdminRemainsHolds == Spec => []AdminRemains
<1>1. Init => AdminInv
    BY DEF Init, AdminInv, SomeAdmin, Busy, OnBehalf, NoRequest, Owners
<1>2. AdminInv => AdminRemains
    BY DEF AdminInv, SomeAdmin, AdminRemains
<1> QED BY <1>1, <1>2, AdminInvNext, TokenInvInit, TokenInvNext, PTL DEF Spec

-----------------------------------------------------------------------------
(* HealthAlerts. *)

Trackers == [exists : BOOLEAN, fails : Nat, sent : BOOLEAN, age : Nat]
Looks == {"good", "mid", "bad"}
RunPlaces == {"idle", "probe", "prev", "write", "reread", "failure", "create", "count", "decide",
              "success", "reset"}

AlertTypes ==
  /\ truth \in Looks /\ status \in Looks
  /\ tracker \in Trackers
  /\ run \in [Runs -> [at : RunPlaces, prev : Looks, seen : Looks, read : Trackers]]
  /\ manual \in [at : {"idle", "write"}, seen : Looks]
  /\ notices \in Seq([kind : {"alert", "recovery"}, gap : Nat])
  /\ observed \in Nat /\ quiet \in Nat

\* The tracker counts no failure that no run noticed.
Counted ==
  /\ tracker.fails <= observed
  /\ \A r \in Runs : run[r].at \in {"failure", "create", "count"} => tracker.fails + 1 <= observed

\* What a run has read of the tracker is still true.
ReadsHold ==
  \A r \in Runs :
    /\ run[r].at = "create" => ~tracker.exists
    /\ run[r].at \in {"count", "reset"} => run[r].read = tracker /\ tracker.exists
    /\ run[r].at = "decide" =>
         /\ run[r].read.fails + 1 = tracker.fails /\ run[r].read.sent = tracker.sent
         /\ run[r].read.age = tracker.age /\ tracker.exists

\* alertSentAt is the time of the last alert, and set after a failure only.
SentAt ==
  /\ ~tracker.exists => tracker.fails = 0 /\ ~tracker.sent
  /\ tracker.sent => tracker.fails > 0 /\ tracker.age = quiet

\* The last notice is of kind k.
LastIs(k) == notices # <<>> /\ notices[Len(notices)].kind = k

\* alertSentAt is set exactly as long as the last notice is an alert.
SentLast == IF tracker.sent THEN LastIs("alert") ELSE ~LastIs("alert")

\* What is said of the notices so far.
Spaced == RecoveryAfterAlert /\ AlertsSpaced

\* The inductive invariant of the alerts.
AlertInv == AlertTypes /\ Counted /\ ReadsHold /\ SentAt /\ SentLast /\ Spaced

\* The runs of the checks of one resource do not overlap.
OneRun == \A r, s \in Runs : r = s

\* Nothing has happened at first.
LEMMA AlertStart == AlertInit => AlertInv
<1> SUFFICES ASSUME AlertInit PROVE AlertInv
  OBVIOUS
<1>1. AlertTypes
  BY CooldownAssumption
     DEF AlertInit, AlertTypes, NoTracker, Trackers, Idle, RunPlaces, Looks, Never
<1>2. Counted /\ ReadsHold
  BY DEF AlertInit, Counted, ReadsHold, NoTracker, Idle
<1>3. SentAt /\ SentLast
  BY DEF AlertInit, SentAt, SentLast, LastIs, NoTracker
<1>4. Spaced
  BY DEF AlertInit, Spaced, RecoveryAfterAlert, AlertsSpaced
<1> QED BY <1>1, <1>2, <1>3, <1>4 DEF AlertInv

\* An alert is sent when none was, or after the cooldown.
LEMMA AlertAdded ==
  ASSUME AlertTypes, Spaced, Notify("alert"), LastIs("alert") => quiet > Cooldown
  PROVE  Spaced' /\ LastIs("alert")'
<1> DEFINE n == Len(notices)
<1>1. PICK e : e = [kind |-> "alert", gap |-> quiet]
  OBVIOUS
<1>2. /\ notices \in Seq([kind : {"alert", "recovery"}, gap : Nat])
      /\ e \in [kind : {"alert", "recovery"}, gap : Nat] /\ notices' = Append(notices, e)
  BY <1>1 DEF AlertTypes, Notify
<1>3. /\ n \in Nat /\ Len(notices') = n + 1 /\ notices'[n + 1] = e
      /\ \A i \in 1..n : notices'[i] = notices[i]
  BY <1>2
<1>4. e.kind = "alert" /\ e.gap = quiet
  BY <1>1
<1>5. RecoveryAfterAlert'
  <2> SUFFICES ASSUME NEW i \in 1..Len(notices'), notices'[i].kind = "recovery"
               PROVE  i > 1 /\ notices'[i - 1].kind = "alert"
    BY DEF RecoveryAfterAlert
  <2>1. i \in 1..n
    BY <1>3, <1>4
  <2>2. notices[i].kind = "recovery"
    BY <1>3, <2>1
  <2>3. i > 1 /\ notices[i - 1].kind = "alert"
    BY <2>1, <2>2 DEF Spaced, RecoveryAfterAlert
  <2>4. i - 1 \in 1..n
    BY <1>3, <2>1, <2>3
  <2> QED BY <1>3, <2>3, <2>4
<1>6. AlertsSpaced'
  <2> SUFFICES ASSUME NEW i \in 2..Len(notices'),
                      notices'[i].kind = "alert", notices'[i - 1].kind = "alert"
               PROVE  notices'[i].gap > Cooldown
    BY DEF AlertsSpaced
  <2>1. CASE i = n + 1
    <3>1. n \in 1..n
      BY <1>3, <2>1
    <3>2. notices[n].kind = "alert"
      BY <1>3, <2>1, <3>1
    <3>3. LastIs("alert")
      BY <3>1, <3>2 DEF LastIs
    <3> QED BY <1>3, <1>4, <2>1, <3>3
  <2>2. CASE i # n + 1
    <3>1. i \in 2..n /\ i \in 1..n /\ i - 1 \in 1..n
      BY <1>3, <2>2
    <3> QED BY <1>3, <3>1 DEF Spaced, AlertsSpaced
  <2> QED BY <2>1, <2>2
<1>7. LastIs("alert")'
  BY <1>2, <1>3, <1>4 DEF LastIs
<1> QED BY <1>5, <1>6, <1>7 DEF Spaced

\* A recovery is sent after an alert.
LEMMA RecoveryAdded ==
  ASSUME AlertTypes, Spaced, Notify("recovery"), LastIs("alert")
  PROVE  Spaced' /\ ~LastIs("alert")'
<1> DEFINE n == Len(notices)
<1>1. PICK e : e = [kind |-> "recovery", gap |-> quiet]
  OBVIOUS
<1>2. /\ notices \in Seq([kind : {"alert", "recovery"}, gap : Nat])
      /\ e \in [kind : {"alert", "recovery"}, gap : Nat] /\ notices' = Append(notices, e)
  BY <1>1 DEF AlertTypes, Notify
<1>3. /\ n \in Nat /\ Len(notices') = n + 1 /\ notices'[n + 1] = e
      /\ \A i \in 1..n : notices'[i] = notices[i]
  BY <1>2
<1>4. e.kind = "recovery" /\ n \in 1..n /\ notices[n].kind = "alert"
  BY <1>1, <1>2, <1>3 DEF LastIs
<1>5. RecoveryAfterAlert'
  <2> SUFFICES ASSUME NEW i \in 1..Len(notices'), notices'[i].kind = "recovery"
               PROVE  i > 1 /\ notices'[i - 1].kind = "alert"
    BY DEF RecoveryAfterAlert
  <2>1. CASE i = n + 1
    BY <1>3, <1>4, <2>1
  <2>2. CASE i # n + 1
    <3>1. i \in 1..n
      BY <1>3, <2>2
    <3>2. i > 1 /\ notices[i - 1].kind = "alert"
      BY <1>3, <3>1 DEF Spaced, RecoveryAfterAlert
    <3>3. i - 1 \in 1..n
      BY <1>3, <3>1, <3>2
    <3> QED BY <1>3, <3>2, <3>3
  <2> QED BY <2>1, <2>2
<1>6. AlertsSpaced'
  <2> SUFFICES ASSUME NEW i \in 2..Len(notices'),
                      notices'[i].kind = "alert", notices'[i - 1].kind = "alert"
               PROVE  notices'[i].gap > Cooldown
    BY DEF AlertsSpaced
  <2>1. i \in 2..n /\ i \in 1..n /\ i - 1 \in 1..n
    BY <1>3, <1>4
  <2> QED BY <1>3, <2>1 DEF Spaced, AlertsSpaced
<1>7. ~LastIs("alert")'
  BY <1>3, <1>4 DEF LastIs
<1> QED BY <1>5, <1>6, <1>7 DEF Spaced

RunRecords == [at : RunPlaces, prev : Looks, seen : Looks, read : Trackers]

\* A run that only moves, or is over, leaves the tracker and the notices alone.
Moves(r) ==
  /\ run' \in [Runs -> RunRecords]
  /\ run'[r].at \in {"idle", "probe", "prev", "write", "reread", "success"}
  /\ UNCHANGED <<tracker, notices, observed, quiet>>

\* Nothing the properties are about has changed.
LEMMA MovesKeep ==
  ASSUME AlertInv, AlertTypes', OneRun, NEW r \in Runs, Moves(r)
  PROVE  AlertInv'
<1>1. \A s \in Runs : run'[s].at \notin {"failure", "create", "count", "reset", "decide"}
  BY DEF OneRun, Moves
<1>2. Counted'
  BY <1>1 DEF AlertInv, Counted, Moves
<1>3. ReadsHold'
  BY <1>1 DEF ReadsHold
<1>4. SentAt' /\ SentLast' /\ Spaced'
  BY DEF AlertInv, SentAt, SentLast, LastIs, Spaced, RecoveryAfterAlert, AlertsSpaced, Moves
<1> QED BY <1>2, <1>3, <1>4 DEF AlertInv

\* A status the resource can have.
LEMMA StatesLook == States \subseteq Looks
BY DEF States, Looks

\* The records of runs.
LEMMA IdleRecord == Idle \in RunRecords /\ Idle.at = "idle"
BY DEF Idle, RunRecords, RunPlaces, Looks, Trackers, NoTracker

\* The steps of a run before it comes to the tracker, and its breaking off.
LEMMA EarlySteps ==
  ASSUME AlertTypes, NEW r \in Runs,
         \/ BeginRun(r) \/ Probe(r) \/ ProbeWithoutKey(r) \/ ReadPrev(r) \/ RunFails(r)
  PROVE  AlertTypes' /\ Moves(r)
<1> USE DEF AlertTypes, Resource, Others
<1>1. CASE BeginRun(r)
  <2>1. PICK i \in RunRecords : i = Idle
    BY IdleRecord
  <2>2. ASSUME Flow = "server"
        PROVE  run' \in [Runs -> RunRecords] /\ run'[r].at = "probe"
    <3>1. PICK x \in RunRecords : x = [i EXCEPT !.at = "probe", !.prev = status]
      BY DEF RunRecords, RunPlaces
    <3>2. x.at = "probe" /\ run' = [run EXCEPT ![r] = x]
      BY <1>1, <2>1, <2>2, <3>1 DEF BeginRun, RunRecords
    <3> QED BY <3>2 DEF RunRecords
  <2>3. ASSUME Flow # "server"
        PROVE  run' \in [Runs -> RunRecords] /\ run'[r].at = "prev"
    <3>1. PICK x \in RunRecords : x = [i EXCEPT !.at = "prev", !.seen = truth]
      BY DEF RunRecords, RunPlaces
    <3>2. x.at = "prev" /\ run' = [run EXCEPT ![r] = x]
      BY <1>1, <2>1, <2>3, <3>1 DEF BeginRun, RunRecords
    <3> QED BY <3>2 DEF RunRecords
  <2>4. run' \in [Runs -> RunRecords] /\ run'[r].at \in {"probe", "prev"}
    BY <2>2, <2>3
  <2> QED BY <1>1, <2>4 DEF BeginRun, Moves, RunRecords
<1>2. CASE Probe(r)
  <2>1. run' \in [Runs -> RunRecords] /\ run'[r].at = "write"
    BY <1>2 DEF Probe, RunRecords, RunPlaces
  <2> QED BY <1>2, <2>1 DEF Probe, Moves, RunRecords
<1>3. CASE ProbeWithoutKey(r)
  <2>1. run' \in [Runs -> RunRecords] /\ run'[r].at = "reread"
    BY <1>3 DEF ProbeWithoutKey, Goto, RunRecords, RunPlaces
  <2> QED BY <1>3, <2>1 DEF ProbeWithoutKey, Moves, RunRecords
<1>4. CASE ReadPrev(r)
  <2>1. run' \in [Runs -> RunRecords] /\ run'[r].at = "write"
    BY <1>4 DEF ReadPrev, RunRecords, RunPlaces
  <2> QED BY <1>4, <2>1 DEF ReadPrev, Moves, RunRecords
<1>5. CASE RunFails(r)
  <2>1. run' \in [Runs -> RunRecords] /\ run'[r].at = "idle"
    BY <1>5, IdleRecord DEF RunFails, Stop, RunRecords
  <2> QED BY <1>5, <2>1 DEF RunFails, Moves, RunRecords
<1> QED BY <1>1, <1>2, <1>3, <1>4, <1>5

\* A run that knows the status before and now counts what it noticed.
LEMMA BranchKeeps ==
  ASSUME AlertInv, OneRun, NEW r \in Runs, NEW now, Branch(r, now), status' \in Looks,
         UNCHANGED <<truth, manual, tracker, notices, quiet>>
  PROVE  AlertInv'
<1> USE DEF AlertTypes
<1>0. AlertTypes
  BY DEF AlertInv
<1>1. CASE Failed(run[r].prev, now)
  <2>1. run' = [run EXCEPT ![r] = [@ EXCEPT !.at = "failure"]] /\ observed' = observed + 1
    BY <1>1 DEF Branch
  <2>2. run' \in [Runs -> RunRecords] /\ run'[r].at = "failure"
    BY <1>0, <2>1 DEF RunRecords, RunPlaces
  <2>3. AlertTypes'
    BY <1>0, <2>1, <2>2 DEF RunRecords
  <2>4. \A s \in Runs : run'[s].at = "failure"
    BY <2>2 DEF OneRun
  <2>5. Counted'
    BY <1>0, <2>1, <2>4 DEF AlertInv, Counted, Trackers
  <2>6. ReadsHold'
    BY <2>4 DEF ReadsHold
  <2>7. SentAt' /\ SentLast' /\ Spaced'
    BY DEF AlertInv, SentAt, SentLast, LastIs, Spaced, RecoveryAfterAlert, AlertsSpaced
  <2> QED BY <2>3, <2>5, <2>6, <2>7 DEF AlertInv
<1>2. CASE ~Failed(run[r].prev, now)
  <2>1. /\ run' = [run EXCEPT ![r] = [@ EXCEPT !.at = "success"]] \/ run' = [run EXCEPT ![r] = Idle]
        /\ observed' = observed
    BY <1>2 DEF Branch
  <2>2. run' \in [Runs -> RunRecords] /\ run'[r].at \in {"success", "idle"}
    BY <1>0, <2>1, IdleRecord DEF RunRecords, RunPlaces
  <2>3. AlertTypes'
    BY <1>0, <2>1, <2>2 DEF RunRecords
  <2>4. Moves(r)
    BY <2>1, <2>2 DEF Moves
  <2> QED BY <2>3, <2>4, MovesKeep
<1> QED BY <1>1, <1>2

\* The status is written, and read again.
LEMMA StatusSteps ==
  ASSUME AlertInv, OneRun, NEW r \in Runs, WriteStatus(r) \/ Reread(r)
  PROVE  AlertInv'
<1>0. AlertTypes /\ run[r].seen \in Looks /\ status \in Looks
  BY DEF AlertInv, AlertTypes
<1>1. CASE Reread(r)
  BY <1>0, <1>1, BranchKeeps DEF Reread, Resource, Others
<1>2. CASE WriteStatus(r) /\ Flow # "server"
  BY <1>0, <1>2, BranchKeeps DEF WriteStatus, Resource, Others
<1>3. CASE WriteStatus(r) /\ Flow = "server"
  <2>0. Goto(r, "reread") /\ run \in [Runs -> RunRecords]
    BY <1>0, <1>3 DEF WriteStatus, AlertTypes, RunRecords
  <2>1. run' \in [Runs -> RunRecords] /\ run'[r].at = "reread"
    BY <2>0 DEF Goto, RunRecords, RunPlaces
  <2>2. AlertTypes' /\ Moves(r)
    BY <1>0, <1>3, <2>1 DEF WriteStatus, Moves, AlertTypes, RunRecords, Resource, Others
  <2> QED BY <2>2, MovesKeep
<1> QED BY <1>1, <1>2, <1>3

\* recordFailure reads the tracker.
LEMMA FindKeeps ==
  ASSUME AlertInv, OneRun, NEW r \in Runs, FailureFind(r)
  PROVE  AlertInv'
<1>0. AlertTypes /\ run \in [Runs -> RunRecords] /\ tracker \in Trackers
  BY DEF AlertInv, AlertTypes, RunRecords
<1>1. PICK l \in RunPlaces : /\ l = IF tracker.exists THEN "count" ELSE "create"
                            /\ run' = [run EXCEPT ![r].at = l, ![r].read = tracker]
  BY DEF FailureFind, RunPlaces
<1>2. run' \in [Runs -> RunRecords] /\ run'[r].at = l /\ run'[r].read = tracker
  BY <1>0, <1>1 DEF RunRecords
<1>3. UNCHANGED <<truth, status, manual, tracker, notices, observed, quiet>>
  BY DEF FailureFind, Resource, Others
<1>4. AlertTypes'
  BY <1>0, <1>2, <1>3 DEF AlertTypes, RunRecords
<1>5. \A s \in Runs : s = r
  BY DEF OneRun
<1>6. Counted'
  BY <1>3, <1>5 DEF AlertInv, Counted, FailureFind
<1>7. ReadsHold'
  <2>1. /\ l \in {"count", "create"} /\ (l = "count" => tracker.exists)
        /\ (l = "create" => ~tracker.exists)
    BY <1>1
  <2> QED BY <1>2, <1>3, <1>5, <2>1 DEF ReadsHold
<1>8. SentAt' /\ SentLast' /\ Spaced'
  BY <1>3 DEF AlertInv, SentAt, SentLast, LastIs, Spaced, RecoveryAfterAlert, AlertsSpaced
<1> QED BY <1>4, <1>6, <1>7, <1>8 DEF AlertInv

\* A run that ends with its write of the tracker.
LEMMA EndKeeps ==
  ASSUME AlertInv, OneRun, NEW r \in Runs, Stop(r), UNCHANGED <<truth, status, manual>>,
         tracker' \in Trackers, observed' \in Nat, quiet' \in Nat,
         notices' \in Seq([kind : {"alert", "recovery"}, gap : Nat]), tracker'.fails <= observed'
  PROVE  AlertTypes' /\ Counted' /\ ReadsHold'
<1>1. run' \in [Runs -> RunRecords] /\ run'[r].at = "idle"
  BY IdleRecord DEF AlertInv, AlertTypes, Stop, RunRecords
<1>2. \A s \in Runs : run'[s].at = "idle"
  BY <1>1 DEF OneRun
<1> QED BY <1>1, <1>2 DEF AlertInv, AlertTypes, Counted, ReadsHold, RunRecords

\* The row of the tracker is created with the first failure.
LEMMA CreateKeeps ==
  ASSUME AlertInv, OneRun, NEW r \in Runs, FailureCreate(r)
  PROVE  AlertInv'
<1>1. /\ AlertTypes /\ ~tracker.exists /\ tracker.fails + 1 <= observed /\ tracker.fails = 0
      /\ ~tracker.sent
  BY DEF AlertInv, FailureCreate, ReadsHold, Counted, SentAt
<1>2. PICK t \in Trackers : t = [exists |-> TRUE, fails |-> 1, sent |-> FALSE, age |-> 0]
  BY DEF Trackers
<1>3. t.exists /\ t.fails = 1 /\ ~t.sent
  BY <1>2
<1>4. tracker' = t /\ UNCHANGED <<truth, status, manual, notices, observed, quiet>> /\ Stop(r)
  BY <1>1, <1>2 DEF FailureCreate, Resource, Others
<1>5. AlertTypes' /\ Counted' /\ ReadsHold'
  BY <1>1, <1>3, <1>4, EndKeeps DEF AlertTypes
<1>6. SentAt'
  BY <1>3, <1>4 DEF SentAt
<1>7. SentLast' /\ Spaced'
  BY <1>1, <1>3, <1>4 DEF AlertInv, SentLast, LastIs, Spaced, RecoveryAfterAlert, AlertsSpaced
<1> QED BY <1>5, <1>6, <1>7 DEF AlertInv

\* The failure is counted.
LEMMA CountKeeps ==
  ASSUME AlertInv, OneRun, NEW r \in Runs, FailureCount(r)
  PROVE  AlertInv'
<1>1. /\ AlertTypes /\ run \in [Runs -> RunRecords] /\ tracker \in Trackers
      /\ run[r].read = tracker /\ tracker.exists /\ tracker.fails + 1 <= observed
  BY DEF AlertInv, AlertTypes, FailureCount, ReadsHold, Counted, RunRecords
<1>2. tracker' = [tracker EXCEPT !.fails = tracker.fails + 1]
  BY <1>1 DEF FailureCount
<1>3. /\ tracker' \in Trackers /\ tracker'.fails = tracker.fails + 1
      /\ tracker'.sent = tracker.sent
      /\ tracker'.age = tracker.age /\ tracker'.exists = tracker.exists
  <2>1. PICK k \in Nat : k = tracker.fails + 1
    BY <1>1 DEF Trackers
  <2>2. tracker' = [tracker EXCEPT !.fails = k]
    BY <1>2, <2>1
  <2>3. tracker' \in Trackers
    BY <1>1, <2>2 DEF Trackers
  <2>4. /\ tracker'.fails = k /\ tracker'.sent = tracker.sent
        /\ tracker'.age = tracker.age /\ tracker'.exists = tracker.exists
    BY <1>1, <2>2, Zenon DEF Trackers
  <2> QED BY <2>1, <2>3, <2>4
<1>4. run' \in [Runs -> RunRecords] /\ run'[r].at = "decide" /\ run'[r].read = tracker
  BY <1>1 DEF FailureCount, Goto, RunRecords, RunPlaces
<1>5. UNCHANGED <<truth, status, manual, notices, observed, quiet>>
  BY DEF FailureCount, Resource, Others
<1>6. AlertTypes'
  BY <1>1, <1>3, <1>4, <1>5 DEF AlertTypes, RunRecords
<1>7. \A s \in Runs : s = r
  BY DEF OneRun
<1>8. Counted'
  BY <1>1, <1>3, <1>4, <1>5, <1>7 DEF Counted
<1>9. ReadsHold'
  BY <1>1, <1>3, <1>4, <1>7 DEF ReadsHold
<1>10. SentAt'
  <2>1. tracker.fails \in Nat
    BY <1>1 DEF Trackers
  <2>2. tracker'.fails > 0
    BY <1>3, <2>1
  <2> QED BY <1>1, <1>3, <1>5, <2>2 DEF AlertInv, SentAt
<1>11. SentLast' /\ Spaced'
  BY <1>3, <1>5 DEF AlertInv, SentLast, LastIs, Spaced, RecoveryAfterAlert, AlertsSpaced
<1> QED BY <1>6, <1>8, <1>9, <1>10, <1>11 DEF AlertInv

\* An alert is sent, or not.
LEMMA DecideKeeps ==
  ASSUME AlertInv, OneRun, NEW r \in Runs, FailureDecide(r)
  PROVE  AlertInv' /\ AlertStep
<1>1. /\ AlertTypes /\ run \in [Runs -> RunRecords] /\ tracker \in Trackers
      /\ tracker.fails <= observed /\ tracker.exists
      /\ run[r].read.fails + 1 = tracker.fails /\ run[r].read.sent = tracker.sent
      /\ run[r].read.age = tracker.age
      /\ run[r].read \in Trackers
  BY DEF AlertInv, AlertTypes, FailureDecide, ReadsHold, Counted, RunRecords
<1>2. Stop(r) /\ UNCHANGED <<truth, status, manual, observed>>
  BY DEF FailureDecide, Resource, Others
<1>3. CASE ~ShouldAlert(run[r].read)
  <2>1. UNCHANGED <<tracker, notices, quiet>>
    BY <1>3 DEF FailureDecide
  <2>2. AlertTypes' /\ Counted' /\ ReadsHold'
    BY <1>1, <1>2, <2>1, EndKeeps DEF AlertTypes
  <2>3. SentAt' /\ SentLast' /\ Spaced'
    BY <2>1 DEF AlertInv, SentAt, SentLast, LastIs, Spaced, RecoveryAfterAlert, AlertsSpaced
  <2>4. AlertStep
    BY <1>1, <2>1 DEF AlertStep, AlertTypes
  <2> QED BY <2>2, <2>3, <2>4 DEF AlertInv
<1>4. CASE ShouldAlert(run[r].read)
  <2>1. /\ tracker' = [tracker EXCEPT !.sent = TRUE, !.age = 0]
        /\ Notify("alert") /\ quiet' = 0
    BY <1>4 DEF FailureDecide
  <2>2. tracker' \in Trackers
    BY <1>1, <2>1 DEF Trackers
  <2>3. /\ tracker'.fails = tracker.fails /\ tracker'.exists = tracker.exists
        /\ tracker'.sent /\ tracker'.age = 0
    BY <1>1, <2>1, Zenon DEF Trackers
  <2>4. notices' \in Seq([kind : {"alert", "recovery"}, gap : Nat])
    <3>1. [kind |-> "alert", gap |-> quiet] \in [kind : {"alert", "recovery"}, gap : Nat]
      BY <1>1 DEF AlertTypes
    <3> QED BY <1>1, <2>1, <3>1 DEF AlertTypes, Notify
  <2>5. AlertTypes' /\ Counted' /\ ReadsHold'
    BY <1>1, <1>2, <2>1, <2>2, <2>3, <2>4, EndKeeps DEF AlertTypes
  <2>6. tracker.fails > 0 /\ observed >= Threshold
    BY <1>1, <1>4, CooldownAssumption DEF ShouldAlert, AlertTypes, Trackers
  <2>7. SentAt'
    BY <1>1, <2>1, <2>3, <2>6 DEF SentAt
  <2>8. LastIs("alert") => quiet > Cooldown
    <3>1. LastIs("alert") => tracker.sent
      BY <1>1 DEF AlertInv, SentLast
    <3>2. tracker.sent => tracker.age > Cooldown
      BY <1>1, <1>4 DEF ShouldAlert
    <3>3. tracker.sent => tracker.age = quiet
      BY DEF AlertInv, SentAt
    <3> QED BY <3>1, <3>2, <3>3
  <2>9. Spaced' /\ LastIs("alert")'
    BY <1>1, <2>1, <2>8, AlertAdded DEF AlertInv
  <2>10. SentLast'
    BY <2>3, <2>9 DEF SentLast
  <2>11. AlertStep
    BY <2>6 DEF AlertStep
  <2> QED BY <2>5, <2>7, <2>9, <2>10, <2>11 DEF AlertInv
<1> QED BY <1>3, <1>4

\* recordSuccess.
LEMMA SuccessKeeps ==
  ASSUME AlertInv, OneRun, NEW r \in Runs, SuccessFind(r) \/ SuccessReset(r)
  PROVE  AlertInv' /\ AlertStep
<1>0. /\ AlertTypes /\ run \in [Runs -> RunRecords] /\ tracker \in Trackers
      /\ \A s \in Runs : s = r
  BY DEF AlertInv, AlertTypes, RunRecords, OneRun
<1>1. CASE SuccessFind(r) /\ tracker.exists
  <2>1. /\ run' = [run EXCEPT ![r] = [@ EXCEPT !.at = "reset", !.read = tracker]]
        /\ UNCHANGED <<truth, status, manual, tracker, notices, observed, quiet>>
    BY <1>1 DEF SuccessFind, Resource, Others
  <2>2. run' \in [Runs -> RunRecords] /\ run'[r].at = "reset" /\ run'[r].read = tracker
    BY <1>0, <2>1 DEF RunRecords, RunPlaces
  <2>3. AlertTypes'
    BY <1>0, <2>1, <2>2 DEF AlertTypes, RunRecords
  <2>4. Counted' /\ ReadsHold'
    BY <1>0, <1>1, <2>1, <2>2 DEF AlertInv, Counted, ReadsHold
  <2>5. SentAt' /\ SentLast' /\ Spaced'
    BY <2>1 DEF AlertInv, SentAt, SentLast, LastIs, Spaced, RecoveryAfterAlert, AlertsSpaced
  <2>6. AlertStep
    BY <1>0, <2>1 DEF AlertStep, AlertTypes
  <2> QED BY <2>3, <2>4, <2>5, <2>6 DEF AlertInv
<1>2. CASE SuccessFind(r) /\ ~tracker.exists
  <2>1. /\ Stop(r) /\ observed' = 0
        /\ UNCHANGED <<truth, status, manual, tracker, notices, quiet>>
    BY <1>2 DEF SuccessFind, Resource, Others, Stop
  <2>2. tracker.fails = 0
    BY <1>2 DEF AlertInv, SentAt
  <2>3. AlertTypes' /\ Counted' /\ ReadsHold'
    BY <1>0, <2>1, <2>2, EndKeeps DEF AlertTypes
  <2>5. SentAt' /\ SentLast' /\ Spaced'
    BY <2>1 DEF AlertInv, SentAt, SentLast, LastIs, Spaced, RecoveryAfterAlert, AlertsSpaced
  <2>6. AlertStep
    BY <1>0, <2>1 DEF AlertStep, AlertTypes
  <2> QED BY <2>3, <2>5, <2>6 DEF AlertInv
<1>3. CASE SuccessReset(r)
  <2>1. run[r].read = tracker /\ tracker.exists
    BY <1>3 DEF AlertInv, ReadsHold, SuccessReset
  <2>2. /\ tracker' = [tracker EXCEPT !.fails = 0, !.sent = FALSE, !.age = 0]
        /\ IF tracker.fails > 0 /\ tracker.sent THEN Notify("recovery") ELSE UNCHANGED notices
        /\ Stop(r) /\ observed' = 0 /\ UNCHANGED <<truth, status, manual, quiet>>
    BY <1>3, <2>1 DEF SuccessReset, Resource, Others
  <2>3. tracker' \in Trackers
    BY <1>0, <2>2 DEF Trackers
  <2>4. tracker'.fails = 0 /\ ~tracker'.sent /\ tracker'.exists = tracker.exists
    BY <1>0, <2>2, Zenon DEF Trackers
  <2>5. CASE tracker.sent
    <3>1. Notify("recovery") /\ LastIs("alert")
      BY <2>2, <2>5 DEF AlertInv, SentAt, SentLast
    <3>2. Spaced' /\ ~LastIs("alert")'
      BY <1>0, <3>1, RecoveryAdded DEF AlertInv
    <3>3. PICK e \in [kind : {"alert", "recovery"}, gap : Nat] :
            e = [kind |-> "recovery", gap |-> quiet]
      BY <1>0 DEF AlertTypes
    <3>4. notices' = Append(notices, e) /\ e.kind = "recovery"
      BY <3>1, <3>3 DEF Notify
    <3>5. /\ notices' \in Seq([kind : {"alert", "recovery"}, gap : Nat])
          /\ notices'[Len(notices')] = e
      BY <1>0, <3>3, <3>4 DEF AlertTypes
    <3>6. AlertTypes' /\ Counted' /\ ReadsHold'
      BY <1>0, <2>2, <2>3, <2>4, <3>5, EndKeeps DEF AlertTypes
    <3>7. SentAt' /\ SentLast'
      BY <2>1, <2>4, <3>2 DEF SentAt, SentLast
    <3>8. AlertStep
      BY <3>4, <3>5 DEF AlertStep
    <3> QED BY <3>2, <3>6, <3>7, <3>8 DEF AlertInv
  <2>6. CASE ~tracker.sent
    <3>1. notices' = notices
      BY <2>2, <2>6
    <3>2. AlertTypes' /\ Counted' /\ ReadsHold'
      BY <1>0, <2>2, <2>3, <2>4, <3>1, EndKeeps DEF AlertTypes
    <3>3. Spaced' /\ SentAt' /\ SentLast'
      BY <2>1, <2>4, <2>6, <3>1
         DEF AlertInv, SentAt, SentLast, LastIs, Spaced, RecoveryAfterAlert, AlertsSpaced
    <3>4. AlertStep
      BY <1>0, <3>1 DEF AlertStep, AlertTypes
    <3> QED BY <3>2, <3>3, <3>4 DEF AlertInv
  <2> QED BY <2>5, <2>6
<1> QED BY <1>1, <1>2, <1>3

\* Checks by hand, changes of the resource and stuttering.
LEMMA BesideKeeps ==
  ASSUME AlertInv, ManualProbe \/ ManualWrite \/ Change \/ UNCHANGED alertVars
  PROVE  AlertInv'
<1>1. UNCHANGED <<run, tracker, notices, observed, quiet>>
  BY DEF ManualProbe, ManualWrite, Change, alertVars
<1>2. truth' \in Looks /\ status' \in Looks /\ manual' \in [at : {"idle", "write"}, seen : Looks]
  BY StatesLook
     DEF AlertInv, AlertTypes, ManualProbe, ManualWrite, Change, alertVars, Resource, Others
<1> QED BY <1>1, <1>2
        DEF AlertInv, AlertTypes, Counted, ReadsHold, SentAt, SentLast, LastIs, Spaced,
            RecoveryAfterAlert, AlertsSpaced

\* Time passes while no run is at the tracker.
LEMMA TimeKeeps ==
  ASSUME AlertInv, AlertTick
  PROVE  AlertInv'
<1>1. /\ AlertTypes /\ tracker \in Trackers
      /\ \A r \in Runs : run[r].at \in {"idle", "probe"}
      /\ UNCHANGED <<truth, status, run, manual, notices, observed>>
  BY DEF AlertInv, AlertTypes, AlertTick, Resource, Others
<1>2. quiet' \in Nat
  BY <1>1 DEF AlertTypes, AlertTick
<1>3. /\ tracker' \in Trackers /\ tracker'.fails = tracker.fails /\ tracker'.sent = tracker.sent
      /\ tracker'.exists = tracker.exists
      /\ tracker.sent => tracker'.age = IF tracker.age < Never THEN tracker.age + 1 ELSE tracker.age
  <2>1. CASE tracker.sent /\ tracker.age < Never
    <3>1. PICK k \in Nat : k = tracker.age + 1
      BY <1>1 DEF Trackers
    <3>2. tracker' = [tracker EXCEPT !.age = k]
      BY <2>1, <3>1 DEF AlertTick
    <3>3. tracker' \in Trackers
      BY <1>1, <3>2 DEF Trackers
    <3>4. /\ tracker'.fails = tracker.fails /\ tracker'.sent = tracker.sent
          /\ tracker'.exists = tracker.exists /\ tracker'.age = k
      BY <1>1, <3>2, Zenon DEF Trackers
    <3> QED BY <2>1, <3>1, <3>3, <3>4
  <2>2. CASE ~(tracker.sent /\ tracker.age < Never)
    <3>1. tracker' = tracker
      BY <2>2 DEF AlertTick
    <3> QED BY <1>1, <2>2, <3>1
  <2> QED BY <2>1, <2>2
<1>4. AlertTypes' /\ Counted' /\ ReadsHold'
  BY <1>1, <1>2, <1>3 DEF AlertInv, AlertTypes, Counted, ReadsHold
<1>5. SentAt'
  <2>1. tracker.sent => tracker.age = quiet
    BY DEF AlertInv, SentAt
  <2>2. tracker.sent => tracker'.age = quiet'
    BY <1>3, <2>1 DEF AlertTick
  <2> QED BY <1>3, <2>2 DEF AlertInv, SentAt
<1>6. SentLast' /\ Spaced'
  BY <1>1, <1>3 DEF AlertInv, SentLast, LastIs, Spaced, RecoveryAfterAlert, AlertsSpaced
<1> QED BY <1>4, <1>5, <1>6 DEF AlertInv

\* Every step keeps the invariant, and an alert is due.
LEMMA AlertsStep ==
  ASSUME OneRun, AlertInv, [AlertNext]_alertVars
  PROVE  AlertInv' /\ AlertStep
<1>0. AlertTypes
  BY DEF AlertInv
<1>1. ASSUME notices' = notices
      PROVE  AlertStep
  BY <1>0, <1>1 DEF AlertStep, AlertTypes
<1>2. ASSUME NEW r \in Runs, RunStep(r) \/ ProbeWithoutKey(r) \/ RunFails(r)
      PROVE  AlertInv' /\ AlertStep
  <2>1. CASE BeginRun(r) \/ Probe(r) \/ ProbeWithoutKey(r) \/ ReadPrev(r) \/ RunFails(r)
    <3>1. AlertTypes' /\ Moves(r)
      BY <1>0, <2>1, EarlySteps
    <3> QED BY <1>1, <3>1, MovesKeep DEF Moves
  <2>2. CASE WriteStatus(r) \/ Reread(r)
    <3>1. notices' = notices
      BY <2>2 DEF WriteStatus, Reread
    <3> QED BY <1>1, <2>2, <3>1, StatusSteps
  <2>3. CASE FailureFind(r)
    BY <1>1, <2>3, FindKeeps DEF FailureFind
  <2>4. CASE FailureCreate(r)
    BY <1>1, <2>4, CreateKeeps DEF FailureCreate
  <2>5. CASE FailureCount(r)
    BY <1>1, <2>5, CountKeeps DEF FailureCount
  <2>6. CASE FailureDecide(r)
    BY <2>6, DecideKeeps
  <2>7. CASE SuccessFind(r) \/ SuccessReset(r)
    BY <2>7, SuccessKeeps
  <2> QED BY <1>2, <2>1, <2>2, <2>3, <2>4, <2>5, <2>6, <2>7 DEF RunStep
<1>3. CASE ManualProbe \/ ManualWrite \/ Change \/ UNCHANGED alertVars
  <2>1. notices' = notices
    BY <1>3 DEF ManualProbe, ManualWrite, Change, alertVars
  <2> QED BY <1>1, <1>3, <2>1, BesideKeeps
<1>4. CASE AlertTick
  BY <1>1, <1>4, TimeKeeps DEF AlertTick
<1> QED BY <1>2, <1>3, <1>4 DEF AlertNext

\* Where runs of the scheduler do not overlap: for any threshold and cooldown, an
\* alert means that as many failures were noticed since the last recovery, alerts
\* in a row are further apart than the cooldown, and a recovery follows an alert;
\* among checks by hand, runs that break off and any changes of the resource.
THEOREM NoticesInOrderHolds ==
  ASSUME OneRun
  PROVE  AlertSpec => NoticesInOrder
<1>1. AlertInv /\ [AlertNext]_alertVars => AlertInv' /\ AlertStep
  BY AlertsStep
<1>2. AlertInv' => (RecoveryAfterAlert /\ AlertsSpaced)'
  BY DEF AlertInv, Spaced
<1> QED BY <1>1, <1>2, AlertStart, PTL DEF AlertSpec, NoticesInOrder

-----------------------------------------------------------------------------
(* AgentStatus. *)

AgentStates == {"unknown", "deploying", "waiting", "active", "stale", "offline"}
Ages == -1..Old
ServerRows ==
  [mode : {"agent", "other"}, token : Nat, status : AgentStates, push : Ages, changed : Ages]

PushRecords == [at : {"idle", "commit"}, writes : BOOLEAN, activates : BOOLEAN]

AgentTypes ==
  /\ server \in ServerRows
  /\ stamp \in Ages /\ silence \in 0..Old /\ steady \in 0..Old /\ lost \in Nat /\ calls \in Nat
  /\ push \in PushRecords
  /\ check \in [at : {"idle", "markPushed", "never", "markNever"},
                target : {"none", "stale", "offline"}, steady : 0..Old, lost : Nat]

\* How long n heartbeats that are rolled back can put off the next that is written.
PutOff(n) == n * Beat

\* The row was written, or pushes have not been accepted on schedule, for x at most.
Within(x) == server.push <= x \/ steady <= x

\* The push at hand writes the row.
Writing == push.at = "commit" /\ push.writes

\* While pushes are accepted on schedule, the last one is not long ago.
OnSchedule == steady > 0 => silence <= Interval

\* The stamp of the throttle is that of a push that wrote the row, or was rolled back.
Stamped == stamp # Null /\ ~Writing => Within(stamp + PutOff(lost))

\* The last push that was answered wrote the row, or found a stamp within the window.
Answered == Within(silence + Window - 1 + PutOff(lost))

\* A push that does not write the row found a stamp within the window.
Skipping == push.at = "commit" /\ ~push.writes => stamp # Null /\ stamp < Window

\* Of a server that never pushed, no push was answered.
NeverPushed ==
  server.push = Null =>
    /\ server.status # "active" /\ silence = Old /\ steady = 0
    /\ push.at = "commit" => push.writes

\* What the check is about to write is justified.
Justified(c) == c.steady <= Stale \/ PutOff(c.lost + 1) > Stale
Checked ==
  check.at \in {"markPushed", "markNever"} =>
    check.target \in {"stale", "offline"} /\ Justified(check)

\* All that is said of times.
Timely == OnSchedule /\ Stamped /\ Answered /\ Skipping /\ NeverPushed

\* The inductive invariant of the throttle and the staleness check.
AgentInv == AgentTypes /\ Timely /\ Checked

----------------------------------------------------------------------------
\* What is put off is a time.
LEMMA PutOffs ==
  ASSUME NEW n \in Nat
  PROVE  Beat \in Nat /\ PutOff(n) \in Nat /\ PutOff(n + 1) = PutOff(n) + Beat /\ PutOff(0) = 0
<1>1. Beat \in Nat
  BY ThresholdAssumption DEF Beat
<1>2. PICK k \in Nat : k = Beat
  BY <1>1
<1>3. n * k \in Nat
  BY SMT
<1>4. (n + 1) * k = n * k + k
  BY SMT
<1> QED BY <1>1, <1>2, <1>3, <1>4 DEF PutOff

\* No push at first.
LEMMA AgentStart == AgentInit => AgentInv
<1> SUFFICES ASSUME AgentInit PROVE AgentInv
  OBVIOUS
<1>1. AgentTypes
  BY ThresholdAssumption
     DEF AgentInit, AgentTypes, ServerRows, AgentStates, PushRecords, Ages, Old, Null, Unset,
         NoPush, NoCheck
<1>2. Timely
  BY ThresholdAssumption, PutOffs
     DEF AgentInit, Timely, OnSchedule, Stamped, Answered, Skipping, NeverPushed, Within, Writing,
         Old, Null, NoPush
<1>3. Checked
  BY DEF AgentInit, Checked, NoCheck
<1> QED BY <1>1, <1>2, <1>3 DEF AgentInv

\* While pushes are accepted on schedule, the row is written in time.
LEMMA InTime ==
  ASSUME AgentTypes, Timely
  PROVE  Within(PutOff(lost + 1))
<1>1. /\ lost \in Nat /\ PutOff(lost) \in Nat
      /\ PutOff(lost + 1) = PutOff(lost) + Window + Interval - 1
  <2>1. lost \in Nat
    BY DEF AgentTypes
  <2>2. PutOff(lost) \in Nat /\ PutOff(lost + 1) = PutOff(lost) + Beat
    BY <2>1, PutOffs
  <2>3. Beat = Window + Interval - 1
    BY DEF Beat
  <2> QED BY <2>1, <2>2, <2>3, ThresholdAssumption
<1>2. PICK f \in Nat : f = PutOff(lost)
  BY <1>1
<1>3. PutOff(lost + 1) = f + Window + Interval - 1 /\ f + Window + Interval - 1 \in Nat
  BY <1>1, <1>2, ThresholdAssumption
<1>4. CASE steady = 0
  BY <1>3, <1>4 DEF Within
<1>5. CASE steady # 0
  <2>1. silence <= Interval /\ silence \in Nat /\ steady \in Nat /\ server.push \in Int
    BY <1>5 DEF AgentTypes, Timely, OnSchedule, ServerRows, Ages
  <2>2. Within(silence + Window - 1 + f)
    BY <1>2 DEF Timely, Answered
  <2> QED BY <1>3, <2>1, <2>2, ThresholdAssumption DEF Within
<1> QED BY <1>4, <1>5

----------------------------------------------------------------------------
\* A step that concerns neither pushes nor the check, nor the time.
Elsewhere ==
  /\ UNCHANGED <<stamp, push, check, silence, steady, lost>>
  /\ calls' \in Nat
  /\ server' \in ServerRows /\ server'.push = server.push
  /\ server'.status = server.status \/ server'.status \in {"unknown", "deploying", "waiting"}

\* It keeps the invariant and marks nothing.
LEMMA ElsewhereKeeps ==
  ASSUME AgentInv, Elsewhere
  PROVE  AgentInv' /\ SteadyMark
<1>1. AgentTypes'
  BY DEF AgentInv, AgentTypes, Elsewhere
<1>2. OnSchedule' /\ Stamped' /\ Answered' /\ Skipping'
  BY DEF AgentInv, Timely, OnSchedule, Stamped, Answered, Skipping, Within, Writing, Elsewhere
<1>3. NeverPushed' /\ Checked'
  BY DEF AgentInv, Timely, NeverPushed, Checked, Elsewhere
<1>4. SteadyMark
  BY DEF SteadyMark, Marked, Elsewhere
<1> QED BY <1>1, <1>2, <1>3, <1>4 DEF AgentInv, Timely

\* Requests that deploy, remove or give a new token, and a push that is refused.
LEMMA Requested ==
  ASSUME AgentTypes,
         \/ PushRefused \/ AgentDies \/ DeployBegin \/ Regenerate \/ RemoveBegin
         \/ Deploy \/ DeployReturnsEarly \/ DeployFails \/ UNCHANGED agentVars
  PROVE  Elsewhere
<1>0. /\ server \in ServerRows /\ calls \in Nat /\ calls + 1 \in Nat /\ 0 \in Ages
      /\ server.token \in Nat
  BY ThresholdAssumption DEF AgentTypes, Ages, Old, ServerRows
<1>1. /\ UNCHANGED <<stamp, push, check, silence, steady, lost>>
      /\ calls' \in Nat
  BY <1>0
     DEF PushRefused, AgentDies, DeployBegin, Regenerate, RemoveBegin, Request, Deploy,
         DeployMark, DeployStop, DeployStart, DeployFinish, RemoveFinish, DeployReturnsEarly,
         DeployFails, agentVars
<1>2. \/ server' = server
      \/ \E t \in Nat : server' = [server EXCEPT !.token = t]
      \/ \E t \in Nat : server' = [server EXCEPT !.mode = "other", !.token = t]
      \/ \E s \in {"unknown", "deploying", "waiting"} : server' = SetStatus(s)
      \/ server' = [SetStatus("waiting") EXCEPT !.mode = "agent"]
  <2>1. CASE \/ PushRefused \/ AgentDies \/ RemoveBegin \/ DeployStop \/ DeployStart
             \/ DeployReturnsEarly \/ UNCHANGED agentVars
    BY <2>1 DEF PushRefused, AgentDies, RemoveBegin, DeployStop, DeployStart,
                DeployReturnsEarly, agentVars
  <2>2. CASE DeployBegin
    BY <1>0, <2>2 DEF DeployBegin
  <2>3. CASE Regenerate
    BY <1>0, <2>3 DEF Regenerate
  <2>4. CASE DeployMark
    BY <2>4 DEF DeployMark
  <2>5. CASE DeployFinish
    BY <2>5 DEF DeployFinish
  <2>6. CASE DeployFails
    BY <2>6 DEF DeployFails
  <2>7. CASE RemoveFinish
    BY <2>7 DEF RemoveFinish, Unset
  <2> QED BY <2>1, <2>2, <2>3, <2>4, <2>5, <2>6, <2>7 DEF Deploy
<1>3. /\ server' \in ServerRows /\ server'.push = server.push
      /\ server'.status = server.status \/ server'.status \in {"unknown", "deploying", "waiting"}
  BY <1>0, <1>2 DEF ServerRows, SetStatus, AgentStates
<1> QED BY <1>1, <1>3 DEF Elsewhere

----------------------------------------------------------------------------
\* The types of the check.
CheckRecords ==
  [at : {"idle", "markPushed", "never", "markNever"},
   target : {"none", "stale", "offline"}, steady : 0..Old, lost : Nat]

\* Nothing but the check and the status changes.
LEMMA CheckKeeps ==
  ASSUME AgentInv, UNCHANGED <<stamp, push, silence, steady, lost, calls>>,
         check' \in CheckRecords, server' \in ServerRows, server'.push = server.push,
         server'.status = server.status \/ server'.status # "active", Checked'
  PROVE  AgentInv'
<1>1. AgentTypes'
  BY DEF AgentInv, AgentTypes, CheckRecords
<1>2. OnSchedule' /\ Stamped' /\ Answered' /\ Skipping'
  BY DEF AgentInv, Timely, OnSchedule, Stamped, Answered, Skipping, Within, Writing
<1>3. NeverPushed'
  BY DEF AgentInv, Timely, NeverPushed
<1> QED BY <1>1, <1>2, <1>3 DEF AgentInv, Timely

\* What the check decides is justified by what it reads.
LEMMA Decided ==
  ASSUME AgentInv, NEW l \in {"markPushed", "markNever"}, NEW t \in {"stale", "offline"},
         server.push > Stale \/ server.push = Null,
         check' = [at |-> l, target |-> t, steady |-> steady, lost |-> lost]
  PROVE  check' \in CheckRecords /\ Checked'
<1>1. AgentTypes /\ steady \in 0..Old /\ lost \in Nat /\ server.push \in Int
  BY DEF AgentInv, AgentTypes, ServerRows, Ages
<1>2. check' \in CheckRecords
  BY <1>1 DEF CheckRecords
<1>3. check'.target = t /\ check'.steady = steady /\ check'.lost = lost
  OBVIOUS
<1>4. PICK f \in Nat : f = PutOff(lost + 1)
  <2>1. lost + 1 \in Nat
    BY <1>1
  <2> QED BY <2>1, PutOffs
<1>5. steady <= Stale \/ f > Stale
  <2>1. CASE server.push = Null
    <3>1. steady = 0
      BY <2>1 DEF AgentInv, Timely, NeverPushed
    <3> QED BY <3>1, ThresholdAssumption
  <2>2. CASE server.push > Stale
    <3>1. server.push <= f \/ steady <= f
      BY <1>1, <1>4, InTime DEF AgentInv, Within
    <3> QED BY <1>1, <2>2, <3>1, ThresholdAssumption
  <2> QED BY <2>1, <2>2
<1>6. Justified(check)'
  <2>1. check'.steady <= Stale \/ PutOff(check'.lost + 1) > Stale
    BY <1>3, <1>4, <1>5
  <2> QED BY <2>1 DEF Justified, PutOff
<1> QED BY <1>2, <1>3, <1>6 DEF Checked

\* The staleness check.
LEMMA StalenessKeeps ==
  ASSUME AgentInv, Staleness \/ CheckFails
  PROVE  AgentInv' /\ SteadyMark
<1>0. AgentTypes /\ server \in ServerRows /\ check \in CheckRecords /\ server.push \in Int
  BY DEF AgentInv, AgentTypes, CheckRecords, ServerRows, Ages
<1>1. CASE CheckPushed
  <2>1. UNCHANGED <<server, stamp, push, silence, steady, lost, calls>>
    BY <1>1 DEF CheckPushed
  <2>2. check' \in CheckRecords /\ Checked'
    <3>1. CASE PushedTarget = "none"
      <4>1. check' = [at |-> "never", target |-> "none", steady |-> steady, lost |-> lost]
        BY <1>1, <3>1 DEF CheckPushed
      <4>2. check' \in CheckRecords /\ check'.at = "never"
        BY <1>0, <4>1 DEF AgentTypes, CheckRecords
      <4> QED BY <4>2 DEF Checked
    <3>2. CASE PushedTarget # "none"
      <4>1. PushedTarget \in {"stale", "offline"} /\ server.push > Stale
        BY <1>0, <3>2, ThresholdAssumption DEF PushedTarget
      <4>2. check' = [at |-> "markPushed", target |-> PushedTarget,
                      steady |-> steady, lost |-> lost]
        BY <1>1, <3>2 DEF CheckPushed
      <4> QED BY <4>1, <4>2, Decided
    <3> QED BY <3>1, <3>2
  <2>3. AgentInv'
    BY <1>0, <2>1, <2>2, CheckKeeps
  <2> QED BY <2>1, <2>3 DEF SteadyMark, Marked
<1>2. CASE CheckMarkPushed \/ CheckMarkNever
  <2>1. check.target \in {"stale", "offline"} /\ Justified(check)
    BY <1>2 DEF CheckMarkPushed, CheckMarkNever, AgentInv, Checked
  <2>2. /\ UNCHANGED <<stamp, push, silence, steady, lost, calls>>
        /\ server' = SetStatus(check.target)
        /\ check' = NoCheck \/ check' = [check EXCEPT !.at = "never"]
    BY <1>2 DEF CheckMarkPushed, CheckMarkNever
  <2>3. 0 \in Ages /\ 0 \in 0..Old
    BY ThresholdAssumption DEF Ages, Old
  <2>4. server' \in ServerRows /\ server'.push = server.push /\ server'.status # "active"
    BY <1>0, <2>1, <2>2, <2>3 DEF SetStatus, ServerRows, AgentStates
  <2>5. check' \in CheckRecords /\ check'.at \in {"idle", "never"}
    BY <1>0, <2>2, <2>3 DEF CheckRecords, NoCheck
  <2>6. AgentInv'
    BY <2>2, <2>4, <2>5, CheckKeeps DEF Checked
  <2> QED BY <2>1, <2>6 DEF SteadyMark, Justified, PutOff
<1>3. CASE CheckNever
  <2>1. UNCHANGED <<server, stamp, push, silence, steady, lost, calls>>
    BY <1>3 DEF CheckNever
  <2>2. check' \in CheckRecords /\ Checked'
    <3>1. CASE NeverTarget = "none"
      <4>1. 0 \in 0..Old
        BY ThresholdAssumption DEF Old
      <4>2. check' \in CheckRecords /\ check'.at = "idle"
        BY <1>3, <3>1, <4>1 DEF CheckNever, CheckRecords, NoCheck
      <4> QED BY <4>2 DEF Checked
    <3>2. CASE NeverTarget # "none"
      <4>1. NeverTarget \in {"stale", "offline"} /\ server.push = Null
        BY <3>2 DEF NeverTarget
      <4>2. check' = [at |-> "markNever", target |-> NeverTarget,
                      steady |-> steady, lost |-> lost]
        BY <1>3, <3>2 DEF CheckNever
      <4> QED BY <4>1, <4>2, Decided
    <3> QED BY <3>1, <3>2
  <2>3. AgentInv'
    BY <1>0, <2>1, <2>2, CheckKeeps
  <2> QED BY <2>1, <2>3 DEF SteadyMark, Marked
<1>4. CASE CheckFails
  <2>1. UNCHANGED <<server, stamp, push, silence, steady, lost, calls>> /\ check' = NoCheck
    BY <1>4 DEF CheckFails
  <2>2. 0 \in 0..Old
    BY ThresholdAssumption DEF Old
  <2>3. check' \in CheckRecords /\ check'.at = "idle"
    BY <2>1, <2>2 DEF CheckRecords, NoCheck
  <2>4. AgentInv'
    BY <1>0, <2>1, <2>3, CheckKeeps DEF Checked
  <2> QED BY <2>1, <2>4 DEF SteadyMark, Marked
<1> QED BY <1>1, <1>2, <1>3, <1>4 DEF Staleness

----------------------------------------------------------------------------
\* A push is read: it writes the row, or finds a stamp within the window.
LEMMA ReadKeeps ==
  ASSUME AgentInv, PushRead
  PROVE  AgentInv' /\ SteadyMark
<1>0. AgentTypes /\ stamp \in Ages /\ 0 \in Ages
  BY ThresholdAssumption DEF AgentInv, AgentTypes, Ages, Old
<1>1. UNCHANGED <<server, check, silence, steady, lost, calls>>
  BY DEF PushRead
<1>2. PICK other \in BOOLEAN :
        /\ push' = [at |-> "commit",
                    writes |-> (server.status # "active" \/ other) \/ ShouldWrite.writes,
                    activates |-> server.status # "active"]
        /\ stamp' = IF server.status # "active" \/ other THEN stamp ELSE ShouldWrite.stamp
  BY DEF PushRead
<1>3. \/ ShouldWrite.writes = TRUE /\ ShouldWrite.stamp = 0
      \/ /\ ShouldWrite.writes = FALSE /\ ShouldWrite.stamp = stamp
         /\ stamp # Null /\ stamp < Window
  BY DEF ShouldWrite
<1>4. /\ push'.at = "commit" /\ push'.writes \in BOOLEAN
      /\ push' \in PushRecords /\ stamp' \in Ages
  <2>1. (server.status # "active" \/ other) \/ ShouldWrite.writes \in BOOLEAN
    BY <1>3
  <2>2. stamp' \in Ages
    BY <1>0, <1>2, <1>3
  <2>3. (server.status # "active") \in BOOLEAN
    OBVIOUS
  <2>4. push' \in PushRecords
    BY <1>2, <2>1, <2>3 DEF PushRecords
  <2> QED BY <1>2, <2>1, <2>2, <2>4
<1>5. ~push'.writes =>
        stamp' = stamp /\ stamp # Null /\ stamp < Window /\ server.status = "active"
  BY <1>2, <1>3
<1>6. AgentTypes'
  BY <1>0, <1>1, <1>4 DEF AgentTypes
<1>7. OnSchedule' /\ Answered'
  BY <1>1 DEF AgentInv, Timely, OnSchedule, Answered, Within, PutOff
<1>8. Skipping'
  BY <1>5 DEF Skipping
<1>9. NeverPushed'
  BY <1>1, <1>5 DEF AgentInv, Timely, NeverPushed
<1>10. Stamped'
  <2> SUFFICES ASSUME stamp' # Null, ~Writing' PROVE Within(stamp + PutOff(lost))'
    BY DEF Stamped
  <2>1. stamp' = stamp /\ stamp # Null
    BY <1>4, <1>5 DEF Writing
  <2>2. ~Writing
    BY DEF PushRead, Due, Writing
  <2>3. Within(stamp + PutOff(lost))
    BY <2>1, <2>2 DEF AgentInv, Timely, Stamped
  <2> QED BY <1>1, <2>1, <2>3 DEF Within, PutOff
<1>11. Checked' /\ SteadyMark
  BY <1>1 DEF AgentInv, Checked, SteadyMark, Marked, Justified, PutOff
<1> QED BY <1>6, <1>7, <1>8, <1>9, <1>10, <1>11 DEF AgentInv, Timely

\* A push is answered.
LEMMA CommitKeeps ==
  ASSUME AgentInv, PushCommit
  PROVE  AgentInv' /\ SteadyMark
<1>0. /\ AgentTypes /\ server \in ServerRows /\ 0 \in Ages /\ 0 \in 0..Old /\ lost \in Nat
      /\ push.at = "commit" /\ push.writes \in BOOLEAN
  BY ThresholdAssumption DEF AgentInv, AgentTypes, PushRecords, Ages, Old, PushCommit
<1>1. /\ UNCHANGED <<stamp, check, steady, calls>> /\ silence' = 0
      /\ push' = NoPush
  BY DEF PushCommit
<1>2. push' \in PushRecords /\ push'.at = "idle"
  BY <1>1 DEF NoPush, PushRecords
<1>3. Checked'
  BY <1>1 DEF AgentInv, Checked, Justified, PutOff
<1>4. OnSchedule' /\ Skipping'
  BY <1>1, <1>2, ThresholdAssumption DEF OnSchedule, Skipping
<1>5. CASE push.writes
  <2>1. /\ lost' = 0
        /\ server' = [server EXCEPT !.status = "active", !.push = 0,
                                    !.changed = IF push.activates THEN 0 ELSE @]
    BY <1>5 DEF PushCommit
  <2>2. server' \in ServerRows /\ server'.push = 0 /\ server'.status = "active"
    BY <1>0, <2>1 DEF ServerRows, AgentStates
  <2>3. AgentTypes'
    BY <1>0, <1>1, <1>2, <2>1, <2>2 DEF AgentTypes
  <2>4. PutOff(lost') = 0
    BY <2>1, PutOffs
  <2>5. Stamped'
    <3>1. stamp' # Null => stamp' >= 0
      BY <1>0, <1>1 DEF AgentTypes, Ages, Null
    <3>2. stamp' # Null => server'.push <= stamp' + PutOff(lost')
      BY <1>0, <1>1, <2>2, <2>4, <3>1 DEF AgentTypes, Ages
    <3> QED BY <3>2 DEF Stamped, Within, PutOff
  <2>6. Answered'
    <3>1. server'.push <= silence' + Window - 1 + PutOff(lost')
      BY <1>1, <2>2, <2>4, ThresholdAssumption
    <3> QED BY <3>1 DEF Answered, Within, PutOff
  <2>7. NeverPushed'
    BY <2>2 DEF NeverPushed, Null
  <2>8. SteadyMark
    BY <2>2 DEF SteadyMark, Marked
  <2> QED BY <1>3, <1>4, <2>3, <2>5, <2>6, <2>7, <2>8 DEF AgentInv, Timely
<1>6. CASE ~push.writes
  <2>1. lost' = lost /\ server' = server
    BY <1>6 DEF PushCommit
  <2>2. AgentTypes'
    BY <1>0, <1>1, <1>2, <2>1 DEF AgentTypes
  <2>3. stamp # Null /\ stamp < Window /\ ~Writing
    BY <1>0, <1>6 DEF AgentInv, Timely, Skipping, Writing
  <2>4. Within(stamp + PutOff(lost))
    BY <2>3 DEF AgentInv, Timely, Stamped
  <2>5. Stamped'
    BY <1>1, <2>1, <2>4 DEF Stamped, Within, PutOff
  <2>6. Answered'
    <3>1. PICK f \in Nat : f = PutOff(lost)
      BY <1>0, PutOffs
    <3>2. stamp \in Int /\ server.push \in Int /\ steady \in Int
      BY <1>0 DEF AgentTypes, ServerRows, Ages
    <3>3. server.push <= stamp + f \/ steady <= stamp + f
      BY <2>4, <3>1 DEF Within
    <3>4. server.push <= 0 + Window - 1 + f \/ steady <= 0 + Window - 1 + f
      BY <2>3, <3>2, <3>3, ThresholdAssumption
    <3> QED BY <1>1, <2>1, <3>1, <3>4 DEF Answered, Within, PutOff
  <2>7. NeverPushed'
    BY <1>0, <1>6, <2>1 DEF AgentInv, Timely, NeverPushed
  <2>8. SteadyMark
    BY <2>1 DEF SteadyMark, Marked
  <2> QED BY <1>3, <1>4, <2>2, <2>5, <2>6, <2>7, <2>8 DEF AgentInv, Timely
<1> QED BY <1>0, <1>5, <1>6

\* More is put off when a heartbeat is lost.
LEMMA PutOffMore ==
  ASSUME AgentTypes, lost' \in Nat, lost' = lost \/ lost' = lost + 1
  PROVE  PutOff(lost) \in Nat /\ PutOff(lost') \in Nat /\ PutOff(lost) <= PutOff(lost')
<1>1. lost \in Nat
  BY DEF AgentTypes
<1>2. PutOff(lost) \in Nat /\ PutOff(lost + 1) = PutOff(lost) + Beat /\ Beat \in Nat
  BY <1>1, PutOffs
<1>3. CASE lost' = lost
  BY <1>2, <1>3
<1>4. CASE lost' = lost + 1
  <2>1. PutOff(lost') = PutOff(lost) + Beat
    BY <1>2, <1>4
  <2> QED BY <1>2, <2>1
<1> QED BY <1>3, <1>4

\* A push is rolled back: the stamp stays, the heartbeat is lost.
LEMMA RollbackKeeps ==
  ASSUME AgentInv, PushFails
  PROVE  AgentInv' /\ SteadyMark
<1>0. /\ AgentTypes /\ Timely /\ lost \in Nat /\ lost + 1 \in Nat /\ stamp \in Ages
      /\ silence \in Int /\ steady \in Int /\ server.push \in Int
      /\ push.at = "commit" /\ push.writes \in BOOLEAN
  BY DEF AgentInv, AgentTypes, ServerRows, PushRecords, Ages, PushFails
<1>1. UNCHANGED <<server, stamp, check, silence, steady, calls>> /\ push' = NoPush
  BY DEF PushFails
<1>2. push' \in PushRecords /\ push'.at = "idle"
  BY <1>1 DEF NoPush, PushRecords
<1>3. lost' \in Nat /\ (lost' = lost \/ lost' = lost + 1)
  BY <1>0 DEF PushFails
<1>4. AgentTypes'
  BY <1>0, <1>1, <1>2, <1>3 DEF AgentTypes
<1>5. OnSchedule' /\ Skipping' /\ NeverPushed'
  BY <1>1, <1>2 DEF AgentInv, Timely, OnSchedule, Skipping, NeverPushed
<1>6. Checked' /\ SteadyMark
  BY <1>1 DEF AgentInv, Checked, SteadyMark, Marked, Justified, PutOff
<1>7. PICK f \in Nat, g \in Nat : f = PutOff(lost) /\ g = PutOff(lost') /\ f <= g
  BY <1>0, <1>3, PutOffMore
<1>8. Answered'
  <2>1. server.push <= silence + Window - 1 + f \/ steady <= silence + Window - 1 + f
    BY <1>0, <1>7 DEF Timely, Answered, Within
  <2>2. server.push <= silence + Window - 1 + g \/ steady <= silence + Window - 1 + g
    BY <1>0, <1>7, <2>1, ThresholdAssumption
  <2> QED BY <1>1, <1>7, <2>2 DEF Answered, Within, PutOff
<1>9. Stamped'
  <2>1. CASE push.writes
    <3>1. lost' = lost + 1
      BY <2>1 DEF PushFails
    <3>2. server.push <= g \/ steady <= g
      BY <1>0, <1>7, <3>1, InTime DEF Within
    <3>3. stamp # Null => stamp >= 0 /\ stamp \in Int
      BY <1>0 DEF Ages, Null
    <3>4. stamp # Null => server.push <= stamp + g \/ steady <= stamp + g
      BY <1>0, <1>7, <3>2, <3>3
    <3> QED BY <1>1, <1>7, <3>4 DEF Stamped, Within, PutOff
  <2>2. CASE ~push.writes
    <3>1. lost' = lost
      BY <2>2 DEF PushFails
    <3>2. ~Writing
      BY <2>2 DEF Writing
    <3>3. stamp # Null => Within(stamp + PutOff(lost))
      BY <1>0, <3>2 DEF Timely, Stamped
    <3> QED BY <1>1, <3>1, <3>3 DEF Stamped, Within, PutOff
  <2> QED BY <1>0, <2>1, <2>2
<1> QED BY <1>4, <1>5, <1>6, <1>8, <1>9 DEF AgentInv, Timely

\* The server restarts: the throttle has no stamp.
LEMMA RestartKeeps ==
  ASSUME AgentInv, Restart
  PROVE  AgentInv' /\ SteadyMark
<1>1. /\ UNCHANGED <<server, silence, steady, lost, calls>>
      /\ stamp' = Null /\ push' = NoPush /\ check' = NoCheck
  BY DEF Restart
<1>2. push' \in PushRecords /\ push'.at = "idle"
  BY <1>1 DEF NoPush, PushRecords
<1>3. /\ check' \in [at : {"idle", "markPushed", "never", "markNever"},
                     target : {"none", "stale", "offline"}, steady : 0..Old, lost : Nat]
      /\ check'.at = "idle"
  BY <1>1, ThresholdAssumption DEF NoCheck, Old
<1>4. Null \in Ages
  BY ThresholdAssumption DEF Null, Ages, Old
<1>5. AgentTypes'
  BY <1>1, <1>2, <1>3, <1>4 DEF AgentInv, AgentTypes
<1>6. OnSchedule' /\ Skipping' /\ NeverPushed'
  BY <1>1, <1>2 DEF AgentInv, Timely, OnSchedule, Skipping, NeverPushed
<1>7. Stamped' /\ Answered'
  BY <1>1 DEF AgentInv, Timely, Stamped, Answered, Within, PutOff
<1>8. Checked' /\ SteadyMark
  BY <1>1, <1>3 DEF Checked, SteadyMark, Marked
<1> QED BY <1>5, <1>6, <1>7, <1>8 DEF AgentInv, Timely

\* What becomes of an age as time passes.
LEMMA Ageing ==
  ASSUME NEW a \in Ages
  PROVE  /\ Older(a) \in Ages /\ Older(a) <= a + 1
         /\ a = Null <=> Older(a) = Null
         /\ a \in 0..Old => Older(a) \in 0..Old
         /\ a # Null => Older(a) = Old \/ Older(a) = a + 1
  BY ThresholdAssumption DEF Older, Ages, Old, Null

\* Time passes.
LEMMA TickKeeps ==
  ASSUME AgentInv, AgentTick
  PROVE  AgentInv' /\ SteadyMark
<1>0. /\ AgentTypes /\ Timely /\ lost \in Nat /\ stamp \in Ages /\ server \in ServerRows
      /\ silence \in 0..Old /\ steady \in 0..Old /\ server.push \in Ages
      /\ server.changed \in Ages
      /\ silence \in Ages /\ steady \in Ages
      /\ push.at = "idle" /\ check.at = "idle"
  BY DEF AgentInv, AgentTypes, ServerRows, Ages, AgentTick
<1>1. /\ UNCHANGED <<push, check, lost, calls>>
      /\ server' = [server EXCEPT !.push = Older(@), !.changed = Older(@)]
      /\ stamp' = Older(stamp) /\ silence' = Older(silence)
      /\ steady' = IF silence' > Interval THEN 0 ELSE Older(steady)
  BY DEF AgentTick
<1>2. /\ server'.push = Older(server.push) /\ server'.status = server.status
      /\ server' \in ServerRows
  <2>1. Older(server.push) \in Ages /\ Older(server.changed) \in Ages
    BY <1>0, Ageing
  <2> QED BY <1>0, <1>1, <2>1 DEF ServerRows
<1>3. 0 \in 0..Old /\ Old \in Nat /\ Old > Interval /\ 0..Old \subseteq Int /\ Ages \subseteq Int
  BY ThresholdAssumption DEF Old, Ages
<1>4. stamp' \in Ages /\ silence' \in 0..Old /\ steady' \in 0..Old /\ server'.push \in Ages
  BY <1>0, <1>1, <1>2, <1>3, Ageing
<1>5. AgentTypes'
  BY <1>0, <1>1, <1>2, <1>4 DEF AgentTypes
<1>6. OnSchedule' /\ Skipping'
  <2>1. steady' > 0 => silence' <= Interval
    BY <1>1, <1>3, <1>4, ThresholdAssumption
  <2> QED BY <1>0, <1>1, <2>1 DEF OnSchedule, Skipping
<1>7. NeverPushed'
  <2> SUFFICES ASSUME server'.push = Null
               PROVE  server'.status # "active" /\ silence' = Old /\ steady' = 0
    BY <1>0, <1>1 DEF NeverPushed
  <2>1. server.push = Null
    BY <1>0, <1>2, Ageing
  <2>2. server.status # "active" /\ silence = Old
    BY <1>0, <2>1 DEF Timely, NeverPushed
  <2>3. silence' = Old
    BY <1>1, <2>2 DEF Older
  <2> QED BY <1>1, <1>2, <1>3, <2>2, <2>3
<1>8. Checked' /\ SteadyMark
  BY <1>0, <1>1, <1>2 DEF Checked, SteadyMark, Marked
<1>9. PICK f \in Nat : f = PutOff(lost)
  BY <1>0, PutOffs
<1>10. /\ server'.push <= server.push + 1 /\ steady' <= steady + 1
       /\ server'.push <= Old
  <2>1. Older(server.push) <= server.push + 1 /\ Older(steady) <= steady + 1
    BY <1>0, Ageing
  <2> QED BY <1>0, <1>1, <1>2, <1>3, <1>4, <2>1 DEF Ages
<1>11. /\ server.push \in Int /\ server'.push \in Int /\ steady \in Int /\ steady' \in Int
       /\ silence \in Int /\ silence' \in Int /\ stamp \in Int /\ stamp' \in Int
       /\ Old \in Int
  BY <1>0, <1>4, ThresholdAssumption DEF Ages, Old
<1>12. Answered'
  <2>1. server.push <= silence + Window - 1 + f \/ steady <= silence + Window - 1 + f
    BY <1>0, <1>9 DEF Timely, Answered, Within
  <2>2. silence' = Old \/ silence' = silence + 1
    BY <1>0, <1>1, <1>3, Ageing DEF Null
  <2>3. server'.push <= silence' + Window - 1 + f \/ steady' <= silence' + Window - 1 + f
    BY <1>9, <1>10, <1>11, <2>1, <2>2, ThresholdAssumption
  <2> QED BY <1>1, <1>9, <2>3 DEF Answered, Within, PutOff
<1>13. Stamped'
  <2> SUFFICES ASSUME stamp' # Null PROVE Within(stamp + PutOff(lost))'
    BY DEF Stamped
  <2>1. stamp # Null /\ (stamp' = Old \/ stamp' = stamp + 1)
    BY <1>0, <1>1, Ageing
  <2>2. ~Writing
    BY <1>0 DEF Writing
  <2>3. server.push <= stamp + f \/ steady <= stamp + f
    BY <1>0, <1>9, <2>1, <2>2 DEF Timely, Stamped, Within
  <2>4. server'.push <= stamp' + f \/ steady' <= stamp' + f
    BY <1>9, <1>10, <1>11, <2>1, <2>3
  <2> QED BY <1>1, <1>9, <2>4 DEF Within, PutOff
<1> QED BY <1>5, <1>6, <1>7, <1>8, <1>12, <1>13 DEF AgentInv, Timely

\* Every step keeps the invariant, and marks a server only when that is justified.
LEMMA AgentStep ==
  ASSUME AgentInv, [AgentNext]_agentVars
  PROVE  AgentInv' /\ SteadyMark
<1>1. CASE \/ PushRefused \/ AgentDies \/ DeployBegin \/ Regenerate \/ RemoveBegin
           \/ Deploy \/ DeployReturnsEarly \/ DeployFails \/ UNCHANGED agentVars
  <2>1. Elsewhere
    BY <1>1, Requested DEF AgentInv
  <2> QED BY <2>1, ElsewhereKeeps
<1>2. CASE Staleness \/ CheckFails
  BY <1>2, StalenessKeeps
<1>3. CASE PushRead
  BY <1>3, ReadKeeps
<1>4. CASE PushCommit
  BY <1>4, CommitKeeps
<1>5. CASE PushFails
  BY <1>5, RollbackKeeps
<1>6. CASE Restart
  BY <1>6, RestartKeeps
<1>7. CASE AgentTick
  BY <1>7, TickKeeps
<1> QED BY <1>1, <1>2, <1>3, <1>4, <1>5, <1>6, <1>7 DEF AgentNext, Ingest

\* SteadyNeverMarked, for every interval, window and threshold: runAgentStalenessCheck
\* does not mark a server whose agent has pushed on schedule for as long as the stale
\* threshold, though the ingest route writes lastAgentPushAt for some of the pushes only.
THEOREM SteadyNeverMarkedHolds == AgentSpec => SteadyNeverMarked
<1>1. AgentInit => AgentInv
  BY AgentStart
<1>2. AgentInv /\ [AgentNext]_agentVars => AgentInv' /\ SteadyMark
  BY AgentStep
<1> QED BY <1>1, <1>2, PTL DEF AgentSpec, SteadyNeverMarked

-----------------------------------------------------------------------------
(* BackupRuns. *)

Statuses == {"none", "pending", "in_progress", "completed", "failed", "gone"}
Phases == {"none", "start", "dump", "upload", "finish", "fail"}

BackupTypes ==
  /\ row \in [Backups -> Statuses] /\ exec \in [Backups -> Phases]
  /\ file \in [Backups -> BOOLEAN] /\ age \in [Backups -> Nat]
  /\ sweep \in [pc : {"idle", "mark", "clean", "row"}, todo : SUBSET Backups,
                row : SUBSET Backups]
  /\ user \in [pc : {"idle", "row"}, todo : SUBSET Backups]
  /\ warned \subseteq Backups
  /\ deletes \in Nat

\* A completed backup is not executed any more, and one that is about to start
\* is pending, unless its row is gone.
Executing(b) ==
  /\ exec[b] # "none" => row[b] \notin {"none", "completed"}
  /\ exec[b] = "start" => row[b] \in {"pending", "gone"}

\* A backup that is not uploaded is executed before its dump is too old, and has
\* its file from the end of the dump on until its row fails.
Kept(b) ==
  /\ exec[b] # "upload"
  /\ exec[b] # "none" => row[b] \in {"pending", "in_progress"} /\ age[b] <= DumpTimeout
  /\ row[b] = "none" => exec[b] = "none" /\ age[b] = 0
  /\ exec[b] = "finish" \/ row[b] = "completed" => file[b]
  /\ row[b] = "gone" => ~file[b]

\* What the cleanup has on its list: old rows, failed rows, and a failed row
\* whose file is gone.
Swept(b) ==
  /\ sweep.pc = "mark" /\ b \in sweep.todo => age[b] > StuckAfter /\ row[b] # "none"
  /\ sweep.pc \in {"clean", "row"} /\ b \in sweep.todo => row[b] \in {"failed", "gone"}
  /\ b \in sweep.row => row[b] \in {"failed", "gone"} /\ ~file[b]

\* The inductive invariant of the backups.
RunsInv ==
  /\ BackupTypes
  /\ \A b \in Backups : Executing(b)
  /\ deletes = 0 =>
       user.pc = "idle" /\ \A b \in Backups \ Uploaded : Kept(b) /\ Swept(b)

\* No row at first.
LEMMA RunsStart == BackupInit => RunsInv
  BY DEF BackupInit, RunsInv, BackupTypes, Executing, Kept, Swept, NoSweep, NoDelete,
         Statuses, Phases

\* The types are kept.
LEMMA TypesStep ==
  ASSUME BackupTypes, [BackupNext]_backupVars
  PROVE  BackupTypes'
<1> USE DEF BackupTypes, Statuses, Phases
<1>1. ASSUME NEW b \in Backups, CreateBackup(b)
      PROVE  BackupTypes'
  BY <1>1 DEF CreateBackup, bounds
<1>2. ASSUME NEW b \in Backups, Execute(b)
      PROVE  BackupTypes'
  <2>1. UNCHANGED <<age, sweep, user, warned, deletes>> /\ row' \in [Backups -> Statuses]
        /\ exec' \in [Backups -> Phases]
    BY <1>2 DEF Execute, Start, Dump, DumpFails, Upload, UploadFails, Finish, Fail, Update, bounds
  <2>2. file' \in [Backups -> BOOLEAN]
    BY <1>2 DEF Execute, Start, Dump, DumpFails, Upload, UploadFails, Finish, Fail
  <2> QED BY <2>1, <2>2
<1>3. ASSUME NEW b \in Backups, DeleteFile(b)
      PROVE  BackupTypes'
  <2>1. file' \in [Backups -> BOOLEAN]
    BY <1>3 DEF DeleteFile
  <2>2. user' \in [pc : {"idle", "row"}, todo : SUBSET Backups]
    BY <1>3 DEF DeleteFile
  <2>3. warned' \subseteq Backups
    BY <1>3 DEF DeleteFile
  <2> QED BY <1>3, <2>1, <2>2, <2>3 DEF DeleteFile
<1>4. ASSUME Sweep
      PROVE  BackupTypes'
  <2>1. CASE MarkLoad
    BY <2>1 DEF MarkLoad, NoSweep, bounds
  <2>2. CASE CleanLoad
    BY <2>2 DEF CleanLoad, NoSweep, bounds
  <2>3. CASE CleanRow
    BY <2>3 DEF CleanRow, bounds
  <2>4. CASE CleanEnd
    BY <2>4 DEF CleanEnd, NoSweep, bounds
  <2>5. ASSUME NEW b \in Backups, Mark(b)
        PROVE  BackupTypes'
    BY <2>5 DEF Mark, bounds
  <2>6. ASSUME NEW b \in Backups, CleanFile(b)
        PROVE  BackupTypes'
    <3>1. file' \in [Backups -> BOOLEAN]
      BY <2>6 DEF CleanFile
    <3>2. sweep' \in [pc : {"idle", "mark", "clean", "row"}, todo : SUBSET Backups,
                      row : SUBSET Backups]
      <4>1. CASE sweep' = [sweep EXCEPT !.pc = "row", !.todo = @ \ {b}, !.row = {b}]
        BY <4>1
      <4>2. CASE sweep' = [sweep EXCEPT !.todo = @ \ {b}]
        BY <4>2
      <4> QED BY <2>6, <4>1, <4>2 DEF CleanFile
    <3> QED BY <2>6, <3>1, <3>2 DEF CleanFile
  <2> QED BY <1>4, <2>1, <2>2, <2>3, <2>4, <2>5, <2>6 DEF Sweep
<1>5. ASSUME DeleteRow
      PROVE  BackupTypes'
  BY <1>5 DEF DeleteRow, NoDelete, bounds
<1>6. ASSUME Age
      PROVE  BackupTypes'
  BY <1>6 DEF Age, bounds
<1>7. ASSUME Crash
      PROVE  BackupTypes'
  BY <1>7 DEF Crash, NoSweep, NoDelete
<1>8. ASSUME UNCHANGED backupVars
      PROVE  BackupTypes'
  BY <1>8 DEF backupVars, bounds
<1> QED BY <1>1, <1>2, <1>3, <1>4, <1>5, <1>6, <1>7, <1>8 DEF BackupNext

\* A completed backup stays so until its row is gone, and what is executed is
\* not completed.
LEMMA ExecutingStep ==
  ASSUME BackupTypes, \A b \in Backups : Executing(b), [BackupNext]_backupVars
  PROVE  CompletedStep /\ \A b \in Backups : Executing(b)'
<1> SUFFICES ASSUME NEW b \in Backups
             PROVE  /\ row[b] = "completed" => row'[b] \in {"completed", "gone"}
                    /\ Executing(b)'
  BY DEF CompletedStep
<1> USE DEF BackupTypes, Executing
<1>1. ASSUME NEW c \in Backups, CreateBackup(c)
      PROVE  (row[b] = "completed" => row'[b] \in {"completed", "gone"}) /\ Executing(b)'
  BY <1>1 DEF CreateBackup
<1>2. ASSUME NEW c \in Backups, Execute(c)
      PROVE  (row[b] = "completed" => row'[b] \in {"completed", "gone"}) /\ Executing(b)'
  BY <1>2 DEF Execute, Start, Dump, DumpFails, Upload, UploadFails, Finish, Fail, Update, Exists
<1>3. ASSUME NEW c \in Backups, DeleteFile(c)
      PROVE  (row[b] = "completed" => row'[b] \in {"completed", "gone"}) /\ Executing(b)'
  BY <1>3 DEF DeleteFile
<1>4. ASSUME Sweep
      PROVE  (row[b] = "completed" => row'[b] \in {"completed", "gone"}) /\ Executing(b)'
  <2>1. exec' = exec
    BY <1>4 DEF Sweep, MarkLoad, CleanLoad, CleanRow, CleanEnd, Mark, CleanFile
  <2>2. \/ row' = row
        \/ row' = [c \in Backups |-> IF c \in sweep.row THEN "gone" ELSE row[c]]
        \/ \E c \in Backups : row' = [row EXCEPT ![c] = IF @ = "in_progress" THEN "failed" ELSE @]
    BY <1>4 DEF Sweep, MarkLoad, CleanLoad, CleanRow, CleanEnd, Mark, CleanFile
  <2> QED BY <2>1, <2>2
<1>5. ASSUME DeleteRow
      PROVE  (row[b] = "completed" => row'[b] \in {"completed", "gone"}) /\ Executing(b)'
  BY <1>5 DEF DeleteRow
<1>6. ASSUME Age
      PROVE  (row[b] = "completed" => row'[b] \in {"completed", "gone"}) /\ Executing(b)'
  BY <1>6 DEF Age
<1>7. ASSUME Crash
      PROVE  (row[b] = "completed" => row'[b] \in {"completed", "gone"}) /\ Executing(b)'
  BY <1>7 DEF Crash
<1>8. ASSUME UNCHANGED backupVars
      PROVE  (row[b] = "completed" => row'[b] \in {"completed", "gone"}) /\ Executing(b)'
  BY <1>8 DEF backupVars
<1> QED BY <1>1, <1>2, <1>3, <1>4, <1>5, <1>6, <1>7, <1>8 DEF BackupNext

\* As long as nobody deletes backups, those that are not uploaded keep their
\* files while they are needed and no longer.
LEMMA KeptStep ==
  ASSUME Slow \subseteq {"upload"}, BackupTypes, BackupTypes', NEW b \in Backups \ Uploaded,
         Kept(b), Swept(b), user.pc = "idle", [BackupNext]_backupVars, deletes' = deletes
  PROVE  Kept(b)' /\ Swept(b)'
<1> USE DEF BackupTypes
<1>1. ASSUME NEW c \in Backups, CreateBackup(c)
      PROVE  Kept(b)' /\ Swept(b)'
  BY <1>1, TimeAssumption DEF CreateBackup, Kept, Swept
<1>2. ASSUME NEW c \in Backups, Execute(c)
      PROVE  Kept(b)' /\ Swept(b)'
  <2>1. CASE c # b
    <3>1. /\ row'[b] = row[b] /\ exec'[b] = exec[b] /\ file'[b] = file[b] /\ age' = age
          /\ sweep' = sweep
      BY <1>2, <2>1 DEF Execute, Start, Dump, DumpFails, Upload, UploadFails, Finish, Fail, Update
    <3> QED BY <3>1 DEF Kept, Swept
  <2>2. CASE c = b
    <3>1. exec[b] # "none" /\ exec[b] # "upload" /\ age' = age /\ sweep' = sweep /\ Exists(b)
      BY <1>2, <2>2
          DEF Execute, Start, Dump, DumpFails, Upload, UploadFails, Finish, Fail, Kept, Exists
    <3>2. CASE Start(b) \/ Finish(b) \/ Fail(b)
      BY <3>1, <3>2, TimeAssumption DEF Start, Finish, Fail, Update, Kept, Swept
    <3>3. CASE Dump(b) \/ DumpFails(b)
      BY <3>1, <3>3, TimeAssumption DEF Dump, DumpFails, Update, Kept, Swept
    <3> QED BY <1>2, <2>2, <3>1, <3>2, <3>3 DEF Execute, Upload, UploadFails
  <2> QED BY <2>1, <2>2
<1>3. ASSUME NEW c \in Backups, DeleteFile(c)
      PROVE  FALSE
  BY <1>3 DEF DeleteFile
<1>4. ASSUME Sweep
      PROVE  Kept(b)' /\ Swept(b)'
  <2>1. CASE MarkLoad
    BY <2>1 DEF MarkLoad, NoSweep, Kept, Swept
  <2>2. CASE CleanLoad
    BY <2>2 DEF CleanLoad, NoSweep, Kept, Swept
  <2>3. CASE CleanRow
    BY <2>3 DEF CleanRow, Kept, Swept
  <2>4. CASE CleanEnd
    BY <2>4 DEF CleanEnd, NoSweep, Kept, Swept
  <2>5. ASSUME NEW c \in Backups, Mark(c)
        PROVE  Kept(b)' /\ Swept(b)'
    BY <2>5, TimeAssumption DEF Mark, Kept, Swept
  <2>6. ASSUME NEW c \in Backups, CleanFile(c)
        PROVE  Kept(b)' /\ Swept(b)'
    <3>1. UNCHANGED <<row, exec, age>> /\ sweep.pc = "clean" /\ c \in sweep.todo
      BY <2>6 DEF CleanFile
    <3>2. CASE /\ file' = [file EXCEPT ![c] = FALSE]
               /\ sweep' = [sweep EXCEPT !.pc = "row", !.todo = @ \ {c}, !.row = {c}]
      <4>1. /\ sweep'.pc = "row" /\ sweep'.todo = sweep.todo \ {c} /\ sweep'.row = {c}
            /\ file'[b] = IF b = c THEN FALSE ELSE file[b]
        BY <3>2
      <4>2. b = c => row[b] \in {"failed", "gone"}
        BY <3>1 DEF Swept
      <4>3. Kept(b)'
        BY <3>1, <4>1, <4>2 DEF Kept
      <4>4. Swept(b)'
        BY <3>1, <4>1, <4>2 DEF Swept
      <4> QED BY <4>3, <4>4
    <3>3. CASE file' = file /\ sweep' = [sweep EXCEPT !.todo = @ \ {c}]
      <4>1. sweep'.pc = sweep.pc /\ sweep'.todo = sweep.todo \ {c} /\ sweep'.row = sweep.row
        BY <3>3
      <4> QED BY <3>1, <3>3, <4>1 DEF Kept, Swept
    <3> QED BY <2>6, <3>2, <3>3 DEF CleanFile
  <2> QED BY <1>4, <2>1, <2>2, <2>3, <2>4, <2>5, <2>6 DEF Sweep
<1>5. ASSUME DeleteRow
      PROVE  FALSE
  BY <1>5 DEF DeleteRow
<1>6. ASSUME Age
      PROVE  Kept(b)' /\ Swept(b)'
  <2>1. /\ UNCHANGED <<row, exec, file, sweep>>
        /\ age'[b] = IF row[b] = "none" \/ age[b] = OldAfter THEN age[b] ELSE age[b] + 1
        /\ exec[b] \notin {"none"} \cup Slow => age[b] < DumpTimeout
    BY <1>6 DEF Age
  <2>2. exec[b] # "none" => age'[b] <= DumpTimeout
    <3>1. exec[b] # "none" => age[b] < DumpTimeout
      BY <2>1 DEF Kept
    <3>2. age[b] \in Nat /\ (age'[b] = age[b] \/ age'[b] = age[b] + 1)
      BY <2>1
    <3> QED BY <3>1, <3>2, TimeAssumption
  <2>3. row[b] = "none" => age'[b] = age[b]
    BY <2>1
  <2>4. age[b] > StuckAfter => age'[b] > StuckAfter
    BY <2>1, TimeAssumption
  <2> QED BY <2>1, <2>2, <2>3, <2>4 DEF Kept, Swept
<1>7. ASSUME Crash
      PROVE  Kept(b)' /\ Swept(b)'
  BY <1>7 DEF Crash, NoSweep, Kept, Swept
<1>8. ASSUME UNCHANGED backupVars
      PROVE  Kept(b)' /\ Swept(b)'
  BY <1>8 DEF backupVars, Kept, Swept
<1> QED BY <1>1, <1>2, <1>3, <1>4, <1>5, <1>6, <1>7, <1>8 DEF BackupNext

\* Every step keeps the invariant.
LEMMA RunsStep ==
  ASSUME Slow \subseteq {"upload"}, RunsInv, [BackupNext]_backupVars
  PROVE  RunsInv'
<1>1. BackupTypes'
  BY TypesStep DEF RunsInv
<1>2. \A b \in Backups : Executing(b)'
  BY ExecutingStep DEF RunsInv
<1>3. ASSUME deletes' = 0
      PROVE  user'.pc = "idle" /\ \A b \in Backups \ Uploaded : Kept(b)' /\ Swept(b)'
  <2>1. deletes' = deletes \/ (deletes' = deletes + 1 /\ deletes \in Nat)
    BY DEF RunsInv, BackupTypes, BackupNext, CreateBackup, Execute, Start, Dump, DumpFails,
           Upload, UploadFails, Finish, Fail, DeleteFile, Sweep, MarkLoad, CleanLoad, CleanRow,
           CleanEnd, Mark, CleanFile, DeleteRow, Age, Crash, backupVars, bounds
  <2>2. deletes' = deletes /\ deletes = 0
    BY <1>3, <2>1
  <2>3. user'.pc = "idle"
    <3>1. ASSUME NEW b \in Backups, DeleteFile(b)
          PROVE  FALSE
      BY <2>2, <3>1 DEF DeleteFile
    <3>2. user' = user \/ user' = NoDelete
      BY <3>1 DEF BackupNext, CreateBackup, Execute, Start, Dump, DumpFails, Upload,
         UploadFails, Finish, Fail, Sweep, MarkLoad, CleanLoad, CleanRow, CleanEnd, Mark,
         CleanFile, DeleteRow, Age, Crash, backupVars
    <3> QED BY <2>2, <3>2 DEF RunsInv, NoDelete
  <2> QED BY <1>1, <2>2, <2>3, KeptStep DEF RunsInv
<1> QED BY <1>1, <1>2, <1>3 DEF RunsInv

\* A backup that is completed stays so until its row is gone.  As long as no
\* user deletes backups, those that are not uploaded have their file when they
\* are completed, and none when their row is gone, among any number of cleanups,
\* crashes and failures; where every phase but the upload has a timeout.
THEOREM CompletedIsKeptHolds ==
  ASSUME Slow \subseteq {"upload"}
  PROVE  BackupSpec => CompletedIsKept
<1>1. RunsInv /\ [BackupNext]_backupVars => RunsInv'
  BY RunsStep
<1>2. RunsInv /\ [BackupNext]_backupVars => CompletedStep
  BY ExecutingStep DEF RunsInv
<1>3. RunsInv' => (deletes' = 0 => (CompletedHasFile /\ NoSilentOrphan)')
  BY DEF RunsInv, Kept, CompletedHasFile, NoSilentOrphan
<1> QED BY <1>1, <1>2, <1>3, RunsStart, PTL DEF BackupSpec, CompletedIsKept
==============================================================================
