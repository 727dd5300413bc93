------------------------------ MODULE Accounts ------------------------------
(***************************************************************************)
(* Users, service accounts and API tokens, and what a request may do.  A   *)
(* request is authenticated once, by a session or by a token, and its      *)
(* handler runs later with the role and the scope found then, while other  *)
(* requests change users, accounts, tokens and environments.               *)
(*                                                                         *)
(* Roles are numbers as in roleHierarchy; 0 stands for a row that is not   *)
(* there.                                                                  *)
(***************************************************************************)
EXTENDS Integers, FiniteSets

CONSTANTS
    Users, ServiceAccounts, Tokens, Environments,
    Requests,       \* requests that may be handled at the same time
    None,           \* none of the above
    MaxRequests, MaxRoleChanges

Viewer == 1
Operator == 2
Admin == 3
Roles == Viewer .. Admin
Owners == Users \cup ServiceAccounts

ASSUME NoneAssumption == None \notin Owners \cup Tokens \cup Environments

VARIABLES
    role,        \* of users and service accounts
    disabled,    \* service accounts
    token,       \* the ApiToken rows: owner, role and scope
    environments,
    request,     \* requests: who, with which role, and what for
    granted,     \* history variable: the scope each token was made with, {} before
    worked,      \* history variable: the changes made by tokens: with which one, "work" or
                 \* "plan", the environment of the route and that of what is changed
    interfered,  \* history variable: TRUE after a request beside another one, the
                 \* creation of a service account or a change of a role
    requests, changes

accounts == <<role, disabled, token, environments>>
history == <<granted, worked, interfered>>
vars == <<accounts, request, history, requests, changes>>

NoToken == [owner |-> None, role |-> 0, all |-> FALSE, envs |-> {}]
NoRequest == [pc |-> "idle", who |-> None, token |-> None, role |-> 0, op |-> <<"none">>]

Init ==
    /\ role = [o \in Owners |-> 0]
    /\ disabled = {}
    /\ token = [t \in Tokens |-> NoToken]
    /\ environments = Environments
    /\ request = [r \in Requests |-> NoRequest]
    /\ granted = [t \in Tokens |-> {}]
    /\ worked = {}
    /\ interfered = FALSE
    /\ requests = 0 /\ changes = 0

-----------------------------------------------------------------------------
(* Who a request comes from. *)

Lower(a, b) == IF a <= b THEN a ELSE b

\* Mutant of EffectiveRole: the role the token was made with.
EffectiveRoleOfToken(t) == token[t].role

\* The lower of the roles of a token and of its owner.
EffectiveRole(t) == Lower(token[t].role, role[token[t].owner])

\* validateApiToken.
Valid(t) == token[t].owner # None /\ token[t].owner \notin disabled

\* Mutant of InScope: a token without environments has no scope.
InScopeEmpty(t, env) == token[t].all \/ token[t].envs = {} \/ env \in token[t].envs

\* enforceTokenScope; env is None for a route without an environment.
InScope(t, env) == token[t].all \/ env \in token[t].envs

\* The requests, those for a token with its environments or None for all of
\* them; the environment of their route and the role they need.
EnvironmentOf(op) == IF op[1] \in {"work", "plan", "deleteEnvironment"} THEN op[2] ELSE None
RoleFor(op) == IF op[1] \in {"work", "plan"} THEN Operator ELSE Admin

Ops ==
    {<<"work", e, target>> : e \in Environments, target \in Environments}
    \cup {<<"plan", e, target>> : e \in Environments, target \in Environments}
    \cup {<<"createOwner", o, k>> : o \in Owners, k \in Roles}
    \cup {<<"setRole", o, k>> : o \in Owners, k \in Roles}
    \cup {<<"deleteOwner", o>> : o \in Owners}
    \cup {<<"disable", a>> : a \in ServiceAccounts}
    \cup {<<"createToken", t, o, k, envs>> : t \in Tokens, o \in Owners, k \in Roles,
                                envs \in {{e} : e \in Environments \cup {None}}}
    \cup {<<"revoke", t>> : t \in Tokens}
    \cup {<<"deleteEnvironment", e>> : e \in Environments}

Free(r) == request[r].pc = "idle" /\ requests < MaxRequests

\* The handlers of the other requests are done.
Alone == \A r \in Requests : request[r].pc = "idle"

Begin(r, who, t, k, op) ==
    /\ requests' = requests + 1
    /\ interfered' = (interfered \/ ~Alone)
    /\ k >= RoleFor(op)
    /\ request' = [request EXCEPT ![r] = [pc |-> "handle", who |-> who, token |-> t, role |-> k, op |-> op]]
    /\ UNCHANGED <<accounts, granted, worked, changes>>

\* A session: the user is read on every request.
AuthenticateSession(r, u, op) ==
    /\ role[u] # 0
    /\ Begin(r, u, None, role[u], op)

AuthenticateToken(r, t, op) ==
    /\ Valid(t)
    /\ InScope(t, EnvironmentOf(op))
    /\ Begin(r, token[t].owner, t, EffectiveRole(t), op)

-----------------------------------------------------------------------------
(* The handlers. *)

Done(r) == request' = [request EXCEPT ![r] = NoRequest]
Handling(r, name) == request[r].pc = "handle" /\ request[r].op[1] = name
Arg(r) == request[r].op[2]

\* A change of something in the environment target, made or not found.
Effect(r, made) ==
    /\ worked' = IF made /\ request[r].token # None
                 THEN worked \cup {<<request[r].token, request[r].op[1], Arg(r), request[r].op[3]>>}
                 ELSE worked
    /\ Done(r)
    /\ UNCHANGED <<accounts, granted, interfered, requests, changes>>

\* Mutant of Work: what the body names is loaded by its id alone.
WorkById(r) ==
    /\ Handling(r, "work")
    /\ Effect(r, {Arg(r), request[r].op[3]} \subseteq environments)

\* A route of an environment, about a service, a database, a template that the
\* body or the path names: it is looked for in that environment, and not found
\* in another one.
Work(r) ==
    /\ Handling(r, "work")
    /\ Effect(r, Arg(r) = request[r].op[3] /\ Arg(r) \in environments)

\* POST /api/environments/:envId/deployment-plans with execute: the plan is one
\* of the environment of the route, which must be there, and deploys the
\* services of the body, which buildDeploymentPlan looks for by id alone.
DeployPlan(r) ==
    /\ Handling(r, "plan")
    /\ Effect(r, {Arg(r), request[r].op[3]} \subseteq environments)

\* POST /api/users and /api/admin/service-accounts; the name must be free.
CreateOwner(r) ==
    /\ Handling(r, "createOwner")
    /\ role' = [role EXCEPT ![Arg(r)] = IF @ = 0 THEN request[r].op[3] ELSE @]
    /\ interfered' = (interfered \/ Arg(r) \in ServiceAccounts)
    /\ Done(r)
    /\ UNCHANGED <<disabled, token, environments, granted, worked, requests, changes>>

\* PATCH of the role of a user or a service account.
SetRole(r) ==
    /\ Handling(r, "setRole")
    /\ changes < MaxRoleChanges
    /\ changes' = changes + 1
    /\ role' = [role EXCEPT ![Arg(r)] = IF @ = 0 THEN @ ELSE request[r].op[3]]
    /\ interfered' = TRUE
    /\ Done(r)
    /\ UNCHANGED <<disabled, token, environments, granted, worked, requests>>

\* PATCH of a service account: it is disabled, or enabled again.
Disable(r) ==
    /\ Handling(r, "disable")
    /\ disabled' = IF role[Arg(r)] = 0 \/ Arg(r) \in disabled THEN disabled \ {Arg(r)}
                   ELSE disabled \cup {Arg(r)}
    /\ Done(r)
    /\ UNCHANGED <<role, token, environments, history, requests, changes>>

\* Mutant of DeleteOwner: the tokens of the owner are left.
DeleteOwnerOnly(r) ==
    /\ Handling(r, "deleteOwner")
    /\ LET o == Arg(r) IN
       IF o = request[r].who /\ o \in Users THEN UNCHANGED <<role, disabled>>
       ELSE /\ role' = [role EXCEPT ![o] = 0]
            /\ disabled' = disabled \ {o}
    /\ Done(r)
    /\ UNCHANGED <<token, environments, history, requests, changes>>

\* Mutant of DeleteOwner: users may delete themselves.
DeleteOwnerSelf(r) ==
    /\ Handling(r, "deleteOwner")
    /\ LET o == Arg(r) IN
       /\ role' = [role EXCEPT ![o] = 0]
       /\ disabled' = disabled \ {o}
       /\ token' = [t \in Tokens |-> IF token[t].owner = o THEN NoToken ELSE token[t]]
    /\ Done(r)
    /\ UNCHANGED <<environments, history, requests, changes>>

\* DELETE of a user, but not by that user, or of a service account; the tokens
\* go with their owner.
DeleteOwner(r) ==
    /\ Handling(r, "deleteOwner")
    /\ LET o == Arg(r) IN
       IF o = request[r].who /\ o \in Users THEN UNCHANGED <<role, disabled, token>>
       ELSE /\ role' = [role EXCEPT ![o] = 0]
            /\ disabled' = disabled \ {o}
            /\ token' = [t \in Tokens |-> IF token[t].owner = o THEN NoToken ELSE token[t]]
    /\ Done(r)
    /\ UNCHANGED <<environments, history, requests, changes>>

\* createApiToken reads the role of the owner, which bounds that of the token...
CreateTokenCheck(r) ==
    /\ Handling(r, "createToken")
    /\ LET o == request[r].op[3] IN
       IF role[o] = 0 \/ o \in disabled \/ request[r].op[4] > role[o]
       THEN Done(r)
       ELSE request' = [request EXCEPT ![r].pc = "insert"]
    /\ UNCHANGED <<accounts, history, requests, changes>>

\* ... and inserts the token, which fails when the owner or an environment is
\* gone by then.  A token is known by an identifier that no token had before.
CreateTokenInsert(r) ==
    /\ request[r].pc = "insert"
    /\ LET t == Arg(r)
           o == request[r].op[3]
           s == request[r].op[5] \ {None}
       IN  IF role[o] # 0 /\ s \subseteq environments /\ granted[t] = {}
           THEN /\ token' = [token EXCEPT ![t] = [owner |-> o, role |-> request[r].op[4],
                                                   all |-> s = {}, envs |-> s]]
                /\ granted' = [granted EXCEPT ![t] = IF s = {} THEN Environments ELSE s]
           ELSE UNCHANGED <<token, granted>>
    /\ Done(r)
    /\ UNCHANGED <<role, disabled, environments, worked, interfered, requests, changes>>

Revoke(r) ==
    /\ Handling(r, "revoke")
    /\ token' = [token EXCEPT ![Arg(r)] = NoToken]
    /\ Done(r)
    /\ UNCHANGED <<role, disabled, environments, history, requests, changes>>

\* DELETE /api/environments/:id; the scopes of tokens lose it.
DeleteEnvironment(r) ==
    /\ Handling(r, "deleteEnvironment")
    /\ environments' = environments \ {Arg(r)}
    /\ token' = [t \in Tokens |-> [token[t] EXCEPT !.envs = @ \ {Arg(r)}]]
    /\ Done(r)
    /\ UNCHANGED <<role, disabled, history, requests, changes>>

\* POST /api/auth/register, or the start of the server with ADMIN_EMAIL: the
\* users are counted and the first one is created as admin.
RegisterCount(r, u) ==
    /\ \A v \in Users : role[v] = 0
    /\ requests' = requests + 1
    /\ interfered' = (interfered \/ ~Alone)
    /\ request' = [request EXCEPT ![r] = [NoRequest EXCEPT !.pc = "register", !.who = u]]
    /\ UNCHANGED <<accounts, granted, worked, changes>>

RegisterCreate(r) ==
    /\ request[r].pc = "register"
    /\ role' = [role EXCEPT ![request[r].who] = IF @ = 0 THEN Admin ELSE @]
    /\ Done(r)
    /\ UNCHANGED <<disabled, token, environments, history, requests, changes>>

Next ==
    \E r \in Requests :
        \/ /\ Free(r)
           /\ \/ \E u \in Users : RegisterCount(r, u)
              \/ \E u \in Users, op \in Ops : AuthenticateSession(r, u, op)
              \/ \E t \in Tokens, op \in Ops : AuthenticateToken(r, t, op)
        \/ RegisterCreate(r) \/ Work(r) \/ DeployPlan(r)
        \/ CreateOwner(r) \/ SetRole(r) \/ Disable(r) \/ DeleteOwner(r)
        \/ CreateTokenCheck(r) \/ CreateTokenInsert(r) \/ Revoke(r) \/ DeleteEnvironment(r)

Spec == Init /\ [][Next]_vars

-----------------------------------------------------------------------------
(* Properties. *)

\* A token has an owner that exists, whoever is deleted while it is made.
OwnersExist == \A t \in Tokens : token[t].owner # None => role[token[t].owner] # 0

\* A token never acts with a higher role than its owner has, also when the
\* owner's role is lowered while the token is made or after.
WithinOwner ==
    \A r \in Requests, t \in Tokens :
        (request[r].pc = "idle" /\ request'[r].token = t) => request'[r].role <= role[token[t].owner]

\* A token is used on the routes of the environments it was made for only, also
\* when those are deleted, and changes nothing outside of them; but for plans,
\* which deploy the services they are asked for, wherever these are.
WorkInScope ==
    \A w \in worked :
        /\ w[3] \in granted[w[1]]
        /\ w[2] # "plan" => w[4] \in granted[w[1]]

\* docs/reference/api.md: environmentIds are the environments the token may act
\* on.  A plan is to deploy no service of another one either.
PlansInScope == \A w \in worked : w[4] \in granted[w[1]]

\* A token has an owner that exists, never acts with a higher role than its
\* owner has, is used on the routes of the environments it was made for only
\* and, but for the services of a plan, changes nothing outside of them,
\* whatever becomes of the owner, its role and the environments while the token
\* is made, and after.
TokensBounded == [][WithinOwner /\ (OwnersExist /\ WorkInScope)']_vars

\* While there are users one of them is an admin: as long as requests are
\* handled one after the other, roles are not changed and no service account
\* acts, the last one is not deleted.
AdminRemains ==
    ~interfered /\ (\E u \in Users : role[u] # 0) => \E u \in Users : role[u] = Admin
=============================================================================
