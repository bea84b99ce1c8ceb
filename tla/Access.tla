--------------------------------- MODULE Access ---------------------------------
(***************************************************************************)
(* Who a bearer token stands for: identity.py with its cache of resolved   *)
(* principals, the token, user and role routes of server.py, provisioning  *)
(* through scim.py, and the login of a terminal through an identity        *)
(* provider (sso_oidc.py, sso_common.py, device_flow.py).                  *)
(*                                                                         *)
(* A resolution is not one step: it reads the credential's row, then the   *)
(* roles of its subject, then writes the cache, and the tables may change  *)
(* in between.  Time is counted in ticks and every expiry is kept as the   *)
(* ticks left to it; a resolution takes at most LATENCY ticks.             *)
(***************************************************************************)
EXTENDS Integers, FiniteSets

CONSTANTS
    User, ApiToken, Session,    \* users, and credentials that may come to exist
    Resolver,                   \* concurrent requests
    AUTH_CACHE_TTL, AUTH_CACHE_MAX_ENTRIES, SESSION_TTL,
    LATENCY,                    \* bound on one resolution
    MaxChanges                  \* bound: administrative requests

ASSUME AccessAssumption ==
    /\ {AUTH_CACHE_TTL, AUTH_CACHE_MAX_ENTRIES, SESSION_TTL, LATENCY} \subseteq Nat \ {0}
    /\ MaxChanges \in Nat
    /\ ApiToken \cap Session = {}
    /\ User \cap {"none", "group"} = {} /\ Session \cap {"none", "read", "done"} = {}

Credential == ApiToken \cup Session
Key == {"token", "session"} \X Credential   \* one cache entry per table and credential
Never == SESSION_TTL + 1                    \* the life of a token without an expiry
Subject == User \cup {"group"}
Old == AUTH_CACHE_TTL + LATENCY             \* ages are counted up to this one
Unused == [user |-> "none", left |-> 0, revoked |-> FALSE]

VARIABLES
    accessChanges,
    row,        \* credential -> its row in api_tokens or sessions
    suspended,  \* users whose status is "suspended"
    bound,      \* subject, a user or "group" -> its bindings to the writer's role
    member,     \* users in the group
    cache,      \* _principal_cache: key -> [left, ok, scopes]
    request,    \* resolver -> what it is doing
    login,      \* user -> the callback of a login in progress
    device,     \* the device code: its record in Redis
    terminal,   \* the session the polling command collected
    said,       \* key, answer -> ticks since the tables gave this answer
    granted     \* user, scopes -> ticks since the user had them

tableVars == <<row, suspended, bound, member>>
accessVars == <<accessChanges, tableVars, cache, request, login, device, terminal, said, granted>>

(***************************************************************************)
(* What the tables say                                                     *)
(***************************************************************************)
Kind(c) == IF c \in ApiToken THEN "token" ELSE "session"
Exists(c) == row[c] # Unused

(* The row is there, not revoked and not expired, in the table of the key.  *)
Valid(k) ==
    LET c == k[2] IN
    k[1] = Kind(c) /\ Exists(c) /\ ~row[c].revoked /\ row[c].left > 0

(* _permissions_for_subject: the roles of the user and of its group.        *)
Scopes(u) ==
    IF bound[u] > 0 \/ (bound["group"] > 0 /\ u \in member) THEN {"write"} ELSE {"read"}

\* The ages once `ticks` have passed.
Aged(age, ticks) == IF age + ticks > Old THEN Old ELSE age + ticks
RememberAfter(ticks) ==
    /\ said' = [kb \in Key \X BOOLEAN |->
                   IF Valid(kb[1])' = kb[2] THEN 0 ELSE Aged(said[kb], ticks)]
    /\ granted' = [us \in User \X {{"read"}, {"write"}} |->
                      IF Scopes(us[1])' = us[2] THEN 0 ELSE Aged(granted[us], ticks)]
Remember == RememberAfter(0)

NoRequest == [step |-> "idle"]

AccessInit ==
    /\ accessChanges = 0
    /\ row = [c \in Credential |-> Unused]
    /\ suspended = {} /\ bound = [s \in Subject |-> 0] /\ member = {}
    /\ cache = <<>>
    /\ request = [q \in Resolver |-> NoRequest]
    /\ login = [u \in User |-> "none"]
    /\ device = [status |-> "none"] /\ terminal = {}
    /\ said = [kb \in Key \X BOOLEAN |-> IF kb[2] THEN Old ELSE 0]
    /\ granted = [us \in User \X {{"read"}, {"write"}} |-> IF "read" \in us[2] THEN 0 ELSE Old]

(***************************************************************************)
(* Resolving a bearer token                                                *)
(***************************************************************************)
KeyOf(q) == <<request[q].kind, request[q].cred>>
(* A variant forgets the expiry.                                            *)
HitStale(k) == k \in DOMAIN cache
Hit(k) == k \in DOMAIN cache /\ cache[k].left > 0

(* require_token, resolve_db_token: the cache is asked first.  A credential *)
(* is used by who was shown it: the creator of a token, the browser that    *)
(* logged in, the terminal that collected the session.                      *)
Held(c) == Exists(c) \/ c \in terminal
StartRequest(q) ==
    /\ request[q] = NoRequest
    /\ \E c \in {x \in Credential : Held(x)} :
           request' = [request EXCEPT ![q] =
               [step |-> "look", kind |-> "token", cred |-> c, age |-> 0]]
    /\ UNCHANGED <<accessChanges, tableVars, cache, login, device, terminal>>
    /\ Remember

(* After "no such token" the sessions are asked; any other answer ends it.  *)
Look(q) ==
    /\ request[q].step = "look" /\ Hit(KeyOf(q))
    /\ request' = [request EXCEPT ![q] =
           IF request[q].kind = "token" /\ ~cache[KeyOf(q)].ok
           THEN [@ EXCEPT !.kind = "session", !.age = 0] ELSE NoRequest]
    /\ UNCHANGED <<accessChanges, tableVars, cache, login, device, terminal>>
    /\ Remember

(* A miss: an expired entry is dropped, the row is read.                    *)
ReadCredential(q) ==
    /\ request[q].step = "look" /\ ~Hit(KeyOf(q))
    /\ cache' = [k \in DOMAIN cache \ {KeyOf(q)} |-> cache[k]]
    /\ request' = [request EXCEPT ![q] =
           [step |-> IF Valid(KeyOf(q)) THEN "roles" ELSE "put", kind |-> @.kind, cred |-> @.cred,
            age |-> 0, ok |-> Valid(KeyOf(q)), scopes |-> {}]]
    /\ UNCHANGED <<accessChanges, tableVars, login, device, terminal>>
    /\ Remember

ReadRoles(q) ==
    /\ request[q].step = "roles"
    /\ request' = [request EXCEPT ![q].step = "put", ![q].scopes = Scopes(row[request[q].cred].user)]
    /\ UNCHANGED <<accessChanges, tableVars, cache, login, device, terminal>>
    /\ Remember

(* _cache_put: at the cap expired entries go, then the soonest to expire.   *)
Evicted(k) ==
    LET live == {j \in DOMAIN cache : cache[j].left > 0} IN
    IF k \in DOMAIN cache \/ Cardinality(DOMAIN cache) < AUTH_CACHE_MAX_ENTRIES THEN {{}}
    ELSE {(DOMAIN cache \ live) \cup S : S \in {T \in SUBSET live :
             /\ Cardinality(T) = IF Cardinality(live) < AUTH_CACHE_MAX_ENTRIES THEN 0
                                 ELSE Cardinality(live) - AUTH_CACHE_MAX_ENTRIES + 1
             /\ \A i \in T, j \in live \ T : cache[i].left <= cache[j].left}}

CachePut(q) ==
    /\ request[q].step = "put"
    /\ \E gone \in Evicted(KeyOf(q)) :
           cache' = [k \in (DOMAIN cache \ gone) \cup {KeyOf(q)} |->
                        IF k # KeyOf(q) THEN cache[k]
                        ELSE [left |-> AUTH_CACHE_TTL, ok |-> request[q].ok,
                              scopes |-> request[q].scopes]]
    /\ request' = [request EXCEPT ![q] =
           IF request[q].kind = "token" /\ ~request[q].ok
           THEN [step |-> "look", kind |-> "session", cred |-> @.cred, age |-> 0] ELSE NoRequest]
    /\ UNCHANGED <<accessChanges, tableVars, login, device, terminal>>
    /\ Remember

(* No resolution is older than LATENCY.                                     *)
Less(n) == IF n = 0 THEN 0 ELSE n - 1
AccessTick ==
    /\ \A q \in Resolver : request[q] # NoRequest => request[q].age < LATENCY
    /\ request' = [q \in Resolver |-> IF request[q] = NoRequest THEN NoRequest
                                       ELSE [request[q] EXCEPT !.age = @ + 1]]
    /\ row' = [c \in Credential |-> IF row[c].left = Never THEN row[c]
                                    ELSE [row[c] EXCEPT !.left = Less(@)]]
    /\ cache' = [k \in DOMAIN cache |-> [cache[k] EXCEPT !.left = Less(@)]]
    /\ UNCHANGED <<accessChanges, suspended, bound, member, login, device, terminal>>
    /\ RememberAfter(1)

(***************************************************************************)
(* Administration                                                          *)
(***************************************************************************)
Change == accessChanges < MaxChanges /\ accessChanges' = accessChanges + 1
Rest == UNCHANGED <<cache, request, login, device, terminal>> /\ Remember

CreateApiToken(c, u) ==
    /\ Change /\ row[c] = Unused
    /\ \E e \in {1, Never} :
           row' = [row EXCEPT ![c] = [user |-> u, left |-> e, revoked |-> FALSE]]
    /\ UNCHANGED <<suspended, bound, member>> /\ Rest

RevokeApiToken(c) ==
    /\ Change /\ Exists(c) /\ ~row[c].revoked
    /\ row' = [row EXCEPT ![c].revoked = TRUE]
    /\ UNCHANGED <<suspended, bound, member>> /\ Rest

RevokedOf(u, creds) ==
    [c \in Credential |-> IF c \in creds /\ row[c].user = u THEN [row[c] EXCEPT !.revoked = TRUE]
                          ELSE row[c]]

(* suspend_user: tokens and sessions.                                       *)
SuspendUser(u) ==
    /\ Change
    /\ suspended' = suspended \cup {u}
    /\ row' = RevokedOf(u, Credential)
    /\ UNCHANGED <<bound, member>> /\ Rest

(* scim's PUT, PATCH and DELETE of a user: sessions, on the way down only.  *)
ScimSetUserActive(u, active) ==
    /\ Change
    /\ suspended' = IF active THEN suspended \ {u} ELSE suspended \cup {u}
    /\ row' = IF ~active /\ u \notin suspended THEN RevokedOf(u, Session) ELSE row
    /\ UNCHANGED <<bound, member>> /\ Rest

(* Nothing keeps a subject from being bound to a role twice.                *)
CreateRoleBinding(s) ==
    /\ Change
    /\ bound' = [bound EXCEPT ![s] = @ + 1]
    /\ UNCHANGED <<row, suspended, member>> /\ Rest

RevokeRoleBinding(s) ==
    /\ Change /\ bound[s] > 0
    /\ bound' = [bound EXCEPT ![s] = @ - 1]
    /\ UNCHANGED <<row, suspended, member>> /\ Rest

(* scim's group routes: replace, add and remove of members.                 *)
ScimSetMembers(users) ==
    /\ Change /\ member' = users /\ member' # member
    /\ UNCHANGED <<row, suspended, bound>> /\ Rest

(***************************************************************************)
(* Logging a terminal in                                                   *)
(***************************************************************************)
DeviceStart ==
    /\ device.status = "none"
    /\ device' = [status |-> "pending"]
    /\ UNCHANGED <<accessChanges, tableVars, cache, request, login, terminal>> /\ Remember

(* oidc_callback up to upsert_user_from_claims: the status is read ...      *)
LoginRead(u) ==
    /\ login[u] = "none" /\ u \notin suspended
    /\ login' = [login EXCEPT ![u] = "read"]
    /\ UNCHANGED <<accessChanges, tableVars, cache, request, device, terminal>> /\ Remember

(* ... a session token is made up and, in a login that a terminal started,  *)
(* handed to the device record before the session's transaction commits.    *)
LoginApprove(u) ==
    /\ login[u] = "read"
    /\ \E s \in Session :
           /\ row[s] = Unused /\ \A v \in User : login[v] # s
           /\ login' = [login EXCEPT ![u] = s]
           /\ \/ /\ device.status \in {"pending", "approved"}
                 /\ device' = [status |-> "approved", session |-> s]
              \/ UNCHANGED device
    /\ UNCHANGED <<accessChanges, tableVars, cache, request, terminal>> /\ Remember

SessionRow(u) == [user |-> u, left |-> SESSION_TTL, revoked |-> FALSE]

(* The memberships the provider asserted; no groups leave them alone.  The  *)
(* role the group is mapped to is bound once.                               *)
SyncGroups(u) ==
    \/ UNCHANGED <<member, bound>>
    \/ member' = member \ {u} /\ UNCHANGED bound
    \/ /\ member' = member \cup {u}
       /\ \/ UNCHANGED bound
          \/ bound["group"] = 0 /\ bound' = [bound EXCEPT !["group"] = 1]

LoginCommit(u) ==
    /\ login[u] \in Session
    /\ row' = [row EXCEPT ![login[u]] = SessionRow(u)]
    /\ SyncGroups(u)
    /\ login' = [login EXCEPT ![u] = "done"]
    /\ UNCHANGED <<accessChanges, suspended, cache, request, device, terminal>> /\ Remember

(* device_flow.poll: an approved record is deleted as it is collected.      *)
DevicePoll ==
    /\ device.status = "approved"
    /\ terminal' = terminal \cup {device.session}
    /\ device' = [status |-> "collected"]
    /\ UNCHANGED <<accessChanges, tableVars, cache, request, login>> /\ Remember

DeviceExpires ==
    /\ device.status \in {"pending", "approved"}
    /\ device' = [status |-> "expired"]
    /\ UNCHANGED <<accessChanges, tableVars, cache, request, login, terminal>> /\ Remember

AccessNext ==
    \/ \E q \in Resolver :
           StartRequest(q) \/ Look(q) \/ ReadCredential(q) \/ ReadRoles(q) \/ CachePut(q)
    \/ AccessTick
    \/ \E c \in ApiToken : RevokeApiToken(c) \/ \E u \in User : CreateApiToken(c, u)
    \/ \E u \in User : \/ SuspendUser(u) \/ \E a \in BOOLEAN : ScimSetUserActive(u, a)
                       \/ LoginRead(u) \/ LoginApprove(u) \/ LoginCommit(u)
    \/ \E s \in Subject : CreateRoleBinding(s) \/ RevokeRoleBinding(s)
    \/ \E users \in SUBSET User : ScimSetMembers(users)
    \/ DeviceStart \/ DevicePoll \/ DeviceExpires

AccessSpec == AccessInit /\ [][AccessNext]_accessVars

(***************************************************************************)
(* Properties                                                              *)
(***************************************************************************)
AccessTypeOK ==
    /\ accessChanges \in 0 .. MaxChanges
    /\ \A c \in Credential : row[c].revoked \in BOOLEAN /\ row[c].user \in User \cup {"none"}
    /\ suspended \subseteq User /\ member \subseteq User /\ bound \in [Subject -> 0 .. MaxChanges + 1]
    /\ DOMAIN cache \subseteq Key /\ Cardinality(DOMAIN cache) <= AUTH_CACHE_MAX_ENTRIES
    /\ \A q \in Resolver : request[q].step \in {"idle", "look", "roles", "put"}
    /\ terminal \subseteq Session

(* identity.py: a cached copy "can outlive the revoke by up to one TTL        *)
(* window".  Whatever a request can be answered with from the cache, the      *)
(* validity of the credential and, apart from it, the roles of its subject,   *)
(* is what the tables said at most a TTL and a resolution ago: over           *)
(* revocations, expiries, suspensions, role and group changes, logins that    *)
(* commit late, and resolutions that overtake each other.                     *)
CacheIsRecent ==
    \A k \in DOMAIN cache : Hit(k) =>
        /\ said[<<k, cache[k].ok>>] < Old
        /\ cache[k].ok => granted[<<row[k[2]].user, cache[k].scopes>>] < Old
=================================================================================
