----------------------------- MODULE UserAdmin -----------------------------
(***************************************************************************)
(* Accounts, logins and tokens: api/auth.py over the users table.          *)
(*                                                                         *)
(* A request runs in one session without row locks, so what it read at one *)
(* step may be stale at the next; its steps are the statements it sends to *)
(* Postgres.  require_role looks at the role inside the token and at       *)
(* is_active in the table, never at the role in the table.  Every request  *)
(* that changes something ends with a second commit, the audit entry, and  *)
(* its response goes out after that.                                       *)
(*                                                                         *)
(* A request that is refused changes nothing, so a refusal is a step only  *)
(* where it ends a request that has already begun.                         *)
(***************************************************************************)
EXTENDS Naturals, FiniteSets

CONSTANTS
    Ids,          \* strings used as users.id
    Addresses,    \* strings used as users.email; may overlap with Ids
    Root,         \* "admin", the one member of PROTECTED_USER_IDS
    Operator,     \* "operator1", another account of the seed script
    RootAddress, OperatorAddress,
    Requests,     \* requests being served at one time
    MaxTokens,    \* bound: unexpired tokens at one time
    MaxCrashes,   \* bound: deaths of the server process
    Keep,         \* a column a PATCH does not write
    Absent        \* no row

ASSUME SeedAssumption ==
    /\ Root \in Ids /\ Operator \in Ids /\ Root # Operator
    /\ RootAddress \in Addresses /\ OperatorAddress \in Addresses
    /\ RootAddress # OperatorAddress
ASSUME FiniteAssumption == IsFiniteSet(Ids)
ASSUME NamesAssumption == "known" \notin Requests /\ "lost" \notin Requests
ASSUME BoundsAssumption == MaxTokens \in Nat /\ MaxCrashes \in Nat

VARIABLES
    users,     \* the users table; Absent where there is no row
    tokens,    \* tokens handed out and not expired: whose, with which role
    request,   \* the requests being served
    crashes    \* how often the process has died

vars == <<users, tokens, request, crashes>>

Roles == {"admin", "viewer"}   \* "viewer" stands for every other role
Idle == [phase |-> "idle"]

\* Of a password only this is told apart: somebody was told it, or request r
\* has stored it and has yet to answer, or the answer was never sent.
Password == {"known", "lost"} \cup Requests
User == [email : Addresses, role : Roles, active : BOOLEAN, pw : Password]
Token == [user : Ids, role : Roles]

ASSUME NoValueAssumption ==
    Keep \notin Roles /\ Keep \notin BOOLEAN /\ Absent \notin User

Request ==
         {Idle}
    \cup [phase : {"admitted"}, actor : Ids]
    \cup [phase : {"insert"}, id : Ids, email : Addresses, role : Roles]
    \cup [phase : {"count", "write"}, target : Ids,
          role : Roles \cup {Keep}, active : BOOLEAN \cup {Keep}]
    \cup [phase : {"reset", "change"}, target : Ids]
    \cup [phase : {"audit"}]
    \cup [phase : {"login"}, token : Token]
    \cup [phase : {"told"}, target : Ids]

Rows == {u \in Ids : users[u] # Absent}
ActiveAdmins == {u \in Rows : users[u].role = "admin" /\ users[u].active}

Goes(r, next) == request' = [request EXCEPT ![r] = next]

-----------------------------------------------------------------------------
(* Tokens.                                                                 *)

\* The rows the login query returns: email or id.
Matches(identifier) ==
    {u \in Rows : u = identifier \/ users[u].email = identifier}

\* login up to the audit entry.  scalar_one_or_none raises on two rows.
Login(r) ==
    /\ request[r] = Idle
    /\ \E identifier \in Ids \cup Addresses : \E u \in Matches(identifier) :
         /\ Matches(identifier) = {u}
         /\ users[u].pw = "known"
         /\ users[u].active
         /\ Goes(r, [phase |-> "login",
                     token |-> [user |-> u, role |-> users[u].role]])
    /\ UNCHANGED <<users, tokens, crashes>>

\* The audit entry of the login is committed and the token goes out.
HandOutToken(r) ==
    /\ request[r].phase = "login"
    /\ Cardinality(tokens) < MaxTokens \/ request[r].token \in tokens
    /\ tokens' = tokens \cup {request[r].token}
    /\ Goes(r, Idle)
    /\ UNCHANGED <<users, crashes>>

\* Mutant of Expire: create_access_token leaves out the exp claim of admins.
ExpireUnlessAdmin(t) ==
    /\ t \in tokens /\ t.role # "admin"
    /\ tokens' = tokens \ {t}
    /\ UNCHANGED <<users, request, crashes>>

\* The eight hours of a token are over.  Nothing else ends one: logout only
\* deletes the cookie that carries it.
Expire(t) ==
    /\ t \in tokens
    /\ tokens' = tokens \ {t}
    /\ UNCHANGED <<users, request, crashes>>

-----------------------------------------------------------------------------
(* Dependencies.                                                           *)

\* get_current_user, and require_role after it has looked at the role: the
\* account the token was made for is there and active.
CurrentUser(t) == t.user \in Rows /\ users[t.user].active

\* require_role("admin"): the token's role, then the row's is_active.
RequireAdmin(r) ==
    /\ request[r] = Idle
    /\ \E t \in tokens :
         /\ t.role = "admin"
         /\ CurrentUser(t)
         /\ Goes(r, [phase |-> "admitted", actor |-> t.user])
    /\ UNCHANGED <<users, tokens, crashes>>

\* Mutant of CheckNotProtected: there is no protected account.
CheckNothing(target, actor) == TRUE

\* _check_not_protected lets the request go on.
CheckNotProtected(target, actor) == target = Root => actor = Root

-----------------------------------------------------------------------------
(* create_user.                                                            *)

\* The SELECT by e-mail found nothing.
CreateUser(r) ==
    /\ request[r].phase = "admitted"
    /\ \E id \in Ids, email \in Addresses, role \in Roles :
         /\ \A u \in Rows : users[u].email # email
         /\ Goes(r, [phase |-> "insert", id |-> id, email |-> email,
                     role |-> role])
    /\ UNCHANGED <<users, tokens, crashes>>

\* The INSERT, under the primary key and the unique constraint on email; an
\* IntegrityError becomes a 409.
InsertUser(r) ==
    /\ request[r].phase = "insert"
    /\ LET q == request[r]
           free == q.id \notin Rows /\ \A u \in Rows : users[u].email # q.email
       IN  /\ users' = IF ~free THEN users ELSE [users EXCEPT ![q.id] =
                  [email |-> q.email, role |-> q.role, active |-> TRUE,
                   pw |-> "known"]]
           /\ Goes(r, IF free THEN [phase |-> "audit"] ELSE Idle)
    /\ UNCHANGED <<tokens, crashes>>

-----------------------------------------------------------------------------
(* update_user.                                                            *)

\* The target is read, the payload checked against it.  Only the columns
\* that differ from what was read will be written.
UpdateUser(r) ==
    /\ request[r].phase = "admitted"
    /\ \E target \in Rows, role \in Roles \cup {Keep}, active \in BOOLEAN \cup {Keep} :
         LET row == users[target]
             new_role == IF role = Keep THEN row.role ELSE role
             new_active == IF active = Keep THEN row.active ELSE active
             would_lose_last_admin == /\ row.role = "admin" /\ row.active
                                      /\ new_role # "admin" \/ ~new_active
         IN  /\ role # Keep \/ active # Keep
             /\ CheckNotProtected(target, request[r].actor)
             /\ target # request[r].actor
             /\ Goes(r, [phase |-> IF would_lose_last_admin THEN "count" ELSE "write",
                         target |-> target,
                         role |-> IF new_role = row.role THEN Keep ELSE role,
                         active |-> IF new_active = row.active THEN Keep ELSE active])
    /\ UNCHANGED <<users, tokens, crashes>>

\* _count_active_admins: at most one left is a 400.
CountActiveAdmins(r) ==
    /\ request[r].phase = "count"
    /\ Goes(r, IF Cardinality(ActiveAdmins) <= 1
                 THEN Idle ELSE [request[r] EXCEPT !.phase = "write"])
    /\ UNCHANGED <<users, tokens, crashes>>

\* Mutant of WriteUser: a column the payload leaves out is written as NULL.
WriteUserBlank(r) ==
    /\ request[r].phase = "write"
    /\ users' = [users EXCEPT ![request[r].target].role = request[r].role]
    /\ Goes(r, [phase |-> "audit"])
    /\ UNCHANGED <<tokens, crashes>>

\* One UPDATE of the columns that changed; refresh, then the audit entry.
WriteUser(r) ==
    /\ request[r].phase = "write"
    /\ LET q == request[r]
       IN  /\ users' = [users EXCEPT
                  ![q.target].role = IF q.role = Keep THEN @ ELSE q.role,
                  ![q.target].active = IF q.active = Keep THEN @ ELSE q.active]
           /\ Goes(r, IF q.role = Keep /\ q.active = Keep
                        THEN Idle ELSE [phase |-> "audit"])
    /\ UNCHANGED <<tokens, crashes>>

\* create_user, update_user and change_my_password: the audit entry.
Audit(r) ==
    /\ request[r].phase = "audit"
    /\ Goes(r, Idle)
    /\ UNCHANGED <<users, tokens, crashes>>

-----------------------------------------------------------------------------
(* Passwords.                                                              *)

ResetUserPassword(r) ==
    /\ request[r].phase = "admitted"
    /\ \E target \in Rows :
         /\ CheckNotProtected(target, request[r].actor)
         /\ Goes(r, [phase |-> "reset", target |-> target])
    /\ UNCHANGED <<users, tokens, crashes>>

\* The hash of the generated password is committed; nobody has seen it yet.
StorePassword(r) ==
    /\ request[r].phase = "reset"
    /\ users' = [users EXCEPT ![request[r].target].pw = r]
    /\ Goes(r, [phase |-> "told", target |-> request[r].target])
    /\ UNCHANGED <<tokens, crashes>>

\* The audit entry is committed and the response carries the password, which
\* is of use unless another one has been stored meanwhile.
TellPassword(r) ==
    /\ request[r].phase = "told"
    /\ users' = [users EXCEPT ![request[r].target].pw =
                     IF @ = r THEN "known" ELSE @]
    /\ Goes(r, Idle)
    /\ UNCHANGED <<tokens, crashes>>

\* change_my_password: any role; the current password is compared with the
\* row the dependency loaded, so it can be stale when the new one is stored.
ChangeMyPassword(r) ==
    /\ request[r] = Idle
    /\ \E t \in tokens :
         /\ CurrentUser(t)
         /\ users[t.user].pw = "known"
         /\ Goes(r, [phase |-> "change", target |-> t.user])
    /\ UNCHANGED <<users, tokens, crashes>>

StoreMyPassword(r) ==
    /\ request[r].phase = "change"
    /\ users' = [users EXCEPT ![request[r].target].pw = "known"]
    /\ Goes(r, [phase |-> "audit"])
    /\ UNCHANGED <<tokens, crashes>>

-----------------------------------------------------------------------------

\* The process dies: every request ends where it is, and a password that was
\* stored and not yet returned is known to nobody.
Crash ==
    /\ crashes < MaxCrashes
    /\ crashes' = crashes + 1
    /\ request' = [r \in Requests |-> Idle]
    /\ users' = [u \in Ids |->
           IF u \in Rows /\ users[u].pw \in Requests
             THEN [users[u] EXCEPT !.pw = "lost"] ELSE users[u]]
    /\ UNCHANGED tokens

\* seed.py, the accounts of it that matter here.
Init ==
    /\ users = [u \in Ids |->
           CASE u = Root -> [email |-> RootAddress, role |-> "admin",
                             active |-> TRUE, pw |-> "known"]
             [] u = Operator -> [email |-> OperatorAddress, role |-> "viewer",
                                 active |-> TRUE, pw |-> "known"]
             [] OTHER -> Absent]
    /\ tokens = {}
    /\ request = [r \in Requests |-> Idle]
    /\ crashes = 0

Serves(r) ==
    \/ HandOutToken(r) \/ InsertUser(r) \/ CountActiveAdmins(r) \/ WriteUser(r)
    \/ Audit(r) \/ StorePassword(r) \/ TellPassword(r) \/ StoreMyPassword(r)

Asks(r) ==
    \/ Login(r) \/ RequireAdmin(r) \/ CreateUser(r) \/ UpdateUser(r)
    \/ ResetUserPassword(r) \/ ChangeMyPassword(r)

Next ==
    \/ \E r \in Requests : Asks(r) \/ Serves(r)
    \/ \E t \in tokens : Expire(t)
    \/ Crash

\* The event loop goes on with every request it is serving, and time passes.
Fairness ==
    /\ \A r \in Requests : WF_vars(Serves(r))
    /\ \A t \in Token : WF_vars(Expire(t))

Spec == Init /\ [][Next]_vars
FairSpec == Spec /\ Fairness

-----------------------------------------------------------------------------

TypeOK ==
    /\ users \in [Ids -> User \cup {Absent}]
    /\ tokens \subseteq Token
    /\ request \in [Requests -> Request]
    /\ crashes \in 0 .. MaxCrashes

\* "Cannot leave the system with zero active admins" (update_user): the root
\* account stays an active administrator in every interleaving.  The count is
\* read before the write, in no lock, so by itself it does not ensure this:
\* two administrators could demote each other.
AdminRemains == Root \in ActiveAdmins

\* No request that is still to write an account would take the root's role.
\* This is what makes AdminRemains inductive.
RootUntouched ==
    \A r \in Requests :
        request[r].phase \in {"count", "write"} => request[r].target # Root

\* An account that is no longer an administrator stops acting as one, although
\* require_role believes the token: the old tokens expire, and a login that
\* read the old role hands out at most one more.
DemotedLosesPower ==
    \A u \in Ids :
        <>[](u \notin ActiveAdmins) => <>[]([user |-> u, role |-> "admin"] \notin tokens)

=============================================================================
