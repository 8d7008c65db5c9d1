-------------------------- MODULE UserAdminProofs --------------------------
(***************************************************************************)
(* Proofs about UserAdmin, for any number of accounts, overlapping         *)
(* requests, tokens and crashes.  Every step of a request is brought into  *)
(* one form, what it does to the table and where the request goes, and     *)
(* RequestStep shows once that this form keeps the invariant.              *)
(***************************************************************************)
EXTENDS UserAdmin, TLAPS

Updating == {"count", "write"}
Targeting == Updating \cup {"reset", "change", "told"}

\* A request that has read an account still finds its row: none is deleted.
TargetsExist ==
    \A r \in Requests : request[r].phase \in Targeting => request[r].target \in Rows

Inv ==
    /\ TypeOK
    /\ TargetsExist
    /\ AdminRemains
    /\ RootUntouched

\* The fields of a request, by its phase.
LEMMA RequestFields ==
    ASSUME TypeOK, NEW r \in Requests
    PROVE  /\ request[r].phase = "admitted" => request[r].actor \in Ids
           /\ request[r].phase = "insert" =>
                  /\ request[r].id \in Ids /\ request[r].email \in Addresses
                  /\ request[r].role \in Roles
           /\ request[r].phase \in Updating =>
                  /\ request[r] \in [phase : Updating, target : Ids,
                         role : Roles \cup {Keep}, active : BOOLEAN \cup {Keep}]
           /\ request[r].phase \in Targeting => request[r].target \in Ids
           /\ request[r].phase = "login" => request[r].token \in Token
<1>1. request[r] \in Request
  BY DEF TypeOK
<1>2. CASE request[r] = Idle
  BY <1>2 DEF Idle, Updating, Targeting
<1>3. CASE request[r] \in [phase : {"admitted"}, actor : Ids]
  BY <1>3 DEF Updating, Targeting
<1>4. CASE request[r] \in [phase : {"insert"}, id : Ids, email : Addresses, role : Roles]
  BY <1>4 DEF Updating, Targeting
<1>5. CASE request[r] \in [phase : {"count", "write"}, target : Ids,
                           role : Roles \cup {Keep}, active : BOOLEAN \cup {Keep}]
  BY <1>5 DEF Updating, Targeting
<1>6. CASE request[r] \in [phase : {"reset", "change"}, target : Ids]
  BY <1>6 DEF Updating, Targeting
<1>7. CASE request[r] \in [phase : {"audit"}]
  BY <1>7 DEF Updating, Targeting
<1>8. CASE request[r] \in [phase : {"login"}, token : Token]
  BY <1>8 DEF Updating, Targeting
<1>9. CASE request[r] \in [phase : {"told"}, target : Ids]
  BY <1>9 DEF Updating, Targeting
<1>10. QED
  BY <1>1, <1>2, <1>3, <1>4, <1>5, <1>6, <1>7, <1>8, <1>9 DEF Request

LEMMA RowIsUser ==
    ASSUME TypeOK, NEW u \in Rows
    PROVE  users[u] \in User /\ u \in Ids
BY DEF TypeOK, Rows

-----------------------------------------------------------------------------

LEMMA InitInv == Init => Inv
<1> SUFFICES ASSUME Init PROVE Inv
  OBVIOUS
<1>1. users[Root] = [email |-> RootAddress, role |-> "admin", active |-> TRUE, pw |-> "known"]
  BY SeedAssumption DEF Init
<1>2. users[Root] \in User
  BY <1>1, SeedAssumption DEF User, Password, Roles
<1>3. [email |-> OperatorAddress, role |-> "viewer", active |-> TRUE, pw |-> "known"] \in User
  BY SeedAssumption DEF User, Password, Roles
<1>4. \A u \in Ids : users[u] \in {users[Root], Absent,
          [email |-> OperatorAddress, role |-> "viewer", active |-> TRUE, pw |-> "known"]}
  BY <1>1, SeedAssumption DEF Init
<1>5. TypeOK
  BY <1>2, <1>3, <1>4, BoundsAssumption DEF Init, TypeOK, Request
<1>6. AdminRemains
  BY <1>1, <1>2, SeedAssumption, NoValueAssumption DEF AdminRemains, ActiveAdmins, Rows
<1>7. TargetsExist /\ RootUntouched
  BY DEF Init, Idle, TargetsExist, RootUntouched, Updating, Targeting
<1>8. QED
  BY <1>5, <1>6, <1>7 DEF Inv

\* The form of a step of request r, and what is needed of it.
LEMMA RequestStep ==
    ASSUME Inv, NEW r \in Requests, NEW q \in Request, Goes(r, q),
           tokens' \subseteq Token, crashes' = crashes,
           users' \in [Ids -> User \cup {Absent}],
           Rows \subseteq Rows',
           users'[Root].role = "admin" /\ users'[Root].active,
           q.phase \in Targeting => q.target \in Rows',
           q.phase \in Updating => q.target # Root
    PROVE  Inv'
<1>1. /\ request' \in [Requests -> Request]
      /\ request'[r] = q
      /\ \A s \in Requests \ {r} : request'[s] = request[s]
  BY DEF Goes, Inv, TypeOK
<1>2. TypeOK'
  BY <1>1 DEF Inv, TypeOK
<1>3. TargetsExist'
  BY <1>1 DEF Inv, TargetsExist
<1>4. AdminRemains'
  BY DEF Inv, AdminRemains, ActiveAdmins
<1>5. RootUntouched'
  BY <1>1 DEF Inv, RootUntouched, Updating
<1>6. QED
  BY <1>2, <1>3, <1>4, <1>5 DEF Inv

\* A step that leaves the table alone.
LEMMA ReadingStep ==
    ASSUME Inv, NEW r \in Requests, NEW q \in Request, Goes(r, q),
           tokens' \subseteq Token, UNCHANGED <<users, crashes>>,
           q.phase \in Targeting => q.target \in Rows,
           q.phase \in Updating => q.target # Root
    PROVE  Inv'
<1>1. Rows' = Rows
  BY DEF Rows
<1>2. users'[Root].role = "admin" /\ users'[Root].active
  BY DEF Inv, AdminRemains, ActiveAdmins
<1>3. users' \in [Ids -> User \cup {Absent}]
  BY DEF Inv, TypeOK
<1>4. QED
  BY <1>1, <1>2, <1>3, RequestStep

\* A step that replaces one row.
LEMMA WritingStep ==
    ASSUME Inv, NEW r \in Requests, NEW q \in Request, Goes(r, q),
           UNCHANGED <<tokens, crashes>>,
           NEW u \in Ids, NEW row \in User, users' = [users EXCEPT ![u] = row],
           u = Root => row.role = "admin" /\ row.active,
           q.phase \in Targeting => q.target = u,
           q.phase \notin Updating
    PROVE  Inv'
<1>1. /\ users' \in [Ids -> User \cup {Absent}]
      /\ users'[u] = row
      /\ \A v \in Ids \ {u} : users'[v] = users[v]
  BY DEF Inv, TypeOK
<1>2. Rows' = Rows \cup {u}
  BY <1>1, NoValueAssumption DEF Rows
<1>3. users'[Root].role = "admin" /\ users'[Root].active
  BY <1>1, SeedAssumption DEF Inv, AdminRemains, ActiveAdmins
<1>4. tokens' \subseteq Token
  BY DEF Inv, TypeOK
<1>5. QED
  BY <1>1, <1>2, <1>3, <1>4, RequestStep

-----------------------------------------------------------------------------
(* The requests, as far as they only read.                                 *)

LEMMA AskStep ==
    ASSUME Inv, NEW r \in Requests, Asks(r)
    PROVE  Inv'
<1> USE DEF Inv
<1>0. tokens' = tokens /\ UNCHANGED <<users, crashes>> /\ tokens' \subseteq Token
  BY DEF Asks, Login, RequireAdmin, CreateUser, UpdateUser, ResetUserPassword,
     ChangeMyPassword, TypeOK
<1>1. CASE Login(r)
  <2>1. PICK u \in Rows :
          Goes(r, [phase |-> "login", token |-> [user |-> u, role |-> users[u].role]])
    BY <1>1 DEF Login, Matches
  <2> DEFINE q == [phase |-> "login", token |-> [user |-> u, role |-> users[u].role]]
  <2>2. q \in Request /\ q.phase = "login"
    BY RowIsUser DEF Request, Token, User
  <2> HIDE DEF q
  <2>3. QED
    BY <1>0, <2>1, <2>2, ReadingStep DEF q, Targeting, Updating
<1>2. CASE RequireAdmin(r)
  <2>1. PICK t \in tokens :
          CurrentUser(t) /\ Goes(r, [phase |-> "admitted", actor |-> t.user])
    BY <1>2 DEF RequireAdmin
  <2>2. [phase |-> "admitted", actor |-> t.user] \in Request
    BY <2>1 DEF CurrentUser, Rows, Request
  <2>3. QED
    BY <1>0, <2>1, <2>2, ReadingStep DEF Targeting, Updating
<1>3. CASE CreateUser(r)
  <2>1. PICK id \in Ids, email \in Addresses, role \in Roles :
          Goes(r, [phase |-> "insert", id |-> id, email |-> email, role |-> role])
    BY <1>3 DEF CreateUser
  <2>2. [phase |-> "insert", id |-> id, email |-> email, role |-> role] \in Request
    BY DEF Request
  <2>3. QED
    BY <1>0, <2>1, <2>2, ReadingStep DEF Targeting, Updating
<1>4. CASE UpdateUser(r)
  <2>1. PICK target \in Rows, phase \in Updating, role \in Roles \cup {Keep},
             active \in BOOLEAN \cup {Keep} :
          /\ CheckNotProtected(target, request[r].actor)
          /\ target # request[r].actor
          /\ Goes(r, [phase |-> phase, target |-> target, role |-> role, active |-> active])
    BY <1>4, Zenon DEF UpdateUser, Updating
  <2>2. target # Root
    BY <2>1 DEF CheckNotProtected
  <2>3. [phase |-> phase, target |-> target, role |-> role, active |-> active] \in Request
    BY RowIsUser DEF Request, Updating
  <2>4. QED
    BY <1>0, <2>1, <2>2, <2>3, ReadingStep
<1>5. CASE ResetUserPassword(r)
  <2>1. PICK target \in Rows : Goes(r, [phase |-> "reset", target |-> target])
    BY <1>5 DEF ResetUserPassword
  <2>2. [phase |-> "reset", target |-> target] \in Request
    BY RowIsUser DEF Request
  <2>3. QED
    BY <1>0, <2>1, <2>2, ReadingStep DEF Updating
<1>6. CASE ChangeMyPassword(r)
  <2>1. PICK t \in tokens :
          CurrentUser(t) /\ Goes(r, [phase |-> "change", target |-> t.user])
    BY <1>6 DEF ChangeMyPassword
  <2>2. /\ [phase |-> "change", target |-> t.user] \in Request
        /\ t.user \in Rows
    BY <2>1 DEF CurrentUser, Rows, Request
  <2>3. QED
    BY <1>0, <2>1, <2>2, ReadingStep DEF Updating
<1>7. QED
  BY <1>1, <1>2, <1>3, <1>4, <1>5, <1>6 DEF Asks

-----------------------------------------------------------------------------
(* The rest of a request.                                                  *)

LEMMA ServeStep ==
    ASSUME Inv, NEW r \in Requests, Serves(r)
    PROVE  Inv'
<1> USE DEF Inv
<1> DEFINE audit == [phase |-> "audit"]
<1>0. /\ Idle \in Request /\ Idle.phase \notin Targeting
      /\ audit \in Request /\ audit.phase \notin Targeting
  BY DEF Request, Idle, Targeting, Updating
<1>00. Updating \subseteq Targeting
  BY DEF Targeting
<1> HIDE DEF audit
<1>1. CASE HandOutToken(r)
  <2>1. tokens' \subseteq Token
    BY <1>1, RequestFields DEF HandOutToken, TypeOK
  <2>2. QED
    BY <1>0, <1>00, <1>1, <2>1, ReadingStep DEF HandOutToken
<1>2. CASE InsertUser(r)
  <2> DEFINE q == request[r]
             row == [email |-> q.email, role |-> q.role, active |-> TRUE, pw |-> "known"]
  <2>1. row \in User /\ q.id \in Ids
    BY <1>2, RequestFields DEF InsertUser, User, Password
  <2>2. \/ UNCHANGED users /\ Goes(r, Idle)
        \/ /\ q.id \notin Rows /\ users' = [users EXCEPT ![q.id] = row]
           /\ Goes(r, audit)
    BY <1>2, Zenon DEF InsertUser, audit
  <2>3. Root \in Rows
    BY DEF AdminRemains, ActiveAdmins
  <2>4. UNCHANGED <<tokens, crashes>> /\ tokens' \subseteq Token
    BY <1>2 DEF InsertUser, TypeOK
  <2>5. CASE UNCHANGED users /\ Goes(r, Idle)
    BY <1>0, <1>00, <1>2, <2>4, <2>5, ReadingStep DEF InsertUser
  <2>6. CASE /\ q.id \notin Rows /\ users' = [users EXCEPT ![q.id] = row]
             /\ Goes(r, audit)
    <3> HIDE DEF row
    <3>1. q.id # Root
      BY <2>3, <2>6
    <3>2. QED
      BY <1>0, <1>00, <2>1, <2>4, <2>6, <3>1, WritingStep
  <2>7. QED
    BY <2>2, <2>5, <2>6
<1>3. CASE CountActiveAdmins(r)
  <2> DEFINE w == [request[r] EXCEPT !.phase = "write"]
  <2>1. /\ w \in Request /\ w.phase = "write" /\ w.target = request[r].target
        /\ request[r].phase = "count"
    BY <1>3, RequestFields DEF CountActiveAdmins, Request, Updating
  <2>2. w.target \in Rows /\ w.target # Root
    BY <2>1 DEF TargetsExist, RootUntouched, Targeting, Updating
  <2>3. Goes(r, Idle) \/ Goes(r, w)
    BY <1>3, Zenon DEF CountActiveAdmins
  <2>4. UNCHANGED <<users, tokens, crashes>> /\ tokens' \subseteq Token
    BY <1>3 DEF CountActiveAdmins, TypeOK
  <2> HIDE DEF w
  <2>5. QED
    BY <1>0, <1>00, <2>1, <2>2, <2>3, <2>4, ReadingStep
<1>4. CASE WriteUser(r)
  <2> DEFINE q == request[r]
             old == users[q.target]
             row == [email |-> old.email,
                     role |-> IF q.role = Keep THEN old.role ELSE q.role,
                     active |-> IF q.active = Keep THEN old.active ELSE q.active,
                     pw |-> old.pw]
  <2>1. /\ q.phase = "write" /\ q.target \in Rows /\ q.target # Root
        /\ q \in [phase : Updating, target : Ids,
                  role : Roles \cup {Keep}, active : BOOLEAN \cup {Keep}]
    BY <1>4, RequestFields
       DEF WriteUser, TargetsExist, RootUntouched, Targeting, Updating
  <2>2. old \in User
    BY <2>1, RowIsUser
  <2>3. row \in User
    BY <2>1, <2>2 DEF User
  <2>4. users' = [users EXCEPT ![q.target] = row]
    <3> DEFINE role == IF q.role = Keep THEN old.role ELSE q.role
               active == IF q.active = Keep THEN old.active ELSE q.active
               mid == [users EXCEPT ![q.target].role = role]
    <3>1. users' = [mid EXCEPT ![q.target].active =
                        IF q.active = Keep THEN @ ELSE q.active]
      BY <1>4 DEF WriteUser
    <3>2. /\ mid[q.target] = [old EXCEPT !.role = role]
          /\ \A v \in Ids \ {q.target} : mid[v] = users[v]
          /\ DOMAIN mid = Ids /\ mid = [v \in Ids |-> mid[v]]
      BY <2>1 DEF TypeOK
    <3>3. mid[q.target].active = old.active
      BY <2>2, <3>2 DEF User
    <3>4. [mid[q.target] EXCEPT !.active = active] = row
      BY <2>2, <3>2 DEF User
    <3> HIDE DEF mid, row, role
    <3>5. users' = [mid EXCEPT ![q.target] = row]
      BY <3>1, <3>3, <3>4
    <3>6. QED
      BY <3>2, <3>5 DEF TypeOK
  <2>5. UNCHANGED <<tokens, crashes>> /\ q.target \in Ids
        /\ (Goes(r, Idle) \/ Goes(r, audit))
    BY <1>4, <2>1, Zenon DEF WriteUser, Rows, audit
  <2> HIDE DEF row
  <2>6. CASE Goes(r, Idle)
    BY <1>0, <1>00, <2>1, <2>3, <2>4, <2>5, <2>6, WritingStep
  <2>7. CASE Goes(r, audit)
    BY <1>0, <1>00, <2>1, <2>3, <2>4, <2>5, <2>7, WritingStep
  <2>8. QED
    BY <2>5, <2>6, <2>7
<1>5. CASE Audit(r)
  BY <1>0, <1>00, <1>5, ReadingStep DEF Audit, TypeOK
<1>6. CASE StorePassword(r)
  <2> DEFINE u == request[r].target
             row == [users[u] EXCEPT !.pw = r]
             q == [phase |-> "told", target |-> u]
  <2>1. request[r].phase = "reset" /\ u \in Rows
    BY <1>6 DEF StorePassword, TargetsExist, Targeting
  <2>2. users[u] \in User /\ u \in Ids
    BY <2>1, RowIsUser
  <2>3. /\ row \in User
        /\ row.role = users[u].role /\ row.active = users[u].active
    BY <2>2 DEF User, Password
  <2>4. users' = [users EXCEPT ![u] = row]
    BY <1>6, <2>2 DEF StorePassword, TypeOK
  <2>5. q \in Request /\ q.phase \notin Updating /\ q.target = u
    BY <2>2 DEF Request, Updating
  <2>6. Goes(r, q) /\ UNCHANGED <<tokens, crashes>>
    BY <1>6 DEF StorePassword
  <2>7. u = Root => row.role = "admin" /\ row.active
    BY <2>3 DEF AdminRemains, ActiveAdmins
  <2> HIDE DEF row
  <2>8. QED
    BY <2>2, <2>3, <2>4, <2>5, <2>6, <2>7, WritingStep
<1>7. CASE TellPassword(r)
  <2> DEFINE u == request[r].target
             row == [users[u] EXCEPT !.pw = IF @ = r THEN "known" ELSE @]
  <2>1. request[r].phase = "told" /\ u \in Rows
    BY <1>7 DEF TellPassword, TargetsExist, Targeting
  <2>2. users[u] \in User /\ u \in Ids
    BY <2>1, RowIsUser
  <2>3. /\ row \in User
        /\ row.role = users[u].role /\ row.active = users[u].active
    BY <2>2 DEF User, Password
  <2>4. users' = [users EXCEPT ![u] = row]
    BY <1>7, <2>2 DEF TellPassword, TypeOK
  <2>5. Goes(r, Idle) /\ UNCHANGED <<tokens, crashes>>
    BY <1>7 DEF TellPassword
  <2>6. u = Root => row.role = "admin" /\ row.active
    BY <2>3 DEF AdminRemains, ActiveAdmins
  <2> HIDE DEF row
  <2>7. QED
    BY <1>0, <1>00, <2>2, <2>3, <2>4, <2>5, <2>6, WritingStep
<1>8. CASE StoreMyPassword(r)
  <2> DEFINE u == request[r].target
             row == [users[u] EXCEPT !.pw = "known"]
  <2>1. request[r].phase = "change" /\ u \in Rows
    BY <1>8 DEF StoreMyPassword, TargetsExist, Targeting
  <2>2. users[u] \in User /\ u \in Ids
    BY <2>1, RowIsUser
  <2>3. /\ row \in User
        /\ row.role = users[u].role /\ row.active = users[u].active
    BY <2>2 DEF User, Password
  <2>4. users' = [users EXCEPT ![u] = row]
    BY <1>8, <2>2 DEF StoreMyPassword, TypeOK
  <2>5. Goes(r, audit) /\ UNCHANGED <<tokens, crashes>>
    BY <1>8 DEF StoreMyPassword, audit
  <2>6. u = Root => row.role = "admin" /\ row.active
    BY <2>3 DEF AdminRemains, ActiveAdmins
  <2> HIDE DEF row
  <2>7. QED
    BY <1>0, <1>00, <2>2, <2>3, <2>4, <2>5, <2>6, WritingStep
<1>9. QED
  BY <1>1, <1>2, <1>3, <1>4, <1>5, <1>6, <1>7, <1>8 DEF Serves

-----------------------------------------------------------------------------

LEMMA CrashStep ==
    ASSUME Inv, Crash
    PROVE  Inv'
<1> USE DEF Inv
<1>1. \A u \in Rows :
        /\ users'[u] \in User
        /\ users'[u].role = users[u].role /\ users'[u].active = users[u].active
  <2> SUFFICES ASSUME NEW u \in Rows
               PROVE  /\ users'[u] \in User
                      /\ users'[u].role = users[u].role
                      /\ users'[u].active = users[u].active
    OBVIOUS
  <2>1. users[u] \in User /\ u \in Ids
    BY RowIsUser
  <2>2. users'[u] = IF users[u].pw \in Requests
                      THEN [users[u] EXCEPT !.pw = "lost"] ELSE users[u]
    BY <2>1 DEF Crash
  <2>3. QED
    BY <2>1, <2>2 DEF User, Password
<1>2. users' \in [Ids -> User \cup {Absent}] /\ Rows' = Rows
  <2>1. \A u \in Ids \ Rows : users'[u] = Absent
    BY DEF Crash, Rows
  <2>2. users' = [u \in Ids |-> users'[u]]
    BY DEF Crash
  <2>3. \A u \in Ids : users'[u] \in User \cup {Absent}
    BY <1>1, <2>1
  <2>4. Rows' = Rows
    BY <1>1, <2>1, NoValueAssumption DEF Rows
  <2>5. QED
    BY <2>2, <2>3, <2>4
<1>3. \A r \in Requests : request'[r] = Idle
  BY DEF Crash
<1>4. TypeOK'
  BY <1>2, BoundsAssumption DEF Crash, TypeOK, Request
<1>5. AdminRemains'
  BY <1>1, <1>2 DEF AdminRemains, ActiveAdmins
<1>6. TargetsExist' /\ RootUntouched'
  BY <1>3 DEF TargetsExist, RootUntouched, Idle, Targeting, Updating
<1>7. QED
  BY <1>4, <1>5, <1>6

LEMMA NextInv == Inv /\ [Next]_vars => Inv'
<1> SUFFICES ASSUME Inv, [Next]_vars PROVE Inv'
  OBVIOUS
<1>1. CASE \E t \in tokens : Expire(t)
  BY <1>1 DEF Expire, Inv, TypeOK, TargetsExist, AdminRemains, ActiveAdmins, RootUntouched,
     Rows
<1>2. CASE UNCHANGED vars
  BY <1>2 DEF vars, Inv, TypeOK, TargetsExist, AdminRemains, ActiveAdmins, RootUntouched,
     Rows
<1>3. QED
  BY <1>1, <1>2, AskStep, ServeStep, CrashStep DEF Next

\* Every variable keeps its type: in particular no PATCH leaves a column
\* without a value, whatever requests overlap.
THEOREM TypeCorrect == Spec => []TypeOK
<1>1. QED
  BY InitInv, NextInv, PTL DEF Spec, Inv

\* "Cannot leave the system with zero active admins" (update_user): the root
\* account stays an active administrator, for any requests that overlap.
THEOREM RootRemains == Spec => []AdminRemains
<1>1. QED
  BY InitInv, NextInv, PTL DEF Spec, Inv

=============================================================================
