--------------------------------- MODULE Accounts ---------------------------------
(***************************************************************************)
(* Accounts, sessions and the kill switch: who may act, and what the audit   *)
(* trail tells of it (backend/app/services/users.py, api/deps.py,            *)
(* api/routes/auth.py, api/routes/users.py, services/trading_controls.py).   *)
(*                                                                         *)
(* A request is authenticated once, when it begins, and goes on with the     *)
(* rows it has read; its session commits once, at its end.  Between any two  *)
(* of its steps other requests commit.  A session keeps the objects it has   *)
(* read, and an UPDATE writes the columns that differ from them.             *)
(*                                                                         *)
(* Op_bug names a plausible bug in Op.  No action uses it.                  *)
(***************************************************************************)
EXTENDS Integers, FiniteSets

CONSTANTS
    Requests,    \* slots of requests in flight
    Users,       \* the email addresses of accounts
    Operators,   \* the admins the command line has created at first
    None,        \* no row, no value
    MaxChanges,  \* bound of the committed changes of accounts
    MaxTokens,   \* bound of the issued tokens
    Switching    \* whether requests use the kill switch

ASSUME OperatorsAssumption == Operators \subseteq Users /\ Operators # {}
ASSUME BoundsAssumption == MaxChanges \in Nat /\ MaxTokens \in Nat
ASSUME NoneAssumption ==
    None \notin Users \cup Requests /\ None \notin BOOLEAN /\ None \notin {"admin", "analyst"}

Roles == {"admin", "analyst"}

UserType == [role: Roles, active: BOOLEAN, must: BOOLEAN, temporary: BOOLEAN, version: Nat]

ASSUME RowsAssumption == None \notin UserType /\ \A S \in SUBSET Users : S # None

\* A token carries its account and the version of the row it was issued from; the epoch,
\* how often the account had been changed then, is for the properties.
TokenType == [user: Users, version: Nat, epoch: Nat]

SwitchType == [halted: BOOLEAN, holder: Requests \cup {None}]

\* Per account, the role and activity its last entry tells, and how often it was changed.
TrailType == [role: [Users -> Roles \cup {None}], active: [Users -> BOOLEAN],
              changes: [Users -> Nat], total: Nat, halted: BOOLEAN]

VARIABLES
    users,      \* rows of users, by email address
    tokens,     \* the access tokens issued so far
    switch,     \* the row of trading_controls and the request that holds its lock
    trail,      \* what the entries of audit_logs add up to
    request,    \* the local state of each request
    raced,      \* history: users changed by a request whose copy of the row was outdated
    overtaken   \* history: whether an update was committed after what it had checked changed

vars == <<users, tokens, switch, trail, request, raced, overtaken>>

-----------------------------------------------------------------------------
(* Rows                                                                     *)

NewUser(role, temporary) ==
    [role |-> role, active |-> TRUE, must |-> temporary, temporary |-> temporary, version |-> 0]

ActiveAdmins == {u \in Users : users[u] # None /\ users[u].role = "admin" /\ users[u].active}

Written_whole(row, old, new) == new

\* A commit writes the columns that differ from what the session has read.
Written(row, old, new) ==
    [f \in DOMAIN row |-> IF new[f] = old[f] THEN row[f] ELSE new[f]]

Idle == [at |-> "idle", op |-> None, user |-> None, row |-> None, target |-> None,
         read |-> None, new |-> None, counted |-> None, epoch |-> 0]

-----------------------------------------------------------------------------
(* Authentication                                                           *)

\* get_authenticated_user: the account is active and the token carries its version.
Accepted(t) ==
    /\ users[t.user] # None
    /\ users[t.user].active
    /\ users[t.user].version = t.version

\* get_current_user and require_admin: what each route asks of the account.
Allowed(op, row) ==
    /\ op # "password" => ~row.must
    /\ op \in {"patch", "reset", "invite"} => row.role = "admin"

Operations ==
    {"password", "patch", "reset", "invite"} \cup (IF Switching THEN {"halt", "release"} ELSE {})

Begin(r) ==
    \E t \in tokens, op \in Operations :
        /\ request[r] = Idle
        /\ Accepted(t)
        /\ Allowed(op, users[t.user])
        /\ request' = [request EXCEPT ![r] =
               [Idle EXCEPT !.at = "begun", !.op = op, !.user = t.user, !.row = users[t.user]]]
        /\ UNCHANGED <<users, tokens, switch, trail, raced, overtaken>>

\* login: the password is checked against the row the request reads.  One that does
\* not match changes no account.
Login(r) ==
    \E u \in Users :
        /\ request[r] = Idle
        /\ users[u] # None
        /\ users[u].active
        /\ request' = [request EXCEPT ![r] =
               [Idle EXCEPT !.at = "ready", !.op = "login", !.user = u, !.row = users[u],
                            !.epoch = trail.changes[u]]]
        /\ UNCHANGED <<users, tokens, switch, trail, raced, overtaken>>

\* The token of a login carries the version the request has read.
IssueToken(r) ==
    /\ request[r].at = "ready"
    /\ request[r].op = "login"
    /\ Cardinality(tokens) < MaxTokens
    /\ tokens' = tokens \cup {[user |-> request[r].user, version |-> request[r].row.version,
                               epoch |-> request[r].epoch]}
    /\ request' = [request EXCEPT ![r] = Idle]
    /\ UNCHANGED <<users, switch, trail, raced, overtaken>>

-----------------------------------------------------------------------------
(* Passwords                                                                *)

Bumped(row) == [row EXCEPT !.version = @ + 1]

NewPassword_quiet(row, temporary) == [row EXCEPT !.must = temporary, !.temporary = temporary]

NewPassword_optional(row, temporary) == Bumped([row EXCEPT !.temporary = temporary])

\* The columns of a new password; its hash is salted, so it always differs.
NewPassword(row, temporary) ==
    Bumped([row EXCEPT !.must = temporary, !.temporary = temporary])

ChangesLeft == trail.total < MaxChanges

\* The audit entry is inserted with the change, under the lock of the user's row.
Recorded(u) == [trail EXCEPT !.changes[u] = @ + 1, !.total = @ + 1]

RecordRace(u, read) ==
    raced' = IF users[u].version = read.version THEN raced ELSE raced \cup {u}

\* change_password: the request's own row, as authentication has read it; the answer is
\* a token of the new version.
ChangePassword(r) ==
    LET q == request[r]
        new == NewPassword(q.row, FALSE)
    IN
    /\ q.at = "begun"
    /\ q.op = "password"
    /\ ChangesLeft
    /\ Cardinality(tokens) < MaxTokens
    /\ users' = [users EXCEPT ![q.user] = [Written(@, q.row, new) EXCEPT !.temporary = FALSE]]
    /\ trail' = Recorded(q.user)
    /\ tokens' = tokens \cup {[user |-> q.user, version |-> new.version,
                               epoch |-> trail.changes[q.user] + 1]}
    /\ RecordRace(q.user, q.row)
    /\ request' = [request EXCEPT ![r] = Idle]
    /\ UNCHANGED <<switch, overtaken>>

-----------------------------------------------------------------------------
(* User management                                                          *)

\* The row of the target: the one authentication has read when it is the actor's own.
ReadRow(q, u) == IF u = q.user THEN q.row ELSE users[u]

\* reset_user_password refuses the actor's own account.
FindForReset(r) ==
    \E u \in Users :
        /\ request[r].at = "begun"
        /\ request[r].op = "reset"
        /\ u # request[r].user
        /\ users[u] # None
        /\ request' = [request EXCEPT ![r] =
               [Idle EXCEPT !.at = "ready", !.op = "reset", !.target = u, !.read = users[u]]]
        /\ UNCHANGED <<users, tokens, switch, trail, raced, overtaken>>

ResetPassword(r) ==
    LET q == request[r] IN
    /\ q.at = "ready"
    /\ q.op = "reset"
    /\ ChangesLeft
    /\ users' = [users EXCEPT ![q.target] =
           [Written(@, q.read, NewPassword(q.read, TRUE)) EXCEPT !.temporary = TRUE]]
    /\ trail' = Recorded(q.target)
    /\ RecordRace(q.target, q.read)
    /\ request' = [request EXCEPT ![r] = Idle]
    /\ UNCHANGED <<tokens, switch, overtaken>>

\* A value of None leaves the column as it is.
Patched(row, role, active) ==
    [row EXCEPT !.role = IF role = None THEN @ ELSE role,
                !.active = IF active = None THEN @ ELSE active]

IsActiveAdmin(row) == row.role = "admin" /\ row.active

LosesAdmin(read, new) == IsActiveAdmin(read) /\ ~IsActiveAdmin(new)

\* update_user: nobody demotes or deactivates himself, and nothing is committed when
\* nothing changes.
FindForUpdate(r) ==
    \E u \in Users, role \in Roles \cup {None}, active \in BOOLEAN \cup {None} :
        LET read == ReadRow(request[r], u) IN
        /\ request[r].at = "begun"
        /\ request[r].op = "patch"
        /\ read # None
        /\ ~(u = request[r].user /\ (role = "analyst" \/ active = FALSE))
        /\ Patched(read, role, active) # read
        /\ request' = [request EXCEPT ![r] =
               [Idle EXCEPT !.at = IF LosesAdmin(read, Patched(read, role, active)) THEN "count" ELSE "ready",
                            !.op = "patch", !.target = u, !.read = read,
                            !.new = Patched(read, role, active)]]
        /\ UNCHANGED <<users, tokens, switch, trail, raced, overtaken>>

LastAdmin_unchecked == FALSE

LastAdmin == Cardinality(ActiveAdmins) <= 1

\* The count is a query of its own, and takes no lock.
CountAdmins(r) ==
    /\ request[r].at = "count"
    /\ request' = [request EXCEPT ![r] =
           IF LastAdmin THEN Idle
           ELSE [request[r] EXCEPT !.at = "ready", !.counted = ActiveAdmins]]
    /\ UNCHANGED <<users, tokens, switch, trail, raced, overtaken>>

\* History: the row or the admins are no longer what the request has checked.
Overtaken(q) ==
    \/ users[q.target] # q.read
    \/ q.counted # None /\ q.counted # ActiveAdmins

\* The audit entry of an update lists the columns it changes.
Told(u, read, new) ==
    [Recorded(u) EXCEPT !.role[u] = IF new.role = read.role THEN @ ELSE new.role,
                        !.active[u] = IF new.active = read.active THEN @ ELSE new.active]

UpdateUser(r) ==
    LET q == request[r] IN
    /\ q.at = "ready"
    /\ q.op = "patch"
    /\ ChangesLeft
    /\ users' = [users EXCEPT ![q.target] =
           Written(@, q.read, Bumped(q.new))]
    /\ trail' = Told(q.target, q.read, q.new)
    /\ RecordRace(q.target, q.read)
    /\ overtaken' = (overtaken \/ Overtaken(q))
    /\ request' = [request EXCEPT ![r] = Idle]
    /\ UNCHANGED <<tokens, switch>>

\* create_user looks for the address and then inserts; invitations carry a temporary
\* password.
FindForInvite(r) ==
    \E u \in Users, role \in Roles :
        /\ request[r].at = "begun"
        /\ request[r].op = "invite"
        /\ users[u] = None
        /\ request' = [request EXCEPT ![r] =
               [Idle EXCEPT !.at = "ready", !.op = "invite", !.target = u,
                            !.new = NewUser(role, TRUE)]]
        /\ UNCHANGED <<users, tokens, switch, trail, raced, overtaken>>

\* The command line creates accounts without a request of an admin.
CreateByOperator(r) ==
    \E u \in Users, role \in Roles :
        /\ request[r] = Idle
        /\ users[u] = None
        /\ request' = [request EXCEPT ![r] =
               [Idle EXCEPT !.at = "ready", !.op = "create", !.target = u,
                            !.new = NewUser(role, FALSE)]]
        /\ UNCHANGED <<users, tokens, switch, trail, raced, overtaken>>

\* The unique index lets one of two insertions of an address commit.
CreateUser(r) ==
    LET q == request[r]
        free == users[q.target] = None
    IN
    /\ q.at = "ready"
    /\ q.op \in {"invite", "create"}
    /\ users' = IF free
                THEN [users EXCEPT ![q.target] = q.new]
                ELSE users
    /\ trail' = IF free
                THEN [trail EXCEPT !.role[q.target] = q.new.role, !.active[q.target] = TRUE]
                ELSE trail
    /\ request' = [request EXCEPT ![r] = Idle]
    /\ UNCHANGED <<tokens, switch, raced, overtaken>>

-----------------------------------------------------------------------------
(* The kill switch                                                          *)

RowIsFree == switch.holder = None

\* SELECT ... FOR UPDATE.  Anybody may halt; only one whose row, as authentication has
\* read it, is an admin's may release.
LockSwitch(r) ==
    /\ request[r].at = "begun"
    /\ request[r].op \in {"halt", "release"}
    /\ request[r].op = "release" => IsActiveAdmin(request[r].row)
    /\ RowIsFree
    /\ switch' = [switch EXCEPT !.holder = r]
    /\ request' = [request EXCEPT ![r] =
           [Idle EXCEPT !.at = "locked", !.op = request[r].op, !.read = switch.halted]]
    /\ UNCHANGED <<users, tokens, trail, raced, overtaken>>

\* The refusal is audited and changes nothing else.
DenyRelease(r) ==
    /\ request[r].at = "begun"
    /\ request[r].op = "release"
    /\ ~IsActiveAdmin(request[r].row)
    /\ request' = [request EXCEPT ![r] = Idle]
    /\ UNCHANGED <<users, tokens, switch, trail, raced, overtaken>>

\* The flag is written when it differs from what was read; the audit entry always is.
SetSwitch(r) ==
    LET halt == request[r].op = "halt" IN
    /\ request[r].at = "locked"
    /\ switch' = [halted |-> IF halt = request[r].read THEN switch.halted ELSE halt,
                  holder |-> None]
    /\ trail' = [trail EXCEPT !.halted = halt]
    /\ request' = [request EXCEPT ![r] = Idle]
    /\ UNCHANGED <<users, tokens, raced, overtaken>>

-----------------------------------------------------------------------------
(* The specification                                                        *)

\* A request fails, is refused, or its process dies: nothing of it is committed.
Abort(r) ==
    /\ request[r] # Idle
    /\ request' = [request EXCEPT ![r] = Idle]
    /\ switch' = IF switch.holder = r THEN [switch EXCEPT !.holder = None] ELSE switch
    /\ UNCHANGED <<users, tokens, trail, raced, overtaken>>

\* A fresh database is halted; the command line has created the first admins.
Init ==
    /\ users = [u \in Users |-> IF u \in Operators THEN NewUser("admin", FALSE) ELSE None]
    /\ tokens = {}
    /\ switch = [halted |-> TRUE, holder |-> None]
    /\ trail = [role |-> [u \in Users |-> IF u \in Operators THEN "admin" ELSE None],
                active |-> [u \in Users |-> u \in Operators],
                changes |-> [u \in Users |-> 0],
                total |-> 0,
                halted |-> TRUE]
    /\ request = [r \in Requests |-> Idle]
    /\ raced = {}
    /\ overtaken = FALSE

Next ==
    \E r \in Requests :
        \/ Login(r) \/ IssueToken(r) \/ Begin(r) \/ ChangePassword(r)
        \/ FindForReset(r) \/ ResetPassword(r)
        \/ FindForUpdate(r) \/ CountAdmins(r) \/ UpdateUser(r)
        \/ FindForInvite(r) \/ CreateByOperator(r) \/ CreateUser(r)
        \/ LockSwitch(r) \/ DenyRelease(r) \/ SetSwitch(r)
        \/ Abort(r)

Spec == Init /\ [][Next]_vars

-----------------------------------------------------------------------------
(* Properties                                                               *)

\* Every variable has its type; one request at a time has locked the switch's row.
TypeOK ==
    /\ users \in [Users -> UserType \cup {None}]
    /\ tokens \subseteq TokenType
    /\ switch \in SwitchType /\ trail \in TrailType
    /\ DOMAIN request = Requests
    /\ \A r \in Requests : request[r].at = "locked" <=> switch.holder = r
    /\ raced \subseteq Users
    /\ overtaken \in BOOLEAN

\* An active admin remains whatever admins do to each other (services/users.py:141),
\* unless an update was committed after the row it changes, or the admins it counted,
\* had changed.
AnAdminRemains == ActiveAdmins # {} \/ overtaken

\* A change of password, role or state, and a reset, end every session begun before them
\* (models/__init__.py:53), a login that was checked before them included; only a change
\* computed from an outdated version lets one live on.
RevokedStaysOut ==
    \A t \in tokens :
        t.epoch < trail.changes[t.user] /\ t.user \notin raced => ~Accepted(t)

\* A temporary password must be replaced before anything else (api/deps.py:51), unless
\* a reset and a change of the same account overlapped.
TemporaryIsReplaced ==
    \A u \in Users : users[u] # None /\ users[u].temporary /\ u \notin raced => users[u].must

\* Whatever requests overlap, the entries of the audit trail, in their order, lead to the
\* present roles, states and kill switch (services/audit.py, trading_controls.py:84).
TrailTellsTheState ==
    /\ \A u \in Users : users[u] # None =>
           users[u].role = trail.role[u] /\ users[u].active = trail.active[u]
    /\ switch.halted = trail.halted

===================================================================================
