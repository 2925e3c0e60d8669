----------------------------- MODULE Accounts_proofs -----------------------------
(***************************************************************************)
(* Theorems about Accounts for every number of requests, accounts and        *)
(* tokens: all of its safety properties.                                    *)
(***************************************************************************)
EXTENDS Accounts, FiniteSetTheorems, TLAPS

Fields == {"at", "op", "user", "row", "target", "read", "new", "counted", "epoch"}

\* A request has read a row of account u from the users us, whose changes the trail
\* tr counts: unless a change was computed from an outdated row, the row read is
\* either outdated or still the row.
Read(u, row, us, tr, ra) ==
    /\ u \in Users /\ row \in UserType /\ us[u] # None
    /\ u \notin ra => /\ row.version <= tr.changes[u]
                      /\ row.version = us[u].version => row = us[u]

\* What a request with local state q is about to write, and from what.
Sound(q, us, tr, ra) ==
    /\ DOMAIN q = Fields
    /\ q.at = "begun" => Read(q.user, q.row, us, tr, ra)
    /\ q.at \in {"ready", "count"} /\ q.op \in {"patch", "reset"} =>
           Read(q.target, q.read, us, tr, ra)
    /\ q.at = "count" => q.op = "patch"
    /\ q.at \in {"ready", "count"} /\ q.op = "patch" =>
           /\ q.new \in UserType /\ q.new.version = q.read.version
           /\ q.new.must = q.read.must /\ q.new.temporary = q.read.temporary
    /\ q.at = "ready" /\ q.op = "patch" /\ LosesAdmin(q.read, q.new) =>
           q.counted # None /\ ~(Cardinality(q.counted) <= 1)
    /\ q.at = "ready" /\ q.op \in {"invite", "create"} =>
           /\ q.target \in Users /\ q.new \in UserType /\ q.new.active
           /\ q.new.version = 0 /\ q.new.must = q.new.temporary
    /\ q.at = "ready" /\ q.op = "login" =>
           /\ q.user \in Users /\ q.row \in UserType /\ q.epoch \in Nat
           /\ q.user \notin ra => q.row.version = q.epoch

\* A row of users agrees with the trail, and its version counts its changes.
Row(u, us, tr, ra) ==
    /\ us[u] = None => tr.changes[u] = 0
    /\ us[u] # None => us[u].role = tr.role[u] /\ us[u].active = tr.active[u]
    /\ us[u] # None /\ u \notin ra =>
           us[u].version = tr.changes[u] /\ (us[u].temporary => us[u].must)

Rows(us, tr, ra) ==
    /\ us \in [Users -> UserType \cup {None}] /\ tr \in TrailType /\ ra \subseteq Users
    /\ \A u \in Users : Row(u, us, tr, ra)

Token(t, ra) ==
    /\ t \in TokenType
    /\ t.user \notin ra => t.version = t.epoch

\* The switch agrees with the trail, and the request that holds its row has read it.
SwitchInv ==
    /\ switch \in SwitchType
    /\ switch.halted = trail.halted
    /\ \A r \in Requests :
           /\ request[r].at = "locked" <=> switch.holder = r
           /\ request[r].at = "locked" => request[r].read = switch.halted

AccountsInv ==
    /\ Rows(users, trail, raced)
    /\ \A t \in tokens : Token(t, raced)
    /\ DOMAIN request = Requests
    /\ \A r \in Requests : Sound(request[r], users, trail, raced)
    /\ SwitchInv
    /\ overtaken \in BOOLEAN /\ AnAdminRemains

\* What others may do to an account without making a request unsound: a change makes
\* every row read before it outdated.
Grows(us, tr, ra, us2, tr2, ra2) ==
    /\ ra \subseteq ra2
    /\ \A u \in Users :
           /\ us[u] # None => us2[u] # None
           /\ us[u] # None /\ u \notin ra2 =>
                /\ tr.changes[u] <= tr2.changes[u]
                /\ us2[u] = us[u] \/ us2[u].version > tr.changes[u]

-----------------------------------------------------------------------------
LEMMA InvImplies ==
    AccountsInv => /\ TypeOK /\ AnAdminRemains /\ RevokedStaysOut
                   /\ TemporaryIsReplaced /\ TrailTellsTheState
<1> SUFFICES ASSUME AccountsInv
             PROVE  /\ TypeOK /\ AnAdminRemains /\ RevokedStaysOut
                    /\ TemporaryIsReplaced /\ TrailTellsTheState
  OBVIOUS
<1>1. TypeOK
  BY DEF AccountsInv, Rows, Token, TokenType, SwitchInv, SwitchType, TypeOK
<1>2. ASSUME NEW t \in tokens, t.epoch < trail.changes[t.user], t.user \notin raced, Accepted(t)
      PROVE  FALSE
  <2>1. Token(t, raced) /\ Row(t.user, users, trail, raced)
    BY DEF AccountsInv, Rows, Token, TokenType
  <2>2. t.version = trail.changes[t.user] /\ t.version = t.epoch
    BY <1>2, <2>1 DEF Accepted, Row, Token, TokenType
  <2>3. t.epoch \in Nat
    BY <2>1 DEF Token, TokenType
  <2> QED
    BY <1>2, <2>2, <2>3
<1>3. TemporaryIsReplaced
  BY DEF AccountsInv, Rows, Row, TemporaryIsReplaced
<1>4. TrailTellsTheState
  BY DEF AccountsInv, Rows, Row, SwitchInv, SwitchType, TrailTellsTheState
<1> QED
  BY <1>1, <1>2, <1>3, <1>4 DEF RevokedStaysOut, AccountsInv

LEMMA InitInv == Init => AccountsInv
<1> SUFFICES ASSUME Init PROVE AccountsInv
  OBVIOUS
<1> USE DEF Init
<1>1. \A u \in Users :
          users[u] = IF u \in Operators THEN NewUser("admin", FALSE) ELSE None
  OBVIOUS
<1>2. NewUser("admin", FALSE) \in UserType
  BY DEF NewUser, UserType, Roles
<1>3. Rows(users, trail, raced)
  <2>1. users \in [Users -> UserType \cup {None}]
    BY <1>2
  <2>2. trail \in TrailType
    BY DEF TrailType, Roles
  <2>3. ASSUME NEW u \in Users PROVE Row(u, users, trail, raced)
    BY <1>1, <1>2, RowsAssumption DEF Row, NewUser
  <2> QED
    BY <2>1, <2>2, <2>3 DEF Rows
<1>4. \A r \in Requests : Sound(request[r], users, trail, raced)
  BY DEF Sound, Idle, Fields
<1>5. SwitchInv
  BY NoneAssumption DEF SwitchInv, SwitchType, Idle
<1>6. AnAdminRemains
  <2>1. PICK u \in Operators : TRUE
    BY OperatorsAssumption
  <2>2. u \in Users /\ users[u] = NewUser("admin", FALSE)
    BY <1>1, OperatorsAssumption
  <2>3. u \in ActiveAdmins
    BY <2>2, <1>2, RowsAssumption DEF ActiveAdmins, NewUser
  <2> QED
    BY <2>3 DEF AnAdminRemains
<1> QED
  BY <1>3, <1>4, <1>5, <1>6 DEF AccountsInv

-----------------------------------------------------------------------------
LEMMA ReadStays ==
    ASSUME NEW us, NEW tr, NEW ra, NEW us2, NEW tr2, NEW ra2,
           Grows(us, tr, ra, us2, tr2, ra2), tr \in TrailType, tr2 \in TrailType,
           NEW u, NEW row, Read(u, row, us, tr, ra)
    PROVE  Read(u, row, us2, tr2, ra2)
<1>1. u \in Users /\ row \in UserType /\ us2[u] # None
  BY DEF Read, Grows
<1>2. ASSUME u \notin ra2
      PROVE  /\ row.version <= tr2.changes[u]
             /\ row.version = us2[u].version => row = us2[u]
  <2>1. tr.changes[u] \in Nat /\ tr2.changes[u] \in Nat /\ row.version \in Nat
    BY <1>1 DEF TrailType, UserType
  <2>2. u \notin ra /\ row.version <= tr.changes[u] /\ us[u] # None
    BY <1>2 DEF Grows, Read
  <2>3. tr.changes[u] <= tr2.changes[u]
    BY <1>1, <1>2, <2>2 DEF Grows
  <2>4. CASE us2[u] = us[u]
    BY <2>1, <2>2, <2>3, <2>4 DEF Read
  <2>5. CASE us2[u].version > tr.changes[u]
    BY <2>1, <2>2, <2>3, <2>5
  <2> QED
    BY <1>1, <1>2, <2>2, <2>4, <2>5 DEF Grows
<1> QED
  BY <1>1, <1>2 DEF Read

LEMMA SoundStays ==
    ASSUME NEW us, NEW tr, NEW ra, NEW us2, NEW tr2, NEW ra2,
           Grows(us, tr, ra, us2, tr2, ra2), tr \in TrailType, tr2 \in TrailType,
           NEW q, Sound(q, us, tr, ra)
    PROVE  Sound(q, us2, tr2, ra2)
<1>1. q.at = "begun" => Read(q.user, q.row, us2, tr2, ra2)
  BY ReadStays DEF Sound
<1>2. q.at \in {"ready", "count"} /\ q.op \in {"patch", "reset"} =>
          Read(q.target, q.read, us2, tr2, ra2)
  BY ReadStays DEF Sound
<1>3. ra \subseteq ra2
  BY DEF Grows
<1> QED
  BY <1>1, <1>2, <1>3 DEF Sound

LEMMA GrowsItself ==
    ASSUME NEW us, NEW tr \in TrailType, NEW ra
    PROVE  Grows(us, tr, ra, us, tr, ra)
BY DEF Grows, TrailType

\* Request r goes on to local state x.
LEMMA RequestMoves ==
    ASSUME AccountsInv, NEW r \in Requests, NEW x,
           request' = [request EXCEPT ![r] = x],
           Grows(users, trail, raced, users', trail', raced'), trail' \in TrailType,
           Sound(x, users', trail', raced')
    PROVE  /\ DOMAIN request' = Requests
           /\ \A s \in Requests : Sound(request'[s], users', trail', raced')
<1>1. DOMAIN request' = Requests
  BY DEF AccountsInv
<1>2. trail \in TrailType
  BY DEF AccountsInv, Rows
<1>3. ASSUME NEW s \in Requests PROVE Sound(request'[s], users', trail', raced')
  <2>1. CASE s = r
    BY <2>1 DEF AccountsInv
  <2>2. CASE s # r
    <3>1. request'[s] = request[s] /\ Sound(request[s], users, trail, raced)
      BY <2>2 DEF AccountsInv
    <3> QED
      BY <1>2, <3>1, SoundStays
  <2> QED
    BY <2>1, <2>2
<1> QED
  BY <1>1, <1>3

\* A step of a request that neither takes nor gives back the switch's row.
LEMMA SwitchStays ==
    ASSUME AccountsInv, NEW r \in Requests, NEW x,
           request' = [request EXCEPT ![r] = x], request[r].at # "locked", x.at # "locked",
           switch' = switch, trail'.halted = trail.halted
    PROVE  SwitchInv'
<1>1. \A s \in Requests : request'[s] = IF s = r THEN x ELSE request[s]
  BY DEF AccountsInv
<1> QED
  BY <1>1 DEF AccountsInv, SwitchInv, SwitchType

\* A request that reads, or ends, changes nothing for the others.
LEMMA QuietStep ==
    ASSUME AccountsInv, NEW r \in Requests, NEW x,
           request' = [request EXCEPT ![r] = x], request[r].at # "locked", x.at # "locked",
           UNCHANGED <<users, tokens, switch, trail, raced, overtaken>>,
           Sound(x, users, trail, raced)
    PROVE  AccountsInv'
<1>1. trail \in TrailType
  BY DEF AccountsInv, Rows
<1>2. Grows(users, trail, raced, users', trail', raced')
  BY <1>1, GrowsItself
<1>3. /\ DOMAIN request' = Requests
      /\ \A s \in Requests : Sound(request'[s], users', trail', raced')
  BY <1>1, <1>2, RequestMoves
<1>4. SwitchInv'
  BY SwitchStays
<1>5. Rows(users, trail, raced)' /\ (\A t \in tokens : Token(t, raced))'
  BY DEF AccountsInv
<1>6. AnAdminRemains' /\ overtaken' \in BOOLEAN
  BY DEF AccountsInv, AnAdminRemains, ActiveAdmins
<1> QED
  BY <1>3, <1>4, <1>5, <1>6 DEF AccountsInv

LEMMA IdleIsSound ==
    ASSUME NEW us, NEW tr, NEW ra PROVE Sound(Idle, us, tr, ra) /\ Idle.at = "idle"
BY DEF Sound, Idle, Fields

LEMMA ReadNow ==
    ASSUME AccountsInv, NEW u \in Users, users[u] # None
    PROVE  users[u] \in UserType /\ Read(u, users[u], users, trail, raced)
<1>1. users[u] \in UserType /\ Row(u, users, trail, raced)
  BY DEF AccountsInv, Rows
<1> QED
  BY <1>1 DEF Read, Row, UserType

-----------------------------------------------------------------------------
(* Steps that read                                                          *)

LEMMA LoginInv == ASSUME AccountsInv, NEW r \in Requests, Login(r) PROVE AccountsInv'
<1>1. PICK u \in Users :
          /\ request[r] = Idle /\ users[u] # None
          /\ request' = [request EXCEPT ![r] =
                 [Idle EXCEPT !.at = "ready", !.op = "login", !.user = u, !.row = users[u],
                              !.epoch = trail.changes[u]]]
          /\ UNCHANGED <<users, tokens, switch, trail, raced, overtaken>>
  BY DEF Login
<1> DEFINE x == [Idle EXCEPT !.at = "ready", !.op = "login", !.user = u, !.row = users[u],
                             !.epoch = trail.changes[u]]
<1>2. users[u] \in UserType /\ Row(u, users, trail, raced) /\ trail.changes[u] \in Nat
  BY <1>1 DEF AccountsInv, Rows, TrailType
<1>3. Sound(x, users, trail, raced)
  BY <1>1, <1>2 DEF Sound, Idle, Fields, Row
<1>4. x.at # "locked" /\ request[r].at # "locked"
  BY <1>1, IdleIsSound DEF Idle
<1> QED
  BY <1>1, <1>3, <1>4, QuietStep

LEMMA BeginInv == ASSUME AccountsInv, NEW r \in Requests, Begin(r) PROVE AccountsInv'
<1>1. PICK t \in tokens, op \in Operations :
          /\ request[r] = Idle /\ Accepted(t)
          /\ request' = [request EXCEPT ![r] =
                 [Idle EXCEPT !.at = "begun", !.op = op, !.user = t.user, !.row = users[t.user]]]
          /\ UNCHANGED <<users, tokens, switch, trail, raced, overtaken>>
  BY DEF Begin
<1> DEFINE x == [Idle EXCEPT !.at = "begun", !.op = op, !.user = t.user, !.row = users[t.user]]
<1>2. Read(t.user, users[t.user], users, trail, raced)
  BY <1>1, ReadNow DEF AccountsInv, Token, TokenType, Accepted
<1>3. Sound(x, users, trail, raced)
  BY <1>2 DEF Sound, Idle, Fields
<1>4. x.at # "locked" /\ request[r].at # "locked"
  BY <1>1, IdleIsSound DEF Idle
<1> QED
  BY <1>1, <1>3, <1>4, QuietStep

LEMMA FindForResetInv ==
    ASSUME AccountsInv, NEW r \in Requests, FindForReset(r) PROVE AccountsInv'
<1>1. PICK u \in Users :
          /\ request[r].at = "begun" /\ users[u] # None
          /\ request' = [request EXCEPT ![r] =
                 [Idle EXCEPT !.at = "ready", !.op = "reset", !.target = u, !.read = users[u]]]
          /\ UNCHANGED <<users, tokens, switch, trail, raced, overtaken>>
  BY DEF FindForReset
<1> DEFINE x == [Idle EXCEPT !.at = "ready", !.op = "reset", !.target = u, !.read = users[u]]
<1>2. Read(u, users[u], users, trail, raced)
  BY <1>1, ReadNow
<1>3. Sound(x, users, trail, raced)
  BY <1>2 DEF Sound, Idle, Fields
<1>4. x.at # "locked" /\ request[r].at # "locked"
  BY <1>1 DEF Idle
<1> QED
  BY <1>1, <1>3, <1>4, QuietStep

LEMMA PatchedType ==
    ASSUME NEW row \in UserType, NEW role \in Roles \cup {None},
           NEW active \in BOOLEAN \cup {None}
    PROVE  LET new == Patched(row, role, active) IN
           /\ new \in UserType /\ new.version = row.version
           /\ new.must = row.must /\ new.temporary = row.temporary
BY DEF Patched, UserType

LEMMA FindForUpdateInv ==
    ASSUME AccountsInv, NEW r \in Requests, FindForUpdate(r) PROVE AccountsInv'
<1>1. PICK u \in Users, role \in Roles \cup {None}, active \in BOOLEAN \cup {None} :
          LET read == ReadRow(request[r], u) IN
          /\ request[r].at = "begun"
          /\ read # None
          /\ request' = [request EXCEPT ![r] =
                 [Idle EXCEPT !.at = IF LosesAdmin(read, Patched(read, role, active)) THEN "count" ELSE "ready",
                              !.op = "patch", !.target = u, !.read = read,
                              !.new = Patched(read, role, active)]]
          /\ UNCHANGED <<users, tokens, switch, trail, raced, overtaken>>
  BY DEF FindForUpdate
<1> DEFINE read == ReadRow(request[r], u)
           new == Patched(read, role, active)
           x == [Idle EXCEPT !.at = IF LosesAdmin(read, new) THEN "count" ELSE "ready",
                             !.op = "patch", !.target = u, !.read = read, !.new = new]
<1>2. Read(u, read, users, trail, raced)
  <2>1. Sound(request[r], users, trail, raced)
    BY DEF AccountsInv
  <2>2. CASE u = request[r].user
    BY <1>1, <2>1, <2>2 DEF Sound, ReadRow
  <2>3. CASE u # request[r].user
    BY <1>1, <2>3, ReadNow DEF ReadRow
  <2> QED
    BY <2>2, <2>3
<1>3. /\ new \in UserType /\ new.version = read.version
      /\ new.must = read.must /\ new.temporary = read.temporary
  BY <1>2, PatchedType DEF Read
<1>4. /\ x.at = IF LosesAdmin(read, new) THEN "count" ELSE "ready"
      /\ x.op = "patch" /\ x.target = u /\ x.read = read /\ x.new = new /\ DOMAIN x = Fields
  BY DEF Idle, Fields
<1>5. Sound(x, users, trail, raced) /\ x.at # "locked" /\ request[r].at # "locked"
  <2> HIDE DEF x, new, read
  <2> QED
    BY <1>1, <1>2, <1>3, <1>4 DEF Sound
<1>6. request' = [request EXCEPT ![r] = x]
  BY <1>1
<1> QED
  <2> HIDE DEF x
  <2> QED
    BY <1>1, <1>5, <1>6, QuietStep

LEMMA CountAdminsInv ==
    ASSUME AccountsInv, NEW r \in Requests, CountAdmins(r) PROVE AccountsInv'
<1> DEFINE y == [request[r] EXCEPT !.at = "ready", !.counted = ActiveAdmins]
           x == IF LastAdmin THEN Idle ELSE y
<1>1. Sound(request[r], users, trail, raced) /\ request[r].at = "count"
  BY DEF AccountsInv, CountAdmins
<1>2. ASSUME ~LastAdmin PROVE Sound(y, users, trail, raced) /\ y.at # "locked"
  <2>1. /\ DOMAIN y = Fields /\ y.at = "ready" /\ y.counted = ActiveAdmins
        /\ y.op = request[r].op /\ y.target = request[r].target /\ y.read = request[r].read
        /\ y.new = request[r].new /\ y.user = request[r].user /\ y.row = request[r].row
    BY <1>1 DEF Sound, Fields
  <2>2. ActiveAdmins # None /\ ~(Cardinality(ActiveAdmins) <= 1)
    BY <1>2, RowsAssumption DEF LastAdmin, ActiveAdmins
  <2>3. y.op = "patch"
    BY <1>1, <2>1 DEF Sound
  <2> HIDE DEF y
  <2> QED
    BY <1>1, <2>1, <2>2, <2>3 DEF Sound
<1>3. Sound(x, users, trail, raced) /\ x.at # "locked"
  BY <1>2, IdleIsSound
<1> QED
  <2>1. request' = [request EXCEPT ![r] = x]
    BY DEF CountAdmins
  <2> HIDE DEF x
  <2> QED
    BY <1>1, <1>3, <2>1, QuietStep DEF CountAdmins

LEMMA FindForInviteInv ==
    ASSUME AccountsInv, NEW r \in Requests, FindForInvite(r) \/ CreateByOperator(r)
    PROVE  AccountsInv'
<1>1. PICK u \in Users, role \in Roles, temporary \in BOOLEAN, op \in {"invite", "create"} :
          /\ request[r].at \in {"begun", "idle"}
          /\ request' = [request EXCEPT ![r] =
                 [Idle EXCEPT !.at = "ready", !.op = op, !.target = u,
                              !.new = NewUser(role, temporary)]]
          /\ UNCHANGED <<users, tokens, switch, trail, raced, overtaken>>
  BY IdleIsSound DEF FindForInvite, CreateByOperator
<1> DEFINE x == [Idle EXCEPT !.at = "ready", !.op = op, !.target = u,
                             !.new = NewUser(role, temporary)]
<1>2. /\ NewUser(role, temporary) \in UserType /\ NewUser(role, temporary).active
      /\ NewUser(role, temporary).version = 0
      /\ NewUser(role, temporary).must = NewUser(role, temporary).temporary
  BY DEF NewUser, UserType
<1>3. Sound(x, users, trail, raced) /\ x.at # "locked" /\ request[r].at # "locked"
  BY <1>1, <1>2 DEF Sound, Idle, Fields
<1> QED
  BY <1>1, <1>3, QuietStep

LEMMA DenyReleaseInv ==
    ASSUME AccountsInv, NEW r \in Requests, DenyRelease(r) PROVE AccountsInv'
BY IdleIsSound, QuietStep DEF DenyRelease

-----------------------------------------------------------------------------
(* Steps that write                                                         *)

LEMMA IssueTokenInv ==
    ASSUME AccountsInv, NEW r \in Requests, IssueToken(r) PROVE AccountsInv'
<1> DEFINE t == [user |-> request[r].user, version |-> request[r].row.version,
                 epoch |-> request[r].epoch]
<1>1. Sound(request[r], users, trail, raced)
  BY DEF AccountsInv
<1>2. Token(t, raced)
  BY <1>1 DEF IssueToken, Sound, Token, TokenType, UserType
<1>3. trail \in TrailType
  BY DEF AccountsInv, Rows
<1>4. request' = [request EXCEPT ![r] = Idle] /\ request[r].at # "locked"
  BY DEF IssueToken
<1>5. UNCHANGED <<users, switch, trail, raced, overtaken>>
  BY DEF IssueToken
<1>6. /\ DOMAIN request' = Requests
      /\ \A s \in Requests : Sound(request'[s], users', trail', raced')
  BY <1>3, <1>4, <1>5, GrowsItself, IdleIsSound, RequestMoves
<1>7. SwitchInv'
  BY <1>4, <1>5, IdleIsSound, SwitchStays
<1>8. \A v \in tokens' : Token(v, raced')
  BY <1>2, <1>5 DEF IssueToken, AccountsInv
<1>9. Rows(users, trail, raced)' /\ AnAdminRemains' /\ overtaken' \in BOOLEAN
  BY <1>5 DEF AccountsInv, AnAdminRemains, ActiveAdmins
<1> QED
  BY <1>6, <1>7, <1>8, <1>9 DEF AccountsInv

\* Account u gets a row w that a request has computed from the row it has read.
LEMMA AccountChanges ==
    ASSUME AccountsInv, NEW u, NEW read, Read(u, read, users, trail, raced),
           NEW w \in UserType, w.version = read.version + 1,
           users' = [users EXCEPT ![u] = w], trail' \in TrailType,
           trail'.changes = [trail.changes EXCEPT ![u] = @ + 1],
           RecordRace(u, read),
           w.role = trail'.role[u], w.active = trail'.active[u],
           \A v \in Users \ {u} : /\ trail'.role[v] = trail.role[v]
                                  /\ trail'.active[v] = trail.active[v],
           u \notin raced' => (w.temporary => w.must)
    PROVE  /\ Rows(users', trail', raced')
           /\ Grows(users, trail, raced, users', trail', raced')
           /\ raced \subseteq raced'
           /\ u \notin raced' => w.version = trail'.changes[u]
<1>1. u \in Users /\ read \in UserType /\ users[u] # None
  BY DEF Read
<1>2. trail \in TrailType /\ trail.changes[u] \in Nat /\ read.version \in Nat
  BY <1>1 DEF AccountsInv, Rows, TrailType, UserType
<1>3. trail'.changes[u] = trail.changes[u] + 1
  BY <1>1 DEF TrailType, AccountsInv, Rows
<1>4. \A v \in Users \ {u} : trail'.changes[v] = trail.changes[v] /\ users'[v] = users[v]
  BY DEF TrailType, AccountsInv, Rows
<1>5. users'[u] = w /\ users' \in [Users -> UserType \cup {None}] /\ w # None
  BY <1>1, RowsAssumption DEF AccountsInv, Rows
<1>6. raced \subseteq raced' /\ raced' \subseteq Users /\ raced' \subseteq raced \cup {u}
  BY <1>1 DEF RecordRace, AccountsInv, Rows
<1>7. u \notin raced' => w.version = trail'.changes[u] /\ w.version > trail.changes[u]
  <2>1. SUFFICES ASSUME u \notin raced' PROVE w.version = trail.changes[u] + 1
    BY <1>2, <1>3
  <2>2. u \notin raced /\ users[u].version = read.version
    BY <2>1, <1>6 DEF RecordRace
  <2>3. Row(u, users, trail, raced)
    BY <1>1 DEF AccountsInv, Rows
  <2> QED
    BY <1>1, <2>2, <2>3 DEF Row
<1>8. ASSUME NEW v \in Users PROVE Row(v, users', trail', raced')
  <2>1. CASE v = u
    BY <2>1, <1>5, <1>7 DEF Row
  <2>2. CASE v # u
    <3>1. Row(v, users, trail, raced)
      BY DEF AccountsInv, Rows
    <3> QED
      BY <2>2, <3>1, <1>4, <1>6 DEF Row
  <2> QED
    BY <2>1, <2>2
<1>9. Rows(users', trail', raced')
  BY <1>5, <1>6, <1>8 DEF Rows
<1>10. ASSUME NEW v \in Users, users[v] # None
       PROVE  /\ users'[v] # None
              /\ v \notin raced' =>
                   /\ trail.changes[v] <= trail'.changes[v]
                   /\ users'[v] = users[v] \/ users'[v].version > trail.changes[v]
  <2>1. CASE v = u
    BY <2>1, <1>2, <1>3, <1>5, <1>7
  <2>2. CASE v # u
    <3>1. trail.changes[v] \in Nat
      BY <1>2 DEF TrailType
    <3> QED
      BY <2>2, <3>1, <1>4, <1>10
  <2> QED
    BY <2>1, <2>2
<1> QED
  BY <1>6, <1>7, <1>9, <1>10 DEF Grows

LEMMA WrittenRow ==
    ASSUME NEW row \in UserType, NEW old \in UserType, NEW new \in UserType,
           NEW w, w = Written(row, old, new)
    PROVE  /\ w \in UserType
           /\ w.role = IF new.role = old.role THEN row.role ELSE new.role
           /\ w.active = IF new.active = old.active THEN row.active ELSE new.active
           /\ w.must = IF new.must = old.must THEN row.must ELSE new.must
           /\ w.temporary = IF new.temporary = old.temporary THEN row.temporary ELSE new.temporary
           /\ w.version = IF new.version = old.version THEN row.version ELSE new.version
BY DEF Written, UserType

\* The row of account u after a request that has read a row stores a new password.
PasswordOf(u, read, temporary) ==
    [Written(users[u], read, NewPassword(read, temporary)) EXCEPT !.temporary = temporary]

\* It leaves role and state, and so the admins, as they are.
LEMMA PasswordRow ==
    ASSUME AccountsInv, NEW u, NEW read, Read(u, read, users, trail, raced),
           NEW temporary \in BOOLEAN,
           NEW w, w = PasswordOf(u, read, temporary)
    PROVE  /\ w \in UserType /\ w.version = read.version + 1
           /\ NewPassword(read, temporary).version = w.version
           /\ w.role = users[u].role /\ w.active = users[u].active
           /\ w.temporary = temporary
           /\ users[u] = read => w.must = temporary
<1> DEFINE new == NewPassword(read, temporary)
           v == Written(users[u], read, new)
<1>1. u \in Users /\ read \in UserType /\ users[u] \in UserType
  BY DEF Read, AccountsInv, Rows
<1>2. /\ new \in UserType /\ new.version = read.version + 1 /\ new.version # read.version
      /\ new.role = read.role /\ new.active = read.active /\ new.must = temporary
  <2> DEFINE y == [read EXCEPT !.must = temporary, !.temporary = temporary]
  <2>1. /\ y \in UserType /\ y.role = read.role /\ y.active = read.active
        /\ y.must = temporary /\ y.version = read.version
    BY <1>1 DEF UserType
  <2>2. new = [y EXCEPT !.version = @ + 1]
    BY Zenon DEF NewPassword, Bumped
  <2> HIDE DEF y
  <2> QED
    BY <2>1, <2>2 DEF UserType
<1>3. /\ v \in UserType
      /\ v.role = IF new.role = read.role THEN users[u].role ELSE new.role
      /\ v.active = IF new.active = read.active THEN users[u].active ELSE new.active
      /\ v.must = IF new.must = read.must THEN users[u].must ELSE new.must
      /\ v.version = IF new.version = read.version THEN users[u].version ELSE new.version
  <2> HIDE DEF new
  <2> QED
    BY <1>1, <1>2, WrittenRow
<1> HIDE DEF v, new
<1>4. /\ v.version = new.version /\ v.role = users[u].role /\ v.active = users[u].active
  BY <1>2, <1>3
<1>5. users[u] = read => v.must = temporary
  BY <1>2, <1>3, Zenon
<1>6. /\ w \in UserType /\ w.version = v.version /\ w.role = v.role /\ w.active = v.active
      /\ w.must = v.must /\ w.temporary = temporary
  <2>1. w = [v EXCEPT !.temporary = temporary]
    BY DEF PasswordOf, v, new
  <2> QED
    BY <1>3, <2>1 DEF UserType
<1> QED
  BY <1>2, <1>4, <1>5, <1>6, Zenon DEF new

LEMMA RecordedTrail ==
    ASSUME trail \in TrailType, NEW u \in Users
    PROVE  LET t == Recorded(u) IN
           /\ t \in TrailType /\ t.changes = [trail.changes EXCEPT ![u] = @ + 1]
           /\ t.role = trail.role /\ t.active = trail.active /\ t.halted = trail.halted
           /\ t.changes[u] = trail.changes[u] + 1
<1> DEFINE c == [trail.changes EXCEPT ![u] = @ + 1]
           n == trail.total + 1
<1>1. c \in [Users -> Nat] /\ n \in Nat /\ c[u] = trail.changes[u] + 1
  BY DEF TrailType
<1>2. Recorded(u) = [trail EXCEPT !.changes = c, !.total = n]
  BY DEF Recorded, TrailType
<1> HIDE DEF c, n
<1>3. LET t == [trail EXCEPT !.changes = c, !.total = n] IN
      /\ t \in TrailType /\ t.changes = c
      /\ t.role = trail.role /\ t.active = trail.active /\ t.halted = trail.halted
  BY <1>1 DEF TrailType
<1> QED
  BY <1>1, <1>2, <1>3 DEF c

LEMMA PasswordStep ==
    ASSUME AccountsInv, NEW u, NEW read, Read(u, read, users, trail, raced),
           NEW w \in UserType, w.version = read.version + 1,
           w.role = users[u].role, w.active = users[u].active,
           users[u] = read => (w.temporary => w.must),
           users' = [users EXCEPT ![u] = w],
           trail' = Recorded(u), RecordRace(u, read), UNCHANGED overtaken
    PROVE  /\ Rows(users', trail', raced') /\ trail' \in TrailType
           /\ Grows(users, trail, raced, users', trail', raced')
           /\ raced \subseteq raced'
           /\ trail'.halted = trail.halted /\ trail'.changes[u] = trail.changes[u] + 1
           /\ u \notin raced' => w.version = trail'.changes[u]
           /\ AnAdminRemains' /\ overtaken' \in BOOLEAN
<1>1. u \in Users /\ users[u] # None /\ Row(u, users, trail, raced) /\ trail \in TrailType
      /\ users \in [Users -> UserType \cup {None}]
  BY DEF AccountsInv, Rows, Read
<1>2. /\ trail' \in TrailType /\ trail'.changes = [trail.changes EXCEPT ![u] = @ + 1]
      /\ trail'.role = trail.role /\ trail'.active = trail.active /\ trail'.halted = trail.halted
      /\ trail'.changes[u] = trail.changes[u] + 1
  BY <1>1, RecordedTrail
<1>3. u \notin raced' => users[u] = read
  BY <1>1 DEF RecordRace, Row, Read
<1>4. w.role = trail'.role[u] /\ w.active = trail'.active[u]
  BY <1>1, <1>2 DEF Row
<1>5. u \notin raced' => (w.temporary => w.must)
  BY <1>3, Zenon
<1>6. \A v \in Users \ {u} : /\ trail'.role[v] = trail.role[v]
                             /\ trail'.active[v] = trail.active[v]
  BY <1>2
<1>7. /\ Rows(users', trail', raced')
      /\ Grows(users, trail, raced, users', trail', raced')
      /\ raced \subseteq raced'
      /\ u \notin raced' => w.version = trail'.changes[u]
  BY <1>2, <1>4, <1>5, <1>6, AccountChanges
<1>8. AnAdminRemains'
  <2>1. ASSUME NEW v \in ActiveAdmins PROVE v \in ActiveAdmins'
    BY <1>1, RowsAssumption DEF ActiveAdmins
  <2> QED
    BY <2>1 DEF AnAdminRemains, AccountsInv
<1> QED
  BY <1>2, <1>7, <1>8 DEF AccountsInv

LEMMA ChangePasswordInv ==
    ASSUME AccountsInv, NEW r \in Requests, ChangePassword(r) PROVE AccountsInv'
<1>b. PICK b \in BOOLEAN : b = FALSE
  OBVIOUS
<1> DEFINE u == request[r].user
           row == request[r].row
           w == PasswordOf(u, row, b)
           t == [user |-> u, version |-> NewPassword(row, b).version, epoch |-> trail.changes[u] + 1]
<1>1. /\ request[r].at = "begun" /\ request' = [request EXCEPT ![r] = Idle]
      /\ users' = [users EXCEPT ![u] = w]
      /\ trail' = Recorded(u) /\ RecordRace(u, row) /\ tokens' = tokens \cup {t}
      /\ UNCHANGED <<switch, overtaken>>
  BY <1>b DEF ChangePassword, PasswordOf
<1>2. Read(u, row, users, trail, raced)
  BY <1>1 DEF AccountsInv, Sound
<1>3. /\ w \in UserType /\ w.version = row.version + 1 /\ NewPassword(row, b).version = w.version
      /\ w.role = users[u].role /\ w.active = users[u].active /\ w.temporary = b
  <2> HIDE DEF u, row
  <2> QED
    BY <1>2, PasswordRow
<1> HIDE DEF u, row, w
<1>4. /\ Rows(users', trail', raced') /\ trail' \in TrailType
      /\ Grows(users, trail, raced, users', trail', raced')
      /\ raced \subseteq raced'
      /\ trail'.halted = trail.halted /\ trail'.changes[u] = trail.changes[u] + 1
      /\ u \notin raced' => w.version = trail'.changes[u]
      /\ AnAdminRemains' /\ overtaken' \in BOOLEAN
  BY <1>1, <1>2, <1>3, <1>b, PasswordStep
<1>5. /\ DOMAIN request' = Requests
      /\ \A s \in Requests : Sound(request'[s], users', trail', raced')
  BY <1>1, <1>4, IdleIsSound, RequestMoves
<1>6. SwitchInv'
  BY <1>1, <1>4, IdleIsSound, SwitchStays
<1>7. Token(t, raced')
  <2>1. u \in Users /\ trail.changes[u] \in Nat /\ w.version \in Nat
    BY <1>2, <1>3 DEF Read, AccountsInv, Rows, TrailType, UserType
  <2> QED
    BY <1>3, <1>4, <2>1 DEF Token, TokenType
<1>8. \A v \in tokens' : Token(v, raced')
  BY <1>1, <1>4, <1>7 DEF AccountsInv, Token, TokenType
<1> QED
  BY <1>4, <1>5, <1>6, <1>8 DEF AccountsInv

LEMMA ResetPasswordInv ==
    ASSUME AccountsInv, NEW r \in Requests, ResetPassword(r) PROVE AccountsInv'
<1>b. PICK b \in BOOLEAN : b = TRUE
  OBVIOUS
<1> DEFINE u == request[r].target
           read == request[r].read
           w == PasswordOf(u, read, b)
<1>1. /\ request[r].at = "ready" /\ request[r].op = "reset"
      /\ request' = [request EXCEPT ![r] = Idle]
      /\ users' = [users EXCEPT ![u] = w]
      /\ trail' = Recorded(u) /\ RecordRace(u, read)
      /\ UNCHANGED <<tokens, switch, overtaken>>
  BY <1>b DEF ResetPassword, PasswordOf
<1>2. Read(u, read, users, trail, raced)
  BY <1>1 DEF AccountsInv, Sound
<1>3. /\ w \in UserType /\ w.version = read.version + 1
      /\ w.role = users[u].role /\ w.active = users[u].active
      /\ users[u] = read => w.must = b
  <2> HIDE DEF u, read
  <2> QED
    BY <1>2, PasswordRow
<1> HIDE DEF u, read, w
<1>4. /\ Rows(users', trail', raced') /\ trail' \in TrailType
      /\ Grows(users, trail, raced, users', trail', raced')
      /\ raced \subseteq raced' /\ trail'.halted = trail.halted
      /\ AnAdminRemains' /\ overtaken' \in BOOLEAN
  BY <1>1, <1>2, <1>3, <1>b, PasswordStep
<1>5. /\ DOMAIN request' = Requests
      /\ \A s \in Requests : Sound(request'[s], users', trail', raced')
  BY <1>1, <1>4, IdleIsSound, RequestMoves
<1>6. SwitchInv'
  BY <1>1, <1>4, IdleIsSound, SwitchStays
<1>7. \A v \in tokens' : Token(v, raced')
  BY <1>1, <1>4 DEF AccountsInv, Token, TokenType
<1> QED
  BY <1>4, <1>5, <1>6, <1>7 DEF AccountsInv

\* The trail's entry of an update.
LEMMA ToldTrail ==
    ASSUME trail \in TrailType, NEW u \in Users, NEW read \in UserType, NEW new \in UserType,
           NEW t, t = Told(u, read, new)
    PROVE  /\ t \in TrailType /\ t.changes = [trail.changes EXCEPT ![u] = @ + 1]
           /\ t.halted = trail.halted
           /\ t.role[u] = IF new.role = read.role THEN trail.role[u] ELSE new.role
           /\ t.active[u] = IF new.active = read.active THEN trail.active[u] ELSE new.active
           /\ \A v \in Users \ {u} : t.role[v] = trail.role[v] /\ t.active[v] = trail.active[v]
<1> DEFINE c == Recorded(u)
           role == [trail.role EXCEPT ![u] = IF new.role = read.role THEN @ ELSE new.role]
           active == [trail.active EXCEPT ![u] = IF new.active = read.active THEN @ ELSE new.active]
<1>1. /\ c \in TrailType /\ c.changes = [trail.changes EXCEPT ![u] = @ + 1]
      /\ c.role = trail.role /\ c.active = trail.active /\ c.halted = trail.halted
  BY RecordedTrail
<1>2. /\ role \in [Users -> Roles \cup {None}] /\ active \in [Users -> BOOLEAN]
      /\ role[u] = IF new.role = read.role THEN trail.role[u] ELSE new.role
      /\ active[u] = IF new.active = read.active THEN trail.active[u] ELSE new.active
      /\ \A v \in Users \ {u} : role[v] = trail.role[v] /\ active[v] = trail.active[v]
  BY DEF TrailType, UserType
<1>3. t = [c EXCEPT !.role = role, !.active = active]
  <2> HIDE DEF c
  <2>1. t = [c EXCEPT !.role[u] = IF new.role = read.role THEN @ ELSE new.role,
                      !.active[u] = IF new.active = read.active THEN @ ELSE new.active]
    BY DEF Told, c
  <2>2. role = [c.role EXCEPT ![u] = IF new.role = read.role THEN @ ELSE new.role]
    BY <1>1
  <2>3. active = [c.active EXCEPT ![u] = IF new.active = read.active THEN @ ELSE new.active]
    BY <1>1
  <2>4. c = [role |-> c.role, active |-> c.active, changes |-> c.changes,
             total |-> c.total, halted |-> c.halted]
    BY <1>1 DEF TrailType
  <2> HIDE DEF role, active
  <2> QED
    BY <2>1, <2>2, <2>3, <2>4, Zenon
<1> HIDE DEF c, role, active
<1>4. t \in TrailType /\ t.role = role /\ t.active = active /\ t.changes = c.changes
      /\ t.halted = c.halted
  BY <1>1, <1>2, <1>3 DEF TrailType
<1> QED
  BY <1>1, <1>2, <1>4, Zenon

\* Two admins are not one.
LEMMA AnotherOne ==
    ASSUME NEW S, NEW u, ~(Cardinality(S) <= 1)
    PROVE  \E v \in S : v # u
<1> SUFFICES ASSUME S \subseteq {u} PROVE FALSE
  OBVIOUS
<1>1. CASE S = {}
  BY <1>1, FS_EmptySet
<1>2. CASE S = {u}
  <2>1. Cardinality({u}) = 1
    BY FS_Singleton
  <2> QED
    BY <1>2, <2>1
<1> QED
  BY <1>1, <1>2

LEMMA UpdateUserInv ==
    ASSUME AccountsInv, NEW r \in Requests, UpdateUser(r) PROVE AccountsInv'
<1> DEFINE q == request[r]
           u == q.target
           read == q.read
           new == q.new
           w == Written(users[u], read, Bumped(new))
<1>1. /\ q.at = "ready" /\ q.op = "patch" /\ request' = [request EXCEPT ![r] = Idle]
      /\ users' = [users EXCEPT ![u] = w]
      /\ trail' = Told(u, read, new) /\ RecordRace(u, read)
      /\ overtaken' = (overtaken \/ Overtaken(q))
      /\ UNCHANGED <<tokens, switch>>
  BY DEF UpdateUser
<1>2. /\ Read(u, read, users, trail, raced)
      /\ new \in UserType /\ new.version = read.version
      /\ new.must = read.must /\ new.temporary = read.temporary
      /\ LosesAdmin(read, new) => q.counted # None /\ ~(Cardinality(q.counted) <= 1)
  BY <1>1 DEF AccountsInv, Sound
<1> HIDE DEF u, read, new, w
<1>3. u \in Users /\ users[u] # None /\ Row(u, users, trail, raced) /\ trail \in TrailType
      /\ users \in [Users -> UserType \cup {None}] /\ users[u] \in UserType /\ read \in UserType
  BY <1>2 DEF AccountsInv, Rows, Read
<1>4. /\ trail' \in TrailType /\ trail'.changes = [trail.changes EXCEPT ![u] = @ + 1]
      /\ trail'.halted = trail.halted
      /\ trail'.role[u] = IF new.role = read.role THEN trail.role[u] ELSE new.role
      /\ trail'.active[u] = IF new.active = read.active THEN trail.active[u] ELSE new.active
      /\ \A v \in Users \ {u} : /\ trail'.role[v] = trail.role[v]
                                /\ trail'.active[v] = trail.active[v]
  <2> DEFINE t == Told(u, read, new)
  <2>0. t = Told(u, read, new) /\ trail' = t
    BY <1>1
  <2> HIDE DEF t
  <2>1. /\ t \in TrailType /\ t.changes = [trail.changes EXCEPT ![u] = @ + 1]
        /\ t.halted = trail.halted
        /\ t.role[u] = IF new.role = read.role THEN trail.role[u] ELSE new.role
        /\ t.active[u] = IF new.active = read.active THEN trail.active[u] ELSE new.active
        /\ \A v \in Users \ {u} : t.role[v] = trail.role[v] /\ t.active[v] = trail.active[v]
    BY <1>2, <1>3, <2>0, ToldTrail
  <2> QED
    BY <2>0, <2>1
<1>5. /\ w \in UserType
      /\ w.role = IF new.role = read.role THEN users[u].role ELSE new.role
      /\ w.active = IF new.active = read.active THEN users[u].active ELSE new.active
      /\ w.must = users[u].must /\ w.temporary = users[u].temporary
      /\ w.version = read.version + 1
  <2> DEFINE b == Bumped(new)
  <2>1. /\ b \in UserType /\ b.role = new.role /\ b.active = new.active
        /\ b.must = read.must /\ b.temporary = read.temporary
        /\ b.version = read.version + 1 /\ b.version # read.version
    BY <1>2, <1>3 DEF Bumped, UserType
  <2>2. w = Written(users[u], read, b)
    BY DEF w
  <2> HIDE DEF b
  <2>3. /\ w \in UserType
        /\ w.role = IF b.role = read.role THEN users[u].role ELSE b.role
        /\ w.active = IF b.active = read.active THEN users[u].active ELSE b.active
        /\ w.must = IF b.must = read.must THEN users[u].must ELSE b.must
        /\ w.temporary = IF b.temporary = read.temporary THEN users[u].temporary ELSE b.temporary
        /\ w.version = IF b.version = read.version THEN users[u].version ELSE b.version
    BY <1>3, <2>1, <2>2, WrittenRow
  <2> QED
    BY <2>1, <2>3, Zenon
<1>6. w.role = trail'.role[u] /\ w.active = trail'.active[u]
  BY <1>3, <1>4, <1>5, Zenon DEF Row
<1>7. u \notin raced' => (w.temporary => w.must)
  <2>1. u \notin raced' => u \notin raced
    BY <1>1 DEF RecordRace
  <2> QED
    BY <1>3, <1>5, <2>1, Zenon DEF Row
<1>8. /\ Rows(users', trail', raced')
      /\ Grows(users, trail, raced, users', trail', raced')
      /\ raced \subseteq raced'
  BY <1>1, <1>2, <1>4, <1>5, <1>6, <1>7, AccountChanges
<1>9. AnAdminRemains' /\ overtaken' \in BOOLEAN
  <2>1. overtaken \in BOOLEAN /\ AnAdminRemains
    BY DEF AccountsInv
  <2>2. overtaken' \in BOOLEAN
    BY <1>1, <2>1 DEF Overtaken
  <2>3. SUFFICES ASSUME ~overtaken' PROVE ActiveAdmins' # {}
    BY <2>2 DEF AnAdminRemains
  <2>4. /\ users[u] = read /\ ActiveAdmins # {}
        /\ q.counted = None \/ q.counted = ActiveAdmins
    BY <1>1, <2>1, <2>3, Zenon DEF Overtaken, AnAdminRemains, u, read
  <2>5. \A v \in ActiveAdmins : v # u => v \in ActiveAdmins'
    BY <1>1, <1>3 DEF ActiveAdmins
  <2>6. CASE LosesAdmin(read, new)
    <3>1. ~(Cardinality(ActiveAdmins) <= 1)
      BY <1>2, <2>4, <2>6
    <3> DEFINE S == ActiveAdmins
    <3> HIDE DEF S
    <3>2. ~(Cardinality(S) <= 1)
      BY <3>1 DEF S
    <3>3. PICK v \in S : v # u
      BY <3>2, AnotherOne
    <3> QED
      BY <2>5, <3>3 DEF S
  <2>7. CASE ~LosesAdmin(read, new)
    <3>1. w.role = new.role /\ w.active = new.active
      BY <1>5, <2>4, Zenon
    <3>2. u \in ActiveAdmins => u \in ActiveAdmins'
      BY <1>1, <1>3, <1>5, <2>4, <2>7, <3>1, RowsAssumption
         DEF ActiveAdmins, LosesAdmin, IsActiveAdmin
    <3> QED
      BY <2>4, <2>5, <3>2
  <2> QED
    BY <2>6, <2>7
<1>10. /\ DOMAIN request' = Requests
       /\ \A s \in Requests : Sound(request'[s], users', trail', raced')
  BY <1>1, <1>4, <1>8, IdleIsSound, RequestMoves
<1>11. SwitchInv'
  BY <1>1, <1>4, IdleIsSound, SwitchStays
<1>12. \A v \in tokens' : Token(v, raced')
  BY <1>1, <1>8 DEF AccountsInv, Token, TokenType
<1> QED
  BY <1>8, <1>9, <1>10, <1>11, <1>12 DEF AccountsInv

LEMMA CreateUserInv ==
    ASSUME AccountsInv, NEW r \in Requests, CreateUser(r) PROVE AccountsInv'
<1> DEFINE q == request[r]
           u == q.target
           free == users[u] = None
<1>1. /\ q.at = "ready" /\ q.op \in {"invite", "create"}
      /\ request' = [request EXCEPT ![r] = Idle]
      /\ UNCHANGED <<tokens, switch, raced, overtaken>>
  BY DEF CreateUser
<1>2. /\ u \in Users /\ q.new \in UserType /\ q.new.active
      /\ q.new.version = 0 /\ q.new.must = q.new.temporary
  BY <1>1 DEF AccountsInv, Sound
<1>3. /\ users \in [Users -> UserType \cup {None}] /\ trail \in TrailType /\ raced \subseteq Users
      /\ \A v \in Users : Row(v, users, trail, raced)
  BY DEF AccountsInv, Rows
<1>4. /\ Rows(users', trail', raced') /\ trail' \in TrailType
      /\ Grows(users, trail, raced, users', trail', raced')
      /\ trail'.halted = trail.halted /\ AnAdminRemains'
  <2>1. CASE ~free
    <3>1. UNCHANGED <<users, trail, raced, overtaken>>
      BY <2>1, <1>1 DEF CreateUser
    <3> QED
      BY <3>1, <1>3, GrowsItself DEF Rows, AccountsInv, AnAdminRemains, ActiveAdmins
  <2>2. CASE free
    <3>1. users' = [users EXCEPT ![u] = q.new]
      BY <2>2 DEF CreateUser
    <3>2. trail' = [trail EXCEPT !.role[u] = q.new.role, !.active[u] = TRUE]
      BY <2>2 DEF CreateUser
    <3> DEFINE role == [trail.role EXCEPT ![u] = q.new.role]
               active == [trail.active EXCEPT ![u] = TRUE]
    <3>3. /\ role \in [Users -> Roles \cup {None}] /\ active \in [Users -> BOOLEAN]
          /\ role[u] = q.new.role /\ active[u] = q.new.active
          /\ \A v \in Users \ {u} : role[v] = trail.role[v] /\ active[v] = trail.active[v]
      BY <1>2, <1>3 DEF TrailType, UserType
    <3>4. trail' = [trail EXCEPT !.role = role, !.active = active]
      BY <3>2, <1>3 DEF TrailType
    <3> HIDE DEF q, u, role, active
    <3>5. trail' \in TrailType /\ trail'.role = role /\ trail'.active = active
          /\ trail'.changes = trail.changes /\ trail'.halted = trail.halted
      BY <3>3, <3>4, <1>3 DEF TrailType
    <3>6. /\ users' \in [Users -> UserType \cup {None}] /\ users'[u] = q.new /\ users'[u] # None
          /\ \A v \in Users \ {u} : users'[v] = users[v]
      BY <3>1, <1>2, <1>3, RowsAssumption
    <3>7. users[u] = None
      BY <2>2 DEF q, u
    <3>8. ASSUME NEW v \in Users PROVE Row(v, users', trail', raced')
      <4>1. CASE v # u
        BY <4>1, <1>1, <1>3, <3>3, <3>5, <3>6, Zenon DEF Row
      <4>2. CASE v = u
        <5>1. trail.changes[u] = 0
          BY <1>2, <1>3, <3>7 DEF Row
        <5> QED
          BY <4>2, <5>1, <1>2, <3>3, <3>5, <3>6, Zenon DEF Row
      <4> QED
        BY <4>1, <4>2
    <3>9. Rows(users', trail', raced')
      BY <1>1, <1>3, <3>5, <3>6, <3>8 DEF Rows
    <3>10. Grows(users, trail, raced, users', trail', raced')
      BY <1>1, <1>3, <3>5, <3>6, <3>7 DEF Grows, TrailType
    <3>11. AnAdminRemains'
      <4>1. \A v \in ActiveAdmins : v \in ActiveAdmins'
        BY <3>6, <3>7 DEF ActiveAdmins
      <4> QED
        BY <1>1, <4>1 DEF AnAdminRemains, AccountsInv
    <3> QED
      BY <3>5, <3>9, <3>10, <3>11
  <2> QED
    BY <2>1, <2>2
<1>5. /\ DOMAIN request' = Requests
      /\ \A s \in Requests : Sound(request'[s], users', trail', raced')
  BY <1>1, <1>4, IdleIsSound, RequestMoves
<1>6. SwitchInv'
  BY <1>1, <1>4, IdleIsSound, SwitchStays
<1> QED
  BY <1>1, <1>4, <1>5, <1>6 DEF AccountsInv

-----------------------------------------------------------------------------
(* The switch                                                               *)

LEMMA LockSwitchInv ==
    ASSUME AccountsInv, NEW r \in Requests, LockSwitch(r) PROVE AccountsInv'
<1> DEFINE x == [Idle EXCEPT !.at = "locked", !.op = request[r].op, !.read = switch.halted]
<1>1. /\ request[r].at = "begun" /\ switch.holder = None
      /\ switch' = [switch EXCEPT !.holder = r]
      /\ request' = [request EXCEPT ![r] = x]
      /\ UNCHANGED <<users, tokens, trail, raced, overtaken>>
  BY DEF LockSwitch, RowIsFree
<1>2. /\ x.at = "locked" /\ x.read = switch.halted /\ Sound(x, users, trail, raced)
  BY DEF Idle, Sound, Fields
<1> HIDE DEF x
<1>3. trail \in TrailType
  BY DEF AccountsInv, Rows
<1>4. /\ DOMAIN request' = Requests
      /\ \A s \in Requests : Sound(request'[s], users', trail', raced')
  BY <1>1, <1>2, <1>3, GrowsItself, RequestMoves
<1>5. SwitchInv'
  <2>1. \A s \in Requests : request'[s] = IF s = r THEN x ELSE request[s]
    BY <1>1 DEF AccountsInv
  <2>2. SwitchInv
    BY DEF AccountsInv
  <2>3. switch'.halted = switch.halted /\ switch'.holder = r
        /\ switch' \in [halted: BOOLEAN, holder: Requests \cup {None}]
    BY <1>1, <2>2 DEF SwitchInv, SwitchType
  <2>4. \A s \in Requests : request[s].at # "locked"
    BY <1>1, <2>2, NoneAssumption DEF SwitchInv, SwitchType
  <2> QED
    BY <1>1, <1>2, <2>1, <2>2, <2>3, <2>4 DEF SwitchInv, SwitchType
<1> QED
  BY <1>1, <1>4, <1>5 DEF AccountsInv, AnAdminRemains, ActiveAdmins

LEMMA SetSwitchInv ==
    ASSUME AccountsInv, NEW r \in Requests, SetSwitch(r) PROVE AccountsInv'
<1> DEFINE halt == request[r].op = "halt"
<1>1. /\ request[r].at = "locked"
      /\ switch' = [halted |-> IF halt = request[r].read THEN switch.halted ELSE halt,
                    holder |-> None]
      /\ trail' = [trail EXCEPT !.halted = halt]
      /\ request' = [request EXCEPT ![r] = Idle]
      /\ UNCHANGED <<users, tokens, raced, overtaken>>
  BY DEF SetSwitch
<1>2. halt \in BOOLEAN
  OBVIOUS
<1> HIDE DEF halt
<1>3. trail \in TrailType /\ SwitchInv
  BY DEF AccountsInv, Rows
<1>4. /\ trail' \in TrailType /\ trail'.halted = halt /\ trail'.role = trail.role
      /\ trail'.active = trail.active /\ trail'.changes = trail.changes
  BY <1>1, <1>2, <1>3 DEF TrailType
<1>5. Rows(users', trail', raced') /\ Grows(users, trail, raced, users', trail', raced')
  BY <1>1, <1>3, <1>4 DEF AccountsInv, Rows, Row, Grows, TrailType
<1>6. /\ DOMAIN request' = Requests
      /\ \A s \in Requests : Sound(request'[s], users', trail', raced')
  BY <1>1, <1>4, <1>5, IdleIsSound, RequestMoves
<1>7. SwitchInv'
  <2>1. \A s \in Requests : request'[s] = IF s = r THEN Idle ELSE request[s]
    BY <1>1 DEF AccountsInv
  <2>2. \A s \in Requests : request'[s].at # "locked"
    BY <1>1, <1>3, <2>1, IdleIsSound DEF SwitchInv, SwitchType
  <2>3. request[r].read = switch.halted /\ switch.halted \in BOOLEAN
    BY <1>1, <1>3 DEF SwitchInv, SwitchType
  <2>4. switch'.halted = halt /\ switch'.holder = None
    BY <1>1, <2>3, Zenon
  <2>5. switch' \in [halted: BOOLEAN, holder: Requests \cup {None}]
    BY <1>1, <1>2, <2>3
  <2> QED
    BY <1>4, <2>2, <2>4, <2>5, NoneAssumption DEF SwitchInv, SwitchType
<1> QED
  BY <1>1, <1>5, <1>6, <1>7 DEF AccountsInv, AnAdminRemains, ActiveAdmins

LEMMA AbortInv == ASSUME AccountsInv, NEW r \in Requests, Abort(r) PROVE AccountsInv'
<1>1. /\ request' = [request EXCEPT ![r] = Idle]
      /\ switch' = IF switch.holder = r THEN [switch EXCEPT !.holder = None] ELSE switch
      /\ UNCHANGED <<users, tokens, trail, raced, overtaken>>
  BY DEF Abort
<1>2. trail \in TrailType /\ SwitchInv
  BY DEF AccountsInv, Rows
<1>3. /\ DOMAIN request' = Requests
      /\ \A s \in Requests : Sound(request'[s], users', trail', raced')
  BY <1>1, <1>2, GrowsItself, IdleIsSound, RequestMoves
<1>4. SwitchInv'
  <2>1. \A s \in Requests : request'[s] = IF s = r THEN Idle ELSE request[s]
    BY <1>1 DEF AccountsInv
  <2>2. /\ switch' \in [halted: BOOLEAN, holder: Requests \cup {None}]
        /\ switch'.halted = switch.halted
        /\ switch'.holder = IF switch.holder = r THEN None ELSE switch.holder
    BY <1>1, <1>2 DEF SwitchInv, SwitchType
  <2> QED
    BY <1>1, <1>2, <2>1, <2>2, IdleIsSound, NoneAssumption DEF SwitchInv, SwitchType
<1> QED
  BY <1>1, <1>3, <1>4 DEF AccountsInv, AnAdminRemains, ActiveAdmins

-----------------------------------------------------------------------------
LEMMA StutterInv == ASSUME AccountsInv, UNCHANGED vars PROVE AccountsInv'
BY DEF AccountsInv, SwitchInv, SwitchType, AnAdminRemains, ActiveAdmins, vars

LEMMA StepInv == ASSUME AccountsInv, [Next]_vars PROVE AccountsInv'
<1>1. ASSUME NEW r \in Requests,
             \/ Login(r) \/ Begin(r) \/ FindForReset(r) \/ FindForUpdate(r) \/ CountAdmins(r)
             \/ FindForInvite(r) \/ CreateByOperator(r) \/ DenyRelease(r)
      PROVE  AccountsInv'
  BY <1>1, LoginInv, BeginInv, FindForResetInv, FindForUpdateInv, CountAdminsInv,
     FindForInviteInv, DenyReleaseInv
<1>2. ASSUME NEW r \in Requests,
             \/ IssueToken(r) \/ ChangePassword(r) \/ ResetPassword(r) \/ UpdateUser(r)
             \/ CreateUser(r) \/ LockSwitch(r) \/ SetSwitch(r) \/ Abort(r)
      PROVE  AccountsInv'
  BY <1>2, IssueTokenInv, ChangePasswordInv, ResetPasswordInv, UpdateUserInv,
     CreateUserInv, LockSwitchInv, SetSwitchInv, AbortInv
<1> QED
  BY <1>1, <1>2, StutterInv DEF Next

LEMMA Invariance == Spec => []AccountsInv
<1>1. Init => AccountsInv
  BY InitInv
<1>2. AccountsInv /\ [Next]_vars => AccountsInv'
  BY StepInv
<1> QED
  BY <1>1, <1>2, PTL DEF Spec

\* Rows, tokens and requests keep their types, and the switch's row is locked by the one
\* request that has read it for update.
THEOREM AccountTypes == Spec => []TypeOK
BY Invariance, InvImplies, PTL

\* An active admin remains unless an update was overtaken.
THEOREM AdminsRemain == Spec => []AnAdminRemains
BY Invariance, InvImplies, PTL

\* A change of an account ends every session begun before it, unless the change was
\* computed from an outdated row.
THEOREM RevokedSessionsEnd == Spec => []RevokedStaysOut
BY Invariance, InvImplies, PTL

\* A temporary password must be replaced, unless changes of the account overlapped.
THEOREM TemporaryMustChange == Spec => []TemporaryIsReplaced
BY Invariance, InvImplies, PTL

\* The audit trail leads to the present roles, states and kill switch.
THEOREM TrailIsTrue == Spec => []TrailTellsTheState
BY Invariance, InvImplies, PTL
=================================================================================
