---------------------------- MODULE PriceRules_proofs ----------------------------
(***************************************************************************)
(* Theorems about PriceRules for every number of checks, requests, users and *)
(* sessions: its types, and, where checks do not overlap, that a rule that   *)
(* fires stores its alert, and that it alerts once per crossing.             *)
(***************************************************************************)
EXTENDS PriceRules, SequenceTheorems, FiniteSetTheorems, TLAPS

CheckFields == {"pc", "todo", "known", "new", "alert"}
ClientFields == {"pc", "id", "known", "new"}

OneCheck == \A c, d \in Checks : c = d

IsRow(r, id) == id \in 1 .. Len(r) /\ r[id] # None

\* What happened to rule id up to session s: its alerts in a and its edits in E.
UpTo(id, s, a, E) ==
    /\ \A t : <<id, t>> \in a => t <= s
    /\ \A e \in E : e <= s

\* The rule a check has flushed as new, having known it as known: it stays in its session,
\* or moves on to one that nothing of the rule is later than.
Flushed(id, known, new, alert, n, a, E) ==
    /\ known \in RuleType /\ new \in RuleType /\ alert \in BOOLEAN
    /\ new.session <= n /\ known.session <= new.session
    /\ alert => new.session # known.session
    /\ ~alert => new.triggers = known.triggers
    /\ new.session # known.session => UpTo(id, new.session, a, E)

\* A check over the rules r, n sessions, alerts a and edits e.
CheckOK(l, r, n, a, e) ==
    /\ DOMAIN l = CheckFields
    /\ l.pc \in {"idle", "check", "flushed", "raised"}
    /\ l.todo \in Seq(Nat)
    /\ l.pc # "idle" => l.todo # <<>>
    /\ \A i \in DOMAIN l.todo : l.todo[i] \in DOMAIN l.known
    /\ DOMAIN l.known \subseteq 1 .. Len(r)
    /\ \A i \in DOMAIN l.known :
         l.known[i] = Expired \/ (l.known[i] \in RuleType /\ l.known[i].session <= n)
    /\ l.pc = "flushed" =>
         LET id == Head(l.todo) IN
         IsRow(r, id) /\ Flushed(id, l.known[id], l.new, l.alert, n, a, e[id])

ClientOK(l, r) ==
    /\ DOMAIN l = ClientFields
    /\ l.pc \in {"idle", "insert", "save"}
    /\ l.pc = "insert" => l.new \in RuleType /\ l.new.session = 0
    /\ l.pc = "save" =>
         /\ l.id \in 1 .. Len(r) /\ l.known \in RuleType /\ l.new \in RuleType
         /\ l.new.session \in {l.known.session, 0} /\ l.new.triggers = l.known.triggers

\* A rule the check knows is still in the session it was in, unless it was edited.
KnownOK(l, r) ==
    \A i \in DOMAIN l.known :
        l.known[i] # Expired /\ r[i] # None => r[i].session \in {l.known[i].session, 0}

\* An alert is not later than its rule's session, unless the rule was edited since.
AlertsOK(r, a, e) ==
    \A id, t : <<id, t>> \in a /\ r[id] # None => t <= r[id].session \/ \E x \in e[id] : t <= x

TablesInv ==
    /\ closes \in Seq(Bars) /\ Len(closes) <= MaxSessions /\ fresh \in BOOLEAN
    /\ rules \in Seq(RuleType \cup {None})
    /\ \A id \in 1 .. Len(rules) : rules[id] # None => rules[id].session <= Len(closes)
    /\ alerts \subseteq (1 .. Len(rules)) \X (1 .. Len(closes))
    /\ DOMAIN edited = 1 .. Len(rules) /\ edited \in Seq(SUBSET Nat)
    /\ \A id \in 1 .. Len(rules) : \A x \in edited[id] : x <= Len(closes)
    /\ seen \in Seq(SUBSET Bars) /\ Len(seen) = Len(closes)
    /\ AlertsOK(rules, alerts, edited)

LocksInv ==
    \A c, d \in Checks :
        check[c].pc = "flushed" /\ check[d].pc = "flushed" /\ Head(check[c].todo) = Head(check[d].todo)
        => c = d

RulesInv ==
    /\ TablesInv /\ LocksInv
    /\ DOMAIN check = Checks /\ DOMAIN client = Clients
    /\ \A c \in Checks : CheckOK(check[c], rules, Len(closes), alerts, edited)
    /\ \A k \in Clients : ClientOK(client[k], rules)
    /\ OneCheck => \A c \in Checks : KnownOK(check[c], rules)

-----------------------------------------------------------------------------
(* Rows                                                                     *)

\* A written row has in each column what the row or the session had.
LEMMA WrittenRow ==
    ASSUME NEW row \in RuleType, NEW old \in RuleType, NEW new \in RuleType
    PROVE  /\ Written(row, old, new) \in RuleType
           /\ Written(row, old, new).session
              = IF new.session = old.session THEN row.session ELSE new.session
           /\ Written(row, old, new).triggers
              = IF new.triggers = old.triggers THEN row.triggers ELSE new.triggers
<1> DEFINE w == Written(row, old, new)
<1>1. w = [f \in DOMAIN row |-> IF new[f] = old[f] THEN row[f] ELSE new[f]]
  BY DEF Written
<1>2. DOMAIN row = {"user", "condition", "threshold", "repeat", "active", "armed", "session", "triggers"}
  BY DEF RuleType
<1>3. /\ DOMAIN w = DOMAIN row
      /\ \A f \in DOMAIN row : w[f] = IF new[f] = old[f] THEN row[f] ELSE new[f]
  BY <1>1
<1>4. \A f \in DOMAIN row : w[f] = row[f] \/ w[f] = new[f]
  BY <1>3
<1> HIDE DEF w
<1>5. /\ w.user \in Users /\ w.condition \in Conditions /\ w.threshold \in Thresholds
      /\ w.session \in 0 .. MaxSessions /\ w.triggers \in Nat
  BY <1>2, <1>4 DEF RuleType
<1>6. w.repeat \in BOOLEAN /\ w.active \in BOOLEAN /\ w.armed \in BOOLEAN
  BY <1>2, <1>4 DEF RuleType
<1>7. w = [user |-> w.user, condition |-> w.condition, threshold |-> w.threshold,
           repeat |-> w.repeat, active |-> w.active, armed |-> w.armed,
           session |-> w.session, triggers |-> w.triggers]
  BY <1>1, <1>2, <1>3 DEF w
<1>8. w \in RuleType
  BY <1>5, <1>6, <1>7, Zenon DEF RuleType
<1> QED
  BY <1>2, <1>3, <1>8 DEF w

LEMMA CheckedRow ==
    ASSUME NEW rule \in RuleType, Len(closes) \in Nat, Len(closes) <= MaxSessions,
           rule.session <= Len(closes)
    PROVE  /\ Checked(rule) \in RuleType /\ FiresNow(rule) \in BOOLEAN
           /\ Checked(rule).session \in {rule.session, Len(closes)}
           /\ FiresNow(rule) => Checked(rule).session # rule.session
           /\ ~FiresNow(rule) => Checked(rule).triggers = rule.triggers
<1> DEFINE met == Observed(rule.condition) /\ Met(rule.condition, rule.threshold, closes)
           fires == Fires(rule)
           more == IF fires THEN rule.triggers + 1 ELSE rule.triggers
           w == [rule EXCEPT !.session = Session, !.armed = ArmedAfter(rule, met),
                             !.active = ActiveAfter(rule, fires), !.triggers = more]
<1>1. CASE ~rule.active \/ ~Seals(rule)
  BY <1>1 DEF Checked, FiresNow
<1>2. CASE rule.active /\ Seals(rule)
  <2>1. Checked(rule) = w
    BY <1>2 DEF Checked
  <2>2. /\ more \in Nat /\ Session \in 0 .. MaxSessions
        /\ ArmedAfter(rule, met) \in BOOLEAN /\ ActiveAfter(rule, fires) \in BOOLEAN
    <3>1. rule.triggers \in Nat
      BY DEF RuleType
    <3>2. more \in Nat
      BY <3>1
    <3>3. Session \in 0 .. MaxSessions
      BY BoundsAssumption DEF Session
    <3> QED
      BY <3>2, <3>3, Zenon DEF ArmedAfter, ActiveAfter
  <2>3. w \in RuleType
    <3> DEFINE armed == ArmedAfter(rule, met)
               active == ActiveAfter(rule, fires)
    <3> HIDE DEF armed, active, more
    <3> QED
      BY <2>2 DEF RuleType, armed, active
  <2>4. w.session = Session /\ w.triggers = more
    BY DEF RuleType
  <2>5. rule.session # Session
    BY <1>2 DEF Seals
  <2>6. FiresNow(rule) <=> fires
    BY <1>2 DEF FiresNow
  <2>7. FiresNow(rule) \in BOOLEAN
    BY Zenon DEF FiresNow
  <2> QED
    BY <2>1, <2>3, <2>4, <2>5, <2>6, <2>7 DEF Session
<1> QED
  BY <1>1, <1>2

LEMMA PatchedRow ==
    ASSUME NEW rule \in RuleType, NEW threshold \in Thresholds \cup {None},
           NEW repeat \in BOOLEAN \cup {None}, NEW active \in BOOLEAN \cup {None}
    PROVE  /\ Patched(rule, threshold, repeat, active) \in RuleType
           /\ Patched(rule, threshold, repeat, active).session \in {rule.session, 0}
           /\ Patched(rule, threshold, repeat, active).triggers = rule.triggers
<1> DEFINE Like(r) == r \in RuleType /\ r.session \in {rule.session, 0} /\ r.triggers = rule.triggers
           level == IF threshold = None THEN rule
                    ELSE [rule EXCEPT !.threshold = threshold, !.armed = TRUE, !.session = 0]
           often == IF repeat = None THEN level ELSE [level EXCEPT !.repeat = repeat]
<1>0. 0 \in 0 .. MaxSessions
  BY BoundsAssumption
<1>1. Like(level)
  BY <1>0 DEF RuleType
<1> HIDE DEF level
<1>2. Like(often)
  BY <1>1 DEF RuleType
<1> HIDE DEF often
<1>3. Like([often EXCEPT !.active = FALSE])
  BY <1>2 DEF RuleType
<1>4. Like([often EXCEPT !.active = TRUE, !.armed = TRUE, !.session = 0])
  BY <1>0, <1>2 DEF RuleType
<1>5. Patched(rule, threshold, repeat, active)
      = CASE active = None -> often
          [] active = FALSE -> [often EXCEPT !.active = FALSE]
          [] OTHER -> [often EXCEPT !.active = TRUE, !.armed = TRUE, !.session = 0]
  BY DEF Patched, often, level
<1>6. \/ Patched(rule, threshold, repeat, active) = often
      \/ Patched(rule, threshold, repeat, active) = [often EXCEPT !.active = FALSE]
      \/ Patched(rule, threshold, repeat, active)
         = [often EXCEPT !.active = TRUE, !.armed = TRUE, !.session = 0]
  BY <1>5
<1> DEFINE x == Patched(rule, threshold, repeat, active)
           y == [often EXCEPT !.active = FALSE]
           z == [often EXCEPT !.active = TRUE, !.armed = TRUE, !.session = 0]
<1>7. Like(y) /\ Like(z) /\ (x = often \/ x = y \/ x = z)
  BY <1>3, <1>4, <1>6
<1> HIDE DEF x, y, z
<1>8. Like(x)
  BY <1>2, <1>7
<1> QED
  BY <1>8 DEF x

-----------------------------------------------------------------------------
LEMMA InvImplies == RulesInv => TypeOK
<1> SUFFICES ASSUME RulesInv PROVE TypeOK
  OBVIOUS
<1>1. ASSUME NEW c \in Checks
      PROVE  /\ check[c].pc \in {"idle", "check", "flushed", "raised"}
             /\ \A i \in DOMAIN check[c].todo :
                  check[c].known[check[c].todo[i]] \in RuleType \cup {Expired}
             /\ check[c].pc = "flushed" =>
                  /\ Exists(Head(check[c].todo)) /\ check[c].new \in RuleType
                  /\ check[c].alert \in BOOLEAN
  <2> DEFINE l == check[c]
  <2>1. CheckOK(l, rules, Len(closes), alerts, edited)
    BY DEF RulesInv
  <2> HIDE DEF l
  <2>2. l.pc = "flushed" => /\ Exists(Head(l.todo)) /\ l.new \in RuleType
                            /\ l.alert \in BOOLEAN
    BY <2>1, Zenon DEF CheckOK, IsRow, Flushed, Exists, RuleIds
  <2>3. /\ l.pc \in {"idle", "check", "flushed", "raised"}
        /\ \A i \in DOMAIN l.todo : l.known[l.todo[i]] \in RuleType \cup {Expired}
    BY <2>1 DEF CheckOK
  <2> QED
    BY <2>2, <2>3, Zenon DEF l
<1>2. ASSUME NEW k \in Clients
      PROVE  /\ client[k].pc = "insert" => client[k].new \in RuleType
             /\ client[k].pc = "save" => client[k].id \in RuleIds
  BY DEF RulesInv, ClientOK, RuleIds
<1>3. Len(edited) = Len(rules)
  <2>1. Len(rules) \in Nat
    BY DEF RulesInv, TablesInv
  <2> QED
    BY <2>1, LenProperties DEF RulesInv, TablesInv
<1>4. /\ closes \in Seq(Bars) /\ fresh \in BOOLEAN /\ rules \in Seq(RuleType \cup {None})
      /\ alerts \subseteq RuleIds \X (1 .. Session) /\ Len(seen) = Len(closes)
  BY DEF RulesInv, TablesInv, RuleIds, Session
<1> QED
  BY <1>1, <1>2, <1>3, <1>4, Zenon DEF TypeOK, AlertKeys

LEMMA IdleChecks ==
    ASSUME NEW r, NEW n, NEW a, NEW e
    PROVE  CheckOK(IdleCheck, r, n, a, e) /\ KnownOK(IdleCheck, r) /\ IdleCheck.pc = "idle"
<1>1. <<>> \in Seq(Nat) /\ DOMAIN <<>> = {}
  OBVIOUS
<1> QED
  BY <1>1 DEF IdleCheck, CheckOK, KnownOK, CheckFields

LEMMA IdleClients == \A r : ClientOK(IdleClient, r)
BY DEF IdleClient, ClientOK, ClientFields

LEMMA InitInv == Init => RulesInv
<1> SUFFICES ASSUME Init PROVE RulesInv
  OBVIOUS
<1>1. /\ <<>> \in Seq(Bars) /\ <<>> \in Seq(RuleType \cup {None}) /\ <<>> \in Seq(SUBSET Nat)
      /\ <<>> \in Seq(SUBSET Bars) /\ Len(<<>>) = 0 /\ DOMAIN <<>> = 1 .. Len(<<>>)
      /\ 1 .. Len(<<>>) = {}
  OBVIOUS
<1>2. TablesInv
  <2>1. AlertsOK(rules, alerts, edited)
    BY DEF Init, AlertsOK
  <2>2. /\ closes = <<>> /\ fresh \in BOOLEAN /\ seen = <<>> /\ rules = <<>> /\ alerts = {}
        /\ edited = <<>>
    BY DEF Init
  <2> QED
    BY <1>1, <2>1, <2>2, BoundsAssumption DEF TablesInv
<1>3. \A c \in Checks : check[c] = IdleCheck
  BY DEF Init
<1>4. LocksInv
  BY <1>3, IdleChecks DEF LocksInv
<1>5. \A k \in Clients : ClientOK(client[k], rules)
  BY IdleClients DEF Init
<1>6. \A c \in Checks : CheckOK(check[c], rules, Len(closes), alerts, edited) /\ KnownOK(check[c], rules)
  BY <1>3, IdleChecks
<1> QED
  BY <1>2, <1>4, <1>5, <1>6 DEF RulesInv, Init

-----------------------------------------------------------------------------
(* How steps move the invariant                                              *)

\* A check goes on as it is while rules and sessions are added and nothing happens to a
\* rule whose row it has locked.
LEMMA CheckStays ==
    ASSUME NEW r, NEW n \in Nat, NEW a, NEW e, NEW r2, NEW n2 \in Nat, NEW a2, NEW e2,
           n <= n2, Len(r) \in Nat, Len(r2) \in Nat, Len(r) <= Len(r2),
           NEW l, CheckOK(l, r, n, a, e),
           l.pc = "flushed" =>
               LET id == Head(l.todo) IN
               IsRow(r2, id) /\ e2[id] = e[id] /\ \A t : <<id, t>> \in a2 => <<id, t>> \in a
    PROVE  CheckOK(l, r2, n2, a2, e2)
<1> DEFINE id == Head(l.todo)
           Mine(a3, e3, n3) == Flushed(id, l.known[id], l.new, l.alert, n3, a3, e3[id])
<1>1. ASSUME l.pc = "flushed" PROVE IsRow(r2, id) /\ Mine(a2, e2, n2)
  <2>1. Mine(a, e, n) /\ IsRow(r2, id) /\ e2[id] = e[id] /\ \A t : <<id, t>> \in a2 => <<id, t>> \in a
    BY <1>1 DEF CheckOK
  <2>2. l.new.session <= n2
    <3>1. l.new.session \in Nat /\ l.new.session <= n
      BY <2>1 DEF Flushed, RuleType
    <3> QED
      BY <3>1
  <2>3. UpTo(id, l.new.session, a, e[id]) => UpTo(id, l.new.session, a2, e2[id])
    BY <2>1 DEF UpTo
  <2> HIDE DEF id
  <2> QED
    BY <2>1, <2>2, <2>3, Zenon DEF Flushed
<1>2. \A i \in DOMAIN l.known :
         l.known[i] = Expired \/ (l.known[i] \in RuleType /\ l.known[i].session <= n2)
  <2>1. \A i \in DOMAIN l.known : l.known[i] \in RuleType => l.known[i].session \in Nat
    BY DEF RuleType
  <2> QED
    BY <2>1 DEF CheckOK
<1>3. DOMAIN l.known \subseteq 1 .. Len(r2)
  BY DEF CheckOK
<1> QED
  BY <1>1, <1>2, <1>3 DEF CheckOK

\* Check c moves on to x and touches no table.
LEMMA CheckMoves ==
    ASSUME RulesInv, NEW c \in Checks, NEW x, check' = [check EXCEPT ![c] = x],
           UNCHANGED <<closes, fresh, rules, alerts, client, edited, seen>>,
           CheckOK(x, rules, Len(closes), alerts, edited),
           OneCheck => KnownOK(x, rules),
           x.pc = "flushed" => ~Locked(Head(x.todo))
    PROVE  RulesInv'
<1>1. \A d \in Checks : check'[d] = IF d = c THEN x ELSE check[d]
  BY DEF RulesInv
<1>2. LocksInv'
  BY <1>1 DEF RulesInv, LocksInv, Locked
<1>3. TablesInv'
  BY DEF RulesInv, TablesInv
<1> QED
  BY <1>1, <1>2, <1>3 DEF RulesInv

\* The tables change beside the checks: nothing happens to a locked row, no session of a rule
\* but 0 appears.
LEMMA TableMoves ==
    ASSUME RulesInv, check' = check, alerts' = alerts, TablesInv',
           DOMAIN client' = Clients, \A k \in Clients : ClientOK(client'[k], rules'),
           Len(closes) <= Len(closes'), Len(rules) <= Len(rules'),
           \A id \in 1 .. Len(rules) :
               /\ rules'[id] # None =>
                    rules[id] # None /\ rules'[id].session \in {rules[id].session, 0}
               /\ Locked(id) /\ rules[id] # None => rules'[id] # None /\ edited'[id] = edited[id]
    PROVE  RulesInv'
<1>1. /\ Len(closes) \in Nat /\ Len(closes') \in Nat /\ Len(rules) \in Nat
      /\ Len(rules') \in Nat
  BY DEF RulesInv, TablesInv
<1>2. ASSUME NEW c \in Checks
      PROVE  CheckOK(check[c], rules', Len(closes'), alerts', edited')
  <2> DEFINE l == check[c]
             id == Head(l.todo)
  <2>1. CheckOK(l, rules, Len(closes), alerts, edited)
    BY DEF RulesInv
  <2>2. ASSUME l.pc = "flushed"
        PROVE  IsRow(rules', id) /\ edited'[id] = edited[id]
    <3>1. IsRow(rules, id) /\ Locked(id)
      BY <2>1, <2>2 DEF CheckOK, Locked
    <3> QED
      BY <1>1, <3>1 DEF IsRow
  <2>3. l.pc = "flushed" =>
           LET i == Head(l.todo) IN
           IsRow(rules', i) /\ edited'[i] = edited[i] /\ \A t : <<i, t>> \in alerts' => <<i, t>> \in alerts
    BY <2>2
  <2>4. Len(closes) <= Len(closes') /\ Len(rules) <= Len(rules')
    OBVIOUS
  <2> HIDE DEF l, id
  <2>5. CheckOK(l, rules', Len(closes'), alerts', edited')
    BY <1>1, <2>1, <2>3, <2>4, CheckStays
  <2> QED
    BY <2>5 DEF l
<1>3. ASSUME NEW c \in Checks, KnownOK(check[c], rules) PROVE KnownOK(check[c], rules')
  <2>1. DOMAIN check[c].known \subseteq 1 .. Len(rules)
    BY DEF RulesInv, CheckOK
  <2> QED
    BY <1>3, <2>1 DEF KnownOK
<1>4. LocksInv'
  BY DEF RulesInv, LocksInv
<1>5. \A c \in Checks : CheckOK(check'[c], rules', Len(closes'), alerts', edited')
  BY <1>2
<1>6. OneCheck => \A c \in Checks : KnownOK(check'[c], rules')
  BY <1>3 DEF RulesInv
<1> QED
  BY <1>4, <1>5, <1>6 DEF RulesInv

LEMMA ClientStays ==
    ASSUME NEW r, NEW r2, Len(r) \in Nat, Len(r2) \in Nat, Len(r) <= Len(r2),
           NEW l, ClientOK(l, r)
    PROVE  ClientOK(l, r2)
BY DEF ClientOK

\* A request moves on to x and touches no table.
LEMMA ClientMoves ==
    ASSUME RulesInv, NEW k \in Clients, NEW x, client' = [client EXCEPT ![k] = x],
           UNCHANGED <<closes, fresh, rules, alerts, check, edited, seen>>,
           ClientOK(x, rules)
    PROVE  RulesInv'
<1>1. \A i \in Clients : client'[i] = IF i = k THEN x ELSE client[i]
  BY DEF RulesInv
<1>2. TablesInv' /\ LocksInv'
  BY DEF RulesInv, TablesInv, LocksInv
<1> QED
  BY <1>1, <1>2 DEF RulesInv

-----------------------------------------------------------------------------
(* The data                                                                  *)

LEMMA DataInv == ASSUME RulesInv, Ingest \/ Revise \/ Age PROVE RulesInv'
<1>1. /\ closes \in Seq(Bars) /\ seen \in Seq(SUBSET Bars) /\ Len(closes) \in Nat
      /\ Len(seen) = Len(closes) /\ Len(closes) <= MaxSessions
  BY DEF RulesInv, TablesInv
<1>2. UNCHANGED <<rules, alerts, check, client, edited>>
  BY DEF Ingest, Revise, Age
<1>3. /\ closes' \in Seq(Bars) /\ seen' \in Seq(SUBSET Bars) /\ fresh' \in BOOLEAN
      /\ Len(closes') \in Nat /\ Len(seen') = Len(closes')
      /\ Len(closes) <= Len(closes') /\ Len(closes') <= MaxSessions
  <2>1. CASE Ingest
    <3>1. PICK b \in Bars : closes' = Append(closes, b) /\ seen' = Append(seen, {b})
      BY <2>1 DEF Ingest
    <3>2. {b} \in SUBSET Bars /\ fresh' = TRUE /\ Len(closes) < MaxSessions
      BY <2>1 DEF Ingest, Session
    <3>3. /\ closes' \in Seq(Bars) /\ Len(closes') = Len(closes) + 1
          /\ seen' \in Seq(SUBSET Bars) /\ Len(seen') = Len(seen) + 1
      BY <1>1, <3>1, <3>2, AppendProperties
    <3> QED
      BY <1>1, <3>2, <3>3, BoundsAssumption
  <2>2. CASE Revise
    <3>1. PICK b \in Bars : /\ closes' = [closes EXCEPT ![Session] = b]
                            /\ seen' = [seen EXCEPT ![Session] = @ \cup {b}]
      BY <2>2 DEF Revise
    <3> DEFINE now == seen[Session] \cup {b}
    <3>2. Session \in 1 .. Len(closes) /\ Session \in 1 .. Len(seen) /\ fresh' = fresh
      BY <1>1, <2>2 DEF Revise, Session
    <3>3. now \in SUBSET Bars
      BY <1>1, <3>2, ElementOfSeq
    <3>4. seen' = [seen EXCEPT ![Session] = now]
      BY <3>1
    <3> HIDE DEF now
    <3>5. /\ closes' \in Seq(Bars) /\ Len(closes') = Len(closes)
          /\ seen' \in Seq(SUBSET Bars) /\ Len(seen') = Len(seen)
      BY <1>1, <3>1, <3>2, <3>3, <3>4, ExceptSeq
    <3> QED
      BY <1>1, <3>2, <3>5 DEF RulesInv, TablesInv
  <2>3. CASE Age
    <3>1. fresh' \in BOOLEAN
      BY <2>3, Zenon DEF Age
    <3>2. closes' = closes /\ seen' = seen
      BY <2>3, Zenon DEF Age
    <3> QED
      BY <1>1, <3>1, <3>2
  <2> QED
    BY <2>1, <2>2, <2>3
<1>4. \A id \in 1 .. Len(rules) :
         /\ rules[id] # None => rules[id].session <= Len(closes')
         /\ \A x \in edited[id] : x <= Len(closes')
  <2>1. ASSUME NEW id \in 1 .. Len(rules), rules[id] # None
        PROVE  rules[id].session <= Len(closes')
    <3>1. rules[id] \in RuleType
      BY <2>1, ElementOfSeq DEF RulesInv, TablesInv
    <3>2. rules[id].session \in Nat /\ rules[id].session <= Len(closes)
      BY <2>1, <3>1 DEF RulesInv, TablesInv, RuleType
    <3> QED
      BY <1>1, <1>3, <3>2
  <2>2. ASSUME NEW id \in 1 .. Len(rules), NEW x \in edited[id] PROVE x <= Len(closes')
    <3>1. edited[id] \in SUBSET Nat /\ x <= Len(closes)
      BY <2>2 DEF RulesInv, TablesInv
    <3> QED
      BY <1>1, <1>3, <3>1
  <2> QED
    BY <2>1, <2>2
<1>5. alerts \subseteq (1 .. Len(rules)) \X (1 .. Len(closes'))
  <2>1. 1 .. Len(closes) \subseteq 1 .. Len(closes')
    BY <1>1, <1>3
  <2> QED
    BY <2>1 DEF RulesInv, TablesInv
<1>6. TablesInv'
  BY <1>2, <1>3, <1>4, <1>5 DEF RulesInv, TablesInv
<1>7. /\ DOMAIN client' = Clients /\ \A k \in Clients : ClientOK(client'[k], rules')
  BY <1>2 DEF RulesInv
<1>8. Len(rules) \in Nat
  BY DEF RulesInv, TablesInv
<1> QED
  BY <1>2, <1>3, <1>6, <1>7, <1>8, TableMoves

-----------------------------------------------------------------------------
(* The checks                                                                *)

LEMMA ListRulesInv ==
    ASSUME RulesInv, NEW c \in Checks, NEW u, ListRules(c, u)
    PROVE  RulesInv'
<1> DEFINE S == ActiveOf(u)
<1>1. PICK q \in [1 .. Cardinality(S) -> S] :
         /\ q # <<>>
         /\ check' = [check EXCEPT ![c] = [IdleCheck EXCEPT
                         !.pc = "check", !.todo = q, !.known = [id \in S |-> rules[id]]]]
  BY DEF ListRules
<1> DEFINE known == [id \in S |-> rules[id]]
           x == [IdleCheck EXCEPT !.pc = "check", !.todo = q, !.known = known]
<1>2. /\ rules \in Seq(RuleType \cup {None}) /\ Len(rules) \in Nat
      /\ S \subseteq 1 .. Len(rules) /\ \A id \in S : rules[id] # None
      /\ \A id \in S : rules[id].session <= Len(closes)
  BY DEF RulesInv, TablesInv, ActiveOf, RuleIds, Exists
<1>3. \A id \in S : rules[id] \in RuleType
  BY <1>2, ElementOfSeq
<1>4. Cardinality(S) \in Nat /\ S \subseteq Nat
  <2>1. Len(rules) \in Nat /\ S \subseteq 1 .. Len(rules)
    BY <1>2
  <2> HIDE DEF S
  <2>2. IsFiniteSet(1 .. Len(rules))
    BY <2>1, FS_Interval
  <2>3. IsFiniteSet(S)
    BY <2>1, <2>2, FS_Subset
  <2>4. Cardinality(S) \in Nat
    BY <2>3, FS_CardinalityType
  <2> QED
    BY <2>1, <2>4
<1> HIDE DEF S
<1>5. q \in Seq(S) /\ DOMAIN q = 1 .. Cardinality(S) /\ \A i \in DOMAIN q : q[i] \in S
  BY <1>4
<1>6. q \in Seq(Nat)
  BY <1>4, <1>5, SeqMonotonic
<1>7. /\ DOMAIN x = CheckFields /\ x.pc = "check" /\ x.todo = q /\ x.known = known
      /\ DOMAIN known = S /\ \A id \in S : known[id] = rules[id]
  BY DEF IdleCheck, CheckFields
<1>8. check' = [check EXCEPT ![c] = x]
  BY <1>1
<1>9. UNCHANGED <<closes, fresh, rules, alerts, client, edited, seen>>
  BY DEF ListRules
<1> HIDE DEF x, known
<1>10. CheckOK(x, rules, Len(closes), alerts, edited)
  BY <1>1, <1>2, <1>3, <1>5, <1>6, <1>7 DEF CheckOK
<1>11. KnownOK(x, rules)
  BY <1>2, <1>3, <1>7 DEF KnownOK
<1>12. x.pc # "flushed"
  BY <1>7
<1> QED
  BY <1>8, <1>9, <1>10, <1>11, <1>12, CheckMoves

\* What a check knows of the rule it is to check.
LEMMA KnownRows ==
    ASSUME RulesInv, NEW c \in Checks, NEW id, check[c].pc = "check",
           Head(check[c].todo) = id, Exists(id)
    PROVE  /\ KnownRule(c, id) \in RuleType /\ KnownRule(c, id).session <= Len(closes)
           /\ id \in DOMAIN check[c].known
<1> DEFINE l == check[c]
<1>1. CheckOK(l, rules, Len(closes), alerts, edited)
  BY DEF RulesInv
<1>2. id = l.todo[1] /\ 1 \in DOMAIN l.todo
  <2>1. l.todo \in Seq(Nat) /\ l.todo # <<>> /\ Head(l.todo) = id
    BY <1>1 DEF CheckOK
  <2> HIDE DEF l
  <2>2. Len(l.todo) \in Nat /\ Len(l.todo) # 0 /\ DOMAIN l.todo = 1 .. Len(l.todo)
    BY <2>1, EmptySeq, LenProperties
  <2> QED
    BY <2>1, <2>2
<1>3. id \in DOMAIN l.known
  BY <1>1, <1>2 DEF CheckOK
<1>4. rules[id] \in RuleType /\ rules[id].session <= Len(closes)
  <2>1. id \in 1 .. Len(rules) /\ rules[id] # None
    BY DEF Exists, RuleIds
  <2> QED
    BY <2>1, ElementOfSeq DEF RulesInv, TablesInv
<1> QED
  BY <1>1, <1>3, <1>4, RowsAssumption DEF CheckOK, KnownRule

LEMMA CheckRuleInv ==
    ASSUME RulesInv, NEW c \in Checks, NEW id, CheckRule(c, id)
    PROVE  RulesInv'
<1> DEFINE l == check[c]
           rule == KnownRule(c, id)
           known == [l.known EXCEPT ![id] = rule]
           new == Checked(rule)
           fires == FiresNow(rule)
           x == [l EXCEPT !.pc = "flushed", !.known = known, !.new = new, !.alert = fires]
<1>1. /\ l.pc = "check" /\ Head(l.todo) = id /\ Exists(id) /\ ~Locked(id)
      /\ UNCHANGED <<closes, fresh, rules, alerts, client, edited, seen>>
  BY DEF CheckRule
<1>0. check' = [check EXCEPT ![c] = x]
  BY Zenon DEF CheckRule
<1>2. CheckOK(l, rules, Len(closes), alerts, edited)
  BY DEF RulesInv
<1>3. rule \in RuleType /\ rule.session <= Len(closes) /\ id \in DOMAIN l.known
  BY <1>1, KnownRows
<1>4. Len(closes) \in Nat /\ Len(closes) <= MaxSessions
  BY DEF RulesInv, TablesInv
<1>5. /\ new \in RuleType /\ fires \in BOOLEAN
      /\ new.session \in {rule.session, Len(closes)}
      /\ fires => new.session # rule.session
      /\ ~fires => new.triggers = rule.triggers
  <2> HIDE DEF rule
  <2> QED
    BY <1>3, <1>4, CheckedRow
<1>6. /\ DOMAIN x = CheckFields /\ x.pc = "flushed" /\ x.todo = l.todo /\ x.known = known
      /\ x.new = new /\ x.alert = fires
  <2>1. /\ DOMAIN x = CheckFields /\ x.pc = "flushed" /\ x.todo = l.todo /\ x.known = known
        /\ x.new = new
    BY <1>2 DEF CheckOK, CheckFields
  <2>2. x.alert = fires
    BY <1>2, Zenon DEF CheckOK, CheckFields
  <2> QED
    BY <2>1, <2>2
<1>7. /\ DOMAIN known = DOMAIN l.known /\ known[id] = rule
      /\ \A i \in DOMAIN l.known : i # id => known[i] = l.known[i]
  BY <1>3
<1>8. IsRow(rules, id)
  BY <1>1 DEF Exists, RuleIds, IsRow
<1>9. UpTo(id, Len(closes), alerts, edited[id])
  BY <1>8 DEF RulesInv, TablesInv, UpTo, IsRow
<1> HIDE DEF x, known, new, fires, rule
<1>10. Flushed(id, rule, new, fires, Len(closes), alerts, edited[id])
  <2>1. rule.session \in Nat
    BY <1>3 DEF RuleType
  <2>2. new.session <= Len(closes) /\ rule.session <= new.session
    BY <1>3, <1>4, <1>5, <2>1
  <2>3. new.session # rule.session => UpTo(id, new.session, alerts, edited[id])
    BY <1>5, <1>9
  <2> QED
    BY <1>3, <1>5, <2>2, <2>3, Zenon DEF Flushed
<1>11. CheckOK(x, rules, Len(closes), alerts, edited)
  <2>1. \A i \in DOMAIN x.known :
           x.known[i] = Expired \/ (x.known[i] \in RuleType /\ x.known[i].session <= Len(closes))
    BY <1>2, <1>3, <1>6, <1>7 DEF CheckOK
  <2>2. x.known[Head(x.todo)] = rule /\ Head(x.todo) = id
    BY <1>1, <1>6, <1>7
  <2>3. Flushed(Head(x.todo), x.known[Head(x.todo)], x.new, x.alert, Len(closes), alerts,
                edited[Head(x.todo)])
    BY <1>6, <1>10, <2>2, Zenon
  <2>4. /\ x.todo # <<>> /\ x.todo \in Seq(Nat) /\ DOMAIN x.known \subseteq 1 .. Len(rules)
        /\ \A i \in DOMAIN x.todo : x.todo[i] \in DOMAIN x.known
    <3>1. x.todo = l.todo /\ DOMAIN x.known = DOMAIN l.known /\ l.pc = "check"
      BY <1>1, <1>6, <1>7
    <3> HIDE DEF l
    <3> QED
      BY <1>2, <3>1 DEF CheckOK
  <2> QED
    BY <1>6, <1>8, <2>1, <2>2, <2>3, <2>4 DEF CheckOK
<1>12. ASSUME OneCheck PROVE KnownOK(x, rules)
  <2>1. KnownOK(l, rules)
    BY <1>12 DEF RulesInv
  <2>2. rule = rules[id] \/ (rule = l.known[id] /\ rule # Expired)
    BY DEF rule, KnownRule
  <2> QED
    BY <1>6, <1>7, <2>1, <2>2, <1>3 DEF KnownOK
<1>13. ~Locked(Head(x.todo))
  BY <1>1, <1>6
<1> QED
  BY <1>1, <1>11, <1>12, <1>13, <1>0, CheckMoves

\* A check that is done with a rule goes on with what it knows of the others.
Advanced(l, known) ==
    IF Tail(l.todo) = <<>> THEN IdleCheck
    ELSE [IdleCheck EXCEPT !.pc = "check", !.todo = Tail(l.todo), !.known = known]

LEMMA AdvanceMoves ==
    ASSUME RulesInv, NEW c \in Checks, NEW known, check[c].pc # "idle",
           NEW r, NEW n, NEW a, NEW e, Len(r) \in Nat, Len(rules) <= Len(r),
           DOMAIN known = DOMAIN check[c].known,
           \A i \in DOMAIN known :
               known[i] = Expired \/ (known[i] \in RuleType /\ known[i].session <= n)
    PROVE  LET x == Advanced(check[c], known) IN
           /\ x.pc # "flushed" /\ CheckOK(x, r, n, a, e)
           /\ x.known = known \/ KnownOK(x, r)
<1> DEFINE l == check[c]
           rest == Tail(l.todo)
           y == [IdleCheck EXCEPT !.pc = "check", !.todo = rest, !.known = known]
<1>1. CheckOK(l, rules, Len(closes), alerts, edited) /\ Len(rules) \in Nat
  BY DEF RulesInv, TablesInv
<1>2. CASE rest = <<>>
  <2>1. Advanced(l, known) = IdleCheck
    BY <1>2 DEF Advanced
  <2> DEFINE x == IdleCheck
  <2>2. CheckOK(x, r, n, a, e) /\ KnownOK(x, r) /\ x.pc # "flushed"
    BY IdleChecks
  <2> HIDE DEF x
  <2> QED
    BY <2>1, <2>2 DEF x
<1>3. CASE rest # <<>>
  <2>1. Advanced(l, known) = y
    BY <1>3 DEF Advanced
  <2>2. /\ DOMAIN y = CheckFields /\ y.pc = "check" /\ y.todo = rest /\ y.known = known
    BY DEF IdleCheck, CheckFields
  <2>3. l.todo \in Seq(Nat) /\ l.todo # <<>> /\ \A i \in DOMAIN l.todo : l.todo[i] \in DOMAIN l.known
    BY <1>1 DEF CheckOK
  <2>4. rest \in Seq(Nat) /\ \A i \in DOMAIN rest : rest[i] \in DOMAIN known
    <3> HIDE DEF l
    <3>1. /\ rest \in Seq(Nat) /\ Len(rest) = Len(l.todo) - 1
          /\ \A i \in 1 .. Len(rest) : rest[i] = l.todo[i + 1]
      BY <2>3, HeadTailProperties
    <3>2. DOMAIN rest = 1 .. Len(rest) /\ DOMAIN l.todo = 1 .. Len(l.todo) /\ Len(l.todo) \in Nat
          /\ Len(rest) \in Nat
      BY <2>3, <3>1, LenProperties
    <3>3. DOMAIN known = DOMAIN l.known
      BY DEF l
    <3> HIDE DEF rest
    <3>4. \A i \in 1 .. Len(rest) : i + 1 \in 1 .. Len(l.todo)
      BY <3>1, <3>2
    <3> QED
      BY <2>3, <3>1, <3>2, <3>3, <3>4
  <2>5. DOMAIN known \subseteq 1 .. Len(r)
    BY <1>1 DEF CheckOK
  <2> HIDE DEF y, rest
  <2>6. CheckOK(y, r, n, a, e)
    BY <1>3, <2>2, <2>4, <2>5 DEF CheckOK
  <2>7. y.pc # "flushed" /\ y.known = known
    BY <2>2
  <2> QED
    BY <2>1, <2>6, <2>7 DEF l
<1> QED
  BY <1>2, <1>3

LEMMA RuleFailsInv == ASSUME RulesInv, NEW c \in Checks, RuleFails(c) PROVE RulesInv'
<1> DEFINE known == [i \in DOMAIN check[c].known |-> Expired]
<1>1. /\ Advance(c, known) /\ check[c].pc # "idle"
      /\ UNCHANGED <<closes, fresh, rules, alerts, client, edited, seen>>
  BY DEF RuleFails
<1>2. DOMAIN known = DOMAIN check[c].known /\ \A i \in DOMAIN known : known[i] = Expired
  OBVIOUS
<1>3. Len(rules) \in Nat
  BY DEF RulesInv, TablesInv
<1> HIDE DEF known
<1> DEFINE n == Len(closes)
<1>6. \A i \in DOMAIN known :
         known[i] = Expired \/ (known[i] \in RuleType /\ known[i].session <= n)
  BY <1>2
<1>7. Len(rules) <= Len(rules) /\ DOMAIN known = DOMAIN check[c].known
  BY <1>2, <1>3
<1> HIDE DEF n
<1> DEFINE x == Advanced(check[c], known)
<1>4. /\ check' = [check EXCEPT ![c] = x] /\ x.pc # "flushed"
      /\ CheckOK(x, rules, n, alerts, edited)
      /\ x.known = known \/ KnownOK(x, rules)
  BY <1>1, <1>3, <1>6, <1>7, AdvanceMoves DEF Advance, Advanced
<1> HIDE DEF x
<1>5. KnownOK(x, rules)
  BY <1>2, <1>4 DEF KnownOK
<1> QED
  BY <1>1, <1>4, <1>5, CheckMoves DEF n

LEMMA CheckRaisesInv == ASSUME RulesInv, NEW c \in Checks, CheckRaises(c) PROVE RulesInv'
<1> DEFINE l == check[c]
           x == [l EXCEPT !.pc = "raised"]
<1>1. /\ l.pc = "check" /\ check' = [check EXCEPT ![c] = x]
      /\ UNCHANGED <<closes, fresh, rules, alerts, client, edited, seen>>
  BY DEF CheckRaises
<1>2. CheckOK(l, rules, Len(closes), alerts, edited)
  BY DEF RulesInv
<1>3. /\ DOMAIN x = CheckFields /\ x.pc = "raised" /\ x.todo = l.todo /\ x.known = l.known
  BY <1>2 DEF CheckOK, CheckFields
<1>4. OneCheck => KnownOK(l, rules)
  BY DEF RulesInv
<1> HIDE DEF x, l
<1>5. CheckOK(x, rules, Len(closes), alerts, edited)
  BY <1>1, <1>2, <1>3 DEF CheckOK
<1>6. OneCheck => KnownOK(x, rules)
  BY <1>3, <1>4 DEF KnownOK
<1> QED
  BY <1>1, <1>3, <1>5, <1>6, CheckMoves

LEMMA CheckDiesInv == ASSUME RulesInv, NEW c \in Checks, CheckDies(c) PROVE RulesInv'
<1> DEFINE x == IdleCheck
<1>1. /\ check' = [check EXCEPT ![c] = x]
      /\ UNCHANGED <<closes, fresh, rules, alerts, client, edited, seen>>
  BY DEF CheckDies
<1>2. CheckOK(x, rules, Len(closes), alerts, edited) /\ KnownOK(x, rules) /\ x.pc # "flushed"
  BY IdleChecks
<1> HIDE DEF x
<1> QED
  BY <1>1, <1>2, CheckMoves

\* The facts of a commit: the row takes over what the check has changed.
LEMMA CommitFacts ==
    ASSUME RulesInv, NEW c \in Checks, NEW id, CommitRule(c, id)
    PROVE  LET l == check[c] IN
           LET w == rules'[id] IN
           /\ IsRow(rules, id) /\ rules[id] \in RuleType
           /\ Flushed(id, l.known[id], l.new, l.alert, Len(closes), alerts, edited[id])
           /\ id \in DOMAIN l.known
           /\ DOMAIN rules' = DOMAIN rules /\ Len(rules') = Len(rules)
           /\ rules' \in Seq(RuleType \cup {None})
           /\ w \in RuleType
           /\ w.session = IF l.new.session = l.known[id].session THEN rules[id].session
                          ELSE l.new.session
           /\ w.triggers = IF l.new.triggers = l.known[id].triggers THEN rules[id].triggers
                           ELSE l.new.triggers
           /\ \A i \in 1 .. Len(rules) : i # id => rules'[i] = rules[i]
           /\ alerts' = IF l.alert THEN alerts \cup {<<id, l.new.session>>} ELSE alerts
<1> DEFINE l == check[c]
           row == Written(rules[id], l.known[id], l.new)
<1>1. /\ l.pc = "flushed" /\ Head(l.todo) = id
      /\ rules' = [rules EXCEPT ![id] = row]
      /\ alerts' = IF l.alert THEN alerts \cup {<<id, l.new.session>>} ELSE alerts
  BY DEF CommitRule, AlertsAfter
<1>2. CheckOK(l, rules, Len(closes), alerts, edited)
  BY DEF RulesInv
<1>3. /\ IsRow(rules, id)
      /\ Flushed(id, l.known[id], l.new, l.alert, Len(closes), alerts, edited[id])
  BY <1>1, <1>2 DEF CheckOK
<1>4. rules \in Seq(RuleType \cup {None}) /\ id \in 1 .. Len(rules)
  BY <1>3 DEF RulesInv, TablesInv, IsRow
<1>5. rules[id] \in RuleType
  BY <1>3, <1>4, ElementOfSeq DEF IsRow
<1>6. /\ row \in RuleType
      /\ row.session = IF l.new.session = l.known[id].session THEN rules[id].session
                       ELSE l.new.session
      /\ row.triggers = IF l.new.triggers = l.known[id].triggers THEN rules[id].triggers
                        ELSE l.new.triggers
  <2>1. l.known[id] \in RuleType /\ l.new \in RuleType
    BY <1>3 DEF Flushed
  <2> QED
    BY <1>5, <2>1, WrittenRow
<1>7. id \in DOMAIN l.known
  <2>1. l.todo \in Seq(Nat) /\ l.todo # <<>> /\ \A i \in DOMAIN l.todo : l.todo[i] \in DOMAIN l.known
    BY <1>1, <1>2 DEF CheckOK
  <2>2. Head(l.todo) = id
    BY <1>1
  <2> HIDE DEF l
  <2>3. Len(l.todo) \in Nat /\ Len(l.todo) # 0 /\ DOMAIN l.todo = 1 .. Len(l.todo)
    BY <2>1, EmptySeq, LenProperties
  <2>4. 1 \in DOMAIN l.todo /\ id = l.todo[1]
    BY <2>1, <2>2, <2>3
  <2> QED
    BY <2>1, <2>4
<1> HIDE DEF row, l
<1>8. /\ rules' \in Seq(RuleType \cup {None}) /\ Len(rules') = Len(rules)
      /\ DOMAIN rules' = DOMAIN rules /\ rules'[id] = row
      /\ \A i \in 1 .. Len(rules) : i # id => rules'[i] = rules[i]
  <2>1. row \in RuleType \cup {None}
    BY <1>6
  <2> QED
    BY <1>1, <1>4, <2>1, ExceptSeq
<1> QED
  BY <1>1, <1>3, <1>5, <1>6, <1>7, <1>8 DEF l

LEMMA CommitRuleInv == ASSUME RulesInv, NEW c \in Checks, NEW id, CommitRule(c, id) PROVE RulesInv'
<1> DEFINE l == check[c]
           n == Len(closes)
           old == l.known[id]
           new == l.new
           known == [l.known EXCEPT ![id] = new]
<1>1. /\ IsRow(rules, id) /\ rules[id] \in RuleType /\ rules'[id] \in RuleType
      /\ old \in RuleType /\ new \in RuleType /\ l.alert \in BOOLEAN
      /\ new.session <= n /\ old.session <= new.session
      /\ l.alert => new.session # old.session
      /\ new.session # old.session => UpTo(id, new.session, alerts, edited[id])
      /\ id \in DOMAIN l.known
  BY CommitFacts DEF Flushed
<1>2. /\ DOMAIN rules' = DOMAIN rules /\ Len(rules') = Len(rules)
      /\ rules' \in Seq(RuleType \cup {None})
      /\ rules'[id].session = IF new.session = old.session THEN rules[id].session ELSE new.session
      /\ \A i \in 1 .. Len(rules) : i # id => rules'[i] = rules[i]
      /\ alerts' = IF l.alert THEN alerts \cup {<<id, new.session>>} ELSE alerts
  BY CommitFacts
<1>3. /\ l.pc = "flushed" /\ Head(l.todo) = id /\ Advance(c, known)
      /\ UNCHANGED <<closes, fresh, client, edited, seen>>
  BY DEF CommitRule
<1>4. CheckOK(l, rules, n, alerts, edited) /\ n \in Nat /\ Len(rules) \in Nat
  BY DEF RulesInv, TablesInv
<1>5. /\ DOMAIN known = DOMAIN l.known /\ known[id] = new
      /\ \A i \in DOMAIN l.known : i # id => known[i] = l.known[i]
  BY <1>1
<1> HIDE DEF known
<1>6. \A i \in DOMAIN known :
         known[i] = Expired \/ (known[i] \in RuleType /\ known[i].session <= n)
  BY <1>1, <1>4, <1>5 DEF CheckOK
<1> DEFINE x == Advanced(check[c], known)
<1>7. /\ check' = [check EXCEPT ![c] = x] /\ x.pc # "flushed"
      /\ CheckOK(x, rules', n, alerts', edited)
      /\ x.known = known \/ KnownOK(x, rules')
  <2>1. check[c].pc # "idle" /\ Len(rules') \in Nat /\ Len(rules) <= Len(rules')
        /\ DOMAIN known = DOMAIN check[c].known
    BY <1>2, <1>3, <1>4, <1>5
  <2>2. check' = [check EXCEPT ![c] = x]
    BY <1>3 DEF Advance, Advanced
  <2> HIDE DEF n
  <2>3. /\ x.pc # "flushed" /\ CheckOK(x, rules', n, alerts', edited)
        /\ x.known = known \/ KnownOK(x, rules')
    BY <1>6, <2>1, AdvanceMoves
  <2> QED
    BY <2>2, <2>3
<1> HIDE DEF l, old, new, x
<1>8. \A d \in Checks : check'[d] = IF d = c THEN x ELSE check[d]
  BY <1>7 DEF RulesInv
<1>9. ASSUME NEW d \in Checks
      PROVE  CheckOK(check'[d], rules', n, alerts', edited)
  <2>1. CASE d = c
    BY <1>7, <1>8, <2>1
  <2>2. CASE d # c
    <3> DEFINE k == check[d]
    <3>1. CheckOK(k, rules, n, alerts, edited)
      BY DEF RulesInv
    <3>2. ASSUME k.pc = "flushed"
          PROVE  LET i == Head(k.todo) IN
                 /\ IsRow(rules', i) /\ edited[i] = edited[i]
                 /\ \A t : <<i, t>> \in alerts' => <<i, t>> \in alerts
      <4> DEFINE i == Head(k.todo)
      <4>1. i # id
        BY <1>3, <2>2, <3>2 DEF RulesInv, LocksInv, l
      <4>2. IsRow(rules, i)
        BY <3>1, <3>2 DEF CheckOK
      <4>3. \A t : <<i, t>> \in alerts' => <<i, t>> \in alerts
        BY <1>2, <4>1
      <4> QED
        BY <1>2, <4>1, <4>2, <4>3 DEF IsRow
    <3>3. Len(rules) <= Len(rules') /\ Len(rules') \in Nat /\ n <= n
      BY <1>2, <1>4
    <3> HIDE DEF k, n
    <3>4. CheckOK(k, rules', n, alerts', edited)
      BY <1>4, <3>1, <3>2, <3>3, CheckStays
    <3> QED
      BY <1>8, <2>2, <3>4 DEF k
  <2> QED
    BY <2>1, <2>2
<1>10. LocksInv'
  BY <1>7, <1>8 DEF RulesInv, LocksInv
<1>11. ASSUME OneCheck, NEW d \in Checks PROVE KnownOK(check'[d], rules')
  <2>1. d = c
    BY <1>11 DEF OneCheck
  <2>2. KnownOK(l, rules) /\ DOMAIN l.known \subseteq 1 .. Len(rules)
    BY <1>11, <1>4 DEF RulesInv, CheckOK, l
  <2>3. rules[id] # None /\ old # Expired
    BY <1>1, RowsAssumption DEF IsRow
  <2>4. rules[id].session \in {old.session, 0}
    BY <1>1, <2>2, <2>3 DEF KnownOK, old
  <2>5. rules'[id].session \in {new.session, 0}
    BY <1>2, <2>4
  <2>6. \A i \in DOMAIN known :
           known[i] # Expired /\ rules'[i] # None => rules'[i].session \in {known[i].session, 0}
    BY <1>2, <1>5, <2>2, <2>5 DEF KnownOK
  <2>7. KnownOK(x, rules')
    BY <1>7, <2>6 DEF KnownOK
  <2> QED
    BY <1>8, <2>1, <2>7
<1>12. AlertsOK(rules', alerts', edited)
  <2>1. AlertsOK(rules, alerts, edited)
    BY DEF RulesInv, TablesInv
  <2>2. ASSUME NEW t, <<id, t>> \in alerts'
        PROVE  t <= rules'[id].session \/ \E y \in edited[id] : t <= y
    <3>1. CASE new.session # old.session
      <4>1. \A u : <<id, u>> \in alerts => u <= new.session
        BY <1>1, <3>1 DEF UpTo
      <4>2. new.session \in Nat
        BY <1>1 DEF RuleType
      <4>3. <<id, t>> \in alerts \/ t = new.session
        BY <1>2, <2>2
      <4> QED
        BY <1>2, <3>1, <4>1, <4>2, <4>3
    <3>2. CASE new.session = old.session
      <4>1. <<id, t>> \in alerts /\ rules'[id].session = rules[id].session /\ rules[id] # None
        BY <1>1, <1>2, <2>2, <3>2 DEF IsRow
      <4> QED
        BY <2>1, <4>1 DEF AlertsOK
    <3> QED
      BY <3>1, <3>2
  <2>3. ASSUME NEW i, NEW t, i # id, <<i, t>> \in alerts', rules'[i] # None
        PROVE  t <= rules'[i].session \/ \E y \in edited[i] : t <= y
    <3>1. <<i, t>> \in alerts /\ i \in 1 .. Len(rules)
      BY <1>2, <2>3 DEF RulesInv, TablesInv
    <3>2. rules'[i] = rules[i]
      BY <1>2, <2>3, <3>1
    <3> QED
      BY <2>1, <2>3, <3>1, <3>2 DEF AlertsOK
  <2> QED
    BY <2>2, <2>3 DEF AlertsOK
<1>13. TablesInv'
  <2>1. alerts' \subseteq (1 .. Len(rules')) \X (1 .. n)
    <3>1. l.alert => <<id, new.session>> \in (1 .. Len(rules)) \X (1 .. n)
      <4>1. new.session \in Nat /\ old.session \in Nat /\ id \in 1 .. Len(rules)
        BY <1>1 DEF RuleType, IsRow
      <4> QED
        BY <1>1, <1>4, <4>1
    <3>2. alerts \subseteq (1 .. Len(rules)) \X (1 .. n)
      BY DEF RulesInv, TablesInv
    <3> QED
      BY <1>2, <3>1, <3>2
  <2>2. \A i \in 1 .. Len(rules') : rules'[i] # None => rules'[i].session <= n
    BY <1>1, <1>2 DEF RulesInv, TablesInv, IsRow
  <2> QED
    BY <1>2, <1>3, <1>12, <2>1, <2>2 DEF RulesInv, TablesInv
<1>14. /\ DOMAIN client' = Clients /\ \A k \in Clients : ClientOK(client'[k], rules')
  BY <1>2, <1>3, <1>4, ClientStays DEF RulesInv
<1>15. closes' = closes /\ edited' = edited /\ DOMAIN check' = Checks
  BY <1>3, <1>7 DEF RulesInv
<1> QED
  BY <1>9, <1>10, <1>11, <1>13, <1>14, <1>15 DEF RulesInv
-----------------------------------------------------------------------------
(* The routes                                                               *)

LEMMA NewRuleType ==
    ASSUME NEW u \in Users, NEW condition \in Conditions, NEW threshold \in Thresholds,
           NEW repeat \in BOOLEAN
    PROVE  /\ NewRule(u, condition, threshold, repeat) \in RuleType
           /\ NewRule(u, condition, threshold, repeat).session = 0
<1>1. 0 \in 0 .. MaxSessions
  BY BoundsAssumption
<1> QED
  BY <1>1 DEF NewRule, RuleType

LEMMA CountRulesInv == ASSUME RulesInv, NEW k \in Clients, CountRules(k) PROVE RulesInv'
<1>1. PICK u \in Users, condition \in Conditions, threshold \in Thresholds, repeat \in BOOLEAN :
         client' = [client EXCEPT ![k] = [IdleClient EXCEPT
             !.pc = "insert", !.new = NewRule(u, condition, threshold, repeat)]]
  BY DEF CountRules
<1> DEFINE new == NewRule(u, condition, threshold, repeat)
           x == [IdleClient EXCEPT !.pc = "insert", !.new = new]
<1>2. new \in RuleType /\ new.session = 0
  BY NewRuleType
<1> HIDE DEF new
<1>3. DOMAIN x = ClientFields /\ x.pc = "insert" /\ x.new = new
  BY DEF IdleClient, ClientFields
<1>4. client' = [client EXCEPT ![k] = x]
  BY <1>1 DEF new
<1>5. UNCHANGED <<closes, fresh, rules, alerts, check, edited, seen>>
  BY DEF CountRules
<1> HIDE DEF x
<1>6. ClientOK(x, rules)
  BY <1>2, <1>3 DEF ClientOK
<1> QED
  BY <1>4, <1>5, <1>6, ClientMoves

LEMMA ReadRuleInv == ASSUME RulesInv, NEW k \in Clients, ReadRule(k) PROVE RulesInv'
<1>1. PICK id \in RuleIds : \E threshold \in Thresholds \cup {None},
             repeat \in BOOLEAN \cup {None}, active \in BOOLEAN \cup {None} :
         /\ Exists(id)
         /\ client' = [client EXCEPT ![k] =
               [pc |-> "save", id |-> id, known |-> rules[id],
                new |-> Patched(rules[id], threshold, repeat, active)]]
  BY DEF ReadRule
<1>2. PICK threshold \in Thresholds \cup {None}, repeat \in BOOLEAN \cup {None},
           active \in BOOLEAN \cup {None} :
         /\ Exists(id)
         /\ client' = [client EXCEPT ![k] =
               [pc |-> "save", id |-> id, known |-> rules[id],
                new |-> Patched(rules[id], threshold, repeat, active)]]
  BY <1>1
<1> DEFINE old == rules[id]
           new == Patched(old, threshold, repeat, active)
           x == [pc |-> "save", id |-> id, known |-> old, new |-> new]
<1>3. id \in 1 .. Len(rules) /\ old \in RuleType
  <2>1. rules \in Seq(RuleType \cup {None}) /\ id \in 1 .. Len(rules) /\ rules[id] # None
    BY <1>2 DEF RulesInv, TablesInv, RuleIds, Exists
  <2> QED
    BY <2>1, ElementOfSeq
<1> HIDE DEF old
<1>4. new \in RuleType /\ new.session \in {old.session, 0} /\ new.triggers = old.triggers
  BY <1>3, PatchedRow
<1> HIDE DEF new
<1>5. /\ DOMAIN x = ClientFields /\ x.pc = "save" /\ x.id = id /\ x.known = old /\ x.new = new
  BY DEF ClientFields
<1>6. client' = [client EXCEPT ![k] = x]
  BY <1>2 DEF new, old
<1>7. UNCHANGED <<closes, fresh, rules, alerts, check, edited, seen>>
  BY DEF ReadRule
<1> HIDE DEF x
<1>8. ClientOK(x, rules)
  BY <1>3, <1>4, <1>5 DEF ClientOK
<1> QED
  BY <1>6, <1>7, <1>8, ClientMoves

LEMMA InsertRuleInv == ASSUME RulesInv, NEW k \in Clients, InsertRule(k) PROVE RulesInv'
<1> DEFINE new == client[k].new
           n == Len(rules)
<1>1. /\ rules' = Append(rules, new) /\ edited' = Append(edited, {})
      /\ client' = [client EXCEPT ![k] = IdleClient] /\ client[k].pc = "insert"
      /\ UNCHANGED <<closes, fresh, alerts, check, seen>>
  BY DEF InsertRule
<1>2. new \in RuleType /\ new.session = 0
  BY <1>1 DEF RulesInv, ClientOK
<1>3. /\ rules \in Seq(RuleType \cup {None}) /\ n \in Nat /\ Len(closes) \in Nat
      /\ edited \in Seq(SUBSET Nat) /\ DOMAIN edited = 1 .. n
  BY DEF RulesInv, TablesInv
<1> HIDE DEF new
<1>4. /\ rules' \in Seq(RuleType \cup {None}) /\ Len(rules') = n + 1 /\ rules'[n + 1] = new
      /\ \A i \in 1 .. n : rules'[i] = rules[i]
  <2>1. new \in RuleType \cup {None}
    BY <1>2
  <2> QED
    BY <1>1, <1>3, <2>1, AppendProperties
<1>5. /\ edited' \in Seq(SUBSET Nat) /\ DOMAIN edited' = 1 .. n + 1 /\ edited'[n + 1] = {}
      /\ \A i \in 1 .. n : edited'[i] = edited[i]
  <2>1. Len(edited) = n
    BY <1>3, LenProperties
  <2>2. {} \in SUBSET Nat
    OBVIOUS
  <2>3. /\ edited' \in Seq(SUBSET Nat) /\ Len(edited') = n + 1 /\ edited'[n + 1] = {}
        /\ \A i \in 1 .. n : edited'[i] = edited[i]
    BY <1>1, <1>3, <2>1, <2>2, AppendProperties
  <2> QED
    BY <2>3, LenProperties
<1> HIDE DEF n
<1>6. \A i \in 1 .. n + 1 : i \in 1 .. n \/ i = n + 1
  BY <1>3
<1>7. TablesInv'
  <2>1. \A i \in 1 .. Len(rules') : rules'[i] # None => rules'[i].session <= Len(closes)
    BY <1>2, <1>3, <1>4, <1>6 DEF RulesInv, TablesInv, n
  <2>2. alerts \subseteq (1 .. n) \X (1 .. Len(closes)) /\ AlertsOK(rules, alerts, edited)
    BY DEF RulesInv, TablesInv, n
  <2>3. alerts \subseteq (1 .. Len(rules')) \X (1 .. Len(closes))
    <3>1. 1 .. n \subseteq 1 .. Len(rules')
      BY <1>3, <1>4
    <3> QED
      BY <2>2, <3>1
  <2>4. \A i \in 1 .. Len(rules') : \A y \in edited'[i] : y <= Len(closes)
    BY <1>4, <1>5, <1>6 DEF RulesInv, TablesInv, n
  <2>5. AlertsOK(rules', alerts, edited')
    <3>1. \A i, t : <<i, t>> \in alerts => i \in 1 .. n
      BY <2>2
    <3> QED
      BY <1>4, <1>5, <2>2, <3>1 DEF AlertsOK
  <2> QED
    BY <1>1, <1>4, <1>5, <2>1, <2>3, <2>4, <2>5 DEF RulesInv, TablesInv
<1>8. Len(rules) <= Len(rules') /\ Len(closes) <= Len(closes') /\ Len(rules') \in Nat
      /\ Len(rules) \in Nat
  BY <1>1, <1>3, <1>4 DEF n
<1>9. ASSUME NEW i \in 1 .. Len(rules)
      PROVE  /\ rules'[i] # None =>
                  rules[i] # None /\ rules'[i].session \in {rules[i].session, 0}
             /\ Locked(i) /\ rules[i] # None => rules'[i] # None /\ edited'[i] = edited[i]
  BY <1>4, <1>5 DEF n
<1>10. /\ DOMAIN client' = Clients /\ \A j \in Clients : ClientOK(client'[j], rules')
  <2>1. \A j \in Clients : ClientOK(client[j], rules')
    BY <1>8, ClientStays DEF RulesInv
  <2> QED
    BY <1>1, <2>1, IdleClients DEF RulesInv
<1> QED
  BY <1>1, <1>7, <1>8, <1>9, <1>10, TableMoves

\* A request writes the row id, or removes it.
LEMMA RowMoves ==
    ASSUME RulesInv, NEW id, IsRow(rules, id), ~Locked(id), NEW row,
           row = None \/ (row \in RuleType /\ row.session \in {rules[id].session, 0}),
           NEW E, E \subseteq {Len(closes)}, row # None => E # {},
           rules' = [rules EXCEPT ![id] = row],
           edited' = [edited EXCEPT ![id] = @ \cup E],
           UNCHANGED <<closes, fresh, alerts, check, seen>>,
           DOMAIN client' = Clients,
           \A j \in Clients : client'[j] = client[j] \/ client'[j] = IdleClient
    PROVE  RulesInv'
<1> DEFINE n == Len(rules)
           edits == edited[id] \cup E
<1>1. /\ rules \in Seq(RuleType \cup {None}) /\ n \in Nat /\ Len(closes) \in Nat
      /\ edited \in Seq(SUBSET Nat) /\ DOMAIN edited = 1 .. n /\ id \in 1 .. n
      /\ alerts \subseteq (1 .. n) \X (1 .. Len(closes)) /\ AlertsOK(rules, alerts, edited)
      /\ \A i \in 1 .. n : \A y \in edited[i] : y <= Len(closes)
  BY DEF RulesInv, TablesInv, IsRow
<1>2. /\ rules' \in Seq(RuleType \cup {None}) /\ Len(rules') = n /\ rules'[id] = row
      /\ \A i \in 1 .. n : i # id => rules'[i] = rules[i]
  <2>1. row \in RuleType \cup {None}
    OBVIOUS
  <2> QED
    BY <1>1, <2>1, ExceptSeq
<1>3. /\ edited' \in Seq(SUBSET Nat) /\ DOMAIN edited' = 1 .. n /\ edited'[id] = edits
      /\ \A i \in 1 .. n : i # id => edited'[i] = edited[i]
  <2>1. Len(edited) = n
    BY <1>1, LenProperties
  <2>2. edits \in SUBSET Nat
    BY <1>1, ElementOfSeq
  <2>3. edited' = [edited EXCEPT ![id] = edits]
    OBVIOUS
  <2> HIDE DEF edits, n
  <2>4. /\ edited' \in Seq(SUBSET Nat) /\ Len(edited') = n /\ edited'[id] = edits
        /\ \A i \in 1 .. n : i # id => edited'[i] = edited[i]
    BY <1>1, <2>1, <2>2, <2>3, ExceptSeq
  <2> QED
    BY <2>4, LenProperties
<1> HIDE DEF n
<1>4. TablesInv'
  <2>1. ASSUME NEW i \in 1 .. n, rules'[i] # None PROVE rules'[i].session <= Len(closes)
    <3>1. CASE i = id
      <4>1. rules[id].session <= Len(closes)
        BY DEF RulesInv, TablesInv, IsRow
      <4> QED
        BY <1>1, <1>2, <2>1, <3>1, <4>1
    <3>2. CASE i # id
      BY <1>2, <2>1, <3>2 DEF RulesInv, TablesInv, n
    <3> QED
      BY <3>1, <3>2
  <2>2. \A i \in 1 .. n : \A y \in edited'[i] : y <= Len(closes)
    BY <1>1, <1>3
  <2>3. AlertsOK(rules', alerts, edited')
    <3>1. ASSUME NEW i, NEW t, <<i, t>> \in alerts, rules'[i] # None
          PROVE  t <= rules'[i].session \/ \E y \in edited'[i] : t <= y
      <4>1. i \in 1 .. n /\ t \in 1 .. Len(closes)
        BY <1>1, <3>1
      <4>2. CASE i = id
        <5>1. row # None
          BY <1>2, <3>1, <4>2
        <5>2. Len(closes) \in edited'[id] /\ t <= Len(closes)
          BY <1>1, <1>3, <4>1, <5>1
        <5> QED
          BY <4>2, <5>2
      <4>3. CASE i # id
        <5>1. rules'[i] = rules[i] /\ edited'[i] = edited[i]
          BY <1>2, <1>3, <4>1, <4>3
        <5> QED
          BY <1>1, <3>1, <5>1 DEF AlertsOK
      <4> QED
        BY <4>2, <4>3
    <3> QED
      BY <3>1 DEF AlertsOK
  <2> QED
    BY <1>1, <1>2, <1>3, <2>1, <2>2, <2>3 DEF RulesInv, TablesInv
<1>5. Len(rules) <= Len(rules') /\ Len(closes) <= Len(closes') /\ Len(rules') \in Nat
      /\ Len(rules) \in Nat
  BY <1>1, <1>2 DEF n
<1>6. ASSUME NEW i \in 1 .. Len(rules)
      PROVE  /\ rules'[i] # None =>
                  rules[i] # None /\ rules'[i].session \in {rules[i].session, 0}
             /\ Locked(i) /\ rules[i] # None => rules'[i] # None /\ edited'[i] = edited[i]
  BY <1>2, <1>3 DEF n, IsRow
<1>7. \A j \in Clients : ClientOK(client'[j], rules')
  <2>1. \A j \in Clients : ClientOK(client[j], rules')
    BY <1>5, ClientStays DEF RulesInv
  <2> QED
    BY <2>1, IdleClients
<1> QED
  BY <1>4, <1>5, <1>6, <1>7, TableMoves

LEMMA SaveRuleInv == ASSUME RulesInv, NEW k \in Clients, SaveRule(k) PROVE RulesInv'
<1> DEFINE l == client[k]
           id == l.id
<1>1. /\ l.pc = "save" /\ client' = [client EXCEPT ![k] = IdleClient]
      /\ UNCHANGED <<closes, fresh, alerts, check, seen>>
  BY DEF SaveRule
<1>2. /\ id \in 1 .. Len(rules) /\ l.known \in RuleType /\ l.new \in RuleType
      /\ l.new.session \in {l.known.session, 0}
  BY <1>1 DEF RulesInv, ClientOK
<1>3. /\ DOMAIN client' = Clients
      /\ \A j \in Clients : client'[j] = client[j] \/ client'[j] = IdleClient
  BY <1>1 DEF RulesInv
<1>4. CASE Exists(id)
  <2> DEFINE row == Written(rules[id], l.known, l.new)
             E == {Len(closes)}
  <2>1. /\ ~Locked(id) /\ rules' = [rules EXCEPT ![id] = row]
        /\ edited' = [edited EXCEPT ![id] = @ \cup E]
    BY <1>4 DEF SaveRule, Session
  <2>2. IsRow(rules, id) /\ rules[id] \in RuleType
    <3>1. rules \in Seq(RuleType \cup {None}) /\ rules[id] # None
      BY <1>4 DEF RulesInv, TablesInv, Exists
    <3> QED
      BY <1>2, <3>1, ElementOfSeq DEF IsRow
  <2>3. row \in RuleType /\ row.session \in {rules[id].session, 0}
    BY <1>2, <2>2, WrittenRow
  <2>4. E \subseteq {Len(closes)} /\ E # {}
    OBVIOUS
  <2> HIDE DEF row, E, id
  <2> QED
    BY <1>1, <1>3, <2>1, <2>2, <2>3, <2>4, RowMoves
<1>5. CASE ~Exists(id)
  <2>1. UNCHANGED <<rules, edited>>
    BY <1>5 DEF SaveRule
  <2> DEFINE x == IdleClient
  <2>2. ClientOK(x, rules) /\ client' = [client EXCEPT ![k] = x]
    BY <1>1, IdleClients
  <2> HIDE DEF x
  <2> QED
    BY <1>1, <2>1, <2>2, ClientMoves
<1> QED
  BY <1>4, <1>5

LEMMA DeleteRuleInv == ASSUME RulesInv, DeleteRule PROVE RulesInv'
<1>1. PICK id \in RuleIds : Exists(id) /\ ~Locked(id) /\ rules' = [rules EXCEPT ![id] = None]
  BY DEF DeleteRule
<1> DEFINE row == None
           E == {}
<1>2. UNCHANGED <<closes, fresh, alerts, check, client, edited, seen>>
  BY DEF DeleteRule
<1>3. IsRow(rules, id)
  BY <1>1 DEF IsRow, Exists, RuleIds
<1>4. edited' = [edited EXCEPT ![id] = @ \cup E]
  BY <1>2, <1>3 DEF RulesInv, TablesInv, IsRow
<1>5. /\ DOMAIN client' = Clients
      /\ \A j \in Clients : client'[j] = client[j] \/ client'[j] = IdleClient
  BY <1>2 DEF RulesInv
<1>6. /\ rules' = [rules EXCEPT ![id] = row] /\ row = None /\ E \subseteq {Len(closes)}
  BY <1>1
<1> HIDE DEF row, E
<1> QED
  BY <1>1, <1>2, <1>3, <1>4, <1>5, <1>6, RowMoves

-----------------------------------------------------------------------------
LEMMA StepInv == RulesInv /\ [Next]_vars => RulesInv'
<1> SUFFICES ASSUME RulesInv, [Next]_vars PROVE RulesInv'
  OBVIOUS
<1>1. CASE Ingest \/ Revise \/ Age
  BY <1>1, DataInv
<1>2. CASE \E c \in Checks : CheckStep(c) \/ \E u \in Users \cup {Everyone} : ListRules(c, u)
  <2>1. PICK c \in Checks : CheckStep(c) \/ \E u \in Users \cup {Everyone} : ListRules(c, u)
    BY <1>2
  <2> QED
    BY <2>1, ListRulesInv, CheckRuleInv, CommitRuleInv, RuleFailsInv, CheckRaisesInv,
       CheckDiesInv DEF CheckStep
<1>3. CASE \E k \in Clients : CountRules(k) \/ InsertRule(k) \/ ReadRule(k) \/ SaveRule(k)
  BY <1>3, CountRulesInv, InsertRuleInv, ReadRuleInv, SaveRuleInv
<1>4. CASE DeleteRule
  BY <1>4, DeleteRuleInv
<1>5. CASE UNCHANGED vars
  BY <1>5 DEF RulesInv, TablesInv, LocksInv, vars
<1> QED
  BY <1>1, <1>2, <1>3, <1>4, <1>5 DEF Next

LEMMA Invariance == Spec => []RulesInv
<1> QED
  BY InitInv, StepInv, PTL DEF Spec

\* Every value the tables, the checks and the requests of PriceRules hold has its type.
THEOREM RuleTypes == Spec => []TypeOK
<1> QED
  BY Invariance, InvImplies, PTL
-----------------------------------------------------------------------------
(* What fires is alerted                                                    *)

\* Only the commit of a check raises what a rule has triggered.
LEMMA OthersDoNotTrigger ==
    ASSUME RulesInv, NEW id \in RuleIds, Triggered(id),
           [Next]_vars
    PROVE  \E c \in Checks : CommitRule(c, id)
<1>1. /\ rules[id] # None /\ rules'[id] # None /\ rules'[id].triggers > rules[id].triggers
      /\ rules \in Seq(RuleType \cup {None}) /\ Len(rules) \in Nat /\ id \in 1 .. Len(rules)
      /\ DOMAIN rules = 1 .. Len(rules)
  <2>1. rules \in Seq(RuleType \cup {None})
    BY DEF RulesInv, TablesInv
  <2> QED
    BY <2>1, LenProperties DEF Triggered, RuleIds
<1>2. rules[id] \in RuleType /\ rules[id].triggers \in Nat
  <2>1. rules[id] \in RuleType
    BY <1>1, ElementOfSeq
  <2> QED
    BY <2>1 DEF RuleType
<1>3. rules'[id] # rules[id]
  BY <1>1, <1>2
<1>4. ASSUME NEW c \in Checks, NEW i, CommitRule(c, i), i # id PROVE FALSE
  <2>1. rules'[id] = rules[id]
    BY <1>1, <1>4, CommitFacts
  <2> QED
    BY <1>3, <2>1
<1>5. ASSUME NEW k \in Clients, SaveRule(k) PROVE FALSE
  <2> DEFINE l == client[k]
             row == Written(rules[l.id], l.known, l.new)
  <2>1. l.pc = "save" /\ rules' = [rules EXCEPT ![l.id] = row] /\ l.id = id
    BY <1>1, <1>3, <1>5 DEF SaveRule
  <2>2. l.known \in RuleType /\ l.new \in RuleType /\ l.new.triggers = l.known.triggers
    BY <2>1 DEF RulesInv, ClientOK
  <2>3. row.triggers = rules[id].triggers
    BY <1>2, <2>1, <2>2, WrittenRow
  <2> HIDE DEF row
  <2>4. rules'[id] = row
    BY <1>1, <2>1
  <2> QED
    BY <1>1, <1>2, <2>3, <2>4
<1>6. ASSUME NEW k \in Clients, InsertRule(k) PROVE FALSE
  <2> DEFINE new == client[k].new
  <2>1. rules' = Append(rules, new) /\ new \in RuleType
    BY <1>6 DEF InsertRule, RulesInv, ClientOK
  <2> HIDE DEF new
  <2>2. rules'[id] = rules[id]
    <3>1. new \in RuleType \cup {None}
      BY <2>1
    <3> QED
      BY <1>1, <2>1, <3>1, AppendProperties
  <2> QED
    BY <1>3, <2>2
<1>7. ASSUME DeleteRule PROVE FALSE
  BY <1>1, <1>3, <1>7 DEF DeleteRule
<1>8. rules' # rules
  BY <1>3
<1> QED
  BY <1>4, <1>5, <1>6, <1>7, <1>8
  DEF Next, CheckStep, Ingest, Revise, Age, ListRules, CheckRule, RuleFails, CheckRaises,
      CheckDies, CountRules, ReadRule, vars

\* A commit that raises the triggers of a rule not edited since the close came stores an
\* alert that was not there: an alert of this session would mean that the rule had been in
\* this session before.
LEMMA CommitIsAlerted ==
    ASSUME RulesInv, OneCheck, NEW c \in Checks, NEW id, CommitRule(c, id), Triggered(id),
           rules'[id].session \notin edited[id]
    PROVE  StoresAlert(id)
<1> DEFINE l == check[c]
           old == l.known[id]
           new == l.new
<1>1. /\ IsRow(rules, id) /\ rules[id] \in RuleType
      /\ Flushed(id, old, new, l.alert, Len(closes), alerts, edited[id])
      /\ id \in DOMAIN l.known
      /\ rules'[id].session = IF new.session = old.session THEN rules[id].session
                              ELSE new.session
      /\ rules'[id].triggers = IF new.triggers = old.triggers THEN rules[id].triggers
                               ELSE new.triggers
      /\ alerts' = IF l.alert THEN alerts \cup {<<id, new.session>>} ELSE alerts
  BY CommitFacts
<1>2. new.triggers # old.triggers
  BY <1>1 DEF Triggered, RuleType
<1>3. /\ l.alert /\ new.session # old.session /\ old.session <= new.session
      /\ old \in RuleType /\ new \in RuleType /\ UpTo(id, new.session, alerts, edited[id])
  BY <1>1, <1>2 DEF Flushed
<1>4. new.session \in Nat /\ old.session \in Nat /\ old # Expired
  BY <1>3, RowsAssumption DEF RuleType
<1>5. rules[id].session \in {old.session, 0} /\ rules[id] # None
  BY <1>1, <1>4 DEF RulesInv, KnownOK, IsRow
<1>6. rules'[id].session = new.session /\ <<id, new.session>> \in alerts'
  BY <1>1, <1>3
<1> HIDE DEF l, old, new
<1>7. <<id, new.session>> \notin alerts
  <2>1. SUFFICES ASSUME <<id, new.session>> \in alerts PROVE FALSE
    OBVIOUS
  <2>2. AlertsOK(rules, alerts, edited) /\ edited[id] \in SUBSET Nat
    <3>1. edited \in Seq(SUBSET Nat) /\ DOMAIN edited = 1 .. Len(rules)
      BY DEF RulesInv, TablesInv
    <3> QED
      BY <1>1, <3>1 DEF RulesInv, TablesInv, IsRow
  <2>3. new.session <= rules[id].session \/ \E x \in edited[id] : new.session <= x
    BY <1>5, <2>1, <2>2 DEF AlertsOK
  <2>4. ~(new.session <= rules[id].session)
    BY <1>3, <1>4, <1>5
  <2>5. PICK x \in edited[id] : new.session <= x
    BY <2>3, <2>4
  <2>6. x <= new.session /\ x \in Nat
    BY <1>3, <2>2, <2>5 DEF UpTo
  <2>7. x = new.session
    BY <1>4, <2>5, <2>6
  <2> QED
    BY <1>6, <2>5, <2>7
<1> QED
  BY <1>6, <1>7 DEF StoresAlert

\* Where checks do not overlap, a rule that fires on a close and has not been edited since
\* that close came stores an alert in the same transaction (check_rule and raise_alert).
\* Overlapping checks may both fire a rule, the later one without an alert of its own.
THEOREM FiringAlerts == ASSUME OneCheck PROVE Spec => FiringIsAlerted
<1>1. RulesInv /\ [Next]_vars =>
        [\A id \in RuleIds :
            Triggered(id) /\ rules'[id].session \notin edited[id] => StoresAlert(id)]_vars
  <2> SUFFICES ASSUME RulesInv, [Next]_vars, NEW id \in RuleIds, Triggered(id),
                      rules'[id].session \notin edited[id]
               PROVE  StoresAlert(id)
    OBVIOUS
  <2>1. PICK c \in Checks : CommitRule(c, id)
    BY OthersDoNotTrigger
  <2> QED
    BY <2>1, CommitIsAlerted
<1> QED
  BY <1>1, Invariance, PTL DEF Spec, FiringIsAlerted

-----------------------------------------------------------------------------
(* Once per crossing                                                        *)

\* Cleared, for what sn has seen.
ClearedIn(r, s, sn) ==
    \E b \in sn[s], p \in sn[IF s > 1 THEN s - 1 ELSE s] :
        Known(r.condition, <<p, b>>) /\ ~Met(r.condition, r.threshold, <<p, b>>)

\* Rule id, now r, has alerts a and edits E.  It was edited since an alert, or else:
\* the rule is disarmed or has cleared since; it repeats or has ended; and it cleared
\* between that alert and a later one.
Crossed(r, id, a, E, sn) ==
    /\ \A s : <<id, s>> \in a /\ r.armed =>
         (\E x \in E : s <= x) \/ \E u \in s + 1 .. r.session : ClearedIn(r, u, sn)
    /\ \A s : <<id, s>> \in a /\ E = {} => r.repeat \/ ~r.active
    /\ \A s, t : <<id, s>> \in a /\ <<id, t>> \in a /\ s < t =>
         /\ E = {} => r.repeat
         /\ (\E x \in E : s <= x) \/ \E u \in s + 1 .. t - 1 : ClearedIn(r, u, sn)

\* A check knows rule id as it is, or it was edited after all of its alerts.
Current(k, r, id, a, E) ==
    k = Expired \/ r = None \/ k = r \/ \E x \in E : \A s : <<id, s>> \in a => s <= x

\* What a check makes of a rule: one that fires was armed and is not, and ends unless it
\* repeats; one that does not and is armed has cleared.
Moves(old, new, fires, sn) ==
    /\ new.condition = old.condition /\ new.threshold = old.threshold /\ new.repeat = old.repeat
    /\ fires => old.active /\ old.armed /\ ~new.armed /\ (new.active => old.repeat)
    /\ ~fires => \/ new = old
                 \/ /\ new.session > old.session /\ (new.active => old.active)
                    /\ new.armed => ClearedIn(old, new.session, sn)

CheckCrosses(l, r, a, e, sn) ==
    /\ InOrder(l.todo)
    /\ \A i \in DOMAIN l.todo : Current(l.known[l.todo[i]], r[l.todo[i]], l.todo[i], a, e[l.todo[i]])
    /\ l.pc = "flushed" => Moves(l.known[Head(l.todo)], l.new, l.alert, sn)

CrossInv ==
    /\ \A i \in 1 .. Len(closes) : closes[i] \in seen[i]
    /\ \A id \in 1 .. Len(rules) : rules[id] # None => Crossed(rules[id], id, alerts, edited[id], seen)
    /\ \A c \in Checks : CheckCrosses(check[c], rules, alerts, edited, seen)

\* More bars are seen for the sessions there are.
LEMMA ClearedLasts ==
    ASSUME NEW n \in Nat, NEW sn, NEW sn2, \A i \in 1 .. n : sn[i] \subseteq sn2[i],
           NEW r, NEW u \in 1 .. n, ClearedIn(r, u, sn)
    PROVE  ClearedIn(r, u, sn2)
<1> DEFINE v == IF u > 1 THEN u - 1 ELSE u
<1>1. v \in 1 .. n
  OBVIOUS
<1>2. sn[u] \subseteq sn2[u] /\ sn[v] \subseteq sn2[v]
  BY <1>1
<1> QED
  BY <1>2 DEF ClearedIn

LEMMA CrossedLasts ==
    ASSUME NEW n \in Nat, NEW sn, NEW sn2, \A i \in 1 .. n : sn[i] \subseteq sn2[i],
           NEW r, NEW id, NEW a, NEW E, r.session \in Nat, r.session <= n,
           \A s : <<id, s>> \in a => s \in 1 .. n,
           Crossed(r, id, a, E, sn)
    PROVE  Crossed(r, id, a, E, sn2)
<1>1. ASSUME NEW s, <<id, s>> \in a, r.armed
      PROVE  (\E x \in E : s <= x) \/ \E u \in s + 1 .. r.session : ClearedIn(r, u, sn2)
  <2>1. CASE \E u \in s + 1 .. r.session : ClearedIn(r, u, sn)
    <3>1. PICK u \in s + 1 .. r.session : ClearedIn(r, u, sn)
      BY <2>1
    <3>2. u \in 1 .. n
      BY <1>1
    <3> QED
      BY <3>1, <3>2, ClearedLasts
  <2> QED
    BY <1>1, <2>1 DEF Crossed
<1>2. ASSUME NEW s, NEW t, <<id, s>> \in a, <<id, t>> \in a, s < t
      PROVE  (\E x \in E : s <= x) \/ \E u \in s + 1 .. t - 1 : ClearedIn(r, u, sn2)
  <2>1. CASE \E u \in s + 1 .. t - 1 : ClearedIn(r, u, sn)
    <3>1. PICK u \in s + 1 .. t - 1 : ClearedIn(r, u, sn)
      BY <2>1
    <3>2. u \in 1 .. n
      <4>1. s \in 1 .. n /\ t \in 1 .. n
        BY <1>2
      <4> QED
        BY <4>1
    <3> QED
      BY <3>1, <3>2, ClearedLasts
  <2> QED
    BY <1>2, <2>1 DEF Crossed
<1> QED
  BY <1>1, <1>2 DEF Crossed

LEMMA CheckCrossesLasts ==
    ASSUME NEW n \in Nat, NEW sn, NEW sn2, \A i \in 1 .. n : sn[i] \subseteq sn2[i],
           NEW l, NEW r, NEW a, NEW e, CheckOK(l, r, n, a, e), CheckCrosses(l, r, a, e, sn)
    PROVE  CheckCrosses(l, r, a, e, sn2)
<1> SUFFICES ASSUME l.pc = "flushed" PROVE Moves(l.known[Head(l.todo)], l.new, l.alert, sn2)
  BY DEF CheckCrosses
<1> DEFINE old == l.known[Head(l.todo)]
<1>1. old \in RuleType /\ l.new \in RuleType /\ l.new.session <= n
  BY DEF CheckOK, Flushed
<1>2. Moves(old, l.new, l.alert, sn)
  BY DEF CheckCrosses
<1> HIDE DEF old
<1>3. ASSUME l.new.session > old.session, ClearedIn(old, l.new.session, sn)
      PROVE  ClearedIn(old, l.new.session, sn2)
  <2>1. l.new.session \in 1 .. n
    BY <1>1, <1>3 DEF RuleType
  <2> QED
    BY <1>3, <2>1, ClearedLasts
<1>4. Moves(old, l.new, l.alert, sn2)
  BY <1>2, <1>3 DEF Moves
<1> QED
  BY <1>4 DEF old

\* The facts of RulesInv about a rule.
LEMMA RowFacts ==
    ASSUME RulesInv, NEW id \in 1 .. Len(rules)
    PROVE  /\ rules[id] # None => rules[id] \in RuleType /\ rules[id].session \in 0 .. Len(closes)
           /\ \A s : <<id, s>> \in alerts => s \in 1 .. Len(closes)
           /\ edited[id] \in SUBSET Nat /\ Len(closes) \in Nat /\ Len(rules) \in Nat
<1>1. /\ rules \in Seq(RuleType \cup {None}) /\ edited \in Seq(SUBSET Nat)
      /\ DOMAIN edited = 1 .. Len(rules) /\ Len(closes) \in Nat /\ Len(rules) \in Nat
      /\ alerts \subseteq (1 .. Len(rules)) \X (1 .. Len(closes))
      /\ rules[id] # None => rules[id].session <= Len(closes)
  BY DEF RulesInv, TablesInv
<1>2. rules[id] # None => rules[id] \in RuleType
  BY <1>1, ElementOfSeq
<1>3. rules[id] # None => rules[id].session \in Nat
  BY <1>2 DEF RuleType
<1> QED
  BY <1>1, <1>2, <1>3

LEMMA DataCross == ASSUME RulesInv, CrossInv, Ingest \/ Revise \/ Age PROVE CrossInv'
<1>1. UNCHANGED <<rules, alerts, check, edited>>
  BY DEF Ingest, Revise, Age
<1>2. /\ closes \in Seq(Bars) /\ seen \in Seq(SUBSET Bars) /\ Len(closes) \in Nat
      /\ Len(seen) = Len(closes)
  BY DEF RulesInv, TablesInv
<1>3. /\ \A i \in 1 .. Len(closes) : seen[i] \subseteq seen'[i]
      /\ \A i \in 1 .. Len(closes') : closes'[i] \in seen'[i]
  <2>1. CASE Ingest
    <3>1. PICK b \in Bars : closes' = Append(closes, b) /\ seen' = Append(seen, {b})
      BY <2>1 DEF Ingest
    <3>2. {b} \in SUBSET Bars
      OBVIOUS
    <3>3. /\ Len(closes') = Len(closes) + 1
          /\ closes'[Len(closes) + 1] = b /\ seen'[Len(closes) + 1] = {b}
          /\ \A i \in 1 .. Len(closes) : closes'[i] = closes[i] /\ seen'[i] = seen[i]
      BY <1>2, <3>1, <3>2, AppendProperties
    <3>4. \A i \in 1 .. Len(closes') : i \in 1 .. Len(closes) \/ i = Len(closes) + 1
      BY <1>2, <3>3
    <3> QED
      BY <3>3, <3>4 DEF CrossInv
  <2>2. CASE Revise
    <3>1. PICK b \in Bars : /\ closes' = [closes EXCEPT ![Session] = b]
                            /\ seen' = [seen EXCEPT ![Session] = @ \cup {b}]
      BY <2>2 DEF Revise
    <3>2. DOMAIN closes = 1 .. Len(closes) /\ DOMAIN seen = 1 .. Len(closes)
      BY <1>2, LenProperties
    <3>3. Len(closes') = Len(closes)
      BY <1>2, <3>1, <2>2, ExceptSeq DEF Revise, Session
    <3> QED
      BY <3>1, <3>2, <3>3 DEF CrossInv
  <2>3. CASE Age
    <3>1. closes' = closes /\ seen' = seen
      BY <2>3, Zenon DEF Age
    <3> QED
      BY <3>1 DEF CrossInv
  <2> QED
    BY <2>1, <2>2, <2>3
<1>4. ASSUME NEW id \in 1 .. Len(rules), rules[id] # None
      PROVE  Crossed(rules[id], id, alerts, edited[id], seen')
  <2>1. Crossed(rules[id], id, alerts, edited[id], seen)
    BY <1>4 DEF CrossInv
  <2>2. /\ rules[id].session \in Nat /\ rules[id].session <= Len(closes)
        /\ \A s : <<id, s>> \in alerts => s \in 1 .. Len(closes)
    BY <1>4, RowFacts
  <2> QED
    BY <1>2, <1>3, <2>1, <2>2, CrossedLasts
<1>5. ASSUME NEW c \in Checks PROVE CheckCrosses(check[c], rules, alerts, edited, seen')
  <2>1. CheckOK(check[c], rules, Len(closes), alerts, edited)
        /\ CheckCrosses(check[c], rules, alerts, edited, seen)
    BY DEF RulesInv, CrossInv
  <2> QED
    BY <1>2, <1>3, <2>1, CheckCrossesLasts
<1> QED
  BY <1>1, <1>3, <1>4, <1>5 DEF CrossInv

\* A check moves on to x and touches no table.
LEMMA CheckMovesCross ==
    ASSUME RulesInv, CrossInv, UNCHANGED <<closes, rules, alerts, edited, seen>>,
           \A c \in Checks : \/ check'[c] = check[c]
                             \/ CheckCrosses(check'[c], rules, alerts, edited, seen)
    PROVE  CrossInv'
BY DEF CrossInv

LEMMA IdleCrosses ==
    ASSUME NEW r, NEW a, NEW e, NEW sn PROVE CheckCrosses(IdleCheck, r, a, e, sn)
BY DEF IdleCheck, CheckCrosses, InOrder

LEMMA ListRulesCross ==
    ASSUME RulesInv, CrossInv, NEW c \in Checks, NEW u, ListRules(c, u)
    PROVE  CrossInv'
<1> DEFINE S == ActiveOf(u)
           known == [id \in S |-> rules[id]]
<1>1. PICK q \in [1 .. Cardinality(S) -> S] :
         /\ InOrder(q)
         /\ check' = [check EXCEPT ![c] = [IdleCheck EXCEPT !.pc = "check", !.todo = q, !.known = known]]
  BY DEF ListRules
<1> DEFINE x == [IdleCheck EXCEPT !.pc = "check", !.todo = q, !.known = known]
<1>2. x.pc = "check" /\ x.todo = q /\ x.known = known
  BY DEF IdleCheck
<1>3. \A d \in Checks : check'[d] = IF d = c THEN x ELSE check[d]
  BY <1>1 DEF RulesInv
<1>4. \A i \in DOMAIN q : known[q[i]] = rules[q[i]]
  OBVIOUS
<1> HIDE DEF x, known, S
<1>5. CheckCrosses(x, rules, alerts, edited, seen)
  BY <1>1, <1>2, <1>4 DEF CheckCrosses, Current
<1>6. UNCHANGED <<closes, rules, alerts, edited, seen>>
  BY DEF ListRules
<1> QED
  BY <1>3, <1>5, <1>6, CheckMovesCross

\* A value that the last close does not meet has cleared the rule.
LEMMA ClearedNow ==
    ASSUME closes \in Seq(Bars), Len(closes) > 0, \A i \in 1 .. Len(closes) : closes[i] \in seen[i],
           NEW rule \in RuleType, Known(rule.condition, closes),
           ~Met(rule.condition, rule.threshold, closes)
    PROVE  ClearedIn(rule, Len(closes), seen)
<1> DEFINE n == Len(closes)
           m == IF n > 1 THEN n - 1 ELSE n
           b == closes[n]
           p == closes[m]
<1>1. n \in Nat \ {0} /\ m \in 1 .. n /\ b \in seen[n] /\ p \in seen[m]
  OBVIOUS
<1>2. Len(<<p, b>>) = 2 /\ <<p, b>>[2] = b /\ <<p, b>>[1] = p
  OBVIOUS
<1>3. CASE rule.condition \in {"price_above", "price_below"}
  <2>1. Known(rule.condition, <<p, b>>) /\ ~Met(rule.condition, rule.threshold, <<p, b>>)
    BY <1>2, <1>3 DEF Known, Met
  <2> QED
    BY <1>1, <2>1 DEF ClearedIn
<1>4. CASE rule.condition \in {"day_change_up", "day_change_down"}
  <2>1. n > 1 /\ closes[n - 1].close > 0 /\ p = closes[n - 1]
    BY <1>4 DEF Known
  <2>2. Known(rule.condition, <<p, b>>) /\ ~Met(rule.condition, rule.threshold, <<p, b>>)
    BY <1>2, <1>4, <2>1 DEF Known, Met
  <2> QED
    BY <1>1, <2>2 DEF ClearedIn
<1>5. CASE rule.condition \in {"rsi_above", "rsi_below"}
  <2>1. Known(rule.condition, <<p, b>>) /\ ~Met(rule.condition, rule.threshold, <<p, b>>)
    BY <1>2, <1>5 DEF Known, Met
  <2> QED
    BY <1>1, <2>1 DEF ClearedIn
<1> QED
  BY <1>3, <1>4, <1>5, ConditionsAssumption DEF RuleType, AllConditions

LEMMA CheckedMoves ==
    ASSUME RulesInv, CrossInv, NEW rule \in RuleType, rule.session <= Len(closes)
    PROVE  Moves(rule, Checked(rule), FiresNow(rule), seen)
<1> DEFINE met == Observed(rule.condition) /\ Met(rule.condition, rule.threshold, closes)
           fires == Fires(rule)
           more == IF fires THEN rule.triggers + 1 ELSE rule.triggers
           armed == ArmedAfter(rule, met)
           active == ActiveAfter(rule, fires)
           w == [rule EXCEPT !.session = Session, !.armed = armed, !.active = active, !.triggers = more]
<1>1. CASE ~rule.active \/ ~Seals(rule)
  <2>1. Checked(rule) = rule /\ ~FiresNow(rule)
    BY <1>1 DEF Checked, FiresNow
  <2> QED
    BY <2>1 DEF Moves
<1>2. CASE rule.active /\ Seals(rule)
  <2>1. Checked(rule) = w /\ (FiresNow(rule) <=> fires)
    BY <1>2 DEF Checked, FiresNow
  <2>2. /\ DOMAIN rule = {"user", "condition", "threshold", "repeat", "active", "armed", "session", "triggers"}
        /\ rule.session \in Nat
    BY DEF RuleType
  <2>3. /\ w.condition = rule.condition /\ w.threshold = rule.threshold /\ w.repeat = rule.repeat
        /\ w.session = Session /\ w.armed = armed /\ w.active = active
    <3> HIDE DEF armed, active, more
    <3> QED
      BY <2>2, Zenon
  <2>4. closes \in Seq(Bars) /\ Len(closes) \in Nat /\ \A i \in 1 .. Len(closes) : closes[i] \in seen[i]
    BY DEF RulesInv, TablesInv, CrossInv
  <2>5. Observed(rule.condition) /\ Session > rule.session
    <3>1. Observed(rule.condition) /\ rule.session # Session
      BY <1>2 DEF Seals
    <3> QED
      BY <2>2, <2>4, <3>1 DEF Session
  <2>6. fires => rule.armed /\ met
    BY <2>5 DEF Fires
  <2>7. (armed <=> ~met) /\ (active => rule.active) /\ (fires => (active => rule.repeat))
    BY Zenon DEF ArmedAfter, ActiveAfter
  <2>8. ~met => ClearedIn(rule, Session, seen)
    <3>1. Known(rule.condition, closes) /\ Len(closes) > 0
      BY <2>5 DEF Observed, Session
    <3> QED
      BY <2>4, <2>5, <3>1, ClearedNow DEF Session
  <2> HIDE DEF w, met, fires, armed, active
  <2>9. Moves(rule, w, fires, seen)
    BY <1>2, <2>3, <2>5, <2>6, <2>7, <2>8 DEF Moves
  <2>10. Moves(rule, w, FiresNow(rule), seen)
    BY <2>1, <2>9 DEF Moves
  <2> QED
    BY <2>1, <2>10
<1> QED
  BY <1>1, <1>2

LEMMA CheckRuleCross ==
    ASSUME RulesInv, CrossInv, NEW c \in Checks, NEW id, CheckRule(c, id)
    PROVE  CrossInv'
<1> DEFINE l == check[c]
           rule == KnownRule(c, id)
           known == [l.known EXCEPT ![id] = rule]
           new == Checked(rule)
           fires == FiresNow(rule)
           x == [l EXCEPT !.pc = "flushed", !.known = known, !.new = new, !.alert = fires]
<1>1. /\ l.pc = "check" /\ Head(l.todo) = id /\ Exists(id)
      /\ UNCHANGED <<closes, rules, alerts, edited, seen>>
  BY DEF CheckRule
<1>2. check' = [check EXCEPT ![c] = x] /\ DOMAIN check = Checks
  BY Zenon DEF CheckRule, RulesInv
<1>3. CheckOK(l, rules, Len(closes), alerts, edited) /\ CheckCrosses(l, rules, alerts, edited, seen)
  BY DEF RulesInv, CrossInv
<1>4. rule \in RuleType /\ rule.session <= Len(closes) /\ id \in DOMAIN l.known
  BY <1>1, KnownRows
<1>5. Moves(rule, new, fires, seen)
  <2> HIDE DEF rule
  <2> QED
    BY <1>4, CheckedMoves
<1>6. rule = rules[id] \/ (rule = l.known[id] /\ l.known[id] # Expired)
  BY DEF KnownRule
<1>7. /\ x.pc = "flushed" /\ x.todo = l.todo /\ x.known = known /\ x.new = new
  BY <1>3 DEF CheckOK, CheckFields
<1>8. x.alert = fires
  BY <1>3, Zenon DEF CheckOK, CheckFields
<1>9. /\ known[id] = rule /\ \A i \in DOMAIN l.known : i # id => known[i] = l.known[i]
  BY <1>4
<1>10. ASSUME NEW i \in DOMAIN l.todo
       PROVE  Current(known[l.todo[i]], rules[l.todo[i]], l.todo[i], alerts, edited[l.todo[i]])
  <2>1. /\ Current(l.known[l.todo[i]], rules[l.todo[i]], l.todo[i], alerts, edited[l.todo[i]])
        /\ l.todo[i] \in DOMAIN l.known
    BY <1>3 DEF CheckCrosses, CheckOK
  <2>2. CASE l.todo[i] = id /\ rule = rules[id]
    BY <1>9, <2>2 DEF Current
  <2>3. CASE l.todo[i] # id \/ rule = l.known[id]
    <3>1. known[l.todo[i]] = l.known[l.todo[i]]
      BY <1>9, <2>1, <2>3
    <3> QED
      BY <2>1, <3>1
  <2> QED
    BY <1>6, <2>2, <2>3
<1> HIDE DEF x, known, rule, new, fires
<1>11. CheckCrosses(x, rules, alerts, edited, seen)
  <2>1. Moves(x.known[Head(x.todo)], x.new, x.alert, seen)
    BY <1>1, <1>5, <1>7, <1>8, <1>9
  <2>2. InOrder(x.todo)
    BY <1>3, <1>7 DEF CheckCrosses
  <2> QED
    BY <1>7, <1>10, <2>1, <2>2 DEF CheckCrosses
<1>12. \A d \in Checks : check'[d] = IF d = c THEN x ELSE check[d]
  BY <1>2
<1> QED
  BY <1>1, <1>11, <1>12, CheckMovesCross

\* A list in order goes on with other rules than the first.
LEMMA RestInOrder ==
    ASSUME NEW s \in Seq(Nat), s # <<>>, InOrder(s)
    PROVE  /\ InOrder(Tail(s))
           /\ \A i \in DOMAIN Tail(s) : i + 1 \in DOMAIN s /\ Tail(s)[i] = s[i + 1] /\ s[i + 1] # Head(s)
<1>1. /\ Tail(s) \in Seq(Nat) /\ Len(Tail(s)) = Len(s) - 1 /\ Head(s) = s[1]
      /\ \A i \in 1 .. Len(Tail(s)) : Tail(s)[i] = s[i + 1]
  BY HeadTailProperties
<1>2. Len(s) \in Nat /\ DOMAIN s = 1 .. Len(s) /\ DOMAIN Tail(s) = 1 .. Len(Tail(s))
  BY <1>1, LenProperties
<1>3. \A i \in DOMAIN s : s[i] \in Nat
  BY <1>2
<1> DEFINE t == Tail(s)
<1> HIDE DEF t
<1>4. \A i \in 1 .. Len(s) - 1 : t[i] = s[i + 1] /\ i + 1 \in 1 .. Len(s)
  BY <1>1, <1>2 DEF t
<1>5. DOMAIN t = 1 .. Len(s) - 1
  BY <1>1, <1>2 DEF t
<1>6. InOrder(t)
  <2> SUFFICES ASSUME NEW i \in DOMAIN t, NEW j \in DOMAIN t, i < j PROVE t[i] < t[j]
    BY DEF InOrder
  <2>1. i + 1 \in DOMAIN s /\ j + 1 \in DOMAIN s /\ i + 1 < j + 1
    BY <1>2, <1>4, <1>5
  <2>2. s[i + 1] < s[j + 1]
    BY <2>1 DEF InOrder
  <2>3. t[i] = s[i + 1] /\ t[j] = s[j + 1]
    BY <1>4, <1>5
  <2> QED
    BY <2>2, <2>3
<1>7. \A i \in DOMAIN t : s[i + 1] # Head(s)
  <2> SUFFICES ASSUME NEW i \in DOMAIN t PROVE s[1] < s[i + 1]
    BY <1>1, <1>2, <1>3, <1>4, <1>5
  <2>1. 1 \in DOMAIN s /\ i + 1 \in DOMAIN s /\ 1 < i + 1
    BY <1>2, <1>4, <1>5
  <2> QED
    BY <2>1 DEF InOrder
<1> QED
  BY <1>2, <1>4, <1>5, <1>6, <1>7 DEF t

LEMMA AdvanceCrosses ==
    ASSUME RulesInv, CrossInv, NEW c \in Checks, check[c].pc # "idle", NEW known, NEW r, NEW a, NEW e,
           NEW sn,
           \A i \in DOMAIN check[c].todo :
               LET id == check[c].todo[i] IN
               id # Head(check[c].todo) => Current(known[id], r[id], id, a, e[id])
    PROVE  CheckCrosses(Advanced(check[c], known), r, a, e, sn)
<1> DEFINE l == check[c]
           rest == Tail(l.todo)
           y == [IdleCheck EXCEPT !.pc = "check", !.todo = rest, !.known = known]
<1>1. l.todo \in Seq(Nat) /\ l.todo # <<>> /\ InOrder(l.todo)
  BY DEF RulesInv, CrossInv, CheckOK, CheckCrosses
<1>2. CASE rest = <<>>
  BY <1>2, IdleCrosses DEF Advanced
<1>3. CASE rest # <<>>
  <2>1. Advanced(l, known) = y /\ y.pc = "check" /\ y.todo = rest /\ y.known = known
    BY <1>3 DEF Advanced, IdleCheck
  <2> HIDE DEF l
  <2>2. /\ InOrder(rest)
        /\ \A i \in DOMAIN rest : /\ i + 1 \in DOMAIN l.todo /\ rest[i] = l.todo[i + 1]
                                  /\ l.todo[i + 1] # Head(l.todo)
    BY <1>1, RestInOrder
  <2>3. \A i \in DOMAIN rest : Current(known[rest[i]], r[rest[i]], rest[i], a, e[rest[i]])
    BY <2>2 DEF l
  <2> HIDE DEF y, rest
  <2>4. CheckCrosses(y, r, a, e, sn)
    BY <2>1, <2>2, <2>3 DEF CheckCrosses
  <2> QED
    BY <2>1, <2>4 DEF l
<1> QED
  BY <1>2, <1>3

LEMMA RuleFailsCross == ASSUME RulesInv, CrossInv, NEW c \in Checks, RuleFails(c) PROVE CrossInv'
<1> DEFINE known == [i \in DOMAIN check[c].known |-> Expired]
           x == Advanced(check[c], known)
<1>1. /\ Advance(c, known) /\ check[c].pc # "idle"
      /\ UNCHANGED <<closes, rules, alerts, edited, seen>>
  BY DEF RuleFails
<1>2. check' = [check EXCEPT ![c] = x] /\ DOMAIN check = Checks
  BY <1>1 DEF Advance, Advanced, RulesInv
<1>3. \A i \in DOMAIN check[c].todo : known[check[c].todo[i]] = Expired
  BY DEF RulesInv, CheckOK
<1> HIDE DEF known
<1>4. CheckCrosses(x, rules, alerts, edited, seen)
  BY <1>1, <1>3, AdvanceCrosses DEF Current
<1> QED
  BY <1>1, <1>2, <1>4, CheckMovesCross

LEMMA CheckEndsCross ==
    ASSUME RulesInv, CrossInv, NEW c \in Checks, CheckRaises(c) \/ CheckDies(c)
    PROVE  CrossInv'
<1>1. UNCHANGED <<closes, rules, alerts, edited, seen>> /\ DOMAIN check = Checks
  BY DEF CheckRaises, CheckDies, RulesInv
<1>2. CASE CheckRaises(c)
  <2>1. PICK l : l = check[c]
    OBVIOUS
  <2> DEFINE x == [l EXCEPT !.pc = "raised"]
  <2>2. DOMAIN l = CheckFields /\ CheckCrosses(l, rules, alerts, edited, seen)
    BY <2>1 DEF RulesInv, CrossInv, CheckOK
  <2>3. x.pc = "raised" /\ x.todo = l.todo /\ x.known = l.known
    BY <2>2 DEF CheckFields
  <2>4. check' = [check EXCEPT ![c] = x]
    BY <1>2, <2>1 DEF CheckRaises
  <2> HIDE DEF x
  <2>5. CheckCrosses(x, rules, alerts, edited, seen)
    BY <2>2, <2>3 DEF CheckCrosses
  <2> QED
    BY <1>1, <2>4, <2>5, CheckMovesCross
<1>3. CASE CheckDies(c)
  BY <1>1, <1>3, IdleCrosses, CheckMovesCross DEF CheckDies
<1> QED
  BY <1>2, <1>3

\* The tables change beside the checks: a rule stays as it is, goes, or is edited.
LEMMA TableCross ==
    ASSUME RulesInv, CrossInv, UNCHANGED <<closes, alerts, check, seen>>, Len(rules') \in Nat,
           \A id \in 1 .. Len(rules') :
               \/ rules'[id] = None
               \/ id \in 1 .. Len(rules) /\ rules'[id] = rules[id] /\ edited'[id] = edited[id]
               \/ Len(closes) \in edited'[id]
               \/ id \notin 1 .. Len(rules),
           Len(rules) <= Len(rules')
    PROVE  CrossInv'
<1>1. \A id, s : <<id, s>> \in alerts => id \in 1 .. Len(rules) /\ s \in 1 .. Len(closes)
  BY DEF RulesInv, TablesInv
<1>2. Len(closes) \in Nat /\ Len(rules) \in Nat
  BY DEF RulesInv, TablesInv
<1>3. ASSUME NEW id \in 1 .. Len(rules'), rules'[id] # None
      PROVE  Crossed(rules'[id], id, alerts, edited'[id], seen)
  <2>1. CASE id \in 1 .. Len(rules) /\ rules'[id] = rules[id] /\ edited'[id] = edited[id]
    BY <1>3, <2>1 DEF CrossInv
  <2>2. CASE Len(closes) \in edited'[id]
    <3>1. \A s : <<id, s>> \in alerts => \E x \in edited'[id] : s <= x
      BY <1>1, <1>2, <2>2
    <3>2. edited'[id] # {}
      BY <2>2
    <3> QED
      BY <3>1, <3>2 DEF Crossed
  <2>3. CASE id \notin 1 .. Len(rules)
    BY <1>1, <2>3 DEF Crossed
  <2> QED
    BY <1>3, <2>1, <2>2, <2>3
<1>4. ASSUME NEW c \in Checks PROVE CheckCrosses(check[c], rules', alerts, edited', seen)
  <2> DEFINE l == check[c]
  <2>1. CheckCrosses(l, rules, alerts, edited, seen) /\ CheckOK(l, rules, Len(closes), alerts, edited)
    BY DEF RulesInv, CrossInv
  <2> HIDE DEF l
  <2>2. ASSUME NEW i \in DOMAIN l.todo
        PROVE  Current(l.known[l.todo[i]], rules'[l.todo[i]], l.todo[i], alerts, edited'[l.todo[i]])
    <3>1. PICK id : id = l.todo[i]
      OBVIOUS
    <3>2. id \in 1 .. Len(rules) /\ Current(l.known[id], rules[id], id, alerts, edited[id])
      BY <2>1, <2>2, <3>1 DEF CheckOK, CheckCrosses
    <3>3. id \in 1 .. Len(rules')
      BY <1>2, <3>2
    <3>4. CASE rules'[id] = None \/ (rules'[id] = rules[id] /\ edited'[id] = edited[id])
      BY <3>1, <3>2, <3>4 DEF Current
    <3>5. CASE Len(closes) \in edited'[id]
      <4>1. \A s : <<id, s>> \in alerts => s <= Len(closes)
        BY <1>1, <1>2
      <4> QED
        BY <3>1, <3>5, <4>1 DEF Current
    <3> QED
      BY <3>2, <3>3, <3>4, <3>5
  <2>3. CheckCrosses(l, rules', alerts, edited', seen)
    BY <2>1, <2>2 DEF CheckCrosses
  <2> QED
    BY <2>3 DEF l
<1> QED
  BY <1>3, <1>4 DEF CrossInv

LEMMA RoutesCross ==
    ASSUME RulesInv, CrossInv,
           \/ \E k \in Clients : CountRules(k) \/ InsertRule(k) \/ ReadRule(k) \/ SaveRule(k)
           \/ DeleteRule
    PROVE  CrossInv'
<1>1. /\ rules \in Seq(RuleType \cup {None}) /\ Len(rules) \in Nat /\ DOMAIN rules = 1 .. Len(rules)
      /\ edited \in Seq(SUBSET Nat) /\ DOMAIN edited = 1 .. Len(rules) /\ Len(edited) = Len(rules)
  <2>1. rules \in Seq(RuleType \cup {None}) /\ edited \in Seq(SUBSET Nat) /\ DOMAIN edited = 1 .. Len(rules)
    BY DEF RulesInv, TablesInv
  <2> QED
    BY <2>1, LenProperties
<1>2. ASSUME NEW k \in Clients, CountRules(k) \/ ReadRule(k) PROVE CrossInv'
  BY <1>2 DEF CountRules, ReadRule, CrossInv
<1>3. ASSUME NEW k \in Clients, InsertRule(k) PROVE CrossInv'
  <2> DEFINE new == client[k].new
  <2>1. /\ rules' = Append(rules, new) /\ edited' = Append(edited, {}) /\ new \in RuleType \cup {None}
        /\ UNCHANGED <<closes, alerts, check, seen>>
    BY <1>3 DEF InsertRule, RulesInv, ClientOK
  <2> HIDE DEF new
  <2>2. Len(rules') = Len(rules) + 1 /\ \A i \in 1 .. Len(rules) : rules'[i] = rules[i]
    BY <1>1, <2>1, AppendProperties
  <2>3. \A i \in 1 .. Len(rules) : edited'[i] = edited[i]
    <3>1. {} \in SUBSET Nat
      OBVIOUS
    <3> QED
      BY <1>1, <2>1, <3>1, AppendProperties
  <2> QED
    BY <1>1, <2>1, <2>2, <2>3, TableCross
<1>4. ASSUME NEW k \in Clients, SaveRule(k) PROVE CrossInv'
  <2> DEFINE id == client[k].id
             row == Written(rules[id], client[k].known, client[k].new)
  <2>1. /\ client[k].pc = "save" /\ UNCHANGED <<closes, alerts, check, seen>>
        /\ \/ UNCHANGED <<rules, edited>>
           \/ /\ rules' = [rules EXCEPT ![id] = row]
              /\ edited' = [edited EXCEPT ![id] = @ \cup {Session}]
    BY <1>4 DEF SaveRule
  <2>2. id \in 1 .. Len(rules)
    BY <2>1 DEF RulesInv, ClientOK
  <2> HIDE DEF id, row
  <2>3. CASE UNCHANGED <<rules, edited>>
    BY <1>1, <2>1, <2>3, TableCross
  <2>4. CASE /\ rules' = [rules EXCEPT ![id] = row]
             /\ edited' = [edited EXCEPT ![id] = @ \cup {Session}]
    <3>1. DOMAIN rules' = DOMAIN rules /\ \A i \in 1 .. Len(rules) : i # id => rules'[i] = rules[i]
      BY <1>1, <2>4
    <3>2. /\ Len(closes) \in edited'[id]
          /\ \A i \in 1 .. Len(rules) : i # id => edited'[i] = edited[i]
      BY <1>1, <2>2, <2>4 DEF Session
    <3>3. Len(rules') = Len(rules)
      BY <1>1, <2>2, <2>4, <3>1
    <3> QED
      BY <1>1, <2>1, <3>1, <3>2, <3>3, TableCross
  <2> QED
    BY <2>1, <2>3, <2>4
<1>5. ASSUME DeleteRule PROVE CrossInv'
  <2>1. PICK id \in 1 .. Len(rules) : rules' = [rules EXCEPT ![id] = None]
    BY <1>5 DEF DeleteRule, RuleIds
  <2>2. UNCHANGED <<closes, alerts, check, edited, seen>>
    BY <1>5 DEF DeleteRule
  <2>3. Len(rules') = Len(rules) /\ rules'[id] = None
        /\ \A i \in 1 .. Len(rules) : i # id => rules'[i] = rules[i]
    BY <1>1, <2>1, ExceptSeq
  <2> QED
    BY <1>1, <2>2, <2>3, TableCross
<1> QED
  BY <1>2, <1>3, <1>4, <1>5

\* A rule that a commit writes from what the check knew of it: as it was, or before an edit.
LEMMA CommitCross ==
    ASSUME RulesInv, CrossInv, OneCheck, NEW c \in Checks, NEW id, CommitRule(c, id)
    PROVE  CrossInv'
<1> DEFINE l == check[c]
           old == l.known[id]
           new == l.new
           row == rules[id]
           w == rules'[id]
           E == edited[id]
           known == [l.known EXCEPT ![id] = new]
           x == Advanced(check[c], known)
<1>1. /\ IsRow(rules, id) /\ row \in RuleType /\ w \in RuleType
      /\ old \in RuleType /\ new \in RuleType
      /\ new.session <= Len(closes) /\ old.session <= new.session
      /\ l.alert => new.session # old.session
      /\ new.session # old.session => UpTo(id, new.session, alerts, E)
      /\ id \in DOMAIN l.known
  BY CommitFacts DEF Flushed
<1>2. /\ Len(rules') = Len(rules)
      /\ \A i \in 1 .. Len(rules) : i # id => rules'[i] = rules[i]
      /\ alerts' = IF l.alert THEN alerts \cup {<<id, new.session>>} ELSE alerts
  BY CommitFacts
<1>3. /\ l.pc = "flushed" /\ Head(l.todo) = id /\ Advance(c, known)
      /\ rules' = [rules EXCEPT ![id] = Written(row, old, new)]
      /\ UNCHANGED <<closes, edited, seen>>
  BY DEF CommitRule
<1>4. w = Written(row, old, new)
  BY <1>1, <1>3 DEF RulesInv, TablesInv, IsRow
<1>5. Moves(old, new, l.alert, seen) /\ Crossed(row, id, alerts, E, seen)
  BY <1>1, <1>3 DEF CrossInv, CheckCrosses, IsRow
<1>6. Current(old, row, id, alerts, E) /\ row # None /\ old # Expired
  <2>1. l.todo \in Seq(Nat) /\ l.todo # <<>>
    BY <1>3 DEF RulesInv, CheckOK
  <2>2. 1 \in DOMAIN l.todo /\ l.todo[1] = id
    <3> HIDE DEF l
    <3>1. Len(l.todo) \in Nat /\ Len(l.todo) # 0 /\ DOMAIN l.todo = 1 .. Len(l.todo)
      BY <2>1, EmptySeq, LenProperties
    <3> QED
      BY <1>3, <2>1, <3>1
  <2> QED
    BY <1>1, <2>2, RowsAssumption DEF CrossInv, CheckCrosses, IsRow
<1>7. \A f \in {"user", "condition", "threshold", "repeat", "active", "armed", "session", "triggers"} :
         w[f] = IF new[f] = old[f] THEN row[f] ELSE new[f]
  BY <1>1, <1>4 DEF Written, RuleType
<1>8. old = row => w = new
  <2> HIDE DEF w, old, new, row
  <2> QED
    BY <1>1, <1>4 DEF Written, RuleType
<1>9. /\ w.condition = row.condition /\ w.threshold = row.threshold /\ w.repeat = row.repeat
      /\ \A u : ClearedIn(row, u, seen) => ClearedIn(w, u, seen)
  <2>1. w.condition = row.condition /\ w.threshold = row.threshold /\ w.repeat = row.repeat
    BY <1>5, <1>7 DEF Moves
  <2> QED
    BY <2>1 DEF ClearedIn
<1>10. /\ edited[id] \in SUBSET Nat /\ Len(closes) \in Nat /\ row.session \in 0 .. Len(closes)
       /\ \A s : <<id, s>> \in alerts => s \in 1 .. Len(closes)
       /\ new.session \in Nat /\ old.session \in Nat /\ w.session \in Nat
  <2>1. new.session \in Nat /\ old.session \in Nat /\ w.session \in Nat
    BY <1>1 DEF RuleType
  <2> QED
    BY <1>1, <2>1, RowFacts DEF IsRow
\* An alert that no edit followed is of the session the rule was in, or before it.
<1>11. \A s : <<id, s>> \in alerts => s <= row.session \/ \E y \in E : s <= y
  BY <1>6 DEF RulesInv, TablesInv, AlertsOK
<1>12. l.alert \in BOOLEAN
  BY CommitFacts DEF Flushed
<1> HIDE DEF l, old, new, row, w, E, known, x
<1>13. \A s : <<id, s>> \in alerts' => <<id, s>> \in alerts \/ (l.alert /\ s = new.session)
  BY <1>2
<1>14. ASSUME NEW s, <<id, s>> \in alerts', w.armed, \A y \in E : ~(s <= y)
       PROVE  \E u \in s + 1 .. w.session : ClearedIn(w, u, seen)
  <2>1. CASE old = row
    <3>1. w = new /\ ~l.alert /\ <<id, s>> \in alerts
      BY <1>5, <1>8, <1>13, <1>14, <2>1 DEF Moves
    <3>2. CASE new = old
      BY <1>5, <1>14, <2>1, <3>1, <3>2 DEF Crossed
    <3>3. CASE new.session > old.session /\ ClearedIn(old, new.session, seen)
      <4>1. s <= row.session /\ s \in Nat
        BY <1>10, <1>11, <1>14, <3>1
      <4>2. new.session \in s + 1 .. w.session
        BY <1>10, <2>1, <3>1, <3>3, <4>1
      <4> QED
        BY <1>9, <2>1, <3>3, <4>2
    <3> QED
      BY <1>5, <1>14, <3>1, <3>2, <3>3 DEF Moves
  <2>2. CASE \E y \in E : \A z : <<id, z>> \in alerts => z <= y
    <3>1. l.alert
      BY <1>13, <1>14, <2>2
    <3>2. old.armed /\ ~new.armed
      BY <1>5, <3>1 DEF Moves
    <3>3. w.armed = IF new.armed = old.armed THEN row.armed ELSE new.armed
      BY <1>7
    <3>4. ~w.armed
      BY <3>2, <3>3
    <3> QED
      BY <1>14, <3>4
  <2> QED
    BY <1>6, <2>1, <2>2 DEF Current
<1>15. ASSUME NEW s, <<id, s>> \in alerts', E = {} PROVE w.repeat \/ ~w.active
  <2>1. old = row /\ w = new
    BY <1>6, <1>8, <1>15 DEF Current
  <2>2. CASE l.alert
    BY <1>5, <2>1, <2>2 DEF Moves
  <2>3. CASE ~l.alert
    <3>1. row.repeat \/ ~row.active
      BY <1>5, <1>13, <1>15, <2>3 DEF Crossed
    <3>2. new.active => row.active
      BY <1>5, <2>1, <2>3 DEF Moves
    <3> QED
      BY <1>9, <2>1, <3>1, <3>2
  <2> QED
    BY <2>2, <2>3
<1>16. ASSUME NEW s, NEW t, <<id, s>> \in alerts', <<id, t>> \in alerts', s < t
       PROVE  /\ E = {} => w.repeat
              /\ (\E y \in E : s <= y) \/ \E u \in s + 1 .. t - 1 : ClearedIn(w, u, seen)
  <2>1. CASE <<id, s>> \in alerts /\ <<id, t>> \in alerts
    BY <1>5, <1>9, <1>16, <2>1 DEF Crossed
  <2>2. CASE <<id, s>> \in alerts /\ l.alert /\ t = new.session
    <3>1. old.active /\ old.armed /\ old.session < new.session
      BY <1>1, <1>5, <1>10, <2>2 DEF Moves
    <3>2. ASSUME E = {} PROVE w.repeat
      <4>1. old = row /\ (row.repeat \/ ~row.active)
        BY <1>5, <1>6, <2>2, <3>2 DEF Current, Crossed
      <4>2. row.repeat
        BY <3>1, <4>1
      <4> QED
        BY <1>9, <4>2
    <3>3. ASSUME \A y \in E : ~(s <= y)
          PROVE  \E u \in s + 1 .. t - 1 : ClearedIn(w, u, seen)
      <4>1. old = row
        BY <1>6, <2>2, <3>3 DEF Current
      <4>2. PICK u \in s + 1 .. row.session : ClearedIn(row, u, seen)
        BY <1>5, <2>2, <3>1, <3>3, <4>1 DEF Crossed
      <4>3. s \in Nat /\ row.session \in Nat
        BY <1>10, <2>2
      <4>4. u \in s + 1 .. t - 1
        BY <1>10, <2>2, <3>1, <4>1, <4>3
      <4> QED
        BY <1>9, <4>2, <4>4
    <3> QED
      BY <3>2, <3>3
  <2>3. CASE l.alert /\ s = new.session
    <3>1. t <= new.session
      BY <1>1, <1>10, <1>13, <1>16, <2>3 DEF UpTo
    <3>2. t \in Nat
      BY <1>10, <1>13, <1>16
    <3> QED
      BY <1>10, <1>16, <2>3, <3>1, <3>2
  <2> QED
    BY <1>13, <1>16, <2>1, <2>2, <2>3
<1>17. Crossed(w, id, alerts', E, seen)
  BY <1>14, <1>15, <1>16 DEF Crossed
<1>18. \A i \in 1 .. Len(rules) : i # id => \A s : <<i, s>> \in alerts' <=> <<i, s>> \in alerts
  BY <1>2
<1>19. ASSUME NEW i \in 1 .. Len(rules'), rules'[i] # None
       PROVE  Crossed(rules'[i], i, alerts', edited[i], seen)
  <2>1. CASE i = id
    BY <1>17, <2>1 DEF w, E
  <2>2. CASE i # id
    <3>1. rules'[i] = rules[i] /\ Crossed(rules[i], i, alerts, edited[i], seen)
      BY <1>2, <1>19, <2>2 DEF CrossInv
    <3>2. \A s : <<i, s>> \in alerts' <=> <<i, s>> \in alerts
      BY <1>2, <1>18, <2>2
    <3> QED
      BY <3>1, <3>2 DEF Crossed
  <2> QED
    BY <2>1, <2>2
<1>20. CheckCrosses(x, rules', alerts', edited, seen)
  <2>1. CheckOK(l, rules, Len(closes), alerts, edited) /\ CheckCrosses(l, rules, alerts, edited, seen)
    BY DEF l, RulesInv, CrossInv
  <2>2. ASSUME NEW i \in DOMAIN l.todo, l.todo[i] # Head(l.todo)
        PROVE  Current(known[l.todo[i]], rules'[l.todo[i]], l.todo[i], alerts', edited[l.todo[i]])
    <3>1. PICK j : j = l.todo[i]
      OBVIOUS
    <3>2. /\ j # id /\ j \in DOMAIN l.known /\ j \in 1 .. Len(rules)
          /\ Current(l.known[j], rules[j], j, alerts, edited[j])
      BY <1>3, <2>1, <2>2, <3>1 DEF CheckOK, CheckCrosses
    <3>3. known[j] = l.known[j] /\ rules'[j] = rules[j]
      BY <1>2, <3>2 DEF known
    <3>4. \A s : <<j, s>> \in alerts' <=> <<j, s>> \in alerts
      BY <1>18, <3>2
    <3> QED
      BY <3>1, <3>2, <3>3, <3>4 DEF Current
  <2>3. l.pc # "idle"
    BY <1>3
  <2> QED
    BY <2>2, <2>3, AdvanceCrosses DEF l, x
<1>21. check' = [check EXCEPT ![c] = x]
  BY <1>3 DEF Advance, Advanced, x
<1>22. \A d \in Checks : check'[d] = x
  BY <1>21 DEF OneCheck, RulesInv
<1> QED
  BY <1>3, <1>19, <1>20, <1>22 DEF CrossInv

LEMMA StepCross == RulesInv /\ CrossInv /\ OneCheck /\ [Next]_vars => CrossInv'
<1> SUFFICES ASSUME RulesInv, CrossInv, OneCheck, [Next]_vars PROVE CrossInv'
  OBVIOUS
<1>1. CASE Ingest \/ Revise \/ Age
  BY <1>1, DataCross
<1>2. CASE \E c \in Checks : CheckStep(c) \/ \E u \in Users \cup {Everyone} : ListRules(c, u)
  BY <1>2, ListRulesCross, CheckRuleCross, CommitCross, RuleFailsCross, CheckEndsCross DEF CheckStep
<1>3. CASE \/ \E k \in Clients : CountRules(k) \/ InsertRule(k) \/ ReadRule(k) \/ SaveRule(k)
           \/ DeleteRule
  BY <1>3, RoutesCross
<1>4. CASE UNCHANGED vars
  BY <1>4 DEF CrossInv, vars
<1> QED
  BY <1>1, <1>2, <1>3, <1>4 DEF Next

LEMMA InitCross == Init => CrossInv
BY IdleCrosses DEF Init, CrossInv

\* Where checks do not overlap, a rule that its user has not edited since fires once per
\* crossing: between two of its alerts some close did not meet its condition, and a one-shot
\* rule has one alert.  Requests may edit, delete and add rules between any two steps of a
\* check, closes may be revised, and checks may fail or die.
THEOREM CrossingsFireOnce == ASSUME OneCheck PROVE Spec => []OncePerCrossing
<1>1. RulesInv /\ CrossInv => OncePerCrossing
  <2> SUFFICES ASSUME RulesInv, CrossInv, NEW id \in RuleIds, NEW s \in 1 .. Session, NEW t \in 1 .. Session,
                      Exists(id), s < t, <<id, s>> \in alerts, <<id, t>> \in alerts
               PROVE  /\ edited[id] = {} => rules[id].repeat
                      /\ \/ \E e \in edited[id] : s <= e
                         \/ \E u \in s + 1 .. t - 1 : Cleared(rules[id], u)
    BY DEF OncePerCrossing
  <2>1. Crossed(rules[id], id, alerts, edited[id], seen)
    BY DEF CrossInv, Exists, RuleIds
  <2>2. \A u : ClearedIn(rules[id], u, seen) <=> Cleared(rules[id], u)
    BY DEF ClearedIn, Cleared
  <2> QED
    BY <2>1, <2>2 DEF Crossed
<1>2. Init => RulesInv /\ CrossInv
  BY InitInv, InitCross
<1>3. RulesInv /\ CrossInv /\ [Next]_vars => RulesInv' /\ CrossInv'
  BY StepInv, StepCross
<1> QED
  BY <1>1, <1>2, <1>3, PTL DEF Spec
=================================================================================
