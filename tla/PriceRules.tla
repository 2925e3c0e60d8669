------------------------------- MODULE PriceRules -------------------------------
(***************************************************************************)
(* Personal price alerts: users keep rules on the end-of-day closes of one   *)
(* stock (backend/app/api/routes/price_alerts.py), a job and the "check now" *)
(* route evaluate them (alerts/price_rules.py), and a rule that fires stores *)
(* an alert once per key (alerts/service.py).                               *)
(*                                                                         *)
(* A step is one transaction, or a run of statements no other session can   *)
(* tell apart.  A check lists the active rules once and goes on with the     *)
(* objects it has read; the transaction of each rule is split where it       *)
(* holds the lock of the rule's row and has not committed.                   *)
(*                                                                         *)
(* Op_bug names a plausible bug in Op.  No action uses it.                  *)
(***************************************************************************)
EXTENDS Integers, Sequences, FiniteSets

CONSTANTS
    Checks,      \* slots of runs of check_all
    Clients,     \* slots of requests that write a rule
    Users,
    Bars,        \* end-of-day bars the provider may deliver, [close, rsi]
    Conditions,  \* conditions users ask for
    Thresholds,  \* levels users ask for
    Deletes,     \* whether users delete rules
    Edits,       \* whether users edit rules
    None,        \* no value, no row
    Expired,     \* an object to be read again
    Everyone,    \* a check that is not of one user only
    MaxRules,    \* active rules a user may have
    MaxIds,      \* bound of the rules table
    MaxSessions, \* bound of the stored sessions
    MaxEdits     \* bound of the edits of one rule

ASSUME BoundsAssumption ==
    MaxRules \in Nat /\ MaxIds \in Nat /\ MaxSessions \in Nat /\ MaxEdits \in Nat
ASSUME BarsAssumption == \A b \in Bars : b.close \in Nat /\ b.rsi \in Nat \cup {None}
ASSUME ThresholdsAssumption == Thresholds \subseteq Nat \ {0}
ASSUME NoneAssumption == None \notin Int \cup BOOLEAN /\ Expired # None /\ Everyone \notin Users

AllConditions == {"price_above", "price_below", "day_change_up", "day_change_down",
                  "rsi_above", "rsi_below"}

ASSUME ConditionsAssumption == Conditions \subseteq AllConditions

RuleType == [user: Users, condition: Conditions, threshold: Thresholds, repeat: BOOLEAN,
             active: BOOLEAN, armed: BOOLEAN, session: 0 .. MaxSessions, triggers: Nat]

ASSUME RowsAssumption == None \notin RuleType /\ Expired \notin RuleType

VARIABLES
    closes,   \* the stored bars of the stock, one per session
    fresh,    \* whether the freshness of the stock is PASS
    rules,    \* price_alerts; the index is the id
    alerts,   \* keys <<rule, session>> of the stored alerts
    check,    \* the local state of each run of check_all
    client,   \* the local state of each request
    edited,   \* history: for each rule, the last sessions stored when it was edited
    seen      \* history: for each session, the bars that have been stored for it

vars == <<closes, fresh, rules, alerts, check, client, edited, seen>>

-----------------------------------------------------------------------------
(* The tables                                                               *)

RuleIds == 1 .. Len(rules)

Exists(id) == id \in RuleIds /\ rules[id] # None

ActiveOf(u) ==
    {id \in RuleIds : Exists(id) /\ rules[id].active /\ (u = Everyone \/ rules[id].user = u)}

\* _validate: levels of RSI and of the change of a day are bounded.
Valid(condition, threshold) ==
    /\ condition \in {"rsi_above", "rsi_below"} => threshold < 100
    /\ condition \in {"day_change_up", "day_change_down"} => threshold <= 100

NewRule(u, condition, threshold, repeat) ==
    [user |-> u, condition |-> condition, threshold |-> threshold, repeat |-> repeat,
     active |-> TRUE, armed |-> TRUE, session |-> 0, triggers |-> 0]

\* A commit writes the columns that differ from what the session has read.
Written(row, old, new) ==
    [f \in DOMAIN row |-> IF new[f] = old[f] THEN row[f] ELSE new[f]]

-----------------------------------------------------------------------------
(* What a rule sees                                                         *)

Session == Len(closes)

\* The key of a rule's alert tells the rule and the session: there is one alert of each.
AlertKeys == RuleIds \X (1 .. Session)

\* Without a previous close there is no change of a day, without enough history no RSI.
Known(condition, bars) ==
    LET n == Len(bars) IN
    CASE condition \in {"price_above", "price_below"} -> n > 0
      [] condition \in {"day_change_up", "day_change_down"} -> n > 1 /\ bars[n - 1].close > 0
      [] OTHER -> n > 0 /\ bars[n].rsi # None

\* Changes of a day are compared without dividing by the previous close.
Met(condition, threshold, bars) ==
    LET last == bars[Len(bars)]
        before == bars[Len(bars) - 1].close
    IN CASE condition = "price_above" -> last.close > threshold
         [] condition = "price_below" -> last.close < threshold
         [] condition = "rsi_above" -> last.rsi > threshold
         [] condition = "rsi_below" -> last.rsi < threshold
         [] condition = "day_change_up" -> (last.close - before) * 100 >= threshold * before
         [] OTHER -> (last.close - before) * 100 <= -(threshold * before)

\* The session and whether a value was observed; nothing unless the data is fresh.
Observed(condition) == fresh /\ Session > 0 /\ Known(condition, closes)

ArmedAfter_always(rule, met) == TRUE

\* A rule that fires disarms; it arms again once its condition has cleared.
ArmedAfter(rule, met) == IF met THEN FALSE ELSE TRUE

ActiveAfter(rule, fires) == rule.active /\ (fires => rule.repeat)

Seals_firstOnly(rule) == Observed(rule.condition) /\ rule.session = 0

\* check_rule looks at a session once, and only at a value it has.
Seals(rule) == Observed(rule.condition) /\ rule.session # Session

Fires(rule) ==
    /\ Observed(rule.condition)
    /\ rule.armed
    /\ Met(rule.condition, rule.threshold, closes)

\* check_rule: what becomes of the rule it has read.
Checked(rule) ==
    IF ~rule.active \/ ~Seals(rule) THEN rule
    ELSE LET met == Observed(rule.condition) /\ Met(rule.condition, rule.threshold, closes) IN
         [rule EXCEPT !.session = Session,
                      !.armed = ArmedAfter(rule, met),
                      !.active = ActiveAfter(rule, Fires(rule)),
                      !.triggers = IF Fires(rule) THEN @ + 1 ELSE @]

FiresNow(rule) == rule.active /\ Seals(rule) /\ Fires(rule)

-----------------------------------------------------------------------------
(* The data                                                                 *)

\* The next session's bar is ingested.
Ingest ==
    /\ Session < MaxSessions
    /\ \E b \in Bars : /\ closes' = Append(closes, b)
                       /\ seen' = Append(seen, {b})
    /\ fresh' = TRUE
    /\ UNCHANGED <<rules, alerts, check, client, edited>>

\* A revision of the last bar.
Revise ==
    /\ Session > 0
    /\ \E b \in Bars : /\ closes' = [closes EXCEPT ![Session] = b]
                       /\ seen' = [seen EXCEPT ![Session] = @ \cup {b}]
    /\ UNCHANGED <<fresh, rules, alerts, check, client, edited>>

\* A session passes whose bar does not come, or the calendar ends.
Age == fresh /\ fresh' = FALSE /\ UNCHANGED <<closes, rules, alerts, check, client, edited, seen>>

-----------------------------------------------------------------------------
(* check_all                                                                *)

IdleCheck == [pc |-> "idle", todo |-> <<>>, known |-> <<>>, new |-> None, alert |-> FALSE]

\* The row of a rule whose update a check has flushed and not committed.
Locked(id) == \E c \in Checks : check[c].pc = "flushed" /\ Head(check[c].todo) = id

InOrder(s) == \A i, j \in DOMAIN s : i < j => s[i] < s[j]

\* SELECT of the active rules, of all users (the job) or of one, ORDER BY id.
ListRules(c, u) ==
    /\ check[c].pc = "idle"
    /\ \E s \in [1 .. Cardinality(ActiveOf(u)) -> ActiveOf(u)] :
         /\ s # <<>> /\ InOrder(s)
         /\ check' = [check EXCEPT ![c] = [IdleCheck EXCEPT
                          !.pc = "check", !.todo = s,
                          !.known = [id \in ActiveOf(u) |-> rules[id]]]]
    /\ UNCHANGED <<closes, fresh, rules, alerts, client, edited, seen>>

\* A rollback expires what the session has read; it is read again when it is used.
KnownRule(c, id) == IF check[c].known[id] = Expired THEN rules[id] ELSE check[c].known[id]

\* check_rule up to its flush: the row is locked, the alert is inserted, if its
\* key is free, and is pushed, if the rule is of high importance.
CheckRule(c, id) ==
    LET rule == KnownRule(c, id) IN
    LET l == check[c] IN
    /\ l.pc = "check" /\ Head(l.todo) = id
    /\ Exists(id) /\ ~Locked(id)
    /\ check' = [check EXCEPT ![c] =
          [l EXCEPT !.pc = "flushed", !.known = [l.known EXCEPT ![id] = rule],
                    !.new = Checked(rule), !.alert = FiresNow(rule)]]
    /\ UNCHANGED <<closes, fresh, rules, alerts, client, edited, seen>>

Advance(c, known) ==
    LET rest == Tail(check[c].todo) IN
    check' = [check EXCEPT ![c] =
        IF rest = <<>> THEN IdleCheck
        ELSE [IdleCheck EXCEPT !.pc = "check", !.todo = rest, !.known = known]]

AlertsAfter_oncePerRule(c) ==
    IF check[c].alert /\ ~\E a \in alerts : a[1] = Head(check[c].todo)
    THEN alerts \cup {<<Head(check[c].todo), check[c].new.session>>}
    ELSE alerts

\* raise_alert: once per rule and session, whatever was evaluated again.
AlertsAfter(c) ==
    IF check[c].alert THEN alerts \cup {<<Head(check[c].todo), check[c].new.session>>}
    ELSE alerts

CommitRule(c, id) ==
    /\ check[c].pc = "flushed" /\ Head(check[c].todo) = id
    /\ rules' = [rules EXCEPT ![id] = Written(@, check[c].known[id], check[c].new)]
    /\ alerts' = AlertsAfter(c)
    /\ Advance(c, [check[c].known EXCEPT ![id] = check[c].new])
    /\ UNCHANGED <<closes, fresh, client, edited, seen>>

\* The rule's transaction fails and is rolled back, which expires every object of the session.
RuleFails(c) ==
    /\ check[c].pc \in {"check", "flushed"}
    /\ Exists(Head(check[c].todo))
    /\ Advance(c, [i \in DOMAIN check[c].known |-> Expired])
    /\ UNCHANGED <<closes, fresh, rules, alerts, client, edited, seen>>

\* The rule has been deleted: its update finds no row, the rollback expires the
\* object, and reading the id of an expired object without a row raises again,
\* in the handler.
CheckRaises(c) ==
    /\ check[c].pc = "check"
    /\ ~Exists(Head(check[c].todo))
    /\ check' = [check EXCEPT ![c].pc = "raised"]
    /\ UNCHANGED <<closes, fresh, rules, alerts, client, edited, seen>>

\* The job or the route that raised ends; or the process dies.
CheckDies(c) ==
    /\ check[c].pc # "idle"
    /\ check' = [check EXCEPT ![c] = IdleCheck]
    /\ UNCHANGED <<closes, fresh, rules, alerts, client, edited, seen>>

-----------------------------------------------------------------------------
(* The routes                                                               *)

IdleClient == [pc |-> "idle", id |-> 0, known |-> None, new |-> None]

\* create_rule counts the user's active rules ...
CountRules(k) ==
    /\ client[k].pc = "idle"
    /\ Len(rules) < MaxIds
    /\ \E u \in Users, condition \in Conditions, threshold \in Thresholds, repeat \in BOOLEAN :
         /\ Valid(condition, threshold) /\ Cardinality(ActiveOf(u)) < MaxRules
         /\ client' = [client EXCEPT ![k] = [IdleClient EXCEPT
                 !.pc = "insert", !.new = NewRule(u, condition, threshold, repeat)]]
    /\ UNCHANGED <<closes, fresh, rules, alerts, check, edited, seen>>

\* ... and then stores the new one.
InsertRule(k) ==
    /\ client[k].pc = "insert"
    /\ Len(rules) < MaxIds
    /\ rules' = Append(rules, client[k].new)
    /\ edited' = Append(edited, {})
    /\ client' = [client EXCEPT ![k] = IdleClient]
    /\ UNCHANGED <<closes, fresh, alerts, check, seen>>

\* update_rule: a new level, or switching on, arms the rule and forgets the last session.
Patched(rule, threshold, repeat, active) ==
    LET level == IF threshold = None THEN rule
                 ELSE [rule EXCEPT !.threshold = threshold, !.armed = TRUE, !.session = 0]
        often == IF repeat = None THEN level ELSE [level EXCEPT !.repeat = repeat]
    IN CASE active = None -> often
         [] active = FALSE -> [often EXCEPT !.active = FALSE]
         [] OTHER -> [often EXCEPT !.active = TRUE, !.armed = TRUE, !.session = 0]

ReadRule(k) ==
    /\ Edits
    /\ client[k].pc = "idle"
    /\ \E id \in RuleIds : \E threshold \in Thresholds \cup {None},
          repeat \in BOOLEAN \cup {None}, active \in BOOLEAN \cup {None} :
         /\ Exists(id) /\ Cardinality(edited[id]) < MaxEdits
         /\ threshold # None => Valid(rules[id].condition, threshold)
         /\ client' = [client EXCEPT ![k] =
               [pc |-> "save", id |-> id, known |-> rules[id],
                new |-> Patched(rules[id], threshold, repeat, active)]]
    /\ UNCHANGED <<closes, fresh, rules, alerts, check, edited, seen>>

SaveRule(k) ==
    LET id == client[k].id IN
    /\ client[k].pc = "save"
    /\ IF Exists(id)
       THEN /\ ~Locked(id)
            /\ rules' = [rules EXCEPT ![id] = Written(@, client[k].known, client[k].new)]
            /\ edited' = [edited EXCEPT ![id] = @ \cup {Session}]
       ELSE UNCHANGED <<rules, edited>>
    /\ client' = [client EXCEPT ![k] = IdleClient]
    /\ UNCHANGED <<closes, fresh, alerts, check, seen>>

DeleteRule ==
    /\ Deletes
    /\ \E id \in RuleIds :
         /\ Exists(id) /\ ~Locked(id)
         /\ rules' = [rules EXCEPT ![id] = None]
    /\ UNCHANGED <<closes, fresh, alerts, check, client, edited, seen>>

-----------------------------------------------------------------------------
Init ==
    /\ closes = <<>> /\ fresh = FALSE /\ seen = <<>>
    /\ rules = <<>> /\ alerts = {} /\ edited = <<>>
    /\ check = [c \in Checks |-> IdleCheck]
    /\ client = [k \in Clients |-> IdleClient]

CheckStep(c) ==
    \/ \E id \in 1 .. MaxIds : CheckRule(c, id) \/ CommitRule(c, id)
    \/ RuleFails(c) \/ CheckRaises(c) \/ CheckDies(c)

Next ==
    \/ Ingest \/ Revise \/ Age
    \/ \E c \in Checks : CheckStep(c) \/ \E u \in Users \cup {Everyone} : ListRules(c, u)
    \/ \E k \in Clients : CountRules(k) \/ InsertRule(k) \/ ReadRule(k) \/ SaveRule(k)
    \/ DeleteRule

Spec == Init /\ [][Next]_vars

\* The beat starts the job again and again, and the transaction of a rule does
\* not fail every time it is tried.
Fairness ==
    \A c \in Checks :
        /\ SF_vars(ListRules(c, Everyone))
        /\ \A id \in 1 .. MaxIds : SF_vars(CheckRule(c, id)) /\ SF_vars(CommitRule(c, id))

FairSpec == Spec /\ Fairness

-----------------------------------------------------------------------------
(* Properties                                                               *)

\* Types of the tables and of what checks and requests hold; a check has read
\* every rule it still has to check, and holds the lock of a row that exists.
TypeOK ==
    /\ closes \in Seq(Bars) /\ fresh \in BOOLEAN
    /\ rules \in Seq(RuleType \cup {None})
    /\ alerts \subseteq AlertKeys
    /\ \A c \in Checks :
         /\ check[c].pc \in {"idle", "check", "flushed", "raised"}
         /\ \A i \in DOMAIN check[c].todo :
              check[c].known[check[c].todo[i]] \in RuleType \cup {Expired}
         /\ check[c].pc = "flushed" =>
              Exists(Head(check[c].todo)) /\ check[c].new \in RuleType /\ check[c].alert \in BOOLEAN
    /\ \A k \in Clients :
         /\ client[k].pc = "insert" => client[k].new \in RuleType
         /\ client[k].pc = "save" => client[k].id \in RuleIds
    /\ Len(edited) = Len(rules) /\ Len(seen) = Len(closes)

\* Some bar that has been stored for session s does not meet the rule.
Cleared(rule, s) ==
    \E b \in seen[s], p \in seen[IF s > 1 THEN s - 1 ELSE s] :
        Known(rule.condition, <<p, b>>) /\ ~Met(rule.condition, rule.threshold, <<p, b>>)

\* "A price that stays above a level fires once, not every day": between two
\* alerts of a rule its condition has cleared, unless its user has edited it since the
\* first; and a one-shot rule that has never been edited fires once.
OncePerCrossing ==
    \A id \in RuleIds : \A s, t \in 1 .. Session :
        Exists(id) /\ s < t /\ <<id, s>> \in alerts /\ <<id, t>> \in alerts =>
            /\ edited[id] = {} => rules[id].repeat
            /\ \/ \E e \in edited[id] : s <= e
               \/ \E u \in s + 1 .. t - 1 : Cleared(rules[id], u)

Triggered(id) == rules[id] # None /\ rules'[id] # None /\ rules'[id].triggers > rules[id].triggers

StoresAlert(id) == <<id, rules'[id].session>> \in alerts' \ alerts

\* A rule that fires on a close, and has not been edited since that close came,
\* stores an alert in the same transaction.
FiringIsAlerted ==
    [][\A id \in RuleIds :
          Triggered(id) /\ rules'[id].session \notin edited[id] => StoresAlert(id)]_vars

Due(id, s) ==
    /\ Session = s /\ Exists(id) /\ ~Locked(id)
    /\ rules[id].active /\ rules[id].session # s /\ Fires(rules[id])

\* The crossing that session s belongs to has its alert.
CrossingAlerted(id, s) ==
    \E t \in 1 .. s :
        /\ <<id, t>> \in alerts
        /\ rules[id].repeat => \A u \in t + 1 .. s - 1 : ~Cleared(rules[id], u)

\* A fresh close that an armed rule, not being checked, waits for is not overlooked,
\* whatever runs fail or die: its crossing has an alert in the end, unless the rule is
\* edited or deleted, or the close is revised, ages or is followed by another one first.
CrossingIsNoticed ==
    \A id \in 1 .. MaxIds, s \in 1 .. MaxSessions :
        Due(id, s) ~>
            \/ ~Exists(id) \/ s # Session \/ ~fresh
            \/ Cardinality(seen[s]) > 1 \/ edited[id] # {}
            \/ CrossingAlerted(id, s)
=================================================================================
