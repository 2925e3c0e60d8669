----------------------------- MODULE ModelRegistry -----------------------------
(***************************************************************************)
(* Which model may tell the trade engine a probability: backtests register  *)
(* candidates, an admin activates and retires them, a nightly job monitors  *)
(* the active ones and retires those that fail, and the engine asks the     *)
(* registry for the model of a horizon (backend/app/backtest/registry.py,   *)
(* backtest/service.py, monitoring/service.py, api/routes/backtest.py).     *)
(*                                                                         *)
(* As in PaperTrading, a step of a request is one statement, or a run of    *)
(* statements no other session can tell apart.  An object read before a     *)
(* commit keeps its values, and a commit writes only the columns that have   *)
(* changed since the request read them.                                    *)
(*                                                                         *)
(* Op_bug names a plausible bug in Op.  No action uses it.                  *)
(***************************************************************************)
EXTENDS Integers, Sequences, FiniteSets

CONSTANTS
    Requests,         \* slots of requests and jobs that run concurrently
    Horizons,         \* prediction horizons, in trading days
    Validations,      \* sets of validation checks a candidate may have failed
    Overridable,      \* checks an admin may override with a written reason
    AutoDisable,      \* monitoring.auto_disable
    MaxUnknownDays,   \* monitoring.max_unknown_days
    MaxTime,          \* bound of the clock, in days
    MaxModels,        \* bound of the models table
    MaxRuns           \* bound of the monitoring runs table

ASSUME HorizonsAssumption == Horizons \subseteq Nat
ASSUME SwitchAssumption == AutoDisable \in BOOLEAN
ASSUME BoundsAssumption ==
    MaxUnknownDays \in Nat /\ MaxTime \in Nat /\ MaxModels \in Nat /\ MaxRuns \in Nat

VARIABLES
    clock,     \* what a request reads as `now`, in days
    models,    \* model_versions; the index is the id
    runs,      \* model_monitor_runs; the index is the id
    req        \* the local state of each request or job

vars == <<clock, models, runs, req>>

Statuses == {"candidate", "active", "retired"}
Results == {"PASS", "WARN", "UNKNOWN", "FAIL"}

ModelType == [horizon: Horizons, validFrom: Nat, failed: Validations,
              status: Statuses, override: BOOLEAN]

RunType == [model: Nat \ {0}, asOf: Nat, status: Results]

Kinds == {"activate", "retire", "monitor"}
Running == {"read", "others", "commit", "retire", "check"}

RequestType == [pc: Running \cup {"idle"}, kind: Kinds, now: Nat,
                model: Nat, reason: BOOLEAN,        \* of the request
                seen: Statuses, others: SUBSET Nat, \* read by set_status
                todo: Seq(Nat)]                     \* models left to check

-----------------------------------------------------------------------------
(* Reading the tables                                                       *)

ModelIds == 1 .. Len(models)
RunIds == 1 .. Len(runs)

\* Active models known at a time.
ActiveAt(asOf) == {m \in ModelIds : models[m].status = "active" /\ models[m].validFrom <= asOf}

RunsOf(m, asOf) == {n \in RunIds : runs[n].model = m /\ runs[n].asOf <= asOf}

\* ORDER BY as_of, id.
Later(n, k) == runs[n].asOf > runs[k].asOf \/ (runs[n].asOf = runs[k].asOf /\ n > k)

Latest(ids) == CHOOSE n \in ids : \A k \in ids \ {n} : Later(n, k)

\* Passed validation, or failed only overridable checks with a reason given.
ActivationAllowed(failed, reason) == failed = {} \/ (reason /\ failed \subseteq Overridable)

-----------------------------------------------------------------------------
(* The registry as the engine reads it                                      *)

NoModel == 0

\* ORDER BY valid_from DESC, id DESC LIMIT 1.
ActiveModel(h, asOf) ==
    LET live == {m \in ActiveAt(asOf) : models[m].horizon = h} IN
    IF live = {} THEN NoModel
    ELSE CHOOSE m \in live : \A k \in live \ {m} :
           \/ models[m].validFrom > models[k].validFrom
           \/ models[m].validFrom = models[k].validFrom /\ m > k

UnknownStreak_latestOnly(ids) == {Latest(ids)}

\* The UNKNOWN runs since the last run with another result.
UnknownStreak(ids) ==
    {n \in ids : \A k \in ids : (k = n \/ Later(k, n)) => runs[k].status = "UNKNOWN"}

\* Never monitored, failed, or UNKNOWN for too long.
MonitorBlocked(m, asOf) ==
    LET ids == RunsOf(m, asOf) IN
    \/ ids = {}
    \/ runs[Latest(ids)].status = "FAIL"
    \/ \E n \in UnknownStreak(ids) : asOf - runs[n].asOf > MaxUnknownDays

\* The model whose probability the engine uses, if any.
Estimator(h, asOf) ==
    LET m == ActiveModel(h, asOf) IN
    IF m = NoModel THEN NoModel
    ELSE IF MonitorBlocked(m, asOf) \/ ~ActivationAllowed(models[m].failed, models[m].override)
    THEN NoModel ELSE m

-----------------------------------------------------------------------------
(* Time, and the backtests that register candidates                         *)

Tick ==
    /\ clock < MaxTime
    /\ clock' = clock + 1
    /\ UNCHANGED <<models, runs, req>>

\* A model is valid from the day its newest label was known.
RunBacktest ==
    \E h \in Horizons, from \in 0 .. clock, failed \in Validations :
        /\ Len(models) < MaxModels
        /\ models' = Append(models, [horizon |-> h, validFrom |-> from, failed |-> failed,
                                     status |-> "candidate", override |-> FALSE])
        /\ UNCHANGED <<clock, runs, req>>

-----------------------------------------------------------------------------
(* Requests and jobs                                                        *)

Active == {r \in Requests : req[r].pc \in Running}

\* Every running request may still store a run of each model.
RoomForRuns == Len(runs) + MaxModels * (Cardinality(Active) + 1) <= MaxRuns

Request(label, kind, now, m, reason) ==
    [pc |-> label, kind |-> kind, now |-> now, model |-> m, reason |-> reason,
     seen |-> "candidate", others |-> {}, todo |-> <<>>]

\* Between requests, and after one that is answered or has failed.
Idle == Request("idle", "monitor", 0, NoModel, FALSE)

Done(r) == req' = [req EXCEPT ![r] = Idle]

Begin(r) ==
    /\ req[r].pc = "idle"
    /\ RoomForRuns
    /\ \/ \E m \in ModelIds, reason \in BOOLEAN :
            req' = [req EXCEPT ![r] = Request("read", "activate", clock, m, reason)]
       \/ \E m \in ModelIds : req' = [req EXCEPT ![r] = Request("read", "retire", clock, m, FALSE)]
       \/ req' = [req EXCEPT ![r] = Request("read", "monitor", clock, NoModel, FALSE)]
    /\ UNCHANGED <<clock, models, runs>>

MayActivate_anyReason(m, reason) ==
    models[m].status # "retired" /\ (models[m].failed = {} \/ reason)

MayActivate(m, reason) ==
    models[m].status # "retired" /\ ActivationAllowed(models[m].failed, reason)

\* The route of activate reads the model and refuses with 409 or 422.
ReadForActivation(r) ==
    LET m == req[r].model IN
    /\ req[r].pc = "read" /\ req[r].kind = "activate"
    /\ IF MayActivate(m, req[r].reason)
       THEN req' = [req EXCEPT ![r].pc = "others", ![r].seen = models[m].status]
       ELSE Done(r)
    /\ UNCHANGED <<clock, models, runs>>

Rivals_olderOnly(m) ==
    {k \in ModelIds \ {m} : models[k].horizon = models[m].horizon
                            /\ models[k].status = "active"
                            /\ models[k].validFrom <= models[m].validFrom}

\* set_status looks for the active models of the horizon ...
Rivals(m) ==
    {k \in ModelIds \ {m} : models[k].horizon = models[m].horizon
                            /\ models[k].status = "active"}

ReadOthers(r) ==
    /\ req[r].pc = "others"
    /\ req' = [req EXCEPT ![r].pc = "commit", ![r].others = Rivals(req[r].model)]
    /\ UNCHANGED <<clock, models, runs>>

\* A column is written if the request has changed the value it read.
Written(table, seen, status) == IF seen = status THEN table ELSE status

\* ... and commits their retirement with the activation.  A reason given for a
\* model that needs one is kept on the model.
CommitActivation(r) ==
    LET m == req[r].model
        needed == ~ActivationAllowed(models[m].failed, FALSE)
    IN
    /\ req[r].pc = "commit"
    /\ models' = [k \in ModelIds |->
          IF k = m
          THEN [models[k] EXCEPT !.status = Written(@, req[r].seen, "active"),
                                 !.override = @ \/ needed]
          ELSE IF k \in req[r].others THEN [models[k] EXCEPT !.status = "retired"]
          ELSE models[k]]
    /\ req' = [req EXCEPT ![r].pc = "check", ![r].todo = <<m>>]
    /\ UNCHANGED <<clock, runs>>

ReadForRetirement(r) ==
    /\ req[r].pc = "read" /\ req[r].kind = "retire"
    /\ req' = [req EXCEPT ![r].pc = "retire", ![r].seen = models[req[r].model].status]
    /\ UNCHANGED <<clock, models, runs>>

CommitRetirement(r) ==
    /\ req[r].pc = "retire"
    /\ models' = [models EXCEPT ![req[r].model].status = Written(@, req[r].seen, "retired")]
    /\ Done(r)
    /\ UNCHANGED <<clock, runs>>

\* ORDER BY horizon, id.
InOrder(s) ==
    \A i, j \in DOMAIN s : i < j =>
        \/ models[s[i]].horizon < models[s[j]].horizon
        \/ models[s[i]].horizon = models[s[j]].horizon /\ s[i] < s[j]

\* run_monitoring reads the list of active models once.
ReadActiveModels(r) ==
    LET due == ActiveAt(req[r].now) IN
    /\ req[r].pc = "read" /\ req[r].kind = "monitor"
    /\ \/ due = {} /\ Done(r)
       \/ \E n \in ModelIds : \E s \in [1 .. n -> due] :
             /\ \A m \in due : \E i \in 1 .. n : s[i] = m
             /\ InOrder(s)
             /\ req' = [req EXCEPT ![r].pc = "check", ![r].todo = s]
    /\ UNCHANGED <<clock, models, runs>>

Disables_never(result) == FALSE

\* A FAIL retires the model in the transaction that stores the run.
Disables(result) == result = "FAIL" /\ AutoDisable

\* monitor_model: one transaction per model.
MonitorModel(r) ==
    LET m == Head(req[r].todo) IN
    /\ req[r].pc = "check"
    /\ \E result \in Results :
          /\ runs' = Append(runs, [model |-> m, asOf |-> req[r].now, status |-> result])
          /\ models' = IF Disables(result) THEN [models EXCEPT ![m].status = "retired"]
                       ELSE models
    /\ IF Tail(req[r].todo) = <<>> THEN Done(r)
       ELSE req' = [req EXCEPT ![r].todo = Tail(@)]
    /\ UNCHANGED clock

\* The process dies, or a statement fails: the open transaction rolls back.
Crash(r) ==
    /\ req[r].pc \in Running
    /\ Done(r)
    /\ UNCHANGED <<clock, models, runs>>

-----------------------------------------------------------------------------
Init ==
    /\ clock = 0
    /\ models = <<>> /\ runs = <<>>
    /\ req = [r \in Requests |-> Idle]

Step(r) ==
    \/ ReadForActivation(r) \/ ReadOthers(r) \/ CommitActivation(r)
    \/ ReadForRetirement(r) \/ CommitRetirement(r)
    \/ ReadActiveModels(r) \/ MonitorModel(r)

Next == Tick \/ RunBacktest \/ \E r \in Requests : Begin(r) \/ Step(r) \/ Crash(r)

Spec == Init /\ [][Next]_vars

-----------------------------------------------------------------------------
(* Properties                                                               *)

\* Types of the tables and of what each request holds: ids name rows, and no
\* request is about to retire the very model it activates.
TypeOK ==
    /\ clock \in Nat
    /\ models \in Seq(ModelType)
    /\ runs \in Seq(RunType)
    /\ req \in [Requests -> RequestType]
    /\ \A n \in RunIds : runs[n].model \in ModelIds
    /\ \A r \in Requests :
         /\ req[r].model \in ModelIds \cup {NoModel}
         /\ req[r].others \subseteq ModelIds \ {req[r].model}
         /\ \A i \in DOMAIN req[r].todo : req[r].todo[i] \in ModelIds

\* However requests race, an active model passed validation or failed only what
\* an admin may override, and then the override is on record.
ActiveIsValidated ==
    \A m \in ModelIds :
        models[m].status = "active" => ActivationAllowed(models[m].failed, models[m].override)

\* With auto-disable, a model that has ever failed monitoring is out of use for
\* good, whatever its later results.
FailedIsOut ==
    AutoDisable =>
        \A n \in RunIds : runs[n].status = "FAIL" =>
            \A h \in Horizons : Estimator(h, clock) # runs[n].model

\* The engine does not go from one model of a horizon straight to another: the
\* new one is activated first and checked after that, with no estimate between.
NoSilentHandOver ==
    [][\A h \in Horizons :
          LET before == Estimator(h, clock)
              after == Estimator(h, clock)'
          IN before # after => before = NoModel \/ after = NoModel]_vars

\* The engine uses no model that has been UNKNOWN for longer than allowed,
\* counted from the oldest UNKNOWN run after the last PASS or WARN.
UnknownIsBounded ==
    \A h \in Horizons :
        LET m == Estimator(h, clock)
            ids == RunsOf(m, clock)
            healthy == {n \in ids : runs[n].status \in {"PASS", "WARN"}}
        IN m # NoModel =>
             \A n \in ids : /\ runs[n].status = "UNKNOWN"
                            /\ \A k \in healthy : Later(n, k)
                            => clock - runs[n].asOf <= MaxUnknownDays
=============================================================================
