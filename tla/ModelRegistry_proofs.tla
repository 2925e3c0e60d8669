-------------------------- MODULE ModelRegistry_proofs -------------------------
(***************************************************************************)
(* Theorems about ModelRegistry for every number of models, horizons and    *)
(* validation checks: with any number of concurrent requests, and, from      *)
(* OneAtATime on, with one request or job at a time.                        *)
(***************************************************************************)
EXTENDS ModelRegistry, TLAPS, WellFoundedInduction

\* Steps of a request that names a model.
ForModel(x) ==
    x.pc \in {"others", "commit", "retire"} \/ (x.pc = "read" /\ x.kind # "monitor")

\* What a request with local state x has learned from a models table t: the rows
\* it refers to exist, and one that is about to activate a model has seen that it
\* may be activated.
Sound(x, t) ==
    /\ x \in RequestType
    /\ x.model \in (1 .. Len(t)) \cup {NoModel}
    /\ x.others \subseteq (1 .. Len(t)) \ {x.model}
    /\ \A i \in DOMAIN x.todo : x.todo[i] \in 1 .. Len(t)
    /\ ForModel(x) => x.model \in 1 .. Len(t)
    /\ x.pc = "check" => x.todo # <<>>
    /\ x.pc \in {"others", "commit"} => ActivationAllowed(t[x.model].failed, x.reason)

\* A table whose active models are validated.
Validated(t) ==
    \A m \in 1 .. Len(t) :
        t[m].status = "active" => ActivationAllowed(t[m].failed, t[m].override)

\* Rows are added, and what a candidate failed is never rewritten.
Extends(u, t) ==
    /\ u \in Seq(ModelType) /\ t \in Seq(ModelType)
    /\ Len(t) <= Len(u)
    /\ \A m \in 1 .. Len(t) : u[m].failed = t[m].failed

RunsRefer(s, t) == s \in Seq(RunType) /\ \A n \in 1 .. Len(s) : s[n].model \in 1 .. Len(t)

RegistryInv ==
    /\ clock \in Nat
    /\ models \in Seq(ModelType) /\ Validated(models)
    /\ RunsRefer(runs, models)
    /\ req \in [Requests -> RequestType]
    /\ \A r \in Requests : Sound(req[r], models)

LEMMA InvImplies == RegistryInv => TypeOK /\ ActiveIsValidated
<1> SUFFICES ASSUME RegistryInv PROVE TypeOK /\ ActiveIsValidated
  OBVIOUS
<1>1. TypeOK
  BY DEF RegistryInv, RunsRefer, Sound, TypeOK, RunIds, ModelIds
<1>2. ActiveIsValidated
  BY DEF RegistryInv, Validated, ActiveIsValidated, ModelIds
<1> QED
  BY <1>1, <1>2

-----------------------------------------------------------------------------
\* A request keeps what it has learned when the table grows.
LEMMA SoundStays ==
    ASSUME NEW t, NEW u, Extends(u, t), NEW x, Sound(x, t)
    PROVE  Sound(x, u)
<1>1. 1 .. Len(t) \subseteq 1 .. Len(u)
  BY DEF Extends
<1>2. ASSUME x.pc \in {"others", "commit"}
      PROVE  ActivationAllowed(u[x.model].failed, x.reason)
  <2>1. x.model \in 1 .. Len(t)
    BY <1>2 DEF Sound, ForModel
  <2>2. u[x.model].failed = t[x.model].failed
    BY <2>1 DEF Extends
  <2> QED
    BY <1>2, <2>2 DEF Sound
<1> QED
  BY <1>1, <1>2 DEF Sound

LEMMA ExtendsItself == ASSUME NEW t \in Seq(ModelType) PROVE Extends(t, t)
  BY DEF Extends

\* A step of request r to local state x, over a table that grows.
LEMMA RequestMoves ==
    ASSUME RegistryInv, NEW r \in Requests, NEW x,
           req' = [req EXCEPT ![r] = x],
           Extends(models', models), Validated(models'),
           RunsRefer(runs', models'), clock' \in Nat,
           Sound(x, models')
    PROVE  RegistryInv'
<1>1. x \in RequestType
  BY DEF Sound
<1>2. req' \in [Requests -> RequestType]
  BY <1>1 DEF RegistryInv
<1>3. ASSUME NEW q \in Requests PROVE Sound(req'[q], models')
  <2>1. CASE q = r
    <3>1. req'[q] = x
      BY <2>1 DEF RegistryInv
    <3> QED
      BY <3>1
  <2>2. CASE q # r
    <3>1. req'[q] = req[q]
      BY <2>2 DEF RegistryInv
    <3>2. Sound(req[q], models)
      BY DEF RegistryInv
    <3>3. Sound(req[q], models')
      BY <3>2, SoundStays
    <3> QED
      BY <3>1, <3>3
  <2> QED
    BY <2>1, <2>2
<1>4. models' \in Seq(ModelType)
  BY DEF Extends
<1> QED
  BY <1>2, <1>3, <1>4 DEF RegistryInv

\* The same for a step that writes no table.
LEMMA RequestReads ==
    ASSUME RegistryInv, NEW r \in Requests, NEW x,
           req' = [req EXCEPT ![r] = x],
           models' = models, runs' = runs, clock' = clock,
           Sound(x, models)
    PROVE  RegistryInv'
<1>1. Extends(models', models) /\ Validated(models') /\ Sound(x, models')
  BY ExtendsItself DEF RegistryInv
<1>2. RunsRefer(runs', models') /\ clock' \in Nat
  BY DEF RegistryInv
<1> QED
  BY <1>1, <1>2, RequestMoves

LEMMA IdleSound == ASSUME NEW t \in Seq(ModelType) PROVE Sound(Idle, t)
<1> DEFINE x == Idle
<1>1. /\ x.pc = "idle" /\ x.kind = "monitor" /\ x.now = 0 /\ x.model = NoModel
      /\ x.reason = FALSE /\ x.seen = "candidate" /\ x.others = {} /\ x.todo = <<>>
  BY DEF Idle, Request
<1>2. x \in RequestType
  BY DEF Idle, Request, RequestType, Running, Kinds, Statuses, NoModel
<1> HIDE DEF x
<1>3. ~ForModel(x)
  BY <1>1 DEF ForModel
<1>4. \A i \in DOMAIN x.todo : x.todo[i] \in 1 .. Len(t)
  BY <1>1
<1>5. Sound(x, t)
  BY <1>1, <1>2, <1>3, <1>4 DEF Sound
<1> QED
  BY <1>5 DEF x

LEMMA DoneStep ==
    ASSUME RegistryInv, NEW r \in Requests, Done(r),
           Extends(models', models), Validated(models'),
           RunsRefer(runs', models'), clock' \in Nat
    PROVE  RegistryInv'
<1>1. req' = [req EXCEPT ![r] = Idle]
  BY DEF Done
<1>2. Sound(Idle, models')
  BY IdleSound DEF Extends
<1> QED
  BY <1>1, <1>2, RequestMoves

LEMMA DoneReading ==
    ASSUME RegistryInv, NEW r \in Requests, Done(r),
           models' = models, runs' = runs, clock' = clock
    PROVE  RegistryInv'
<1>1. Extends(models', models) /\ Validated(models')
  BY ExtendsItself DEF RegistryInv
<1>2. RunsRefer(runs', models') /\ clock' \in Nat
  BY DEF RegistryInv
<1> QED
  BY <1>1, <1>2, DoneStep

LEMMA InvInit == Init => RegistryInv
<1> SUFFICES ASSUME Init PROVE RegistryInv
  OBVIOUS
<1>1. models \in Seq(ModelType) /\ Len(models) = 0 /\ clock \in Nat
  BY DEF Init
<1>2. Validated(models) /\ RunsRefer(runs, models)
  BY <1>1 DEF Init, Validated, RunsRefer
<1>3. Sound(Idle, models)
  BY <1>1, IdleSound
<1>4. \A r \in Requests : req[r] = Idle
  BY DEF Init
<1>5. req \in [Requests -> RequestType]
  BY <1>3 DEF Init, Sound
<1> QED
  BY <1>1, <1>2, <1>3, <1>4, <1>5 DEF RegistryInv

-----------------------------------------------------------------------------
(* One lemma per action                                                     *)

LEMMA SoundFacts ==
    ASSUME RegistryInv, NEW r \in Requests
    PROVE  /\ req[r] \in RequestType /\ Sound(req[r], models)
           /\ req[r].now \in Nat /\ req[r].reason \in BOOLEAN
           /\ req[r].model \in Nat /\ req[r].others \in SUBSET Nat
           /\ req[r].seen \in Statuses /\ req[r].todo \in Seq(Nat)
  BY DEF RegistryInv, RequestType

\* A request that is about to check the models of a list.
LEMMA CheckFacts ==
    ASSUME NEW y \in RequestType, NEW list \in Seq(Nat)
    PROVE  LET x == [y EXCEPT !.pc = "check", !.todo = list] IN
           /\ x \in RequestType /\ x.pc = "check" /\ x.model = y.model
           /\ x.others = y.others /\ x.todo = list
  BY DEF RequestType, Running

LEMMA RowFacts ==
    ASSUME RegistryInv, NEW m \in ModelIds
    PROVE  /\ models[m] \in ModelType /\ models[m].override \in BOOLEAN
           /\ models[m].status \in Statuses
<1>1. models[m] \in ModelType
  BY DEF RegistryInv, ModelIds
<1> QED
  BY <1>1 DEF ModelType

LEMMA TickInv == RegistryInv /\ Tick => RegistryInv'
<1> SUFFICES ASSUME RegistryInv, Tick PROVE RegistryInv'
  OBVIOUS
<1>1. clock' \in Nat
  BY DEF Tick, RegistryInv
<1> QED
  BY <1>1 DEF Tick, RegistryInv

LEMMA RunBacktestInv == RegistryInv /\ RunBacktest => RegistryInv'
<1> SUFFICES ASSUME RegistryInv, RunBacktest PROVE RegistryInv'
  OBVIOUS
<1>1. PICK h \in Horizons, from \in 0 .. clock, failed \in Validations :
        models' = Append(models, [horizon |-> h, validFrom |-> from, failed |-> failed,
                                  status |-> "candidate", override |-> FALSE])
  BY DEF RunBacktest
<1> DEFINE row == [horizon |-> h, validFrom |-> from, failed |-> failed,
                   status |-> "candidate", override |-> FALSE]
<1>2. row \in ModelType /\ row.status = "candidate"
  BY <1>1 DEF ModelType, Statuses, RegistryInv
<1>3. models' = Append(models, row)
  BY <1>1
<1> HIDE DEF row
<1>4. /\ models' \in Seq(ModelType) /\ Len(models') = Len(models) + 1
      /\ \A m \in 1 .. Len(models) : models'[m] = models[m]
      /\ models'[Len(models) + 1] = row
  BY <1>2, <1>3 DEF RegistryInv
<1>5. Extends(models', models)
  BY <1>4 DEF Extends, RegistryInv
<1>6. Validated(models')
  BY <1>2, <1>4 DEF Validated, RegistryInv
<1>7. RunsRefer(runs', models')
  BY <1>4 DEF RunsRefer, RegistryInv, RunBacktest
<1>8. \A r \in Requests : Sound(req[r], models')
  BY <1>5, SoundStays DEF RegistryInv
<1> QED
  BY <1>4, <1>6, <1>7, <1>8 DEF RegistryInv, RunBacktest

\* A request has read nothing when it arrives.
LEMMA RequestSound ==
    ASSUME NEW t \in Seq(ModelType), NEW kind \in Kinds, NEW now \in Nat,
           NEW m \in (1 .. Len(t)) \cup {NoModel}, NEW reason \in BOOLEAN,
           kind # "monitor" => m \in 1 .. Len(t)
    PROVE  Sound(Request("read", kind, now, m, reason), t)
<1> DEFINE x == Request("read", kind, now, m, reason)
<1>1. /\ x.pc = "read" /\ x.kind = kind /\ x.now = now /\ x.model = m
      /\ x.reason = reason /\ x.seen = "candidate" /\ x.others = {} /\ x.todo = <<>>
  BY DEF Request
<1>2. x \in RequestType
  BY DEF Request, RequestType, Running, Statuses, NoModel
<1> HIDE DEF x
<1>3. ForModel(x) => x.model \in 1 .. Len(t)
  BY <1>1 DEF ForModel
<1>4. \A i \in DOMAIN x.todo : x.todo[i] \in 1 .. Len(t)
  BY <1>1
<1>5. Sound(x, t)
  BY <1>1, <1>2, <1>3, <1>4 DEF Sound
<1> QED
  BY <1>5 DEF x

LEMMA BeginInv == ASSUME RegistryInv, NEW r \in Requests, Begin(r) PROVE RegistryInv'
<1>1. PICK kind \in Kinds, m \in ModelIds \cup {NoModel}, reason \in BOOLEAN :
        /\ req' = [req EXCEPT ![r] = Request("read", kind, clock, m, reason)]
        /\ kind # "monitor" => m \in ModelIds
  BY DEF Begin, Kinds
<1> DEFINE x == Request("read", kind, clock, m, reason)
<1>2. Sound(x, models)
  BY <1>1, RequestSound DEF RegistryInv, ModelIds
<1>3. req' = [req EXCEPT ![r] = x]
  BY <1>1
<1> HIDE DEF x
<1> QED
  BY <1>2, <1>3, RequestReads DEF Begin

LEMMA ReadForActivationInv ==
    ASSUME RegistryInv, NEW r \in Requests, ReadForActivation(r) PROVE RegistryInv'
<1>1. CASE MayActivate(req[r].model, req[r].reason)
  <2> DEFINE x == [req[r] EXCEPT !.pc = "others", !.seen = models[req[r].model].status]
  <2>1. req[r].model \in ModelIds
    BY SoundFacts DEF ReadForActivation, Sound, ForModel, ModelIds
  <2>2. /\ x \in RequestType /\ x.pc = "others" /\ x.model = req[r].model
        /\ x.reason = req[r].reason /\ x.others = req[r].others /\ x.todo = req[r].todo
    BY <2>1, SoundFacts, RowFacts DEF RequestType, Running
  <2>3. req' = [req EXCEPT ![r] = x]
    BY <1>1 DEF ReadForActivation
  <2> HIDE DEF x
  <2>4. Sound(x, models)
    BY <1>1, <2>1, <2>2, SoundFacts DEF Sound, ForModel, ModelIds, MayActivate
  <2> QED
    BY <2>3, <2>4, RequestReads DEF ReadForActivation
<1>2. CASE ~MayActivate(req[r].model, req[r].reason)
  BY <1>2, DoneReading DEF ReadForActivation
<1> QED
  BY <1>1, <1>2

LEMMA ReadOthersInv ==
    ASSUME RegistryInv, NEW r \in Requests, ReadOthers(r) PROVE RegistryInv'
<1> DEFINE x == [req[r] EXCEPT !.pc = "commit", !.others = Rivals(req[r].model)]
<1>1. Rivals(req[r].model) \subseteq ModelIds \ {req[r].model}
  BY DEF Rivals
<1>2. Rivals(req[r].model) \in SUBSET Nat
  BY <1>1 DEF ModelIds
<1>3. /\ x \in RequestType /\ x.pc = "commit" /\ x.model = req[r].model
      /\ x.reason = req[r].reason /\ x.others = Rivals(req[r].model)
      /\ x.todo = req[r].todo
  BY <1>2, SoundFacts DEF RequestType, Running
<1>4. req' = [req EXCEPT ![r] = x]
  BY DEF ReadOthers
<1> HIDE DEF x
<1>5. Sound(x, models)
  BY <1>1, <1>3, SoundFacts DEF Sound, ForModel, ModelIds, ReadOthers
<1> QED
  BY <1>4, <1>5, RequestReads DEF ReadOthers

\* The activation of a model that was found activatable leaves only validated
\* models active: a model that needs an override has it from now on.
LEMMA ActivationValidates ==
    ASSUME NEW failed, NEW reason \in BOOLEAN, NEW override \in BOOLEAN,
           ActivationAllowed(failed, reason)
    PROVE  ActivationAllowed(failed, override \/ ~ActivationAllowed(failed, FALSE))
  BY DEF ActivationAllowed

LEMMA CommitActivationInv ==
    ASSUME RegistryInv, NEW r \in Requests, CommitActivation(r) PROVE RegistryInv'
<1> DEFINE m == req[r].model
           needed == ~ActivationAllowed(models[m].failed, FALSE)
           list == <<m>>
           x == [req[r] EXCEPT !.pc = "check", !.todo = list]
<1>1. m \in ModelIds /\ ActivationAllowed(models[m].failed, req[r].reason)
  BY SoundFacts DEF CommitActivation, Sound, ForModel, ModelIds
<1>2. /\ x \in RequestType /\ x.pc = "check" /\ x.model = m /\ x.others = req[r].others
      /\ x.todo = list
  <2>1. m \in Nat /\ req[r] \in RequestType
    BY SoundFacts
  <2>2. list \in Seq(Nat)
    BY <2>1
  <2> HIDE DEF list
  <2> QED
    BY <2>1, <2>2, CheckFacts
<1>3. req' = [req EXCEPT ![r] = x]
  BY DEF CommitActivation
<1>4. ASSUME NEW k \in ModelIds
      PROVE  /\ models'[k] \in ModelType
             /\ models'[k].failed = models[k].failed
             /\ models'[k].status = "active" =>
                  ActivationAllowed(models'[k].failed, models'[k].override)
  <2>1. models[k].status = "active" =>
           ActivationAllowed(models[k].failed, models[k].override)
    BY DEF RegistryInv, Validated, ModelIds
  <2>2. CASE k = m
    <3>1. models'[k] = [models[k] EXCEPT
             !.status = Written(models[k].status, req[r].seen, "active"),
             !.override = models[k].override \/ needed]
      BY <2>2 DEF CommitActivation
    <3>2. Written(models[k].status, req[r].seen, "active") \in Statuses
      BY RowFacts DEF Written, Statuses
    <3>3. needed \in BOOLEAN
      BY DEF ActivationAllowed
    <3>4. models'[k] \in ModelType /\ models'[k].failed = models[k].failed
          /\ models'[k].override = (models[k].override \/ needed)
      BY <3>1, <3>2, <3>3, RowFacts DEF ModelType
    <3>5. ActivationAllowed(models[k].failed, models[k].override \/ needed)
      BY <1>1, <2>2, SoundFacts, RowFacts, ActivationValidates
    <3> QED
      BY <3>4, <3>5
  <2>3. CASE k # m /\ k \in req[r].others
    <3>1. models'[k] = [models[k] EXCEPT !.status = "retired"]
      BY <2>3 DEF CommitActivation
    <3> QED
      BY <3>1, RowFacts DEF ModelType, Statuses
  <2>4. CASE k # m /\ k \notin req[r].others
    <3>1. models'[k] = models[k]
      BY <2>4 DEF CommitActivation
    <3> QED
      BY <2>1, <3>1, RowFacts
  <2> QED
    BY <2>2, <2>3, <2>4
<1>5. models' \in Seq(ModelType) /\ Len(models') = Len(models)
  <2>1. DOMAIN models' = 1 .. Len(models)
    BY DEF CommitActivation, ModelIds
  <2>2. \A k \in 1 .. Len(models) : models'[k] \in ModelType
    BY <1>4 DEF ModelIds
  <2>3. Len(models) \in Nat
    BY DEF RegistryInv
  <2>4. models' \in [1 .. Len(models) -> ModelType]
    BY <2>1, <2>2 DEF CommitActivation, ModelIds
  <2> QED
    BY <2>3, <2>4
<1>6. Extends(models', models) /\ Validated(models')
  BY <1>4, <1>5 DEF Extends, Validated, RegistryInv, ModelIds
<1>7. RunsRefer(runs', models') /\ clock' \in Nat
  BY <1>5 DEF RunsRefer, RegistryInv, CommitActivation
<1>8. Sound(x, models')
  <2> HIDE DEF x, m
  <2>1. \A i \in DOMAIN x.todo : x.todo[i] \in 1 .. Len(models')
    BY <1>1, <1>2, <1>5 DEF ModelIds
  <2>2. req[r].others \subseteq (1 .. Len(models)) \ {m}
    BY SoundFacts DEF Sound, m
  <2>3. x.others \subseteq (1 .. Len(models')) \ {x.model}
    BY <1>2, <1>5, <2>2
  <2>4. x.todo # <<>>
    BY <1>2
  <2> QED
    BY <1>1, <1>2, <1>5, <2>1, <2>3, <2>4 DEF Sound, ForModel, ModelIds
<1> QED
  BY <1>3, <1>6, <1>7, <1>8, RequestMoves

LEMMA ReadForRetirementInv ==
    ASSUME RegistryInv, NEW r \in Requests, ReadForRetirement(r) PROVE RegistryInv'
<1> DEFINE x == [req[r] EXCEPT !.pc = "retire", !.seen = models[req[r].model].status]
<1>1. req[r].model \in ModelIds
  BY SoundFacts DEF ReadForRetirement, Sound, ForModel, ModelIds
<1>2. /\ x \in RequestType /\ x.pc = "retire" /\ x.model = req[r].model
      /\ x.others = req[r].others /\ x.todo = req[r].todo
  BY <1>1, SoundFacts, RowFacts DEF RequestType, Running
<1>3. req' = [req EXCEPT ![r] = x]
  BY DEF ReadForRetirement
<1> HIDE DEF x
<1>4. Sound(x, models)
  BY <1>1, <1>2, SoundFacts DEF Sound, ForModel, ModelIds
<1> QED
  BY <1>3, <1>4, RequestReads DEF ReadForRetirement

\* A change of one status to anything but "active" keeps the table validated.
LEMMA StatusStep ==
    ASSUME RegistryInv, NEW m \in ModelIds, NEW status \in Statuses,
           models' = [models EXCEPT ![m].status = status],
           status = "active" => models[m].status = "active"
    PROVE  Extends(models', models) /\ Validated(models') /\ Len(models') = Len(models)
<1> DEFINE row == [models[m] EXCEPT !.status = status]
<1>1. /\ row \in ModelType /\ row.failed = models[m].failed
      /\ row.override = models[m].override /\ row.status = status
  BY RowFacts DEF ModelType
<1>2. models' = [models EXCEPT ![m] = row]
  OBVIOUS
<1> HIDE DEF row
<1>3. models' \in Seq(ModelType) /\ Len(models') = Len(models)
  BY <1>1, <1>2 DEF RegistryInv, ModelIds
<1>4. \A k \in 1 .. Len(models) : models'[k] = IF k = m THEN row ELSE models[k]
  BY <1>2 DEF RegistryInv, ModelIds
<1>5. Extends(models', models)
  BY <1>1, <1>3, <1>4 DEF Extends, RegistryInv
<1>6. Validated(models')
  BY <1>1, <1>3, <1>4 DEF Validated, RegistryInv, ModelIds
<1> QED
  BY <1>3, <1>5, <1>6

LEMMA CommitRetirementInv ==
    ASSUME RegistryInv, NEW r \in Requests, CommitRetirement(r) PROVE RegistryInv'
<1> DEFINE m == req[r].model
           status == Written(models[m].status, req[r].seen, "retired")
<1>1. m \in ModelIds
  BY SoundFacts DEF CommitRetirement, Sound, ForModel, ModelIds
<1>2. status \in Statuses /\ (status = "active" => models[m].status = "active")
  BY <1>1, RowFacts DEF Written, Statuses
<1>3. models' = [models EXCEPT ![m].status = status]
  BY <1>1 DEF CommitRetirement
<1> HIDE DEF m, status
<1>4. Extends(models', models) /\ Validated(models') /\ Len(models') = Len(models)
  BY <1>1, <1>2, <1>3, StatusStep
<1>5. RunsRefer(runs', models') /\ clock' \in Nat
  BY <1>4 DEF RunsRefer, RegistryInv, CommitRetirement
<1> QED
  BY <1>4, <1>5, DoneStep DEF CommitRetirement

LEMMA ReadActiveModelsInv ==
    ASSUME RegistryInv, NEW r \in Requests, ReadActiveModels(r) PROVE RegistryInv'
<1> DEFINE due == ActiveAt(req[r].now)
<1>1. CASE Done(r)
  BY <1>1, DoneReading DEF ReadActiveModels
<1>2. CASE \E n \in ModelIds : \E s \in [1 .. n -> due] :
             req' = [req EXCEPT ![r].pc = "check", ![r].todo = s]
  <2>0. PICK n \in ModelIds : \E s \in [1 .. n -> due] :
          req' = [req EXCEPT ![r].pc = "check", ![r].todo = s]
    BY <1>2
  <2>1. PICK s \in [1 .. n -> due] :
          req' = [req EXCEPT ![r].pc = "check", ![r].todo = s]
    BY <2>0
  <2> DEFINE x == [req[r] EXCEPT !.pc = "check", !.todo = s]
  <2>2. due \subseteq ModelIds /\ due \subseteq Nat
    BY DEF ActiveAt, ModelIds
  <2>3. n \in Nat /\ n > 0 /\ s \in [1 .. n -> Nat]
    BY <2>1, <2>2 DEF ModelIds
  <2>4. s \in Seq(Nat) /\ Len(s) = n /\ s # <<>>
    BY <2>3
  <2>5. /\ x \in RequestType /\ x.pc = "check" /\ x.model = req[r].model
        /\ x.others = req[r].others /\ x.todo = s
    BY <2>4, SoundFacts, CheckFacts
  <2>6. req' = [req EXCEPT ![r] = x]
    BY <2>1
  <2> HIDE DEF x
  <2>7. \A i \in DOMAIN x.todo : x.todo[i] \in 1 .. Len(models)
    BY <2>1, <2>2, <2>5 DEF ModelIds
  <2>8. Sound(x, models)
    BY <2>4, <2>5, <2>7, SoundFacts DEF Sound, ForModel
  <2> QED
    BY <2>6, <2>8, RequestReads DEF ReadActiveModels
<1> QED
  BY <1>1, <1>2 DEF ReadActiveModels

LEMMA MonitorModelInv ==
    ASSUME RegistryInv, NEW r \in Requests, MonitorModel(r) PROVE RegistryInv'
<1> DEFINE m == Head(req[r].todo)
           rest == Tail(req[r].todo)
<1>1. req[r].todo \in Seq(Nat) /\ req[r].todo # <<>>
  BY SoundFacts DEF MonitorModel, Sound
<1>2. \A i \in 1 .. Len(req[r].todo) : req[r].todo[i] \in ModelIds
  BY <1>1, SoundFacts DEF Sound, ModelIds
<1>3. m \in ModelIds /\ m \in Nat \ {0}
  BY <1>1, <1>2 DEF ModelIds
<1>4. rest \in Seq(Nat) /\ \A i \in DOMAIN rest : rest[i] \in ModelIds
  BY <1>1, <1>2
<1>5. PICK result \in Results :
        /\ runs' = Append(runs, [model |-> m, asOf |-> req[r].now, status |-> result])
        /\ models' = IF Disables(result) THEN [models EXCEPT ![m].status = "retired"]
                     ELSE models
  BY DEF MonitorModel
<1>6. /\ \/ rest = <<>> /\ Done(r)
         \/ rest # <<>> /\ req' = [req EXCEPT ![r].todo = rest]
      /\ clock' = clock /\ req[r].pc = "check"
  BY <1>1 DEF MonitorModel
<1> HIDE DEF m, rest
<1>7. Extends(models', models) /\ Validated(models') /\ Len(models') = Len(models)
  <2>1. CASE Disables(result)
    <3>1. models' = [models EXCEPT ![m].status = "retired"]
      BY <1>5, <2>1
    <3> QED
      BY <1>3, <3>1, StatusStep DEF Statuses
  <2>2. CASE ~Disables(result)
    <3>1. models' = models
      BY <1>5, <2>2
    <3> QED
      BY <3>1, ExtendsItself DEF RegistryInv
  <2> QED
    BY <2>1, <2>2
<1>8. RunsRefer(runs', models')
  <2> DEFINE run == [model |-> m, asOf |-> req[r].now, status |-> result]
  <2>1. run \in RunType /\ run.model = m
    BY <1>3, SoundFacts DEF RunType
  <2>2. runs' = Append(runs, run)
    BY <1>5
  <2> HIDE DEF run
  <2>3. runs \in Seq(RunType) /\ \A n \in 1 .. Len(runs) : runs[n].model \in ModelIds
    BY DEF RegistryInv, RunsRefer, ModelIds
  <2>4. runs' \in Seq(RunType) /\ \A n \in 1 .. Len(runs') : runs'[n].model \in ModelIds
    BY <1>3, <2>1, <2>2, <2>3
  <2> QED
    BY <1>7, <2>4 DEF RunsRefer, ModelIds
<1>9. clock' \in Nat
  BY <1>6 DEF RegistryInv
<1>10. CASE rest = <<>>
  BY <1>6, <1>7, <1>8, <1>9, <1>10, DoneStep
<1>11. CASE rest # <<>>
  <2> DEFINE x == [req[r] EXCEPT !.todo = rest]
  <2>1. /\ x \in RequestType /\ x.pc = "check" /\ x.model = req[r].model
        /\ x.others = req[r].others /\ x.todo = rest
    BY <1>4, <1>6, SoundFacts DEF RequestType
  <2>2. req' = [req EXCEPT ![r] = x]
    BY <1>6, <1>11
  <2> HIDE DEF x
  <2>3. \A i \in DOMAIN x.todo : x.todo[i] \in 1 .. Len(models')
    BY <1>4, <1>7, <2>1 DEF ModelIds
  <2>4. Sound(x, models')
    BY <1>7, <1>11, <2>1, <2>3, SoundFacts DEF Sound, ForModel
  <2> QED
    BY <1>7, <1>8, <1>9, <2>2, <2>4, RequestMoves
<1> QED
  BY <1>10, <1>11

LEMMA CrashInv == ASSUME RegistryInv, NEW r \in Requests, Crash(r) PROVE RegistryInv'
  BY DoneReading DEF Crash

-----------------------------------------------------------------------------
LEMMA InvStep == RegistryInv /\ [Next]_vars => RegistryInv'
<1> SUFFICES ASSUME RegistryInv, [Next]_vars PROVE RegistryInv'
  OBVIOUS
<1>1. CASE Tick
  BY <1>1, TickInv
<1>2. CASE RunBacktest
  BY <1>2, RunBacktestInv
<1>3. CASE \E r \in Requests : Begin(r) \/ Step(r) \/ Crash(r)
  <2>1. PICK r \in Requests : Begin(r) \/ Step(r) \/ Crash(r)
    BY <1>3
  <2> QED
    BY <2>1, BeginInv, CrashInv, ReadForActivationInv, ReadOthersInv, CommitActivationInv,
       ReadForRetirementInv, CommitRetirementInv, ReadActiveModelsInv, MonitorModelInv
       DEF Step
<1>4. CASE UNCHANGED vars
  BY <1>4 DEF vars, RegistryInv
<1> QED
  BY <1>1, <1>2, <1>3, <1>4 DEF Next

\* Rows refer to rows that exist and locals keep their types, however requests
\* and jobs interleave (set_status, monitor_model).
THEOREM RegistryTypes == Spec => []TypeOK
<1>1. Spec => []RegistryInv
  BY InvInit, InvStep, PTL DEF Spec
<1> QED
  BY <1>1, InvImplies, PTL

\* An active model is validated, or failed only overridable checks and has its
\* override on record, even where activations and retirements race (activate).
THEOREM OnlyValidatedModelsAreActive == Spec => []ActiveIsValidated
<1>1. Spec => []RegistryInv
  BY InvInit, InvStep, PTL DEF Spec
<1> QED
  BY <1>1, InvImplies, PTL

-----------------------------------------------------------------------------
(* The model the engine uses                                                *)

LEMMA LargestExists ==
    ASSUME NEW S, NEW b \in Nat, S \subseteq Nat, S # {}, \A x \in S : x <= b
    PROVE  \E x \in S : \A y \in S : y <= x
<1> DEFINE T == {b - x : x \in S}
<1>1. T \subseteq Nat /\ T # {}
  <2>1. PICK x \in S : TRUE
    OBVIOUS
  <2>2. b - x \in T
    BY <2>1
  <2>3. \A y \in S : b - y \in Nat
    OBVIOUS
  <2> QED
    BY <2>2, <2>3
<1>2. PICK d \in T : \A e \in T : ~(<<e, d>> \in OpToRel(<, Nat))
  BY <1>1, NatLessThanWellFounded, WFMin, Zenon
<1>3. PICK x \in S : d = b - x
  BY <1>2
<1>4. ASSUME NEW y \in S
      PROVE  y <= x
  <2>1. b - y \in T /\ b - y \in Nat /\ d \in Nat
    BY <1>1, <1>3
  <2>2. ~(b - y < d)
    BY <1>2, <2>1 DEF OpToRel
  <2> QED
    BY <1>3, <2>2
<1> QED
  BY <1>4

\* The registry names an active model of the horizon, if there is one.
LEMMA ActiveModelFacts ==
    RegistryInv =>
        \A h \in Horizons, t \in Nat :
            ActiveModel(h, t) # NoModel =>
                /\ ActiveModel(h, t) \in ModelIds
                /\ models[ActiveModel(h, t)].status = "active"
                /\ models[ActiveModel(h, t)].horizon = h
<1> SUFFICES ASSUME RegistryInv, NEW h \in Horizons, NEW t \in Nat,
                    ActiveModel(h, t) # NoModel
             PROVE  /\ ActiveModel(h, t) \in ModelIds
                    /\ models[ActiveModel(h, t)].status = "active"
                    /\ models[ActiveModel(h, t)].horizon = h
  OBVIOUS
<1> DEFINE live == {m \in ActiveAt(t) : models[m].horizon = h}
           First(m) == \A k \in live \ {m} :
              \/ models[m].validFrom > models[k].validFrom
              \/ models[m].validFrom = models[k].validFrom /\ m > k
           froms == {models[m].validFrom : m \in live}
<1>1. live # {} /\ ActiveModel(h, t) = CHOOSE m \in live : First(m)
  BY DEF ActiveModel
<1>2. /\ live \subseteq Nat /\ Len(models) \in Nat /\ \A m \in live : m <= Len(models)
      /\ \A m \in live : models[m].validFrom \in Nat /\ models[m].validFrom <= t
  <2>1. Len(models) \in Nat
    BY DEF RegistryInv
  <2>2. ASSUME NEW m \in live
        PROVE  m \in 1 .. Len(models) /\ models[m] \in ModelType /\ models[m].validFrom <= t
    BY RowFacts DEF ActiveAt, ModelIds
  <2> QED
    BY <2>1, <2>2 DEF ModelType
<1>3. PICK m \in live : First(m)
  <2>1. froms \subseteq Nat /\ froms # {} /\ \A x \in froms : x <= t
    <3>1. PICK k \in live : TRUE
      BY <1>1
    <3>2. models[k].validFrom \in froms
      BY <3>1
    <3> QED
      BY <1>2, <3>2
  <2>2. PICK v \in froms : \A w \in froms : w <= v
    <3> HIDE DEF froms
    <3> QED
      BY <2>1, LargestExists
  <2> DEFINE newest == {k \in live : models[k].validFrom = v}
  <2>3. newest \subseteq Nat /\ newest # {} /\ \A k \in newest : k <= Len(models)
    BY <1>2
  <2>4. PICK m \in newest : \A k \in newest : k <= m
    <3> HIDE DEF newest
    <3> QED
      BY <1>2, <2>3, LargestExists
  <2>5. ASSUME NEW k \in live \ {m}
        PROVE  \/ models[m].validFrom > models[k].validFrom
               \/ models[m].validFrom = models[k].validFrom /\ m > k
    <3>1. models[k].validFrom <= v /\ models[m].validFrom = v /\ m \in Nat /\ k \in Nat
      BY <1>2, <2>2, <2>4
    <3>2. models[k].validFrom = v => k <= m
      BY <2>4
    <3> QED
      BY <1>2, <2>1, <3>1, <3>2
  <2> QED
    BY <2>5
<1>4. (CHOOSE k \in live : First(k)) \in live
  BY <1>3
<1>5. ActiveModel(h, t) \in live
  BY <1>1, <1>4
<1> QED
  BY <1>5 DEF ActiveAt

\* What the engine uses is active and not blocked by its monitoring.
InUse(h) ==
    LET m == Estimator(h, clock) IN
    m # NoModel =>
        /\ m \in ModelIds /\ models[m].status = "active" /\ models[m].horizon = h
        /\ ~MonitorBlocked(m, clock)

EngineUses == \A h \in Horizons : InUse(h)

LEMMA EstimatorFacts == RegistryInv => EngineUses
<1> SUFFICES ASSUME RegistryInv, NEW h \in Horizons PROVE InUse(h)
  BY DEF EngineUses
<1>1. clock \in Nat
  BY DEF RegistryInv
<1>2. Estimator(h, clock) # NoModel =>
        /\ Estimator(h, clock) = ActiveModel(h, clock)
        /\ ~MonitorBlocked(ActiveModel(h, clock), clock)
  BY DEF Estimator
<1> QED
  BY <1>1, <1>2, ActiveModelFacts DEF InUse

-----------------------------------------------------------------------------
(* One request or job at a time                                             *)

OneAtATime == \A q, r \in Requests : q = r

\* A model with a run has been activated, and a failed one is retired.
RunsTold ==
    \A n \in RunIds :
        /\ models[runs[n].model].status # "candidate"
        /\ AutoDisable /\ runs[n].status = "FAIL" => models[runs[n].model].status = "retired"

OneActive ==
    \A k, m \in ModelIds :
        /\ models[k].status = "active" /\ models[m].status = "active"
        /\ models[k].horizon = models[m].horizon
        => k = m

\* What a request has read is still so.
StillSo(r) ==
    /\ req[r].pc \in {"others", "commit"} =>
          models[req[r].model].status = req[r].seen /\ req[r].seen # "retired"
    /\ req[r].pc = "commit" => Rivals(req[r].model) \subseteq req[r].others
    /\ req[r].pc = "check" =>
          \A i \in DOMAIN req[r].todo : models[req[r].todo[i]].status # "candidate"

SerialInv == RunsTold /\ OneActive /\ \A r \in Requests : StillSo(r)

\* A model stays of its horizon, a retired one retired, and none is a candidate again;
\* a new one is a candidate.
RowsKept ==
    /\ ModelIds \subseteq ModelIds'
    /\ \A k \in ModelIds :
         /\ models'[k].horizon = models[k].horizon
         /\ models[k].status = "retired" => models'[k].status = "retired"
         /\ models[k].status # "candidate" => models'[k].status # "candidate"
    /\ \A k \in ModelIds' \ ModelIds : models'[k].status = "candidate"

\* The models active after a step were active before it.
NoneActivated ==
    \A k \in ModelIds' : models'[k].status = "active" =>
        /\ k \in ModelIds /\ models[k].status = "active"
        /\ models'[k].horizon = models[k].horizon

LEMMA SerialInit == Init => SerialInv
<1> SUFFICES ASSUME Init PROVE SerialInv
  OBVIOUS
<1>1. RunIds = {} /\ ModelIds = {}
  BY DEF Init, RunIds, ModelIds
<1>2. \A r \in Requests : req[r].pc = "idle"
  BY DEF Init, Idle, Request
<1> QED
  BY <1>1, <1>2 DEF SerialInv, RunsTold, OneActive, StillSo

LEMMA RunsToldStay ==
    ASSUME RegistryInv, RunsTold, RowsKept, runs' = runs
    PROVE  RunsTold'
<1>1. \A n \in RunIds : runs[n].model \in ModelIds
  BY DEF RegistryInv, RunsRefer, RunIds, ModelIds
<1> QED
  BY <1>1 DEF RunsTold, RowsKept, RunIds

LEMMA OneActiveStays == ASSUME OneActive, NoneActivated PROVE OneActive'
<1> SUFFICES ASSUME NEW k \in ModelIds', NEW m \in ModelIds',
                    models'[k].status = "active", models'[m].status = "active",
                    models'[k].horizon = models'[m].horizon
             PROVE  k = m
  BY DEF OneActive
<1> QED
  BY DEF OneActive, NoneActivated

LEMMA TableStays == models' = models => RowsKept /\ NoneActivated
  BY DEF RowsKept, NoneActivated, ModelIds

-----------------------------------------------------------------------------
(* One lemma per action, for one request at a time                          *)

\* What a step keeps.
Kept == SerialInv' /\ RowsKept /\ NoneActivated

\* A step of the only request that changes no table.
LEMMA OnlyReads ==
    ASSUME OneAtATime, RegistryInv, SerialInv, NEW r \in Requests,
           models' = models, runs' = runs, StillSo(r)'
    PROVE  Kept
<1>1. RowsKept /\ NoneActivated
  BY TableStays
<1>2. RunsTold' /\ OneActive'
  BY <1>1, RunsToldStay, OneActiveStays DEF SerialInv
<1>3. \A q \in Requests : StillSo(q)'
  BY DEF OneAtATime
<1> QED
  BY <1>1, <1>2, <1>3 DEF Kept, SerialInv

LEMMA DoneStill ==
    ASSUME RegistryInv, NEW r \in Requests, Done(r)
    PROVE  StillSo(r)'
<1>1. req'[r].pc = "idle"
  BY DEF Done, Idle, Request, RegistryInv
<1> QED
  BY <1>1 DEF StillSo

LEMMA TickSerial == RegistryInv /\ SerialInv /\ Tick => Kept
<1> SUFFICES ASSUME RegistryInv, SerialInv, Tick PROVE Kept
  OBVIOUS
<1>1. RowsKept /\ NoneActivated
  BY TableStays DEF Tick
<1>2. RunsTold' /\ OneActive'
  BY <1>1, RunsToldStay, OneActiveStays DEF SerialInv, Tick
<1>3. \A q \in Requests : StillSo(q)'
  BY DEF SerialInv, StillSo, Tick, Rivals, ModelIds
<1> QED
  BY <1>1, <1>2, <1>3 DEF Kept, SerialInv

LEMMA RunBacktestSerial == RegistryInv /\ SerialInv /\ RunBacktest => Kept
<1> SUFFICES ASSUME RegistryInv, SerialInv, RunBacktest PROVE Kept
  OBVIOUS
<1>1. PICK h \in Horizons, from \in 0 .. clock, failed \in Validations :
        models' = Append(models, [horizon |-> h, validFrom |-> from, failed |-> failed,
                                  status |-> "candidate", override |-> FALSE])
  BY DEF RunBacktest
<1> DEFINE row == [horizon |-> h, validFrom |-> from, failed |-> failed,
                   status |-> "candidate", override |-> FALSE]
<1>2. row \in ModelType /\ row.status = "candidate"
  BY <1>1 DEF ModelType, Statuses, RegistryInv
<1>3. models' = Append(models, row)
  BY <1>1
<1> HIDE DEF row
<1>4. /\ ModelIds \subseteq ModelIds'
      /\ \A k \in ModelIds : models'[k] = models[k]
      /\ \A k \in ModelIds' \ ModelIds : models'[k].status = "candidate"
  BY <1>2, <1>3 DEF RegistryInv, ModelIds
<1>5. RowsKept /\ NoneActivated
  BY <1>4 DEF RowsKept, NoneActivated
<1>6. RunsTold' /\ OneActive'
  BY <1>5, RunsToldStay, OneActiveStays DEF SerialInv, RunBacktest
<1>7. ASSUME NEW q \in Requests
      PROVE  StillSo(q)'
  <2>1. req'[q] = req[q] /\ StillSo(q)
    BY DEF SerialInv, RunBacktest
  <2>2. req[q].pc \in {"others", "commit"} => req[q].model \in ModelIds
    BY SoundFacts DEF Sound, ForModel, ModelIds
  <2>3. req[q].model \in ModelIds => Rivals(req[q].model)' \subseteq Rivals(req[q].model)
    BY <1>4, <2>1 DEF Rivals
  <2>4. \A i \in DOMAIN req[q].todo : req[q].todo[i] \in ModelIds
    BY SoundFacts DEF Sound, ModelIds
  <2> QED
    BY <1>4, <2>1, <2>2, <2>3, <2>4 DEF StillSo
<1> QED
  BY <1>5, <1>6, <1>7 DEF Kept, SerialInv

LEMMA BeginSerial ==
    ASSUME OneAtATime, RegistryInv, SerialInv, NEW r \in Requests, Begin(r) PROVE Kept
<1>1. PICK kind \in Kinds, m \in ModelIds \cup {NoModel}, reason \in BOOLEAN :
        req' = [req EXCEPT ![r] = Request("read", kind, clock, m, reason)]
  BY DEF Begin, Kinds
<1>2. req'[r].pc = "read"
  BY <1>1 DEF Request, RegistryInv
<1> QED
  BY <1>2, OnlyReads DEF Begin, StillSo

LEMMA CrashSerial ==
    ASSUME OneAtATime, RegistryInv, SerialInv, NEW r \in Requests, Crash(r) PROVE Kept
  BY DoneStill, OnlyReads DEF Crash

LEMMA ReadForActivationSerial ==
    ASSUME OneAtATime, RegistryInv, SerialInv, NEW r \in Requests, ReadForActivation(r)
    PROVE  Kept
<1>1. CASE Done(r)
  BY <1>1, DoneStill, OnlyReads DEF ReadForActivation
<1>2. CASE ~Done(r)
  <2>1. /\ req' = [req EXCEPT ![r].pc = "others", ![r].seen = models[req[r].model].status]
        /\ models[req[r].model].status # "retired"
    BY <1>2 DEF ReadForActivation, MayActivate
  <2>2. /\ req'[r].pc = "others" /\ req'[r].model = req[r].model
        /\ req'[r].seen = models[req[r].model].status
    BY <2>1, SoundFacts DEF RequestType, RegistryInv
  <2>3. StillSo(r)'
    BY <2>1, <2>2 DEF StillSo, ReadForActivation
  <2> QED
    BY <2>3, OnlyReads DEF ReadForActivation
<1> QED
  BY <1>1, <1>2

LEMMA ReadOthersSerial ==
    ASSUME OneAtATime, RegistryInv, SerialInv, NEW r \in Requests, ReadOthers(r)
    PROVE  Kept
<1>1. /\ req'[r].pc = "commit" /\ req'[r].model = req[r].model
      /\ req'[r].seen = req[r].seen /\ req'[r].others = Rivals(req[r].model)
  BY SoundFacts DEF ReadOthers, RequestType, RegistryInv
<1>2. Rivals(req[r].model)' = Rivals(req[r].model)
  BY <1>1 DEF Rivals, ModelIds, ReadOthers
<1>3. StillSo(r)'
  BY <1>1, <1>2 DEF StillSo, ReadOthers, SerialInv, Rivals, ModelIds
<1> QED
  BY <1>3, OnlyReads DEF ReadOthers

LEMMA ReadForRetirementSerial ==
    ASSUME OneAtATime, RegistryInv, SerialInv, NEW r \in Requests, ReadForRetirement(r)
    PROVE  Kept
<1>1. req'[r].pc = "retire"
  BY SoundFacts DEF ReadForRetirement, RequestType, RegistryInv
<1> QED
  BY <1>1, OnlyReads DEF ReadForRetirement, StillSo

LEMMA ReadActiveModelsSerial ==
    ASSUME OneAtATime, RegistryInv, SerialInv, NEW r \in Requests, ReadActiveModels(r)
    PROVE  Kept
<1>1. CASE Done(r)
  BY <1>1, DoneStill, OnlyReads DEF ReadActiveModels
<1>2. CASE ~Done(r)
  <2>1. PICK n \in ModelIds : \E s \in [1 .. n -> ActiveAt(req[r].now)] :
          req' = [req EXCEPT ![r].pc = "check", ![r].todo = s]
    BY <1>2 DEF ReadActiveModels
  <2>2. PICK s \in [1 .. n -> ActiveAt(req[r].now)] :
          req' = [req EXCEPT ![r].pc = "check", ![r].todo = s]
    BY <2>1
  <2>3. req'[r].pc = "check" /\ req'[r].todo = s
    BY <2>2, SoundFacts DEF RequestType, RegistryInv
  <2>4. \A i \in DOMAIN s : models[s[i]].status = "active"
    BY <2>2 DEF ActiveAt
  <2>5. StillSo(r)'
    BY <2>3, <2>4 DEF StillSo, ReadActiveModels
  <2> QED
    BY <2>5, OnlyReads DEF ReadActiveModels
<1> QED
  BY <1>1, <1>2

\* Retiring one model, or leaving its status as it is.
LEMMA RetiringKeeps ==
    ASSUME RegistryInv, NEW m \in ModelIds, NEW status,
           models' = [models EXCEPT ![m].status = status],
           status \in {"retired", models[m].status}
    PROVE  RowsKept /\ NoneActivated /\ models'[m].status = status
<1> DEFINE row == [models[m] EXCEPT !.status = status]
<1>1. row.status = status /\ row.horizon = models[m].horizon
  BY RowFacts DEF ModelType
<1>2. models' = [models EXCEPT ![m] = row]
  OBVIOUS
<1> HIDE DEF row
<1>3. /\ ModelIds' = ModelIds
      /\ \A k \in ModelIds : models'[k] = IF k = m THEN row ELSE models[k]
  BY <1>2 DEF ModelIds, RegistryInv
<1> QED
  BY <1>1, <1>3 DEF RowsKept, NoneActivated

LEMMA CommitRetirementSerial ==
    ASSUME OneAtATime, RegistryInv, SerialInv, NEW r \in Requests, CommitRetirement(r)
    PROVE  Kept
<1> DEFINE m == req[r].model
           status == Written(models[m].status, req[r].seen, "retired")
<1>1. m \in ModelIds
  BY SoundFacts DEF CommitRetirement, Sound, ForModel, ModelIds
<1>2. status \in {"retired", models[m].status}
  BY DEF Written
<1>3. models' = [models EXCEPT ![m].status = status]
  BY <1>1 DEF CommitRetirement
<1> HIDE DEF m, status
<1>4. RowsKept /\ NoneActivated
  BY <1>1, <1>2, <1>3, RetiringKeeps
<1>5. RunsTold' /\ OneActive'
  BY <1>4, RunsToldStay, OneActiveStays DEF SerialInv, CommitRetirement
<1>6. \A q \in Requests : StillSo(q)'
  BY DoneStill DEF OneAtATime, CommitRetirement
<1> QED
  BY <1>4, <1>5, <1>6 DEF Kept, SerialInv

LEMMA MonitorModelSerial ==
    ASSUME OneAtATime, RegistryInv, SerialInv, NEW r \in Requests, MonitorModel(r)
    PROVE  Kept
<1> DEFINE m == Head(req[r].todo)
           rest == Tail(req[r].todo)
<1>1. /\ req[r].todo \in Seq(Nat) /\ req[r].todo # <<>>
      /\ \A i \in DOMAIN req[r].todo : req[r].todo[i] \in ModelIds
      /\ \A i \in DOMAIN req[r].todo : models[req[r].todo[i]].status # "candidate"
  BY SoundFacts DEF MonitorModel, Sound, ModelIds, SerialInv, StillSo
<1>2. /\ m \in ModelIds /\ models[m].status # "candidate"
      /\ \A i \in DOMAIN rest : rest[i] \in ModelIds /\ models[rest[i]].status # "candidate"
  BY <1>1
<1>3. PICK result \in Results :
        /\ runs' = Append(runs, [model |-> m, asOf |-> req[r].now, status |-> result])
        /\ models' = IF Disables(result) THEN [models EXCEPT ![m].status = "retired"]
                     ELSE models
  BY DEF MonitorModel
<1>4. /\ \/ rest = <<>> /\ Done(r)
         \/ rest # <<>> /\ req' = [req EXCEPT ![r].todo = rest]
      /\ req[r].pc = "check"
  BY DEF MonitorModel
<1> HIDE DEF m, rest
<1>5. RowsKept /\ NoneActivated /\ (Disables(result) => models'[m].status = "retired")
  <2>1. CASE Disables(result)
    BY <1>2, <1>3, <2>1, RetiringKeeps
  <2>2. CASE ~Disables(result)
    BY <1>3, <2>2, TableStays
  <2> QED
    BY <2>1, <2>2
<1>6. RunsTold'
  <2> DEFINE run == [model |-> m, asOf |-> req[r].now, status |-> result]
  <2>1. run.model = m /\ run.status = result /\ runs' = Append(runs, run)
    BY <1>3
  <2> HIDE DEF run
  <2>2. /\ runs \in Seq(RunType) /\ \A n \in RunIds : runs[n].model \in ModelIds
    BY DEF RegistryInv, RunsRefer, RunIds, ModelIds
  <2>3. \A n \in RunIds' : (n \in RunIds /\ runs'[n] = runs[n]) \/ runs'[n] = run
    BY <2>1, <2>2 DEF RunIds
  <2>4. models'[m].status # "candidate"
    BY <1>2, <1>5 DEF RowsKept
  <2>5. AutoDisable /\ result = "FAIL" => models'[m].status = "retired"
    BY <1>5 DEF Disables
  <2>6. ASSUME NEW n \in RunIds'
        PROVE  /\ models'[runs'[n].model].status # "candidate"
               /\ AutoDisable /\ runs'[n].status = "FAIL" =>
                     models'[runs'[n].model].status = "retired"
    <3>1. CASE n \in RunIds /\ runs'[n] = runs[n]
      BY <1>5, <2>2, <3>1 DEF SerialInv, RunsTold, RowsKept
    <3>2. CASE runs'[n] = run
      BY <2>1, <2>4, <2>5, <3>2
    <3> QED
      BY <2>3, <3>1, <3>2
  <2> QED
    BY <2>6 DEF RunsTold
<1>7. StillSo(r)'
  <2>1. CASE Done(r)
    BY <2>1, DoneStill
  <2>2. CASE req' = [req EXCEPT ![r].todo = rest]
    <3>1. req'[r].pc = "check" /\ req'[r].todo = rest
      BY <1>4, <2>2, SoundFacts DEF RequestType, RegistryInv
    <3> QED
      BY <1>2, <1>5, <3>1 DEF StillSo, RowsKept
  <2> QED
    BY <1>4, <2>1, <2>2
<1>8. OneActive' /\ \A q \in Requests : StillSo(q)'
  BY <1>5, <1>7, OneActiveStays DEF SerialInv, OneAtATime
<1> QED
  BY <1>5, <1>6, <1>8 DEF Kept, SerialInv

\* What an activation does: the model alone is activated, and its rivals go.
LEMMA CommitActivationRows ==
    ASSUME RegistryInv, SerialInv, NEW r \in Requests, CommitActivation(r)
    PROVE  /\ req[r].model \in ModelIds /\ ModelIds' = ModelIds
           /\ models'[req[r].model].status = "active"
           /\ \A k \in ModelIds :
                /\ models'[k].horizon = models[k].horizon
                /\ k # req[r].model =>
                     /\ models'[k].status \in {models[k].status, "retired"}
                     /\ models'[k].status = "active" => k \notin Rivals(req[r].model)
<1> DEFINE m == req[r].model
<1>1. m \in ModelIds
  BY SoundFacts DEF CommitActivation, Sound, ForModel, ModelIds
<1>2. models[m].status = req[r].seen /\ Rivals(m) \subseteq req[r].others
  BY DEF SerialInv, StillSo, CommitActivation
<1>3. ModelIds' = ModelIds
  <2>1. DOMAIN models' = 1 .. Len(models)
    BY DEF CommitActivation, ModelIds
  <2>2. models \in Seq(ModelType) /\ models' \in Seq(ModelType)
    BY CommitActivationInv DEF RegistryInv
  <2>3. Len(models') = Len(models)
    BY <2>1, <2>2
  <2> QED
    BY <2>3 DEF ModelIds
<1>4. models'[m].status = "active" /\ models'[m].horizon = models[m].horizon
  <2>1. models'[m] = [models[m] EXCEPT
           !.status = Written(models[m].status, req[r].seen, "active"),
           !.override = models[m].override \/ ~ActivationAllowed(models[m].failed, FALSE)]
    BY <1>1 DEF CommitActivation
  <2>2. Written(models[m].status, req[r].seen, "active") = "active"
    BY <1>2 DEF Written
  <2> QED
    BY <1>1, <2>1, <2>2, RowFacts DEF ModelType
<1>5. ASSUME NEW k \in ModelIds, k # m
      PROVE  /\ models'[k].horizon = models[k].horizon
             /\ models'[k].status \in {models[k].status, "retired"}
             /\ models'[k].status = "active" => k \notin Rivals(m)
  <2>1. models'[k] = IF k \in req[r].others THEN [models[k] EXCEPT !.status = "retired"]
                     ELSE models[k]
    BY <1>5 DEF CommitActivation
  <2> QED
    BY <1>2, <2>1, RowFacts DEF ModelType
<1> QED
  BY <1>1, <1>3, <1>4, <1>5

\* A model that becomes active has never been monitored: until it is, the engine
\* does not use it.
NewsIsUnchecked ==
    \A k \in ModelIds' : models'[k].status = "active" =>
        \/ /\ k \in ModelIds /\ models[k].status = "active"
           /\ models'[k].horizon = models[k].horizon
        \/ \A n \in RunIds' : runs'[n].model # k

LEMMA CommitActivationSerial ==
    ASSUME OneAtATime, RegistryInv, SerialInv, NEW r \in Requests, CommitActivation(r)
    PROVE  SerialInv' /\ RowsKept /\ NewsIsUnchecked
<1> DEFINE m == req[r].model
<1>1. /\ m \in ModelIds /\ ModelIds' = ModelIds /\ models'[m].status = "active"
      /\ \A k \in ModelIds :
           /\ models'[k].horizon = models[k].horizon
           /\ k # m => /\ models'[k].status \in {models[k].status, "retired"}
                       /\ models'[k].status = "active" => k \notin Rivals(m)
  BY CommitActivationRows
<1>2. models[m].status # "retired" /\ runs' = runs
  BY DEF SerialInv, StillSo, CommitActivation
<1>3. req'[r].pc = "check" /\ req'[r].todo = <<m>>
  BY SoundFacts DEF CommitActivation, RegistryInv, RequestType
<1> HIDE DEF m
<1>4. RowsKept
  BY <1>1, <1>2 DEF RowsKept
<1>5. RunsTold'
  BY <1>2, <1>4, RunsToldStay DEF SerialInv
<1>6. OneActive'
  <2>1. \A k \in ModelIds : k # m /\ models'[k].status = "active" =>
           models[k].status = "active" /\ models[k].horizon # models[m].horizon
    BY <1>1 DEF Rivals
  <2> QED
    BY <1>1, <2>1 DEF OneActive, SerialInv
<1>7. \A q \in Requests : StillSo(q)'
  <2>1. \A i \in DOMAIN <<m>> : <<m>>[i] = m
    OBVIOUS
  <2>2. StillSo(r)'
    BY <1>1, <1>3, <2>1 DEF StillSo
  <2> QED
    BY <2>2 DEF OneAtATime
<1>8. NewsIsUnchecked
  <2>1. CASE models[m].status = "active"
    BY <1>1, <2>1 DEF NewsIsUnchecked
  <2>2. CASE models[m].status = "candidate"
    <3>1. \A n \in RunIds : runs[n].model # m
      BY <2>2 DEF SerialInv, RunsTold
    <3> QED
      BY <1>1, <1>2, <3>1 DEF NewsIsUnchecked, RunIds
  <2> QED
    BY <1>1, <1>2, <2>1, <2>2, RowFacts DEF Statuses
<1> QED
  BY <1>4, <1>5, <1>6, <1>7, <1>8 DEF SerialInv

LEMMA SerialStep ==
    OneAtATime /\ RegistryInv /\ SerialInv /\ [Next]_vars =>
        SerialInv' /\ RowsKept /\ NewsIsUnchecked
<1> SUFFICES ASSUME OneAtATime, RegistryInv, SerialInv, [Next]_vars
             PROVE  SerialInv' /\ RowsKept /\ NewsIsUnchecked
  OBVIOUS
<1>1. Kept => SerialInv' /\ RowsKept /\ NewsIsUnchecked
  BY DEF Kept, NoneActivated, NewsIsUnchecked
<1>2. CASE Tick \/ RunBacktest
  BY <1>1, <1>2, TickSerial, RunBacktestSerial
<1>3. ASSUME NEW r \in Requests, Begin(r) \/ Step(r) \/ Crash(r)
      PROVE  SerialInv' /\ RowsKept /\ NewsIsUnchecked
  <2>1. CASE CommitActivation(r)
    BY <2>1, CommitActivationSerial
  <2> QED
    BY <1>1, <1>3, <2>1, BeginSerial, CrashSerial, ReadForActivationSerial, ReadOthersSerial,
       ReadForRetirementSerial, CommitRetirementSerial, ReadActiveModelsSerial,
       MonitorModelSerial DEF Step
<1>4. CASE UNCHANGED vars
  <2>1. RowsKept /\ NoneActivated
    BY <1>4, TableStays DEF vars
  <2>2. RunsTold' /\ OneActive'
    BY <1>4, <2>1, RunsToldStay, OneActiveStays DEF SerialInv, vars
  <2>3. \A q \in Requests : StillSo(q)'
    BY <1>4 DEF SerialInv, StillSo, vars, Rivals, ModelIds
  <2> QED
    BY <1>1, <2>1, <2>2, <2>3 DEF Kept, SerialInv
<1> QED
  BY <1>2, <1>3, <1>4 DEF Next

LEMMA SerialInvariant == ASSUME OneAtATime PROVE Spec => [](RegistryInv /\ SerialInv)
<1>1. RegistryInv /\ SerialInv /\ [Next]_vars => (RegistryInv /\ SerialInv)'
  BY InvStep, SerialStep
<1> QED
  BY <1>1, InvInit, SerialInit, PTL DEF Spec

-----------------------------------------------------------------------------
(* What the engine may use                                                  *)

LEMMA FailedAreOut == RegistryInv /\ SerialInv => FailedIsOut
<1> SUFFICES ASSUME RegistryInv, SerialInv, AutoDisable,
                    NEW n \in RunIds, runs[n].status = "FAIL", NEW h \in Horizons,
                    Estimator(h, clock) = runs[n].model
             PROVE  FALSE
  BY DEF FailedIsOut
<1>1. runs[n].model \in ModelIds /\ runs[n].model # NoModel
  BY DEF RegistryInv, RunsRefer, RunIds, ModelIds, NoModel
<1>2. models[runs[n].model].status = "active"
  BY <1>1, EstimatorFacts DEF EngineUses, InUse
<1> QED
  BY <1>2 DEF SerialInv, RunsTold

LEMMA UnknownAreBounded == AutoDisable /\ RegistryInv /\ SerialInv => UnknownIsBounded
<1> SUFFICES ASSUME AutoDisable, RegistryInv, SerialInv, NEW h \in Horizons,
                    Estimator(h, clock) # NoModel,
                    NEW n \in RunsOf(Estimator(h, clock), clock), runs[n].status = "UNKNOWN",
                    \A k \in RunsOf(Estimator(h, clock), clock) :
                        runs[k].status \in {"PASS", "WARN"} => Later(n, k)
             PROVE  clock - runs[n].asOf <= MaxUnknownDays
  BY DEF UnknownIsBounded
<1> DEFINE ids == RunsOf(Estimator(h, clock), clock)
<1>1. /\ Estimator(h, clock) \in ModelIds /\ models[Estimator(h, clock)].status = "active"
      /\ ~MonitorBlocked(Estimator(h, clock), clock)
  BY EstimatorFacts DEF EngineUses, InUse
<1>2. \A k \in ids : k \in Nat /\ runs[k] \in RunType /\ runs[k].status # "FAIL"
  BY <1>1 DEF RunsOf, RunIds, RegistryInv, RunsRefer, SerialInv, RunsTold
<1>3. ASSUME NEW k \in ids, k = n \/ Later(k, n)
      PROVE  runs[k].status = "UNKNOWN"
  <2>1. Later(k, n) => ~Later(n, k)
    BY <1>2 DEF Later, RunType
  <2>2. k # n => runs[k].status \notin {"PASS", "WARN"}
    BY <1>3, <2>1
  <2> QED
    BY <1>2, <2>2 DEF RunType, Results
<1>4. n \in UnknownStreak(ids)
  BY <1>3 DEF UnknownStreak
<1>5. ~(clock - runs[n].asOf > MaxUnknownDays)
  BY <1>1, <1>4 DEF MonitorBlocked
<1> QED
  BY <1>2, <1>5, BoundsAssumption DEF RegistryInv, RunType

\* What NoSilentHandOver says of a step and a horizon.
HandsOver(h) ==
    Estimator(h, clock) # Estimator(h, clock)' =>
        Estimator(h, clock) = NoModel \/ Estimator(h, clock)' = NoModel

LEMMA NoHandOver ==
    ASSUME RegistryInv, RegistryInv', SerialInv, SerialInv', RowsKept, NewsIsUnchecked,
           NEW h \in Horizons
    PROVE  HandsOver(h)
<1> DEFINE a == Estimator(h, clock)
           b == Estimator(h, clock)'
<1> SUFFICES ASSUME a # NoModel, b # NoModel PROVE a = b
  BY DEF HandsOver
<1>1. InUse(h) /\ InUse(h)'
  <2>1. EngineUses /\ EngineUses'
    BY EstimatorFacts, PTL
  <2> QED
    BY <2>1 DEF EngineUses
<1>2. /\ a \in ModelIds /\ models[a].status = "active" /\ models[a].horizon = h
      /\ b \in ModelIds' /\ models'[b].status = "active" /\ models'[b].horizon = h
  BY <1>1 DEF InUse
<1>3. \E n \in RunIds' : runs'[n].model = b
  BY <1>1 DEF InUse, MonitorBlocked, RunsOf
<1>4. b \in ModelIds /\ models[b].status = "active" /\ models'[b].horizon = models[b].horizon
  BY <1>2, <1>3 DEF NewsIsUnchecked
<1> QED
  BY <1>2, <1>4 DEF SerialInv, OneActive

-----------------------------------------------------------------------------
\* Where requests and jobs come one at a time, a model that has failed monitoring
\* is not used again (monitor_model with auto_disable, set_status).
THEOREM FailedStaysOut == ASSUME OneAtATime PROVE Spec => []FailedIsOut
  BY SerialInvariant, FailedAreOut, PTL

\* There, and with auto_disable, no model is used that has been UNKNOWN for longer
\* than allowed (MonitorBlocked).
THEOREM UnknownEnds == ASSUME OneAtATime, AutoDisable PROVE Spec => []UnknownIsBounded
  BY SerialInvariant, UnknownAreBounded, PTL

\* There, the engine never goes from one model of a horizon straight to another: the
\* new one is used after its first check only (set_status, monitor_model).
THEOREM HandOversAreSeen == ASSUME OneAtATime PROVE Spec => NoSilentHandOver
<1>1. (RegistryInv /\ SerialInv) /\ (RegistryInv /\ SerialInv)' /\ [Next]_vars =>
        \A h \in Horizons : HandsOver(h)
  BY SerialStep, NoHandOver
<1>2. (\A h \in Horizons : HandsOver(h)) =>
        \A h \in Horizons :
          LET before == Estimator(h, clock)
              after == Estimator(h, clock)'
          IN before # after => before = NoModel \/ after = NoModel
  BY DEF HandsOver
<1> QED
  BY <1>1, <1>2, SerialInvariant, PTL DEF Spec, NoSilentHandOver
=============================================================================
