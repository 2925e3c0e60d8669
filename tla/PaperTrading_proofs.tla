-------------------------- MODULE PaperTrading_proofs --------------------------
(***************************************************************************)
(* Theorems about PaperTrading for every number of requests, portfolios,    *)
(* stocks, proposals and decisions: types, money, keys, the steps of the    *)
(* ledger, the portfolio's lock, what a request is answered and what a fill *)
(* rests on; and, when order requests come one at a time (SerialSpec), what *)
(* holds up to the refinement of PaperLedger.                               *)
(***************************************************************************)
EXTENDS PaperTradingSerial, FiniteSetTheorems, SequenceTheorems, TLAPS

\* Steps at which a request has accepted its decision, and has recorded its
\* re-check.
Accepted == {"lock", "evaluate", "record", "reread", "position", "fill", "reject", "raced"}
Rechecked == {"reread", "position", "fill", "reject", "raced"}

\* The rows a request refers to exist.
RowsExist ==
    \A r \in Requests :
        /\ req[r].pc \in Accepted => req[r].intent.decision \in DecisionIds
        /\ req[r].pc \in Rechecked => req[r].recheck \in DecisionIds

TypeInv == TypeOK /\ RowsExist

LEMMA BlankType ==
    ASSUME NEW label \in Waiting \cup Running, NEW i \in Intents, NEW now \in Nat,
           NEW outcome \in Outcomes, NEW order \in Nat
    PROVE  /\ Blank(label, i, now, outcome, order) \in RequestType
           /\ Blank(label, i, now, outcome, order).pc = label
           /\ Blank(label, i, now, outcome, order).intent = i
  BY DEF Blank, RequestType, NoPosition, PositionType

LEMMA IdleType == Idle \in RequestType /\ Idle.pc = "idle"
<1>1. (CHOOSE i \in Intents : TRUE) \in Intents
  BY IntentsAssumption
<1> QED
  BY <1>1, BlankType DEF Idle, Waiting, Outcomes

LEMMA TypeInit == Init => TypeInv
<1> SUFFICES ASSUME Init PROVE TypeInv
  OBVIOUS
<1>1. req \in [Requests -> RequestType] /\ RowsExist
  BY IdleType DEF Init, RowsExist, Accepted, Rechecked
<1>2. positions \in [Portfolios -> [Stocks -> PositionType]]
  BY DEF Init, NoPosition, PositionType
<1>3. cash \in [Portfolios -> Int]
  BY PricesAssumption DEF Init
<1>4. decisions \in Seq(DecisionType) /\ orders \in Seq(OrderType)
  BY DEF Init
<1>5. lock \in [Portfolios -> Requests \cup {NoRequest}]
  BY DEF Init
<1>6. clock \in Nat /\ halted \in BOOLEAN /\ openTheses \subseteq Nat
  BY DEF Init
<1> QED
  BY <1>1, <1>2, <1>3, <1>4, <1>5, <1>6 DEF TypeInv, TypeOK

-----------------------------------------------------------------------------
\* One request moves to the local state x, the decisions table only grows.
LEMMA RequestMoves ==
    ASSUME TypeInv, NEW r \in Requests, NEW x \in RequestType,
           req' = [req EXCEPT ![r] = x],
           decisions' \in Seq(DecisionType), Len(decisions) <= Len(decisions'),
           x.pc \in Accepted => x.intent.decision \in DecisionIds',
           x.pc \in Rechecked => x.recheck \in DecisionIds'
    PROVE  req' \in [Requests -> RequestType] /\ RowsExist'
<1>1. req' \in [Requests -> RequestType]
  BY DEF TypeInv, TypeOK
<1>2. DecisionIds \subseteq DecisionIds'
  BY DEF TypeInv, TypeOK, DecisionIds
<1>3. ASSUME NEW q \in Requests
      PROVE  /\ req'[q].pc \in Accepted => req'[q].intent.decision \in DecisionIds'
             /\ req'[q].pc \in Rechecked => req'[q].recheck \in DecisionIds'
  <2>1. CASE q = r
    BY <2>1 DEF TypeInv, TypeOK
  <2>2. CASE q # r
    BY <2>2, <1>2 DEF TypeInv, TypeOK, RowsExist
  <2> QED
    BY <2>1, <2>2
<1> QED
  BY <1>1, <1>3 DEF RowsExist

\* The types of what a request holds, in reach of the provers.
LEMMA RequestFacts ==
    ASSUME TypeInv, NEW r \in Requests
    PROVE  /\ req[r] \in RequestType /\ req[r].pc \in Waiting \cup Running
           /\ req[r].intent \in Intents /\ req[r].intent \in IntentType
           /\ req[r].now \in Nat /\ req[r].cash \in Int /\ req[r].recheck \in Nat
           /\ req[r].price \in Nat /\ req[r].pos \in PositionType
           /\ req[r].verdict \in {"APPROVED", "REJECTED"} /\ req[r].haltSeen \in BOOLEAN
  BY IntentsAssumption DEF TypeInv, TypeOK, RequestType

\* An accepted request's decision carries a proposal.
LEMMA ProposalFacts ==
    ASSUME TypeInv, NEW r \in Requests, req[r].pc \in Accepted
    PROVE  /\ req[r].intent.decision \in DecisionIds
           /\ Proposal(r) \in Proposals /\ Proposal(r) \in ProposalType
           /\ Proposal(r).pf \in Portfolios /\ Proposal(r).stock \in Stocks
           /\ Proposal(r).qty \in Nat /\ Proposal(r).qty > 0 /\ Proposal(r).limit \in Nat
           /\ Proposal(r).side \in {"buy", "sell"}
           /\ Held(Proposal(r)) \in PositionType
<1>1. req[r].intent.decision \in DecisionIds
  BY DEF TypeInv, RowsExist
<1>2. decisions[req[r].intent.decision] \in DecisionType
  BY <1>1 DEF TypeInv, TypeOK, DecisionIds
<1>3. Proposal(r) \in Proposals /\ Proposal(r) \in ProposalType
  BY <1>2, ProposalsAssumption DEF Proposal, DecisionType
<1>4. Held(Proposal(r)) \in PositionType
  BY <1>3 DEF Held, TypeInv, TypeOK, ProposalType
<1> QED
  BY <1>1, <1>3, <1>4 DEF ProposalType

\* Answering forgets the locals.
LEMMA AnswerStep ==
    ASSUME TypeInv, NEW r \in Requests, NEW outcome \in Outcomes, NEW order \in Nat,
           Answer(r, outcome, order), decisions' = decisions
    PROVE  req' \in [Requests -> RequestType] /\ RowsExist'
<1> DEFINE x == Blank("answered", req[r].intent, 0, outcome, order)
<1>1. x \in RequestType /\ x.pc = "answered"
  BY BlankType, RequestFacts DEF Waiting
<1>2. req' = [req EXCEPT ![r] = x]
  BY DEF Answer
<1> HIDE DEF x
<1>3. x.pc \notin Accepted /\ x.pc \notin Rechecked
  BY <1>1 DEF Accepted, Rechecked
<1>4. decisions' \in Seq(DecisionType) /\ Len(decisions) <= Len(decisions')
  BY DEF TypeInv, TypeOK
<1> QED
  BY <1>1, <1>2, <1>3, <1>4, RequestMoves

\* A jump keeps the locals; it may not accept or record without having done so.
LEMMA GotoStep ==
    ASSUME TypeInv, NEW r \in Requests, NEW label \in Running,
           Goto(r, label), decisions' = decisions,
           label \in Accepted => req[r].intent.decision \in DecisionIds,
           label \in Rechecked => req[r].pc \in Rechecked
    PROVE  req' \in [Requests -> RequestType] /\ RowsExist'
<1> DEFINE x == [req[r] EXCEPT !.pc = label]
<1>1. x \in RequestType /\ x.pc = label /\ x.intent = req[r].intent
      /\ x.recheck = req[r].recheck
  BY RequestFacts DEF RequestType
<1>2. req' = [req EXCEPT ![r] = x]
  BY DEF Goto
<1>3. DecisionIds' = DecisionIds
  BY DEF DecisionIds
<1>4. label \in Rechecked => req[r].recheck \in DecisionIds
  BY DEF TypeInv, RowsExist
<1> HIDE DEF x
<1>5. decisions' \in Seq(DecisionType) /\ Len(decisions) <= Len(decisions')
  BY DEF TypeInv, TypeOK
<1>6. /\ x.pc \in Accepted => x.intent.decision \in DecisionIds'
      /\ x.pc \in Rechecked => x.recheck \in DecisionIds'
  BY <1>1, <1>3, <1>4
<1> QED
  BY <1>1, <1>2, <1>5, <1>6, RequestMoves

\* The verdict of the engine is one of two words.
LEMMA VerdictType ==
    ASSUME NEW p, NEW halt, NEW held, NEW available, NEW others
    PROVE  Verdict(p, halt, held, available, others) \in {"APPROVED", "REJECTED"}
  BY DEF Verdict

\* A step that leaves the tables alone keeps the types if it keeps the requests'.
LEMMA SameTables ==
    ASSUME TypeInv, UNCHANGED <<world, tables>>,
           lock' \in [Portfolios -> Requests \cup {NoRequest}],
           req' \in [Requests -> RequestType] /\ RowsExist'
    PROVE  TypeInv'
  BY DEF TypeInv, TypeOK, world, tables

LEMMA EnvironmentType == TypeInv /\ Environment => TypeInv'
<1> SUFFICES ASSUME TypeInv, Environment PROVE TypeInv'
  OBVIOUS
<1>1. CASE Tick
  BY <1>1 DEF Tick, TypeInv, TypeOK, RowsExist, DecisionIds, tables
<1>2. CASE Activate
  BY <1>2 DEF Activate, TypeInv, TypeOK, RowsExist, DecisionIds, tables
<1>3. CASE Deactivate
  BY <1>3 DEF Deactivate, TypeInv, TypeOK, RowsExist, DecisionIds, tables
<1>4. CASE Propose
  <2>1. PICK p \in Proposals, others \in BOOLEAN :
          /\ decisions' = Append(decisions,
               [proposal |-> p, decidedAt |-> clock, haltSeen |-> halted, recheckOf |-> 0,
                verdict |-> Verdict(p, halted, Held(p), cash[p.pf], others)])
          /\ UNCHANGED <<world, orders, cash, positions, openTheses, lock, req>>
    BY <1>4 DEF Propose
  <2> DEFINE d == [proposal |-> p, decidedAt |-> clock, haltSeen |-> halted, recheckOf |-> 0,
                   verdict |-> Verdict(p, halted, Held(p), cash[p.pf], others)]
  <2>2. d \in DecisionType
    BY VerdictType DEF DecisionType, TypeInv, TypeOK
  <2> HIDE DEF d
  <2>3. decisions' \in Seq(DecisionType) /\ DecisionIds \subseteq DecisionIds'
    BY <2>1, <2>2 DEF TypeInv, TypeOK, DecisionIds, d
  <2>4. RowsExist'
    BY <2>1, <2>3 DEF TypeInv, RowsExist
  <2> QED
    BY <2>1, <2>3, <2>4 DEF TypeInv, TypeOK, world
<1> QED
  BY <1>1, <1>2, <1>3, <1>4 DEF Environment

LEMMA BeginType ==
    ASSUME TypeInv, NEW r \in Requests, Begin(r)
    PROVE  TypeInv'
<1>1. PICK i \in Intents : req' = [req EXCEPT ![r] = Blank("lookup", i, clock, "none", 0)]
  BY DEF Begin
<1> DEFINE x == Blank("lookup", i, clock, "none", 0)
<1>2. clock \in Nat
  BY DEF TypeInv, TypeOK
<1>3. x \in RequestType /\ x.pc = "lookup"
  <2>1. "lookup" \in Waiting \cup Running /\ "none" \in Outcomes /\ 0 \in Nat
    BY DEF Running, Outcomes
  <2> QED
    BY <1>2, <2>1, BlankType
<1> HIDE DEF x
<1>4. x.pc \notin Accepted /\ x.pc \notin Rechecked
  BY <1>3 DEF Accepted, Rechecked
<1>5. req' = [req EXCEPT ![r] = x]
  BY <1>1 DEF x
<1>6. decisions' \in Seq(DecisionType) /\ Len(decisions) <= Len(decisions')
  BY DEF TypeInv, TypeOK, Begin, tables
<1>7. req' \in [Requests -> RequestType] /\ RowsExist'
  BY <1>3, <1>4, <1>5, <1>6, RequestMoves
<1>8. lock' \in [Portfolios -> Requests \cup {NoRequest}] /\ UNCHANGED <<world, tables>>
  BY DEF TypeInv, TypeOK, Begin
<1> QED
  BY <1>7, <1>8, SameTables

LEMMA CrashType ==
    ASSUME TypeInv, NEW r \in Requests, Crash(r)
    PROVE  TypeInv'
<1>1. Idle.pc \notin Accepted /\ Idle.pc \notin Rechecked
  BY IdleType DEF Accepted, Rechecked
<1>2. decisions' \in Seq(DecisionType) /\ Len(decisions) <= Len(decisions')
  BY DEF TypeInv, TypeOK, Crash, tables
<1>3. req' \in [Requests -> RequestType] /\ RowsExist'
  BY <1>1, <1>2, IdleType, RequestMoves DEF Crash
<1>4. lock' \in [Portfolios -> Requests \cup {NoRequest}] /\ UNCHANGED <<world, tables>>
  BY DEF TypeInv, TypeOK, Crash, Released
<1> QED
  BY <1>3, <1>4, SameTables

\* Steps that only read: the lookup, the checks, the reads and the answers.
LEMMA ReadingType ==
    ASSUME TypeInv, NEW r \in Requests,
           LookupKey(r) \/ CheckDecision(r) \/ Reread(r) \/ ReadPosition(r)
             \/ FillFails(r) \/ Raced(r)
    PROVE  TypeInv'
<1>1. UNCHANGED <<world, tables>> /\ lock' = lock /\ decisions' = decisions
  BY DEF LookupKey, CheckDecision, Reread, ReadPosition, FillFails, Raced, tables
<1>2. lock' \in [Portfolios -> Requests \cup {NoRequest}]
  BY <1>1 DEF TypeInv, TypeOK
<1>3. \A o \in OrderIds : o \in Nat
  BY DEF OrderIds, TypeInv, TypeOK
<1>4. WithKey(req[r].intent.key) \subseteq Nat
  BY <1>3 DEF WithKey
<1>5. /\ {"replay", "conflict", "refused", "error"} \subseteq Outcomes
      /\ {"check", "lock", "reject", "raced"} \subseteq Running
  BY DEF Outcomes, Running
<1>6. req' \in [Requests -> RequestType] /\ RowsExist'
  <2>1. CASE LookupKey(r)
    <3>1. CASE Goto(r, "check")
      <4>1. "check" \notin Accepted /\ "check" \notin Rechecked
        BY DEF Accepted, Rechecked
      <4> QED
        BY <1>1, <1>5, <3>1, <4>1, GotoStep
    <3>2. CASE \E o \in WithKey(req[r].intent.key) :
                  Answer(r, "replay", o) \/ Answer(r, "conflict", 0)
      BY <1>1, <1>4, <1>5, <3>2, AnswerStep
    <3> QED
      BY <2>1, <3>1, <3>2 DEF LookupKey
  <2>2. CASE CheckDecision(r)
    <3>1. CASE Orderable(req[r].intent.decision, req[r].now)
      <4>1. "lock" \notin Rechecked /\ req[r].intent.decision \in DecisionIds
        BY <3>1 DEF Orderable, Rechecked
      <4>2. Goto(r, "lock")
        BY <2>2, <3>1 DEF CheckDecision
      <4> QED
        BY <1>1, <1>5, <4>1, <4>2, GotoStep
    <3>2. CASE ~Orderable(req[r].intent.decision, req[r].now)
      BY <1>1, <1>5, <2>2, <3>2, AnswerStep DEF CheckDecision
    <3> QED
      BY <3>1, <3>2
  <2>3. ASSUME req[r].pc \in Rechecked, NEW label \in Rechecked, label \in Running,
               Goto(r, label)
        PROVE  req' \in [Requests -> RequestType] /\ RowsExist'
    <3>1. req[r].intent.decision \in DecisionIds
      BY <2>3 DEF TypeInv, RowsExist, Accepted, Rechecked
    <3> QED
      BY <1>1, <2>3, <3>1, GotoStep
  <2>4. ASSUME req[r].pc \in Rechecked, NEW x \in RequestType, x.intent = req[r].intent,
               x.recheck = req[r].recheck, req' = [req EXCEPT ![r] = x]
        PROVE  req' \in [Requests -> RequestType] /\ RowsExist'
    <3>1. x.intent.decision \in DecisionIds' /\ x.recheck \in DecisionIds'
      BY <1>1, <2>4 DEF TypeInv, RowsExist, Accepted, Rechecked, DecisionIds
    <3>2. decisions' \in Seq(DecisionType) /\ Len(decisions) <= Len(decisions')
      BY <1>1 DEF TypeInv, TypeOK
    <3> QED
      BY <2>4, <3>1, <3>2, RequestMoves
  <2>5. {"reject", "raced", "position", "fill"} \subseteq Rechecked \cap Running
    BY DEF Rechecked, Running
  <2>6. CASE Reread(r)
    <3>1. req[r].pc \in Rechecked
      BY <2>6 DEF Reread, Rechecked
    <3>2. CASE Goto(r, "reject")
      BY <2>3, <2>5, <3>1, <3>2
    <3>3. ASSUME NEW price \in FillPrices,
                 req' = [req EXCEPT ![r].pc = "position", ![r].price = price]
          PROVE  req' \in [Requests -> RequestType] /\ RowsExist'
      <4> DEFINE x == [req[r] EXCEPT !.pc = "position", !.price = price]
      <4>1. x \in RequestType /\ x.intent = req[r].intent /\ x.recheck = req[r].recheck
        BY RequestFacts, PricesAssumption DEF RequestType, Running
      <4>2. req' = [req EXCEPT ![r] = x]
        BY <3>3
      <4> HIDE DEF x
      <4> QED
        BY <2>4, <3>1, <4>1, <4>2
    <3> QED
      BY <2>6, <3>2, <3>3 DEF Reread
  <2>7. CASE ReadPosition(r)
    <3>1. req[r].pc \in Rechecked /\ req[r].pc \in Accepted
      BY <2>7 DEF ReadPosition, Rechecked, Accepted
    <3>2. CASE Goto(r, "reject")
      BY <2>3, <2>5, <3>1, <3>2
    <3>3. CASE req' = [req EXCEPT ![r].pc = "fill", ![r].pos = Held(Proposal(r))]
      <4> DEFINE x == [req[r] EXCEPT !.pc = "fill", !.pos = Held(Proposal(r))]
      <4>1. Held(Proposal(r)) \in PositionType
        BY <3>1, ProposalFacts
      <4>2. x \in RequestType /\ x.intent = req[r].intent /\ x.recheck = req[r].recheck
        BY <4>1, RequestFacts DEF RequestType, Running
      <4>3. req' = [req EXCEPT ![r] = x]
        BY <3>3
      <4> HIDE DEF x
      <4> QED
        BY <2>4, <3>1, <4>2, <4>3
    <3> QED
      BY <2>7, <3>2, <3>3 DEF ReadPosition
  <2>8. CASE FillFails(r)
    <3>1. req[r].pc \in Rechecked
      BY <2>8 DEF FillFails, Rechecked
    <3>2. CASE Goto(r, "raced")
      BY <2>3, <2>5, <3>1, <3>2
    <3>3. CASE Answer(r, "error", 0)
      BY <1>1, <1>5, <3>3, AnswerStep
    <3> QED
      BY <2>8, <3>2, <3>3 DEF FillFails
  <2>9. CASE Raced(r)
    BY <1>1, <1>4, <1>5, <2>9, AnswerStep DEF Raced
  <2> QED
    BY <2>1, <2>2, <2>6, <2>7, <2>8, <2>9
<1> QED
  BY <1>1, <1>2, <1>6, SameTables

\* SELECT ... FOR UPDATE and the two halves of the re-check.
LEMMA RecheckType ==
    ASSUME TypeInv, NEW r \in Requests,
           LockPortfolio(r) \/ Evaluate(r) \/ RecordRecheck(r)
    PROVE  TypeInv'
<1>1. req[r].pc \in Accepted
  BY DEF LockPortfolio, Evaluate, RecordRecheck, Accepted
<1>2. CASE LockPortfolio(r)
  <2> DEFINE x == [req[r] EXCEPT !.pc = "evaluate", !.cash = cash[Proposal(r).pf]]
  <2>1. cash[Proposal(r).pf] \in Int
    BY <1>1, ProposalFacts DEF TypeInv, TypeOK
  <2>2. x \in RequestType /\ x.pc = "evaluate" /\ x.intent = req[r].intent
    BY <2>1, RequestFacts DEF RequestType, Running
  <2>3. req' = [req EXCEPT ![r] = x]
    BY <1>2 DEF LockPortfolio
  <2> HIDE DEF x
  <2>4. x.pc \notin Rechecked /\ x.intent.decision \in DecisionIds'
    BY <1>1, <1>2, <2>2 DEF Rechecked, TypeInv, RowsExist, LockPortfolio, DecisionIds, tables
  <2>5. decisions' \in Seq(DecisionType) /\ Len(decisions) <= Len(decisions')
    BY <1>2 DEF LockPortfolio, TypeInv, TypeOK, tables
  <2>6. req' \in [Requests -> RequestType] /\ RowsExist'
    BY <2>2, <2>3, <2>4, <2>5, RequestMoves
  <2>7. UNCHANGED <<world, tables>> /\ lock' \in [Portfolios -> Requests \cup {NoRequest}]
    BY <1>2 DEF LockPortfolio, TypeInv, TypeOK
  <2> QED
    BY <2>6, <2>7, SameTables
<1>3. CASE Evaluate(r)
  <2>1. PICK others \in BOOLEAN :
          req' = [req EXCEPT ![r].pc = "record", ![r].haltSeen = halted,
                    ![r].verdict = Verdict(Proposal(r), halted, Held(Proposal(r)),
                                           req[r].cash, others)]
    BY <1>3 DEF Evaluate
  <2> DEFINE v == Verdict(Proposal(r), halted, Held(Proposal(r)), req[r].cash, others)
             x == [req[r] EXCEPT !.pc = "record", !.haltSeen = halted, !.verdict = v]
  <2>8. v \in {"APPROVED", "REJECTED"} /\ halted \in BOOLEAN
    BY VerdictType DEF TypeInv, TypeOK
  <2>9. UNCHANGED <<world, tables>> /\ lock' = lock /\ decisions' = decisions
    BY <1>3 DEF Evaluate, tables
  <2> HIDE DEF v
  <2>2. x \in RequestType /\ x.pc = "record" /\ x.intent = req[r].intent
    BY <2>8, RequestFacts DEF RequestType, Running
  <2>3. req' = [req EXCEPT ![r] = x]
    BY <2>1 DEF v
  <2> HIDE DEF x
  <2>4. x.pc \notin Rechecked /\ x.intent.decision \in DecisionIds'
    BY <1>1, <2>2, <2>9 DEF Rechecked, TypeInv, RowsExist, DecisionIds
  <2>5. decisions' \in Seq(DecisionType) /\ Len(decisions) <= Len(decisions')
    BY <2>9 DEF TypeInv, TypeOK
  <2>6. req' \in [Requests -> RequestType] /\ RowsExist'
    BY <2>2, <2>3, <2>4, <2>5, RequestMoves
  <2>7. UNCHANGED <<world, tables>> /\ lock' \in [Portfolios -> Requests \cup {NoRequest}]
    BY <2>9 DEF TypeInv, TypeOK
  <2> QED
    BY <2>6, <2>7, SameTables
<1>4. CASE RecordRecheck(r)
  <2> DEFINE d == [proposal |-> Proposal(r), decidedAt |-> req[r].now,
                   recheckOf |-> req[r].intent.decision,
                   haltSeen |-> req[r].haltSeen, verdict |-> req[r].verdict]
             x == [req[r] EXCEPT !.pc = "reread", !.recheck = Len(decisions) + 1]
  <2>1. d \in DecisionType
    BY <1>1, RequestFacts, ProposalFacts DEF DecisionType, IntentType
  <2>2. decisions' = Append(decisions, d) /\ req' = [req EXCEPT ![r] = x]
    BY <1>4 DEF RecordRecheck
  <2>3. /\ x \in RequestType /\ x.pc = "reread" /\ x.intent = req[r].intent
        /\ x.recheck = Len(decisions) + 1
    <3>1. Len(decisions) + 1 \in Nat
      BY DEF TypeInv, TypeOK
    <3> HIDE DEF d
    <3> QED
      BY <3>1, RequestFacts DEF RequestType, Running
  <2> HIDE DEF x, d
  <2>4. decisions' \in Seq(DecisionType) /\ Len(decisions') = Len(decisions) + 1
        /\ Len(decisions) \in Nat
    BY <2>1, <2>2 DEF TypeInv, TypeOK
  <2>5. x.intent.decision \in DecisionIds' /\ x.recheck \in DecisionIds'
    BY <1>1, <2>3, <2>4 DEF TypeInv, RowsExist, DecisionIds
  <2>8. Len(decisions) <= Len(decisions') /\ req' = [req EXCEPT ![r] = x]
    BY <2>2, <2>4
  <2>6. req' \in [Requests -> RequestType] /\ RowsExist'
    BY <2>3, <2>4, <2>5, <2>8, RequestMoves
  <2>7. lock' \in [Portfolios -> Requests \cup {NoRequest}]
    BY <1>4 DEF RecordRecheck, Released, TypeInv, TypeOK
  <2> QED
    BY <1>4, <2>4, <2>6, <2>7 DEF RecordRecheck, TypeInv, TypeOK, world
<1> QED
  BY <1>2, <1>3, <1>4

\* Money is a number.
LEMMA MoneyType ==
    ASSUME NEW p \in ProposalType, NEW price \in Nat, NEW available \in Int
    PROVE  /\ Notional(p, price) \in Nat /\ Fees(p) \in Nat
           /\ CashAfter(p, price, available) \in Int
<1>1. p.qty \in Nat
  BY DEF ProposalType
<1>2. Notional(p, price) \in Nat
  BY <1>1 DEF Notional
<1>3. Fees(p) \in Nat
  BY <1>1, PricesAssumption DEF Fees
<1> QED
  BY <1>2, <1>3 DEF CashAfter

\* A new row of the orders table.
LEMMA NewOrderType ==
    ASSUME TypeInv, NEW r \in Requests, req[r].pc \in Rechecked,
           NEW status \in {"FILLED", "REJECTED"}, NEW price \in Nat, NEW balance \in Int
    PROVE  NewOrder(r, status, price, balance) \in OrderType
<1>1. req[r].recheck \in Nat \ {0}
  BY DEF TypeInv, RowsExist, DecisionIds, TypeOK
<1> QED
  BY <1>1, RequestFacts DEF NewOrder, OrderType, IntentType

LEMMA OrderStored ==
    ASSUME TypeInv, NEW r \in Requests, UNCHANGED <<world, decisions, lock>>,
           NEW o \in OrderType, orders' = Append(orders, o),
           cash' \in [Portfolios -> Int],
           positions' \in [Portfolios -> [Stocks -> PositionType]],
           openTheses' \subseteq Nat,
           Answer(r, "order", Len(orders) + 1)
    PROVE  TypeInv'
<1>1. "order" \in Outcomes /\ Len(orders) + 1 \in Nat
  BY DEF Outcomes, TypeInv, TypeOK
<1>2. req' \in [Requests -> RequestType] /\ RowsExist'
  BY <1>1, AnswerStep
<1>3. orders' \in Seq(OrderType)
  BY DEF TypeInv, TypeOK
<1> QED
  BY <1>2, <1>3 DEF TypeInv, TypeOK, world

LEMMA RejectType ==
    ASSUME TypeInv, NEW r \in Requests, Reject(r)
    PROVE  TypeInv'
<1>1. req[r].pc \in Rechecked /\ req[r].pc \in Accepted
  BY DEF Reject, Rechecked, Accepted
<1>2. CASE KeyFree(req[r].intent.key)
  <2> DEFINE o == NewOrder(r, "REJECTED", 0, 0)
  <2>1. o \in OrderType
    BY <1>1, NewOrderType
  <2>2. /\ orders' = Append(orders, o) /\ Answer(r, "order", Len(orders) + 1)
        /\ UNCHANGED <<world, decisions, lock, cash, positions, openTheses>>
    BY <1>2 DEF Reject, LedgerKept
  <2> HIDE DEF o
  <2>3. /\ cash' \in [Portfolios -> Int] /\ openTheses' \subseteq Nat
        /\ positions' \in [Portfolios -> [Stocks -> PositionType]]
    BY <2>2 DEF TypeInv, TypeOK
  <2> QED
    BY <2>1, <2>2, <2>3, OrderStored
<1>3. CASE ~KeyFree(req[r].intent.key)
  <2>1. Goto(r, "raced") /\ UNCHANGED <<world, tables, lock>>
    BY <1>3 DEF Reject, tables
  <2>2. req[r].intent.decision \in DecisionIds
    BY <1>1, ProposalFacts
  <2>5. "raced" \in Running /\ decisions' = decisions
    BY <2>1 DEF Running, tables
  <2>3. req' \in [Requests -> RequestType] /\ RowsExist'
    BY <1>1, <2>1, <2>2, <2>5, GotoStep
  <2>4. lock' \in [Portfolios -> Requests \cup {NoRequest}]
    BY <2>1 DEF TypeInv, TypeOK
  <2> QED
    BY <2>1, <2>3, <2>4, SameTables
<1> QED
  BY <1>2, <1>3

\* The row a fill leaves behind, if what it has read can settle it.
LEMMA PositionAfterType ==
    ASSUME NEW p \in ProposalType, NEW held \in PositionType, NEW order \in Nat \ {0},
           p.side = "sell" => p.qty <= held.qty
    PROVE  PositionAfter(p, held, order) \in PositionType
<1>1. p.qty \in Nat /\ held.qty \in Nat /\ held.row \in Nat /\ p.side \in {"buy", "sell"}
  BY DEF ProposalType, PositionType
<1>2. QtyAfter(p, held) \in Nat
  BY <1>1 DEF QtyAfter
<1> QED
  BY <1>1, <1>2 DEF PositionAfter, PositionType, NoPosition

\* A request about to fill a sale has read enough shares for it.
SaleCovered ==
    \A r \in Requests :
        req[r].pc = "fill" /\ Proposal(r).side = "sell"
            => Proposal(r).qty <= req[r].pos.qty

LEMMA FillType ==
    ASSUME TypeInv, SaleCovered, NEW r \in Requests, Fill(r)
    PROVE  TypeInv'
<1> DEFINE p == Proposal(r)
           held == req[r].pos
           balance == CashAfter(p, req[r].price, req[r].cash)
           id == Len(orders) + 1
           o == NewOrder(r, "FILLED", req[r].price, balance)
<1>1. req[r].pc \in Rechecked /\ req[r].pc \in Accepted
  BY DEF Fill, Rechecked, Accepted
<1>2. p \in ProposalType /\ p.pf \in Portfolios /\ p.stock \in Stocks
  BY <1>1, ProposalFacts
<1>3. req[r].price \in Nat /\ req[r].cash \in Int /\ held \in PositionType
  BY RequestFacts
<1>4. balance \in Int
  BY <1>2, <1>3, MoneyType
<1>5. o \in OrderType
  BY <1>1, <1>3, <1>4, NewOrderType
<1>6. id \in Nat \ {0}
  BY DEF TypeInv, TypeOK
<1>7. PositionAfter(p, held, id) \in PositionType
  BY <1>2, <1>3, <1>6, PositionAfterType DEF SaleCovered, Fill
<1>8. /\ orders' = Append(orders, o) /\ Answer(r, "order", id)
      /\ cash' = [cash EXCEPT ![p.pf] = balance]
      /\ positions' = IF RowUnchanged(p, held)
                      THEN [positions EXCEPT ![p.pf][p.stock] = PositionAfter(p, held, id)]
                      ELSE positions
      /\ openTheses' = ThesesAfter(p, held, id)
      /\ UNCHANGED <<world, decisions, lock>>
  BY DEF Fill
<1>9. openTheses' \subseteq Nat
  BY <1>6, <1>8 DEF ThesesAfter, TypeInv, TypeOK
<1> HIDE DEF p, held, balance, o
<1>10. cash' \in [Portfolios -> Int]
  BY <1>2, <1>4, <1>8 DEF TypeInv, TypeOK
<1>11. positions' \in [Portfolios -> [Stocks -> PositionType]]
  BY <1>2, <1>7, <1>8 DEF TypeInv, TypeOK
<1> QED
  BY <1>5, <1>8, <1>9, <1>10, <1>11, OrderStored

-----------------------------------------------------------------------------
(* What a step leaves alone                                                 *)

Does(r) == Begin(r) \/ Step(r) \/ Crash(r)

\* A step of one request is invisible to the locals of the others.
LEMMA OthersKeep ==
    ASSUME TypeInv, NEW r \in Requests, Does(r)
    PROVE  \A q \in Requests \ {r} : req'[q] = req[q]
<1> USE DEF TypeInv, TypeOK
<1>1. ASSUME NEW label, Goto(r, label)
      PROVE  \A q \in Requests \ {r} : req'[q] = req[q]
  BY <1>1 DEF Goto
<1>2. ASSUME NEW outcome, NEW order, Answer(r, outcome, order)
      PROVE  \A q \in Requests \ {r} : req'[q] = req[q]
  BY <1>2 DEF Answer
<1>3. CASE Begin(r)
  BY <1>3 DEF Begin
<1>4. CASE Crash(r)
  BY <1>4 DEF Crash
<1>5. CASE LookupKey(r)
  BY <1>5, <1>1, <1>2 DEF LookupKey
<1>6. CASE CheckDecision(r)
  BY <1>6, <1>1, <1>2 DEF CheckDecision
<1>7. CASE LockPortfolio(r)
  BY <1>7 DEF LockPortfolio
<1>8. CASE Evaluate(r)
  BY <1>8 DEF Evaluate
<1>9. CASE RecordRecheck(r)
  BY <1>9 DEF RecordRecheck
<1>10. CASE Reread(r)
  BY <1>10, <1>1 DEF Reread
<1>11. CASE ReadPosition(r)
  BY <1>11, <1>1 DEF ReadPosition
<1>12. CASE Fill(r)
  BY <1>12, <1>2 DEF Fill
<1>13. CASE FillFails(r)
  BY <1>13, <1>1, <1>2 DEF FillFails
<1>14. CASE Reject(r)
  BY <1>14, <1>1, <1>2 DEF Reject
<1>15. CASE Raced(r)
  BY <1>15, <1>2 DEF Raced
<1> QED
  BY <1>3, <1>4, <1>5, <1>6, <1>7, <1>8, <1>9, <1>10, <1>11, <1>12, <1>13, <1>14, <1>15
     DEF Does, Step

\* Rows of the two tables are never changed or removed.
Grows ==
    /\ Len(decisions) <= Len(decisions') /\ Len(orders) <= Len(orders')
    /\ \A d \in DecisionIds : decisions'[d] = decisions[d]
    /\ \A o \in OrderIds : orders'[o] = orders[o]

LEMMA DecisionAppended ==
    ASSUME TypeInv, NEW d \in DecisionType, decisions' = Append(decisions, d),
           orders' = orders
    PROVE  Grows
  BY DEF TypeInv, TypeOK, Grows, DecisionIds, OrderIds

LEMMA OrderAppended ==
    ASSUME TypeInv, NEW o \in OrderType, orders' = Append(orders, o),
           decisions' = decisions
    PROVE  Grows
  BY DEF TypeInv, TypeOK, Grows, DecisionIds, OrderIds

LEMMA TablesKept ==
    ASSUME TypeInv, decisions' = decisions, orders' = orders
    PROVE  Grows
  BY DEF TypeInv, TypeOK, Grows, DecisionIds, OrderIds

LEMMA TablesGrow ==
    ASSUME TypeInv, SaleCovered, [Next]_vars
    PROVE  Grows
<1>1. CASE UNCHANGED vars
  BY <1>1, TablesKept DEF vars
<1>2. CASE Propose
  <2>1. PICK p \in Proposals, others \in BOOLEAN :
          /\ decisions' = Append(decisions,
               [proposal |-> p, decidedAt |-> clock, haltSeen |-> halted, recheckOf |-> 0,
                verdict |-> Verdict(p, halted, Held(p), cash[p.pf], others)])
          /\ orders' = orders
    BY <1>2 DEF Propose
  <2>2. [proposal |-> p, decidedAt |-> clock, haltSeen |-> halted, recheckOf |-> 0,
         verdict |-> Verdict(p, halted, Held(p), cash[p.pf], others)] \in DecisionType
    BY VerdictType DEF DecisionType, TypeInv, TypeOK
  <2> QED
    BY <2>1, <2>2, DecisionAppended
<1>3. CASE Tick \/ Activate \/ Deactivate
  BY <1>3, TablesKept DEF Tick, Activate, Deactivate, tables
<1>4. ASSUME NEW r \in Requests, RecordRecheck(r)
      PROVE  Grows
  <2>1. req[r].pc \in Accepted
    BY <1>4 DEF RecordRecheck, Accepted
  <2>2. [proposal |-> Proposal(r), decidedAt |-> req[r].now,
         recheckOf |-> req[r].intent.decision,
         haltSeen |-> req[r].haltSeen, verdict |-> req[r].verdict] \in DecisionType
    BY <2>1, RequestFacts, ProposalFacts DEF DecisionType, IntentType
  <2> QED
    BY <1>4, <2>2, DecisionAppended DEF RecordRecheck
<1>5. ASSUME NEW r \in Requests, Fill(r)
      PROVE  Grows
  <2>1. req[r].pc \in Accepted /\ req[r].pc \in Rechecked
    BY <1>5 DEF Fill, Accepted, Rechecked
  <2>2. CashAfter(Proposal(r), req[r].price, req[r].cash) \in Int
    BY <2>1, ProposalFacts, RequestFacts, MoneyType
  <2>3. NewOrder(r, "FILLED", req[r].price, CashAfter(Proposal(r), req[r].price, req[r].cash))
          \in OrderType
    BY <2>1, <2>2, RequestFacts, NewOrderType
  <2> QED
    BY <1>5, <2>3, OrderAppended DEF Fill
<1>6. ASSUME NEW r \in Requests, Reject(r)
      PROVE  Grows
  <2>1. req[r].pc \in Rechecked
    BY <1>6 DEF Reject, Rechecked
  <2>2. NewOrder(r, "REJECTED", 0, 0) \in OrderType
    BY <2>1, NewOrderType
  <2> QED
    BY <1>6, <2>2, OrderAppended, TablesKept DEF Reject
<1>7. ASSUME NEW r \in Requests,
             \/ Begin(r) \/ Crash(r) \/ LookupKey(r) \/ CheckDecision(r) \/ LockPortfolio(r)
             \/ Evaluate(r) \/ Reread(r) \/ ReadPosition(r) \/ FillFails(r) \/ Raced(r)
      PROVE  Grows
  BY <1>7, TablesKept DEF Begin, Crash, LookupKey, CheckDecision, LockPortfolio, Evaluate,
     Reread, ReadPosition, FillFails, Raced, tables
<1> QED
  BY <1>1, <1>2, <1>3, <1>4, <1>5, <1>6, <1>7 DEF Next, Environment, Step

\* The trade of an accepted request stays what it is.
LEMMA ProposalKept ==
    ASSUME TypeInv, Grows, NEW q \in Requests, req[q].pc \in Accepted,
           req'[q].intent = req[q].intent
    PROVE  Proposal(q)' = Proposal(q)
  BY DEF TypeInv, RowsExist, Grows, Proposal

-----------------------------------------------------------------------------
(* Money: what a request has read can settle what it is about to fill       *)

Settling(r) ==
    /\ req[r].cash >= 0
    /\ req[r].pc \in {"position", "fill"} => req[r].price \in FillPrices
    /\ req[r].pc = "fill" =>
         CanSettle(Proposal(r), req[r].price, req[r].cash, req[r].pos)

MoneyInv == CashNeverNegative /\ \A r \in Requests : Settling(r)

\* Fees never exceed the notional, so a sale never costs money.
LEMMA FeesWithinNotional ==
    ASSUME NEW p \in ProposalType, NEW price \in FillPrices
    PROVE  Fees(p) <= Notional(p, price)
<1>1. p.qty \in Nat /\ FeePerShare \in Nat /\ price \in Nat /\ FeePerShare <= price
  BY PricesAssumption DEF ProposalType
<1>2. \A a, b, c \in Nat : b <= c => a * b <= a * c
  OBVIOUS
<1>3. p.qty * FeePerShare <= p.qty * price
  BY <1>1, <1>2
<1> QED
  BY <1>3 DEF Fees, Notional

\* A fill that can be settled leaves no debt.
LEMMA NoDebt ==
    ASSUME NEW p \in ProposalType, NEW price \in FillPrices, NEW available \in Int,
           NEW held \in PositionType, available >= 0, CanSettle(p, price, available, held)
    PROVE  CashAfter(p, price, available) >= 0
<1>1. price \in Nat
  BY PricesAssumption
<1>2. Notional(p, price) \in Nat /\ Fees(p) \in Nat
  BY <1>1, MoneyType
<1>3. CASE p.side = "buy"
  BY <1>2, <1>3 DEF CanSettle, CashAfter
<1>4. CASE p.side # "buy"
  BY <1>2, <1>4, FeesWithinNotional DEF CashAfter
<1> QED
  BY <1>3, <1>4

\* Enough shares for a sale is part of what has been checked.
LEMMA SaleIsCovered == MoneyInv /\ TypeInv => SaleCovered
  BY DEF MoneyInv, Settling, SaleCovered, CanSettle

LEMMA MoneyInit == Init => MoneyInv
<1>1. Idle.cash = 0 /\ Idle.pc = "idle"
  BY DEF Idle, Blank
<1> QED
  BY <1>1, PricesAssumption DEF Init, MoneyInv, CashNeverNegative, Settling

\* What a request holds is settled by its own steps, and kept by those of others.
LEMMA SettlingKept ==
    ASSUME TypeInv, MoneyInv, Grows, NEW q \in Requests, req'[q] = req[q]
    PROVE  Settling(q)'
<1>1. Settling(q)
  BY DEF MoneyInv
<1>2. CASE req[q].pc = "fill"
  <2>1. req[q].pc \in Accepted
    BY <1>2 DEF Accepted
  <2>2. Proposal(q)' = Proposal(q)
    BY <2>1, ProposalKept
  <2> QED
    BY <1>1, <2>2 DEF Settling, CanSettle, Notional, Fees
<1>3. CASE req[q].pc # "fill"
  BY <1>1, <1>3 DEF Settling
<1> QED
  BY <1>2, <1>3

LEMMA OwnSettling ==
    ASSUME TypeInv, MoneyInv, Grows, NEW r \in Requests, Does(r)
    PROVE  Settling(r)'
<1> USE DEF TypeInv, TypeOK
<1>1. ASSUME NEW outcome, NEW order, Answer(r, outcome, order)
      PROVE  Settling(r)'
  <2>1. req' = [req EXCEPT ![r] = Blank("answered", req[r].intent, 0, outcome, order)]
    BY <1>1 DEF Answer
  <2>2. req'[r].cash = 0 /\ req'[r].pc = "answered"
    BY <2>1 DEF Blank
  <2> QED
    BY <2>2 DEF Settling
<1>2. Settling(r) /\ CashNeverNegative
  BY DEF MoneyInv
<1>3. ASSUME NEW label, label \notin {"position", "fill"}, Goto(r, label)
      PROVE  Settling(r)'
  <2>1. req'[r].pc = label /\ req'[r].cash = req[r].cash
    BY <1>3 DEF Goto, RequestType
  <2> QED
    BY <1>2, <1>3, <2>1 DEF Settling
<1>4. CASE Begin(r)
  <2>1. PICK i \in Intents : req' = [req EXCEPT ![r] = Blank("lookup", i, clock, "none", 0)]
    BY <1>4 DEF Begin
  <2>2. req'[r].cash = 0 /\ req'[r].pc = "lookup"
    BY <2>1 DEF Blank
  <2> QED
    BY <2>2 DEF Settling
<1>5. CASE Crash(r)
  <2>1. req'[r] = Idle
    BY <1>5 DEF Crash
  <2>2. Idle.cash = 0 /\ Idle.pc = "idle"
    BY DEF Idle, Blank
  <2> QED
    BY <2>1, <2>2 DEF Settling
<1>6. CASE LookupKey(r)
  BY <1>6, <1>1, <1>3 DEF LookupKey
<1>7. CASE CheckDecision(r)
  BY <1>7, <1>1, <1>3 DEF CheckDecision
<1>8. CASE LockPortfolio(r)
  <2>1. req[r].pc \in Accepted
    BY <1>8 DEF LockPortfolio, Accepted
  <2>2. cash[Proposal(r).pf] >= 0
    BY <1>2, <2>1, ProposalFacts DEF CashNeverNegative
  <2>3. req'[r].pc = "evaluate" /\ req'[r].cash = cash[Proposal(r).pf]
    BY <1>8 DEF LockPortfolio, RequestType
  <2> QED
    BY <2>2, <2>3 DEF Settling
<1>9. CASE Evaluate(r)
  <2>1. req'[r].pc = "record" /\ req'[r].cash = req[r].cash
    BY <1>9 DEF Evaluate, RequestType
  <2> QED
    BY <1>2, <2>1 DEF Settling
<1>10. CASE RecordRecheck(r)
  <2>1. req'[r].pc = "reread" /\ req'[r].cash = req[r].cash
    BY <1>10 DEF RecordRecheck, RequestType
  <2> QED
    BY <1>2, <2>1 DEF Settling
<1>11. CASE Reread(r)
  <2>1. ASSUME NEW price \in FillPrices,
               req' = [req EXCEPT ![r].pc = "position", ![r].price = price]
        PROVE  Settling(r)'
    <3>1. req'[r].pc = "position" /\ req'[r].cash = req[r].cash /\ req'[r].price = price
      BY <2>1 DEF RequestType
    <3> QED
      BY <1>2, <3>1 DEF Settling
  <2> QED
    BY <1>3, <1>11, <2>1 DEF Reread
<1>12. CASE ReadPosition(r)
  <2>1. CASE CanSettle(Proposal(r), req[r].price, req[r].cash, Held(Proposal(r)))
    <3>1. /\ req'[r].pc = "fill" /\ req'[r].cash = req[r].cash
          /\ req'[r].price = req[r].price /\ req'[r].pos = Held(Proposal(r))
          /\ req'[r].intent = req[r].intent
      BY <1>12, <2>1 DEF ReadPosition, RequestType
    <3>2. req[r].pc \in Accepted
      BY <1>12 DEF ReadPosition, Accepted
    <3>3. Proposal(r)' = Proposal(r)
      BY <3>1, <3>2, ProposalKept
    <3>4. req[r].price \in FillPrices
      BY <1>2, <1>12 DEF Settling, ReadPosition
    <3> QED
      BY <1>2, <2>1, <3>1, <3>3, <3>4 DEF Settling, CanSettle, Notional, Fees
  <2>2. CASE ~CanSettle(Proposal(r), req[r].price, req[r].cash, Held(Proposal(r)))
    BY <1>3, <1>12, <2>2 DEF ReadPosition
  <2> QED
    BY <2>1, <2>2
<1>13. CASE Fill(r)
  BY <1>1, <1>13 DEF Fill
<1>14. CASE FillFails(r)
  BY <1>1, <1>3, <1>14 DEF FillFails
<1>15. CASE Reject(r)
  BY <1>1, <1>3, <1>15 DEF Reject
<1>16. CASE Raced(r)
  BY <1>1, <1>16 DEF Raced
<1> QED
  BY <1>4, <1>5, <1>6, <1>7, <1>8, <1>9, <1>10, <1>11, <1>12, <1>13, <1>14, <1>15, <1>16
     DEF Does, Step

LEMMA MoneyStep == TypeInv /\ MoneyInv /\ [Next]_vars => MoneyInv'
<1> SUFFICES ASSUME TypeInv, MoneyInv, [Next]_vars PROVE MoneyInv'
  OBVIOUS
<1>1. Grows
  BY SaleIsCovered, TablesGrow
<1>2. ASSUME cash' = cash, req' = req
      PROVE  MoneyInv'
  <2>1. \A q \in Requests : Settling(q)'
    BY <1>1, <1>2, SettlingKept
  <2> QED
    BY <1>2, <2>1 DEF MoneyInv, CashNeverNegative
<1>3. CASE UNCHANGED vars
  BY <1>2, <1>3 DEF vars
<1>4. CASE Environment
  BY <1>2, <1>4 DEF Environment, Tick, Activate, Deactivate, Propose, tables
<1>5. ASSUME NEW r \in Requests, Does(r)
      PROVE  MoneyInv'
  <2>1. \A q \in Requests \ {r} : Settling(q)'
    BY <1>1, <1>5, OthersKeep, SettlingKept
  <2>2. Settling(r)'
    BY <1>1, <1>5, OwnSettling
  <2>3. CashNeverNegative'
    <3>1. CASE Fill(r)
      <4> DEFINE p == Proposal(r)
                 balance == CashAfter(p, req[r].price, req[r].cash)
      <4>1. p \in ProposalType
        BY <3>1, ProposalFacts DEF Fill, Accepted
      <4>2. /\ req[r].price \in FillPrices /\ req[r].cash >= 0
            /\ CanSettle(p, req[r].price, req[r].cash, req[r].pos)
        BY <3>1 DEF MoneyInv, Settling, Fill
      <4>3. balance >= 0
        BY <4>1, <4>2, NoDebt, RequestFacts
      <4>4. cash' = [cash EXCEPT ![p.pf] = balance]
        BY <3>1 DEF Fill
      <4> HIDE DEF p, balance
      <4> QED
        BY <4>3, <4>4 DEF MoneyInv, CashNeverNegative, TypeInv, TypeOK
    <3>2. CASE cash' = cash
      BY <3>2 DEF MoneyInv, CashNeverNegative
    <3>3. Fill(r) \/ cash' = cash
      BY <1>5 DEF Does, Step, Begin, Crash, LookupKey, CheckDecision, LockPortfolio,
         Evaluate, RecordRecheck, Reread, ReadPosition, FillFails, Reject, LedgerKept,
         Raced, tables
    <3> QED
      BY <3>1, <3>2, <3>3
  <2> QED
    BY <2>1, <2>2, <2>3 DEF MoneyInv
<1> QED
  BY <1>3, <1>4, <1>5 DEF Next, Does

-----------------------------------------------------------------------------
LEMMA TypeStep == TypeInv /\ MoneyInv /\ [Next]_vars => TypeInv'
<1> SUFFICES ASSUME TypeInv, MoneyInv, [Next]_vars PROVE TypeInv'
  OBVIOUS
<1>1. CASE UNCHANGED vars
  BY <1>1 DEF vars, TypeInv, TypeOK, RowsExist, DecisionIds
<1>2. CASE Environment
  BY <1>2, EnvironmentType
<1>3. ASSUME NEW r \in Requests, Begin(r) \/ Crash(r) \/ Reject(r) \/ Fill(r)
      PROVE  TypeInv'
  BY <1>3, BeginType, CrashType, RejectType, FillType, SaleIsCovered
<1>4. ASSUME NEW r \in Requests, Step(r), ~Reject(r), ~Fill(r)
      PROVE  TypeInv'
  BY <1>4, ReadingType, RecheckType DEF Step
<1> QED
  BY <1>1, <1>2, <1>3, <1>4 DEF Next, Step

\* Whatever the requests, their interleaving, crashes and toggles of the kill
\* switch, the tables and the locals of every request keep their types: no row
\* with a negative quantity is ever written, no request names a missing row.
THEOREM TypeCorrect == Spec => []TypeOK
<1>1. TypeInv /\ MoneyInv /\ [Next]_vars => TypeInv' /\ MoneyInv'
  BY TypeStep, MoneyStep
<1>2. TypeInv => TypeOK
  BY DEF TypeInv
<1> QED
  BY <1>1, <1>2, TypeInit, MoneyInit, PTL DEF Spec

\* The balance of a portfolio is never negative, fees included, although fills
\* settle from balances that other fills have made stale.
THEOREM CashIsSafe == Spec => []CashNeverNegative
<1>1. TypeInv /\ MoneyInv /\ [Next]_vars => TypeInv' /\ MoneyInv'
  BY TypeStep, MoneyStep
<1>2. MoneyInv => CashNeverNegative
  BY DEF MoneyInv
<1> QED
  BY <1>1, <1>2, TypeInit, MoneyInit, PTL DEF Spec

-----------------------------------------------------------------------------
(* What every state is assumed to be in what follows                       *)

Core == TypeInv /\ MoneyInv

LEMMA CoreInit == Init => Core
  BY TypeInit, MoneyInit DEF Core

LEMMA CoreStep == Core /\ [Next]_vars => Core'
  BY TypeStep, MoneyStep DEF Core

LEMMA CoreInv == Spec => []Core
  BY CoreInit, CoreStep, PTL DEF Spec

LEMMA CoreGrows == Core /\ [Next]_vars => Grows
  BY SaleIsCovered, TablesGrow DEF Core

-----------------------------------------------------------------------------
(* Keys                                                                     *)

\* Orders are added by fills and rejections only, under a key that is free.
LEMMA OrdersMove ==
    ASSUME Core, [Next]_vars
    PROVE  \/ orders' = orders
           \/ \E o \in OrderType : orders' = Append(orders, o) /\ KeyFree(o.key)
<1>1. ASSUME NEW r \in Requests, Fill(r)
      PROVE  \E o \in OrderType : orders' = Append(orders, o) /\ KeyFree(o.key)
  <2> DEFINE balance == CashAfter(Proposal(r), req[r].price, req[r].cash)
             o == NewOrder(r, "FILLED", req[r].price, balance)
  <2>1. req[r].pc \in Accepted /\ req[r].pc \in Rechecked
    BY <1>1 DEF Fill, Accepted, Rechecked
  <2>2. balance \in Int
    BY <2>1, ProposalFacts, RequestFacts, MoneyType DEF Core
  <2>3. o \in OrderType
    BY <2>1, <2>2, RequestFacts, NewOrderType DEF Core
  <2>4. o.key = req[r].intent.key
    BY DEF NewOrder
  <2>5. orders' = Append(orders, o) /\ KeyFree(req[r].intent.key)
    BY <1>1 DEF Fill
  <2> QED
    BY <2>3, <2>4, <2>5
<1>2. ASSUME NEW r \in Requests, Reject(r), orders' # orders
      PROVE  \E o \in OrderType : orders' = Append(orders, o) /\ KeyFree(o.key)
  <2> DEFINE o == NewOrder(r, "REJECTED", 0, 0)
  <2>0. req[r].pc \in Rechecked
    BY <1>2 DEF Reject, Rechecked
  <2>1. o \in OrderType
    BY <2>0, NewOrderType DEF Core
  <2>2. o.key = req[r].intent.key
    BY DEF NewOrder
  <2>3. orders' = Append(orders, o) /\ KeyFree(req[r].intent.key)
    BY <1>2 DEF Reject
  <2> QED
    BY <2>1, <2>2, <2>3
<1>3. CASE Environment \/ UNCHANGED vars
  BY <1>3 DEF Environment, Tick, Activate, Deactivate, Propose, vars, tables
<1>4. ASSUME NEW r \in Requests, Does(r), ~Fill(r), ~Reject(r)
      PROVE  orders' = orders
  BY <1>4 DEF Does, Step, Begin, Crash, LookupKey, CheckDecision, LockPortfolio,
     Evaluate, RecordRecheck, Reread, ReadPosition, FillFails, Raced, tables
<1> QED
  BY <1>1, <1>2, <1>3, <1>4 DEF Next, Does

LEMMA KeyStep == Core /\ OneOrderPerKey /\ [Next]_vars => OneOrderPerKey'
<1> SUFFICES ASSUME Core, OneOrderPerKey, [Next]_vars PROVE OneOrderPerKey'
  OBVIOUS
<1>1. CASE orders' = orders
  BY <1>1 DEF OneOrderPerKey, OrderIds
<1>2. ASSUME NEW o \in OrderType, orders' = Append(orders, o), KeyFree(o.key)
      PROVE  OneOrderPerKey'
  <2>1. orders \in Seq(OrderType)
    BY DEF Core, TypeInv, TypeOK
  <2>2. \A i \in 1 .. Len(orders) : orders[i].key # o.key
    BY <1>2 DEF KeyFree, WithKey, OrderIds
  <2>3. \A i \in 1 .. Len(orders') :
           orders'[i] = IF i = Len(orders) + 1 THEN o ELSE orders[i]
    BY <1>2, <2>1
  <2>4. Len(orders') = Len(orders) + 1
    BY <1>2, <2>1
  <2> QED
    BY <2>1, <2>2, <2>3, <2>4 DEF OneOrderPerKey, OrderIds
<1> QED
  BY <1>1, <1>2, OrdersMove

\* An idempotency key names at most one order, however requests with that key
\* race, are retried, or die (place_order and its unique constraint).
THEOREM KeysAreUnique == Spec => []OneOrderPerKey
<1>1. Init => OneOrderPerKey
  BY DEF Init, OneOrderPerKey, OrderIds
<1> QED
  BY <1>1, KeyStep, CoreInv, PTL DEF Spec

-----------------------------------------------------------------------------
(* The ledger                                                               *)

\* What OnlyFillsMoveTheLedger says of one step.
LedgerStep ==
    /\ Len(orders') >= Len(orders)
    /\ \A o \in OrderIds : orders'[o] = orders[o]
    /\ \A pf \in Portfolios, s \in Stocks :
         (cash'[pf] # cash[pf] \/ positions'[pf][s] # positions[pf][s]) =>
            /\ Len(orders') = Len(orders) + 1
            /\ orders'[Len(orders')].status = "FILLED"
            /\ Traded(orders'[Len(orders')]).pf = pf
            /\ positions'[pf][s] # positions[pf][s] =>
                    Traded(orders'[Len(orders')]).stock = s

LEMMA FillIsLedgerStep ==
    ASSUME Core, NEW r \in Requests, Fill(r), NEW pf \in Portfolios, NEW s \in Stocks,
           cash'[pf] # cash[pf] \/ positions'[pf][s] # positions[pf][s]
    PROVE  /\ Len(orders') = Len(orders) + 1
           /\ orders'[Len(orders')].status = "FILLED"
           /\ Traded(orders'[Len(orders')]).pf = pf
           /\ positions'[pf][s] # positions[pf][s] => Traded(orders'[Len(orders')]).stock = s
<1> DEFINE p == Proposal(r)
           balance == CashAfter(p, req[r].price, req[r].cash)
           o == NewOrder(r, "FILLED", req[r].price, balance)
           after == PositionAfter(p, req[r].pos, Len(orders) + 1)
<1>1. p.pf \in Portfolios /\ p.stock \in Stocks
  BY ProposalFacts DEF Core, Fill, Accepted
<1>2. o.status = "FILLED" /\ Traded(o) = p
  BY DEF NewOrder, Traded, Proposal
<1>3. orders' = Append(orders, o) /\ cash' = [cash EXCEPT ![p.pf] = balance]
  BY DEF Fill
<1>4. \/ positions' = [positions EXCEPT ![p.pf][p.stock] = after]
      \/ positions' = positions
  BY DEF Fill
<1> HIDE DEF p, balance, o, after
<1>5. Len(orders') = Len(orders) + 1 /\ orders'[Len(orders')] = o
  BY <1>3 DEF Core, TypeInv, TypeOK
<1>6. cash'[pf] # cash[pf] => p.pf = pf
  BY <1>1, <1>3 DEF Core, TypeInv, TypeOK
<1>7. positions'[pf][s] # positions[pf][s] => p.pf = pf /\ p.stock = s
  <2>1. positions \in [Portfolios -> [Stocks -> PositionType]]
    BY DEF Core, TypeInv, TypeOK
  <2>2. CASE positions' = positions
    BY <2>2
  <2>3. CASE positions' = [positions EXCEPT ![p.pf][p.stock] = after]
    <3>1. CASE p.pf # pf
      BY <1>1, <2>1, <2>3, <3>1
    <3>2. CASE p.pf = pf
      <4>1. positions'[pf] = [positions[pf] EXCEPT ![p.stock] = after]
        BY <1>1, <2>1, <2>3, <3>2
      <4>2. positions[pf] \in [Stocks -> PositionType]
        BY <2>1
      <4> QED
        BY <1>1, <3>2, <4>1, <4>2
    <3> QED
      BY <3>1, <3>2
  <2> QED
    BY <1>4, <2>2, <2>3
<1> QED
  BY <1>2, <1>5, <1>6, <1>7

LEMMA LedgerStays ==
    ASSUME NEW r \in Requests, Does(r), ~Fill(r)
    PROVE  cash' = cash /\ positions' = positions
  BY DEF Does, Step, Begin, Crash, LookupKey, CheckDecision, LockPortfolio, Evaluate,
     RecordRecheck, Reread, ReadPosition, FillFails, Reject, LedgerKept, Raced, tables

LEMMA StepIsLedgerStep == Core /\ [Next]_vars => LedgerStep
<1> SUFFICES ASSUME Core, [Next]_vars PROVE LedgerStep
  OBVIOUS
<1>1. Len(orders') >= Len(orders) /\ \A o \in OrderIds : orders'[o] = orders[o]
  BY CoreGrows DEF Grows, Core, TypeInv, TypeOK
<1>2. CASE cash' = cash /\ positions' = positions
  BY <1>1, <1>2 DEF LedgerStep
<1>3. ASSUME NEW r \in Requests, Fill(r)
      PROVE  LedgerStep
  BY <1>1, <1>3, FillIsLedgerStep DEF LedgerStep
<1>4. CASE Environment \/ UNCHANGED vars
  <2>1. cash' = cash /\ positions' = positions
    BY <1>4 DEF Environment, Tick, Activate, Deactivate, Propose, vars, tables
  <2> QED
    BY <1>2, <2>1
<1>5. ASSUME NEW r \in Requests, Does(r)
      PROVE  LedgerStep
  BY <1>2, <1>3, <1>5, LedgerStays
<1> QED
  BY <1>4, <1>5 DEF Next, Does

\* Orders are final, and cash and positions move only with the commit of a new
\* FILLED order, in its own portfolio and stock (place_order, _finish).
THEOREM OnlyFillsMove == Spec => OnlyFillsMoveTheLedger
<1>1. Core /\ [Next]_vars => [LedgerStep]_vars
  BY StepIsLedgerStep
<1>2. Spec => [][LedgerStep]_vars
  BY <1>1, CoreInv, PTL DEF Spec
<1> QED
  BY <1>2 DEF OnlyFillsMoveTheLedger, LedgerStep

-----------------------------------------------------------------------------
(* The portfolio's row lock                                                 *)

Holding == {"evaluate", "record"}

\* A request in the middle of its re-check holds its portfolio's lock, and the
\* balance it has read is still the committed one.
HasLock(r) ==
    req[r].pc \in Holding =>
        /\ lock[Proposal(r).pf] = r
        /\ req[r].cash = cash[Proposal(r).pf]

LockInv == LockHoldersAdvance /\ \A r \in Requests : HasLock(r)

LEMMA LockImplies == Core /\ LockInv => RecheckSeesCommittedCash
  BY DEF LockInv, HasLock, Holding, RecheckSeesCommittedCash

LEMMA LockInit == Init => LockInv
<1> SUFFICES ASSUME Init PROVE LockInv
  OBVIOUS
<1>1. \A r \in Requests : req[r].pc = "idle"
  BY IdleType DEF Init
<1>2. \A pf \in Portfolios : lock[pf] = NoRequest
  BY DEF Init
<1> QED
  BY <1>1, <1>2 DEF LockInv, LockHoldersAdvance, HasLock, Holding

\* What an action does to the lock and to the request that takes the step.
Takes(r) ==
    /\ lock[Proposal(r).pf] = NoRequest
    /\ lock' = [lock EXCEPT ![Proposal(r).pf] = r]
    /\ req'[r].pc = "evaluate" /\ req'[r].cash = cash[Proposal(r).pf]
    /\ req'[r].intent = req[r].intent /\ req[r].pc = "lock"
    /\ cash' = cash

Keeps(r) ==
    /\ lock' = lock /\ req[r].pc = "evaluate" /\ req'[r].pc = "record"
    /\ req'[r].cash = req[r].cash /\ req'[r].intent = req[r].intent
    /\ cash' = cash

Releases(r) == lock' = Released(r) /\ req'[r].pc \notin Holding /\ cash' = cash

Passes(r) == lock' = lock /\ req[r].pc \notin Holding /\ req'[r].pc \notin Holding

LEMMA LockActions ==
    ASSUME Core, NEW r \in Requests, Does(r)
    PROVE  Takes(r) \/ Keeps(r) \/ Releases(r) \/ Passes(r)
<1> USE DEF Holding
<1>0. req \in [Requests -> RequestType]
  BY DEF Core, TypeInv, TypeOK
<1>1. ASSUME NEW label, label \notin Holding, Goto(r, label)
      PROVE  req'[r].pc \notin Holding
  BY <1>0, <1>1 DEF Goto, RequestType
<1>2. ASSUME NEW outcome, NEW order, Answer(r, outcome, order)
      PROVE  req'[r].pc \notin Holding
  BY <1>0, <1>2 DEF Answer, Blank
<1>3. CASE Begin(r)
  <2>1. req'[r].pc = "lookup"
    BY <1>0, <1>3 DEF Begin, Blank
  <2> QED
    BY <1>3, <2>1 DEF Begin, Passes, Waiting
<1>4. CASE Crash(r)
  <2>1. req'[r].pc = "idle"
    BY <1>0, <1>4, IdleType DEF Crash
  <2> QED
    BY <1>4, <2>1 DEF Crash, Releases, tables
<1>5. CASE LookupKey(r)
  BY <1>1, <1>2, <1>5 DEF LookupKey, Passes
<1>6. CASE CheckDecision(r)
  BY <1>1, <1>2, <1>6 DEF CheckDecision, Passes
<1>7. CASE LockPortfolio(r)
  BY <1>0, <1>7 DEF LockPortfolio, Unlocked, Takes, RequestType, tables
<1>8. CASE Evaluate(r)
  BY <1>0, <1>8 DEF Evaluate, Keeps, RequestType, tables
<1>9. CASE RecordRecheck(r)
  <2>1. req'[r].pc = "reread"
    BY <1>0, <1>9 DEF RecordRecheck, RequestType
  <2> QED
    BY <1>9, <2>1 DEF RecordRecheck, Releases
<1>10. CASE Reread(r)
  <2>1. ASSUME NEW price, req' = [req EXCEPT ![r].pc = "position", ![r].price = price]
        PROVE  req'[r].pc \notin Holding
    BY <1>0, <2>1 DEF RequestType
  <2> QED
    BY <1>1, <1>10, <2>1 DEF Reread, Passes
<1>11. CASE ReadPosition(r)
  <2>1. ASSUME NEW pos, req' = [req EXCEPT ![r].pc = "fill", ![r].pos = pos]
        PROVE  req'[r].pc \notin Holding
    BY <1>0, <2>1 DEF RequestType
  <2> QED
    BY <1>1, <1>11, <2>1 DEF ReadPosition, Passes
<1>12. CASE Fill(r)
  BY <1>2, <1>12 DEF Fill, Passes
<1>13. CASE FillFails(r)
  BY <1>1, <1>2, <1>13 DEF FillFails, Passes
<1>14. CASE Reject(r)
  BY <1>1, <1>2, <1>14 DEF Reject, Passes
<1>15. CASE Raced(r)
  BY <1>2, <1>15 DEF Raced, Passes
<1> QED
  BY <1>3, <1>4, <1>5, <1>6, <1>7, <1>8, <1>9, <1>10, <1>11, <1>12, <1>13, <1>14, <1>15
     DEF Does, Step

\* A holder's trade is of an existing portfolio, and stays what it is.
LEMMA HolderTrade ==
    ASSUME Core, Grows, NEW q \in Requests, req[q].pc \in Holding \cup {"lock"},
           req'[q].intent = req[q].intent
    PROVE  Proposal(q)' = Proposal(q) /\ Proposal(q).pf \in Portfolios
<1>1. req[q].pc \in Accepted
  BY DEF Holding, Accepted
<1> QED
  BY <1>1, ProposalKept, ProposalFacts DEF Core

\* The commit of a fill waits for the lock: it moves no cash a holder has read.
LEMMA CashOfHolder ==
    ASSUME Core, LockInv, NEW r \in Requests, Does(r), NEW q \in Requests,
           req[q].pc \in Holding
    PROVE  cash'[Proposal(q).pf] = cash[Proposal(q).pf]
<1>1. CASE Fill(r)
  <2>1. lock[Proposal(r).pf] = NoRequest
    BY <1>1 DEF Fill, MayWrite, Unlocked
  <2>2. lock[Proposal(q).pf] = q
    BY DEF LockInv, HasLock
  <2>3. Proposal(r).pf # Proposal(q).pf
    BY <2>1, <2>2, RequestsAssumption
  <2>4. req[q].pc \in Accepted
    BY DEF Holding, Accepted
  <2>5. Proposal(q).pf \in Portfolios
    BY <2>4, ProposalFacts DEF Core
  <2> DEFINE balance == CashAfter(Proposal(r), req[r].price, req[r].cash)
  <2>6. cash' = [cash EXCEPT ![Proposal(r).pf] = balance]
    BY <1>1 DEF Fill
  <2> HIDE DEF balance
  <2> QED
    BY <2>3, <2>5, <2>6 DEF Core, TypeInv, TypeOK
<1>2. CASE ~Fill(r)
  BY <1>2, LedgerStays
<1> QED
  BY <1>1, <1>2

LEMMA OthersHold ==
    ASSUME Core, Grows, LockInv, NEW r \in Requests, Does(r), NEW q \in Requests \ {r}
    PROVE  HasLock(q)'
<1> SUFFICES ASSUME req'[q].pc \in Holding
             PROVE  /\ lock'[Proposal(q)'.pf] = q
                    /\ req'[q].cash = cash'[Proposal(q)'.pf]
  BY DEF HasLock
<1>1. req'[q] = req[q]
  BY OthersKeep DEF Core
<1>2. req[q].pc \in Holding
  BY <1>1
<1>3. Proposal(q)' = Proposal(q) /\ Proposal(q).pf \in Portfolios
  BY <1>1, <1>2, HolderTrade
<1>4. lock[Proposal(q).pf] = q /\ req[q].cash = cash[Proposal(q).pf]
  BY <1>2 DEF LockInv, HasLock
<1>5. cash'[Proposal(q).pf] = cash[Proposal(q).pf]
  BY <1>2, CashOfHolder
<1>6. lock'[Proposal(q).pf] = q
  <2>1. lock \in [Portfolios -> Requests \cup {NoRequest}] /\ q # NoRequest
    BY RequestsAssumption DEF Core, TypeInv, TypeOK
  <2>2. CASE Takes(r)
    BY <1>3, <1>4, <2>1, <2>2 DEF Takes
  <2>3. CASE Keeps(r) \/ Passes(r)
    BY <1>4, <2>3 DEF Keeps, Passes
  <2>4. CASE Releases(r)
    BY <1>3, <1>4, <2>4 DEF Releases, Released
  <2> QED
    BY <2>2, <2>3, <2>4, LockActions
<1> QED
  BY <1>1, <1>3, <1>4, <1>5, <1>6

LEMMA OwnHold ==
    ASSUME Core, Grows, LockInv, NEW r \in Requests, Does(r)
    PROVE  HasLock(r)'
<1> SUFFICES ASSUME req'[r].pc \in Holding
             PROVE  /\ lock'[Proposal(r)'.pf] = r
                    /\ req'[r].cash = cash'[Proposal(r)'.pf]
  BY DEF HasLock
<1>1. CASE Takes(r)
  <2>1. Proposal(r)' = Proposal(r) /\ Proposal(r).pf \in Portfolios
    BY <1>1, HolderTrade DEF Takes
  <2> QED
    BY <1>1, <2>1 DEF Takes, Core, TypeInv, TypeOK
<1>2. CASE Keeps(r)
  <2>1. req[r].pc \in Holding
    BY <1>2 DEF Keeps, Holding
  <2>2. Proposal(r)' = Proposal(r)
    BY <1>2, <2>1, HolderTrade DEF Keeps
  <2> QED
    BY <1>2, <2>1, <2>2 DEF Keeps, LockInv, HasLock
<1>3. CASE Releases(r) \/ Passes(r)
  BY <1>3 DEF Releases, Passes
<1> QED
  BY <1>1, <1>2, <1>3, LockActions

\* Whoever holds a lock after a step is in the middle of the re-check it is for.
LEMMA HolderAfter ==
    ASSUME Core, Grows, LockInv, NEW r \in Requests, Does(r),
           NEW pf \in Portfolios, NEW q \in Requests, lock'[pf] = q
    PROVE  req'[q].pc \in Holding /\ Proposal(q)'.pf = pf
<1>1. lock \in [Portfolios -> Requests \cup {NoRequest}] /\ q # NoRequest
  BY RequestsAssumption DEF Core, TypeInv, TypeOK
<1>2. lock[pf] = q => req[q].pc \in Holding /\ Proposal(q).pf = pf
  BY <1>1 DEF LockInv, LockHoldersAdvance, Holding
<1>3. CASE q # r
  <2>1. lock[pf] = q
    <3>1. CASE Takes(r)
      BY <1>1, <1>3, <3>1 DEF Takes
    <3>2. CASE Keeps(r) \/ Passes(r)
      BY <3>2 DEF Keeps, Passes
    <3>3. CASE Releases(r)
      BY <1>1, <1>3, <3>3 DEF Releases, Released
    <3> QED
      BY <3>1, <3>2, <3>3, LockActions
  <2>2. req'[q] = req[q]
    BY <1>3, OthersKeep DEF Core
  <2>3. Proposal(q)' = Proposal(q)
    BY <1>2, <2>1, <2>2, HolderTrade
  <2> QED
    BY <1>2, <2>1, <2>2, <2>3
<1>4. CASE q = r
  <2>1. CASE Takes(r)
    <3>1. Proposal(r)' = Proposal(r) /\ Proposal(r).pf \in Portfolios
      BY <2>1, HolderTrade DEF Takes
    <3>2. lock[pf] # r
      BY <1>2, <1>4, <2>1 DEF Takes, Holding
    <3>3. pf = Proposal(r).pf
      BY <1>1, <1>4, <2>1, <3>2 DEF Takes
    <3> QED
      BY <1>4, <2>1, <3>1, <3>3 DEF Takes, Holding
  <2>2. CASE Keeps(r)
    <3>1. lock[pf] = r
      BY <1>4, <2>2 DEF Keeps
    <3>2. Proposal(r)' = Proposal(r)
      BY <1>2, <1>4, <2>2, <3>1, HolderTrade DEF Keeps
    <3> QED
      BY <1>2, <1>4, <2>2, <3>1, <3>2 DEF Keeps, Holding
  <2>3. CASE Releases(r)
    BY <1>1, <1>4, <2>3, RequestsAssumption DEF Releases, Released
  <2>4. CASE Passes(r)
    BY <1>2, <1>4, <2>4 DEF Passes
  <2> QED
    BY <2>1, <2>2, <2>3, <2>4, LockActions
<1> QED
  BY <1>3, <1>4

LEMMA LockOfRequests ==
    ASSUME Core, Core', NEW pf \in Portfolios, lock'[pf] # NoRequest
    PROVE  lock'[pf] \in Requests
  BY DEF Core, TypeInv, TypeOK

LEMMA LockStep == Core /\ LockInv /\ [Next]_vars => LockInv'
<1> SUFFICES ASSUME Core, LockInv, [Next]_vars PROVE LockInv'
  OBVIOUS
<1>1. Grows /\ Core'
  BY CoreGrows, CoreStep
<1>2. CASE Environment \/ UNCHANGED vars
  <2>1. lock' = lock /\ req' = req /\ cash' = cash
    BY <1>2 DEF Environment, Tick, Activate, Deactivate, Propose, vars, tables
  <2>2. ASSUME NEW q \in Requests, req[q].pc \in Holding
        PROVE  Proposal(q)' = Proposal(q)
    BY <1>1, <2>1, <2>2, HolderTrade
  <2>3. \A q \in Requests : HasLock(q)'
    BY <2>1, <2>2 DEF LockInv, HasLock
  <2>4. ASSUME NEW pf \in Portfolios, NEW q \in Requests, lock'[pf] = q
        PROVE  req'[q].pc \in Holding /\ Proposal(q)'.pf = pf
    BY <2>1, <2>2, <2>4, RequestsAssumption DEF LockInv, LockHoldersAdvance, Holding
  <2>5. LockHoldersAdvance'
    BY <1>1, <2>4, LockOfRequests DEF LockHoldersAdvance, Holding, Proposal
  <2> QED
    BY <2>3, <2>5 DEF LockInv
<1>3. ASSUME NEW r \in Requests, Does(r)
      PROVE  LockInv'
  <2>1. \A q \in Requests : HasLock(q)'
    BY <1>1, <1>3, OthersHold, OwnHold
  <2>2. \A pf \in Portfolios, q \in Requests :
           lock'[pf] = q => req'[q].pc \in Holding /\ Proposal(q)'.pf = pf
    BY <1>1, <1>3, HolderAfter
  <2>3. LockHoldersAdvance'
    BY <1>1, <2>2, LockOfRequests DEF LockHoldersAdvance, Holding, Proposal
  <2> QED
    BY <2>1, <2>3 DEF LockInv
<1> QED
  BY <1>2, <1>3 DEF Next, Does

LEMMA LockInvariant == Spec => [](Core /\ LockInv)
<1>1. Core /\ LockInv /\ [Next]_vars => (Core /\ LockInv)'
  BY CoreStep, LockStep
<1> QED
  BY <1>1, CoreInit, LockInit, PTL DEF Spec

\* A portfolio's row lock is held by a request that is re-checking an order of that
\* portfolio and waits for no lock: no deadlock among any number of requests, and no
\* lock is left behind by one that dies or is answered (place_order).
THEOREM LocksAreHeldBriefly == Spec => []LockHoldersAdvance
<1>1. Core /\ LockInv => LockHoldersAdvance
  BY DEF LockInv
<1> QED
  BY <1>1, LockInvariant, PTL

\* The cash a re-check judges by is the committed cash, and no other request of the
\* portfolio is in its re-check: the part of the code's promise that the lock keeps.
THEOREM RechecksAreSerial == Spec => []RecheckSeesCommittedCash
  BY LockImplies, LockInvariant, PTL
-----------------------------------------------------------------------------
(* What a fill rests on; CoreInv holds of every state                        *)

\* An accepted decision was approved, and fresh when the request arrived.
Approved(r) ==
    req[r].pc \in Accepted =>
        /\ decisions[req[r].intent.decision].verdict = "APPROVED"
        /\ Fresh(req[r].intent.decision, req[r].now)

\* A verdict of the re-check that approves has not seen the kill switch active, and
\* a request settles only after such a verdict.
HaltRespected(r) ==
    req[r].pc \in Rechecked \cup {"record"} /\ req[r].verdict = "APPROVED"
        => ~req[r].haltSeen

Passed(r) == req[r].pc \in {"position", "fill"} => req[r].verdict = "APPROVED"

\* The re-check a request has recorded is of its own trade, later than the decision
\* it re-checks, and no order has used it.
Backed(r) ==
    req[r].pc \in Rechecked =>
        LET d == req[r].intent.decision
            c == req[r].recheck
        IN /\ d < c
           /\ decisions[c].proposal = Proposal(r) /\ decisions[c].decidedAt = req[r].now
           /\ decisions[c].verdict = req[r].verdict /\ decisions[c].recheckOf = d
           /\ decisions[c].haltSeen = req[r].haltSeen
           /\ RecheckedBy(c) = {}

Chain(r) == Approved(r) /\ HaltRespected(r) /\ Passed(r) /\ Backed(r)

\* No two requests have the same re-check, and orders name decisions that exist.
Apart ==
    \A q, r \in Requests :
        q # r /\ req[q].pc \in Rechecked /\ req[r].pc \in Rechecked
            => req[q].recheck # req[r].recheck

RechecksExist == \A o \in OrderIds : orders[o].recheck \in DecisionIds

ChainInv == RechecksExist /\ Apart /\ \A r \in Requests : Chain(r)

\* What FillsAreRechecked and HaltStopsFills say of one order.
Sound(o) ==
    orders[o].status = "FILLED" =>
        LET d == orders[o].decision
            c == orders[o].recheck
        IN /\ d \in DecisionIds /\ c \in DecisionIds /\ d < c
           /\ decisions[d].verdict = "APPROVED" /\ decisions[c].verdict = "APPROVED"
           /\ decisions[d].proposal = decisions[c].proposal
           /\ decisions[c].decidedAt = orders[o].arrived
           /\ orders[o].arrived - decisions[d].decidedAt \in 0 .. MaxAge
           /\ RecheckedBy(c) = {o}
           /\ ~decisions[c].haltSeen

SoundFills == \A o \in OrderIds : Sound(o)

LEMMA ChainInit == Init => ChainInv /\ SoundFills
<1> SUFFICES ASSUME Init PROVE ChainInv /\ SoundFills
  OBVIOUS
<1>1. OrderIds = {}
  BY DEF Init, OrderIds
<1>2. \A r \in Requests : req[r].pc = "idle"
  BY IdleType DEF Init
<1> QED
  BY <1>1, <1>2 DEF ChainInv, RechecksExist, Apart, Chain, Approved, HaltRespected,
     Passed, Backed, Accepted, Rechecked, SoundFills

\* A step stores at most one order, that of a request which then holds no re-check.
Stores(r, o) ==
    /\ req[r].pc \in Rechecked /\ req'[r].pc = "answered"
    /\ orders' = Append(orders, o) /\ decisions' = decisions
    /\ o.recheck = req[r].recheck /\ o.decision = req[r].intent.decision
    /\ o.arrived = req[r].now /\ (o.status = "FILLED" => req[r].pc = "fill")

LEMMA OrdersStored ==
    ASSUME Core, NEW r \in Requests, Does(r), orders' # orders
    PROVE  \E o \in OrderType : Stores(r, o)
<1>1. ASSUME NEW status \in {"FILLED", "REJECTED"}, NEW price \in Nat, NEW balance \in Int,
             req[r].pc \in Rechecked, status = "FILLED" => req[r].pc = "fill",
             orders' = Append(orders, NewOrder(r, status, price, balance)),
             decisions' = decisions, Answer(r, "order", Len(orders) + 1)
      PROVE  \E o \in OrderType : Stores(r, o)
  <2> DEFINE o == NewOrder(r, status, price, balance)
  <2>1. o \in OrderType
    BY <1>1, NewOrderType DEF Core
  <2>2. /\ o.recheck = req[r].recheck /\ o.decision = req[r].intent.decision
        /\ o.arrived = req[r].now /\ o.status = status
    BY DEF NewOrder
  <2>3. orders' = Append(orders, o)
    BY <1>1
  <2> HIDE DEF o
  <2>4. req'[r].pc = "answered"
    BY <1>1 DEF Answer, Blank, Core, TypeInv, TypeOK
  <2> QED
    BY <1>1, <2>1, <2>2, <2>3, <2>4 DEF Stores
<1>2. CASE Fill(r)
  <2> DEFINE balance == CashAfter(Proposal(r), req[r].price, req[r].cash)
  <2>1. req[r].pc = "fill" /\ req[r].pc \in Accepted /\ req[r].pc \in Rechecked
    BY <1>2 DEF Fill, Accepted, Rechecked
  <2>2. balance \in Int /\ req[r].price \in Nat
    BY <2>1, ProposalFacts, RequestFacts, MoneyType DEF Core
  <2>3. /\ orders' = Append(orders, NewOrder(r, "FILLED", req[r].price, balance))
        /\ decisions' = decisions /\ Answer(r, "order", Len(orders) + 1)
    BY <1>2 DEF Fill
  <2> HIDE DEF balance
  <2> QED
    BY <1>1, <2>1, <2>2, <2>3
<1>3. CASE Reject(r)
  <2>1. req[r].pc \in Rechecked
    BY <1>3 DEF Reject, Rechecked
  <2>2. /\ orders' = Append(orders, NewOrder(r, "REJECTED", 0, 0))
        /\ decisions' = decisions /\ Answer(r, "order", Len(orders) + 1)
    BY <1>3 DEF Reject
  <2> QED
    BY <1>1, <2>1, <2>2
<1>4. CASE ~Fill(r) /\ ~Reject(r)
  BY <1>4 DEF Does, Step, Begin, Crash, LookupKey, CheckDecision, LockPortfolio,
     Evaluate, RecordRecheck, Reread, ReadPosition, FillFails, Raced, tables
<1> QED
  BY <1>2, <1>3, <1>4

\* An order that is stored uses the re-check of its own request, and no other's.
LEMMA RecheckUnused ==
    ASSUME Core, ChainInv, NEW r \in Requests, Does(r), NEW c \in DecisionIds,
           RecheckedBy(c) = {}, req[r].pc \in Rechecked => req[r].recheck # c
    PROVE  RecheckedBy(c)' = {}
<1>1. CASE orders' = orders
  BY <1>1 DEF RecheckedBy, OrderIds
<1>2. CASE orders' # orders
  <2>1. PICK o \in OrderType : Stores(r, o)
    BY <1>2, OrdersStored
  <2>2. orders \in Seq(OrderType)
    BY DEF Core, TypeInv, TypeOK
  <2>3. /\ \A i \in OrderIds' : orders'[i] = IF i \in OrderIds THEN orders[i] ELSE o
    BY <2>1, <2>2 DEF Stores, OrderIds
  <2> QED
    BY <2>1, <2>3 DEF Stores, RecheckedBy
<1> QED
  BY <1>1, <1>2

\* What a request rests on stays, whoever takes the step, as long as it keeps its
\* locals and its re-check is not used.
LEMMA ChainStays ==
    ASSUME Core, Grows, NEW q \in Requests, Chain(q),
           req'[q].intent = req[q].intent, req'[q].now = req[q].now,
           req'[q].verdict = req[q].verdict, req'[q].haltSeen = req[q].haltSeen,
           req'[q].recheck = req[q].recheck,
           req'[q].pc \in Accepted => req[q].pc \in Accepted,
           req'[q].pc \in Rechecked \cup {"record"} => req[q].pc \in Rechecked \cup {"record"},
           req'[q].pc \in Rechecked =>
               req[q].pc \in Rechecked /\ RecheckedBy(req[q].recheck)' = {},
           req'[q].pc \in {"position", "fill"} => req[q].verdict = "APPROVED"
    PROVE  Chain(q)'
<1>1. Passed(q)' /\ HaltRespected(q)'
  BY DEF Chain, Passed, HaltRespected
<1>2. Approved(q)'
  BY DEF Chain, Approved, Fresh, Grows, Core, TypeInv, RowsExist
<1>3. Backed(q)'
  <2> SUFFICES ASSUME req'[q].pc \in Rechecked PROVE Backed(q)'
    BY DEF Backed
  <2>1. req[q].pc \in Rechecked /\ req[q].pc \in Accepted
    BY DEF Accepted, Rechecked
  <2>2. Proposal(q)' = Proposal(q)
    BY <2>1, ProposalKept DEF Core
  <2>3. req[q].recheck \in DecisionIds
    BY <2>1 DEF Core, TypeInv, RowsExist
  <2>4. decisions'[req[q].recheck] = decisions[req[q].recheck]
    BY <2>3 DEF Grows
  <2> QED
    BY <2>1, <2>2, <2>4 DEF Chain, Backed
<1> QED
  BY <1>1, <1>2, <1>3 DEF Chain

LEMMA OthersChain ==
    ASSUME Core, Grows, ChainInv, NEW r \in Requests, Does(r), NEW q \in Requests \ {r}
    PROVE  Chain(q)'
<1>1. req'[q] = req[q] /\ Chain(q)
  BY OthersKeep DEF Core, ChainInv
<1>2. req[q].pc \in Rechecked => RecheckedBy(req[q].recheck)' = {}
  <2> SUFFICES ASSUME req[q].pc \in Rechecked PROVE RecheckedBy(req[q].recheck)' = {}
    OBVIOUS
  <2>1. req[q].recheck \in DecisionIds
    BY DEF Core, TypeInv, RowsExist
  <2>2. RecheckedBy(req[q].recheck) = {}
    BY <1>1 DEF Chain, Backed
  <2>3. req[r].pc \in Rechecked => req[r].recheck # req[q].recheck
    BY DEF ChainInv, Apart
  <2> DEFINE c == req[q].recheck
  <2>4. RecheckedBy(c)' = {}
    BY <1>1, <2>1, <2>2, <2>3, RecheckUnused
  <2> QED
    BY <1>1, <2>4
<1> QED
  BY <1>1, <1>2, ChainStays DEF Chain, Passed

\* The re-check a request records is new: no order uses it, no request has it.
LEMMA RecordChain ==
    ASSUME Core, Grows, ChainInv, NEW r \in Requests, RecordRecheck(r)
    PROVE  Chain(r)' /\ req'[r].recheck = Len(decisions) + 1
<1> DEFINE d == [proposal |-> Proposal(r), decidedAt |-> req[r].now,
                 recheckOf |-> req[r].intent.decision,
                 haltSeen |-> req[r].haltSeen, verdict |-> req[r].verdict]
           n == Len(decisions) + 1
<1>1. req[r].pc = "record" /\ req[r].pc \in Accepted
  BY DEF RecordRecheck, Accepted
<1>2. Chain(r)
  BY DEF ChainInv
<1>3. decisions \in Seq(DecisionType) /\ req \in [Requests -> RequestType]
  BY DEF Core, TypeInv, TypeOK
<1>4. /\ req'[r].pc = "reread" /\ req'[r].recheck = n
      /\ req'[r].intent = req[r].intent /\ req'[r].now = req[r].now
      /\ req'[r].verdict = req[r].verdict /\ req'[r].haltSeen = req[r].haltSeen
  BY <1>3 DEF RecordRecheck, RequestType
<1>5. /\ d.proposal = Proposal(r) /\ d.decidedAt = req[r].now
      /\ d.verdict = req[r].verdict /\ d.haltSeen = req[r].haltSeen
      /\ d.recheckOf = req[r].intent.decision
  OBVIOUS
<1>6. decisions' = Append(decisions, d) /\ orders' = orders
  BY DEF RecordRecheck
<1> HIDE DEF d
<1>7. decisions'[n] = d
  BY <1>3, <1>6
<1>8. req[r].intent.decision \in DecisionIds
  BY <1>1 DEF Core, TypeInv, RowsExist
<1>9. req[r].intent.decision < n
  BY <1>3, <1>8 DEF DecisionIds
<1>10. Proposal(r)' = Proposal(r)
  BY <1>1, <1>4, ProposalKept DEF Core
<1>11. \A c \in Nat : c = n => RecheckedBy(c)' = {}
  <2>1. \A o \in OrderIds : orders[o].recheck # n
    BY <1>3 DEF ChainInv, RechecksExist, DecisionIds
  <2> QED
    BY <1>4, <1>6, <2>1 DEF RecheckedBy, OrderIds
<1>12. Backed(r)'
  <2>1. n \in Nat
    BY <1>3
  <2>2. RecheckedBy(req[r].recheck)' = {}
    BY <1>4, <1>11, <2>1
  <2> HIDE DEF n
  <2> QED
    BY <1>4, <1>5, <1>7, <1>9, <1>10, <2>2 DEF Backed
<1>13. Approved(r)'
  BY <1>1, <1>2, <1>4, <1>8 DEF Chain, Approved, Fresh, Grows
<1>14. HaltRespected(r)' /\ Passed(r)'
  BY <1>1, <1>2, <1>4 DEF Chain, HaltRespected, Passed
<1> QED
  BY <1>4, <1>12, <1>13, <1>14 DEF Chain

\* The engine's verdict approves only where it has not seen the switch active.
LEMMA ApprovalRespectsHalt ==
    ASSUME NEW p, NEW halt \in BOOLEAN, NEW held, NEW available, NEW others,
           Verdict(p, halt, held, available, others) = "APPROVED"
    PROVE  ~halt
  BY DEF Verdict, HaltBlocks

LEMMA OwnChain ==
    ASSUME Core, Grows, ChainInv, NEW r \in Requests, Does(r)
    PROVE  Chain(r)'
<1>0. req \in [Requests -> RequestType] /\ Chain(r)
  BY DEF Core, TypeInv, TypeOK, ChainInv
<1> USE DEF Accepted, Rechecked
<1>1. ASSUME req'[r].pc \in {"idle", "answered", "lookup", "check"}
      PROVE  Chain(r)'
  BY <1>1 DEF Chain, Approved, HaltRespected, Passed, Backed
<1>2. ASSUME NEW outcome, NEW o, Answer(r, outcome, o)
      PROVE  Chain(r)'
  <2>1. req'[r].pc = "answered"
    BY <1>0, <1>2 DEF Answer, Blank
  <2> QED
    BY <1>1, <2>1
\* A request that has its re-check goes on, and the tables stay.
<1>3. ASSUME req[r].pc \in Rechecked, req'[r].pc \in Rechecked, orders' = orders,
             req'[r].intent = req[r].intent, req'[r].now = req[r].now,
             req'[r].verdict = req[r].verdict, req'[r].haltSeen = req[r].haltSeen,
             req'[r].recheck = req[r].recheck,
             req'[r].pc \in {"position", "fill"} => req[r].verdict = "APPROVED"
      PROVE  Chain(r)'
  <2>1. RecheckedBy(req[r].recheck) = {}
    BY <1>0, <1>3 DEF Chain, Backed
  <2>2. RecheckedBy(req[r].recheck)' = {}
    BY <1>3, <2>1 DEF RecheckedBy, OrderIds
  <2> QED
    BY <1>0, <1>3, <2>2, ChainStays
<1>4. ASSUME req[r].pc \in Rechecked, orders' = orders, NEW label \in {"reject", "raced"},
             Goto(r, label)
      PROVE  Chain(r)'
  <2>1. /\ req'[r].pc = label
        /\ req'[r].intent = req[r].intent /\ req'[r].now = req[r].now
        /\ req'[r].verdict = req[r].verdict /\ req'[r].haltSeen = req[r].haltSeen
        /\ req'[r].recheck = req[r].recheck
    BY <1>0, <1>4 DEF Goto, RequestType
  <2> QED
    BY <1>3, <1>4, <2>1
<1>5. CASE Begin(r)
  <2>1. req'[r].pc = "lookup"
    BY <1>0, <1>5 DEF Begin, Blank
  <2> QED
    BY <1>1, <2>1
<1>6. CASE Crash(r)
  <2>1. req'[r].pc = "idle"
    BY <1>0, <1>6, IdleType DEF Crash
  <2> QED
    BY <1>1, <2>1
<1>7. CASE LookupKey(r)
  <2>1. CASE Goto(r, "check")
    <3>1. req'[r].pc = "check"
      BY <1>0, <2>1 DEF Goto, RequestType
    <3> QED
      BY <1>1, <3>1
  <2> QED
    BY <1>2, <1>7, <2>1 DEF LookupKey
<1>8. CASE CheckDecision(r)
  <2>1. CASE Orderable(req[r].intent.decision, req[r].now)
    <3>1. Goto(r, "lock") /\ decisions' = decisions
      BY <1>8, <2>1 DEF CheckDecision, tables
    <3>2. /\ req'[r].pc = "lock" /\ req'[r].intent = req[r].intent
          /\ req'[r].now = req[r].now
      BY <1>0, <3>1 DEF Goto, RequestType
    <3>3. Approved(r)'
      BY <2>1, <3>1, <3>2 DEF Orderable, Approved, Fresh
    <3> QED
      BY <3>2, <3>3 DEF Chain, HaltRespected, Passed, Backed
  <2>2. CASE ~Orderable(req[r].intent.decision, req[r].now)
    BY <1>2, <1>8, <2>2 DEF CheckDecision
  <2> QED
    BY <2>1, <2>2
<1>9. CASE LockPortfolio(r)
  <2>1. /\ req[r].pc = "lock" /\ req'[r].pc = "evaluate"
        /\ req'[r].intent = req[r].intent /\ req'[r].now = req[r].now
        /\ req'[r].verdict = req[r].verdict /\ req'[r].haltSeen = req[r].haltSeen
        /\ req'[r].recheck = req[r].recheck
    BY <1>0, <1>9 DEF LockPortfolio, RequestType
  <2> QED
    BY <1>0, <2>1, ChainStays
<1>10. CASE Evaluate(r)
  <2>1. PICK others \in BOOLEAN :
          req' = [req EXCEPT ![r].pc = "record", ![r].haltSeen = halted,
                    ![r].verdict = Verdict(Proposal(r), halted, Held(Proposal(r)),
                                           req[r].cash, others)]
    BY <1>10 DEF Evaluate
  <2> DEFINE v == Verdict(Proposal(r), halted, Held(Proposal(r)), req[r].cash, others)
  <2>2. v = "APPROVED" => ~halted
    BY ApprovalRespectsHalt DEF Core, TypeInv, TypeOK
  <2>3. req' = [req EXCEPT ![r].pc = "record", ![r].haltSeen = halted, ![r].verdict = v]
    BY <2>1
  <2> HIDE DEF v
  <2>4. /\ req'[r].pc = "record" /\ req'[r].intent = req[r].intent
        /\ req'[r].now = req[r].now /\ req'[r].verdict = v /\ req'[r].haltSeen = halted
    BY <1>0, <2>3 DEF RequestType
  <2>5. req[r].pc = "evaluate" /\ decisions' = decisions
    BY <1>10 DEF Evaluate, tables
  <2>6. Approved(r)'
    BY <1>0, <2>4, <2>5 DEF Chain, Approved, Fresh
  <2> QED
    BY <2>2, <2>4, <2>6 DEF Chain, HaltRespected, Passed, Backed
<1>11. CASE RecordRecheck(r)
  BY <1>11, RecordChain
<1>12. CASE Reread(r)
  <2>1. req[r].pc \in Rechecked /\ orders' = orders
    BY <1>12 DEF Reread, tables
  <2>2. CASE Goto(r, "reject")
    BY <1>4, <2>1, <2>2
  <2>3. ASSUME NEW price, RecheckApproves(r),
               req' = [req EXCEPT ![r].pc = "position", ![r].price = price]
        PROVE  Chain(r)'
    <3>1. /\ req'[r].pc = "position"
          /\ req'[r].intent = req[r].intent /\ req'[r].now = req[r].now
          /\ req'[r].verdict = req[r].verdict /\ req'[r].haltSeen = req[r].haltSeen
          /\ req'[r].recheck = req[r].recheck
      BY <1>0, <2>3 DEF RequestType
    <3> QED
      BY <1>3, <2>1, <2>3, <3>1 DEF RecheckApproves
  <2> QED
    BY <1>12, <2>2, <2>3 DEF Reread
<1>13. CASE ReadPosition(r)
  <2>1. req[r].pc \in Rechecked /\ orders' = orders /\ req[r].verdict = "APPROVED"
    BY <1>0, <1>13 DEF ReadPosition, tables, Chain, Passed
  <2>2. CASE Goto(r, "reject")
    BY <1>4, <2>1, <2>2
  <2>3. ASSUME NEW pos, req' = [req EXCEPT ![r].pc = "fill", ![r].pos = pos]
        PROVE  Chain(r)'
    <3>1. /\ req'[r].pc = "fill"
          /\ req'[r].intent = req[r].intent /\ req'[r].now = req[r].now
          /\ req'[r].verdict = req[r].verdict /\ req'[r].haltSeen = req[r].haltSeen
          /\ req'[r].recheck = req[r].recheck
      BY <1>0, <2>3 DEF RequestType
    <3> QED
      BY <1>3, <2>1, <3>1
  <2> QED
    BY <1>13, <2>2, <2>3 DEF ReadPosition
<1>14. CASE Fill(r)
  BY <1>2, <1>14 DEF Fill
<1>15. CASE FillFails(r)
  <2>1. req[r].pc \in Rechecked /\ orders' = orders
    BY <1>15 DEF FillFails, tables
  <2> QED
    BY <1>2, <1>4, <1>15, <2>1 DEF FillFails
<1>16. CASE Reject(r)
  <2>1. req[r].pc \in Rechecked
    BY <1>16 DEF Reject
  <2> QED
    BY <1>2, <1>4, <1>16, <2>1 DEF Reject
<1>17. CASE Raced(r)
  BY <1>2, <1>17 DEF Raced
<1> QED
  BY <1>5, <1>6, <1>7, <1>8, <1>9, <1>10, <1>11, <1>12, <1>13, <1>14, <1>15, <1>16, <1>17
     DEF Does, Step

\* A request gets its re-check when it records it, and keeps it.
LEMMA RecheckKept ==
    ASSUME Core, NEW r \in Requests, Does(r), ~RecordRecheck(r), req'[r].pc \in Rechecked
    PROVE  req[r].pc \in Rechecked /\ req'[r].recheck = req[r].recheck
<1>0. req \in [Requests -> RequestType]
  BY DEF Core, TypeInv, TypeOK
<1> USE DEF Rechecked
<1>1. ASSUME NEW label, Goto(r, label)
      PROVE  req'[r].pc = label /\ req'[r].recheck = req[r].recheck
  BY <1>0, <1>1 DEF Goto, RequestType
<1>2. ASSUME NEW outcome, NEW o, Answer(r, outcome, o)
      PROVE  FALSE
  BY <1>0, <1>2 DEF Answer, Blank
<1>3. CASE Begin(r) \/ Crash(r)
  BY <1>0, <1>3, IdleType DEF Begin, Crash, Blank
<1>4. CASE LookupKey(r)
  BY <1>1, <1>2, <1>4 DEF LookupKey
<1>5. CASE CheckDecision(r)
  BY <1>1, <1>2, <1>5 DEF CheckDecision
<1>6. CASE LockPortfolio(r) \/ Evaluate(r)
  BY <1>0, <1>6 DEF LockPortfolio, Evaluate, RequestType
<1>7. CASE Reread(r)
  <2>1. ASSUME NEW price, req' = [req EXCEPT ![r].pc = "position", ![r].price = price]
        PROVE  req'[r].recheck = req[r].recheck
    BY <1>0, <2>1 DEF RequestType
  <2> QED
    BY <1>1, <1>7, <2>1 DEF Reread
<1>8. CASE ReadPosition(r)
  <2>1. ASSUME NEW pos, req' = [req EXCEPT ![r].pc = "fill", ![r].pos = pos]
        PROVE  req'[r].recheck = req[r].recheck
    BY <1>0, <2>1 DEF RequestType
  <2> QED
    BY <1>1, <1>8, <2>1 DEF ReadPosition
<1>9. CASE Fill(r) \/ Raced(r)
  BY <1>2, <1>9 DEF Fill, Raced
<1>10. CASE FillFails(r)
  BY <1>1, <1>2, <1>10 DEF FillFails
<1>11. CASE Reject(r)
  BY <1>1, <1>2, <1>11 DEF Reject
<1> QED
  BY <1>3, <1>4, <1>5, <1>6, <1>7, <1>8, <1>9, <1>10, <1>11 DEF Does, Step

LEMMA ApartStep ==
    ASSUME Core, Core', ChainInv, NEW r \in Requests, Does(r)
    PROVE  Apart'
<1>1. \A q \in Requests \ {r} : req'[q] = req[q]
  BY OthersKeep DEF Core
<1>2. ASSUME NEW q \in Requests \ {r}, req'[q].pc \in Rechecked, req'[r].pc \in Rechecked
      PROVE  req'[q].recheck # req'[r].recheck
  <2>1. req'[q] = req[q] /\ req[q].pc \in Rechecked
    BY <1>1, <1>2
  <2>2. CASE RecordRecheck(r)
    <3>1. req'[r].recheck = Len(decisions) + 1
      BY <2>2 DEF RecordRecheck, Core, TypeInv, TypeOK, RequestType
    <3>2. req[q].recheck \in DecisionIds
      BY <2>1 DEF Core, TypeInv, RowsExist
    <3> QED
      BY <2>1, <3>1, <3>2 DEF DecisionIds, Core, TypeInv, TypeOK
  <2>3. CASE ~RecordRecheck(r)
    <3>1. req[r].pc \in Rechecked /\ req'[r].recheck = req[r].recheck
      BY <1>2, <2>3, RecheckKept
    <3> QED
      BY <2>1, <3>1 DEF ChainInv, Apart
  <2> QED
    BY <2>2, <2>3
<1>3. ASSUME NEW q \in Requests \ {r}, NEW p \in Requests \ {r}, q # p,
             req'[q].pc \in Rechecked, req'[p].pc \in Rechecked
      PROVE  req'[q].recheck # req'[p].recheck
  BY <1>1, <1>3 DEF ChainInv, Apart
<1> QED
  BY <1>2, <1>3 DEF Apart

LEMMA RechecksExistStep ==
    ASSUME Core, Grows, ChainInv, NEW r \in Requests, Does(r)
    PROVE  RechecksExist'
<1>1. DecisionIds \subseteq DecisionIds'
  BY DEF Grows, DecisionIds, Core, TypeInv, TypeOK
<1>2. CASE orders' = orders
  BY <1>1, <1>2 DEF ChainInv, RechecksExist, OrderIds
<1>3. CASE orders' # orders
  <2>1. PICK o \in OrderType : Stores(r, o)
    BY <1>3, OrdersStored
  <2>2. \A i \in OrderIds' : orders'[i] = IF i \in OrderIds THEN orders[i] ELSE o
    BY <2>1 DEF Stores, OrderIds, Core, TypeInv, TypeOK
  <2>3. o.recheck \in DecisionIds
    BY <2>1 DEF Stores, Core, TypeInv, RowsExist
  <2> QED
    BY <1>1, <2>2, <2>3 DEF ChainInv, RechecksExist
<1> QED
  BY <1>2, <1>3

LEMMA ChainStep == Core /\ ChainInv /\ [Next]_vars => ChainInv'
<1> SUFFICES ASSUME Core, ChainInv, [Next]_vars PROVE ChainInv'
  OBVIOUS
<1>1. Grows /\ Core'
  BY CoreGrows, CoreStep
<1>2. ASSUME NEW r \in Requests, Does(r)
      PROVE  ChainInv'
  <2>1. \A q \in Requests : Chain(q)'
    BY <1>1, <1>2, OthersChain, OwnChain
  <2>2. Apart' /\ RechecksExist'
    BY <1>1, <1>2, ApartStep, RechecksExistStep
  <2> QED
    BY <2>1, <2>2 DEF ChainInv
<1>3. CASE Environment \/ UNCHANGED vars
  <2>1. req' = req /\ orders' = orders
    BY <1>3 DEF Environment, Tick, Activate, Deactivate, Propose, vars, tables
  <2>2. DecisionIds \subseteq DecisionIds'
    BY <1>1 DEF Grows, DecisionIds, Core, TypeInv, TypeOK
  <2>3. RechecksExist' /\ Apart'
    BY <2>1, <2>2 DEF ChainInv, RechecksExist, Apart, OrderIds
  <2>4. ASSUME NEW q \in Requests
        PROVE  Chain(q)'
    <3>1. Chain(q)
      BY DEF ChainInv
    <3>2. req[q].pc \in Rechecked => RecheckedBy(req[q].recheck)' = {}
      BY <2>1, <3>1 DEF Chain, Backed, RecheckedBy, OrderIds
    <3> QED
      BY <1>1, <2>1, <3>1, <3>2, ChainStays DEF Chain, Passed
  <2> QED
    BY <2>3, <2>4 DEF ChainInv
<1> QED
  BY <1>2, <1>3 DEF Next, Does

\* What a stored order rests on stays: its rows are final and nobody uses its re-check.
LEMMA SoundStays ==
    ASSUME Core, Grows, NEW o \in OrderIds, Sound(o),
           orders[o].status = "FILLED" =>
               RecheckedBy(orders[o].recheck)' = RecheckedBy(orders[o].recheck)
    PROVE  Sound(o)'
<1> SUFFICES ASSUME orders'[o].status = "FILLED" PROVE Sound(o)'
  BY DEF Sound
<1>1. orders'[o] = orders[o]
  BY DEF Grows
<1>2. DecisionIds \subseteq DecisionIds'
  BY DEF Grows, DecisionIds, Core, TypeInv, TypeOK
<1>3. /\ decisions'[orders[o].decision] = decisions[orders[o].decision]
      /\ decisions'[orders[o].recheck] = decisions[orders[o].recheck]
  BY <1>1 DEF Sound, Grows
<1> QED
  BY <1>1, <1>2, <1>3 DEF Sound

\* The order a fill stores rests on what its request has made sure of.
LEMMA StoredIsSound ==
    ASSUME Core, ChainInv, NEW r \in Requests, NEW o \in OrderType, Stores(r, o),
           NEW n \in Nat, n = Len(orders) + 1
    PROVE  Sound(n)'
<1> DEFINE d == req[r].intent.decision
           c == req[r].recheck
<1>1. /\ orders \in Seq(OrderType)
      /\ orders' = Append(orders, o) /\ decisions' = decisions
  BY DEF Core, TypeInv, TypeOK, Stores
<1>2. orders'[n] = o /\ OrderIds' = OrderIds \cup {n}
  BY <1>1 DEF OrderIds
<1>3. \A i \in OrderIds : orders'[i] = orders[i]
  BY <1>1 DEF OrderIds
<1> SUFFICES ASSUME o.status = "FILLED" PROVE Sound(n)'
  BY <1>2 DEF Sound
<1>4. /\ req[r].pc = "fill" /\ req[r].pc \in Accepted /\ req[r].pc \in Rechecked
      /\ o.decision = d /\ o.recheck = c /\ o.arrived = req[r].now
  BY DEF Stores, Accepted, Rechecked
<1>5. Chain(r) /\ d \in DecisionIds /\ c \in DecisionIds
  BY <1>4 DEF ChainInv, Core, TypeInv, RowsExist
<1>6. req[r].verdict = "APPROVED" /\ ~req[r].haltSeen
  BY <1>4, <1>5 DEF Chain, Passed, HaltRespected
<1>7. /\ decisions[d].verdict = "APPROVED"
      /\ req[r].now - decisions[d].decidedAt \in 0 .. MaxAge
  BY <1>4, <1>5 DEF Chain, Approved, Fresh
<1>8. /\ d < c /\ decisions[c].proposal = decisions[d].proposal
      /\ decisions[c].decidedAt = req[r].now /\ decisions[c].verdict = "APPROVED"
      /\ ~decisions[c].haltSeen /\ RecheckedBy(c) = {}
  BY <1>4, <1>5, <1>6 DEF Chain, Backed, Proposal
<1>9. \A i \in OrderIds' : orders'[i].recheck = o.recheck <=> i = n
  BY <1>2, <1>3, <1>4, <1>8 DEF RecheckedBy
<1>10. RecheckedBy(orders[n].recheck)' = {n}
  BY <1>2, <1>9 DEF RecheckedBy
<1> HIDE DEF d, c
<1> QED
  BY <1>1, <1>2, <1>4, <1>5, <1>7, <1>8, <1>10 DEF Sound, DecisionIds

LEMMA SoundStep == Core /\ ChainInv /\ SoundFills /\ [Next]_vars => SoundFills'
<1> SUFFICES ASSUME Core, ChainInv, SoundFills, [Next]_vars PROVE SoundFills'
  OBVIOUS
<1>1. Grows
  BY CoreGrows
<1>2. CASE orders' = orders
  <2>1. ASSUME NEW i \in OrderIds'
        PROVE  Sound(i)'
    <3>1. i \in OrderIds /\ Sound(i)
      BY <1>2 DEF OrderIds, SoundFills
    <3>2. RecheckedBy(orders[i].recheck)' = RecheckedBy(orders[i].recheck)
      BY <1>2 DEF RecheckedBy, OrderIds
    <3> QED
      BY <1>1, <3>1, <3>2, SoundStays
  <2> QED
    BY <2>1 DEF SoundFills
<1>3. ASSUME NEW r \in Requests, Does(r), orders' # orders
      PROVE  SoundFills'
  <2>1. PICK o \in OrderType : Stores(r, o)
    BY <1>3, OrdersStored
  <2>2. /\ orders \in Seq(OrderType) /\ orders' = Append(orders, o)
        /\ o.recheck = req[r].recheck
    BY <2>1 DEF Core, TypeInv, TypeOK, Stores
  <2>3. /\ OrderIds' = OrderIds \cup {Len(orders) + 1} /\ Len(orders) + 1 \in Nat
        /\ orders'[Len(orders) + 1] = o
        /\ \A i \in OrderIds : orders'[i] = orders[i]
    BY <2>2 DEF OrderIds
  <2>4. RecheckedBy(req[r].recheck) = {}
    BY <2>1 DEF ChainInv, Chain, Backed, Stores
  <2>5. ASSUME NEW i \in OrderIds
        PROVE  Sound(i)'
    <3>1. Sound(i)
      BY DEF SoundFills
    <3>2. orders[i].recheck # o.recheck
      BY <2>2, <2>4 DEF RecheckedBy
    <3>3. RecheckedBy(orders[i].recheck)' = RecheckedBy(orders[i].recheck)
      BY <2>3, <3>2 DEF RecheckedBy
    <3> QED
      BY <1>1, <3>1, <3>3, SoundStays
  <2>6. ASSUME NEW i \in Nat, i = Len(orders) + 1
        PROVE  Sound(i)'
    BY <2>1, <2>6, StoredIsSound
  <2> QED
    BY <2>3, <2>5, <2>6 DEF SoundFills
<1>4. CASE Environment \/ UNCHANGED vars
  BY <1>2, <1>4 DEF Environment, Tick, Activate, Deactivate, Propose, vars, tables
<1> QED
  BY <1>2, <1>3, <1>4 DEF Next, Does

LEMMA SoundInvariant == Spec => [](Core /\ ChainInv /\ SoundFills)
<1>1. Core /\ ChainInv /\ SoundFills /\ [Next]_vars => (Core /\ ChainInv /\ SoundFills)'
  BY CoreStep, ChainStep, SoundStep
<1> QED
  BY <1>1, CoreInit, ChainInit, PTL DEF Spec

\* Every fill rests on a fresh approval and on a later approval of the same trade by a
\* re-check that this very request made and no other order uses, although the lock that
\* should guard the re-check is gone by the time of the fill (place_order).
THEOREM FillsRestOnRechecks == Spec => []FillsAreRechecked
<1>1. SoundFills => FillsAreRechecked
  BY DEF SoundFills, Sound, FillsAreRechecked
<1> QED
  BY <1>1, SoundInvariant, PTL

\* Whatever the moment an admin halts trading, no fill rests on a re-check that saw the
\* kill switch active (place_order and the engine's first gate).
THEOREM HaltedRechecksFillNothing == Spec => []HaltStopsFills
<1>1. SoundFills => HaltStopsFills
  BY DEF SoundFills, Sound, HaltStopsFills
<1> QED
  BY <1>1, SoundInvariant, PTL

-----------------------------------------------------------------------------
(* Answers                                                                  *)

\* A re-check of a request's decision that no order names and no request will use.
Left(r) ==
    \E c \in DecisionIds :
        /\ decisions[c].recheckOf = req[r].intent.decision /\ RecheckedBy(c) = {}
        /\ \A q \in Requests : req[q].pc \in Rechecked => req[q].recheck # c

\* What AnswersAgree says of one request, with the re-check that is left behind.
RightAnswer(r) ==
    req[r].outcome \in {"order", "replay"} =>
        /\ req[r].answer \in OrderIds
        /\ orders[req[r].answer].key = req[r].intent.key
        /\ \/ SameOrder(orders[req[r].answer], req[r].intent)
           \/ req[r].outcome = "replay" /\ Left(r)

RightAnswers == \A r \in Requests : RightAnswer(r)

\* Nobody takes up a re-check that was left behind.
LEMMA LeftStays ==
    ASSUME Core, Grows, ChainInv, [Next]_vars, NEW q \in Requests, Left(q),
           req'[q].intent = req[q].intent
    PROVE  Left(q)'
<1>1. PICK c \in DecisionIds :
        /\ decisions[c].recheckOf = req[q].intent.decision /\ RecheckedBy(c) = {}
        /\ \A p \in Requests : req[p].pc \in Rechecked => req[p].recheck # c
  BY DEF Left
<1>2. c \in DecisionIds' /\ decisions'[c] = decisions[c]
  BY DEF Grows, DecisionIds, Core, TypeInv, TypeOK
<1>3. ASSUME NEW r \in Requests, Does(r)
      PROVE  /\ RecheckedBy(c)' = {}
             /\ \A p \in Requests : req'[p].pc \in Rechecked => req'[p].recheck # c
  <2>1. RecheckedBy(c)' = {}
    BY <1>1, <1>3, RecheckUnused
  <2>2. \A p \in Requests \ {r} : req'[p] = req[p]
    BY <1>3, OthersKeep DEF Core
  <2>3. CASE RecordRecheck(r)
    <3>1. req'[r].recheck = Len(decisions) + 1
      BY <2>3 DEF RecordRecheck, Core, TypeInv, TypeOK, RequestType
    <3>2. Len(decisions) + 1 # c
      BY DEF DecisionIds, Core, TypeInv, TypeOK
    <3> QED
      BY <1>1, <2>1, <2>2, <3>1, <3>2
  <2>4. CASE ~RecordRecheck(r)
    BY <1>1, <1>3, <2>1, <2>2, <2>4, RecheckKept
  <2> QED
    BY <2>3, <2>4
<1>4. CASE Environment \/ UNCHANGED vars
  <2>1. req' = req /\ orders' = orders
    BY <1>4 DEF Environment, Tick, Activate, Deactivate, Propose, vars, tables
  <2> QED
    BY <1>1, <1>2, <2>1 DEF Left, RecheckedBy, OrderIds
<1>5. CASE \E r \in Requests : Does(r)
  BY <1>1, <1>2, <1>3, <1>5 DEF Left
<1> QED
  BY <1>4, <1>5 DEF Next, Does

\* An answer once given stays right: orders are never changed or removed.
LEMMA AnswerStays ==
    ASSUME Core, Grows, ChainInv, [Next]_vars, NEW q \in Requests, RightAnswer(q),
           req'[q].outcome = req[q].outcome, req'[q].answer = req[q].answer,
           req'[q].intent = req[q].intent
    PROVE  RightAnswer(q)'
<1>1. OrderIds \subseteq OrderIds'
  BY DEF Grows, OrderIds, Core, TypeInv, TypeOK
<1>2. Left(q) => Left(q)'
  BY LeftStays
<1> QED
  BY <1>1, <1>2 DEF RightAnswer, Grows, SameOrder

\* Where an answer comes from: the order just stored, or the one found by its key.
LEMMA AnswerIsRight ==
    ASSUME Core, Grows, NEW r \in Requests, NEW outcome, NEW o \in OrderIds',
           Answer(r, outcome, o),
           outcome \in {"order", "replay"} =>
               /\ orders'[o].key = req[r].intent.key
               /\ SameOrder(orders'[o], req[r].intent) \/ (outcome = "replay" /\ Left(r)')
    PROVE  RightAnswer(r)'
<1>1. req' = [req EXCEPT ![r] = Blank("answered", req[r].intent, 0, outcome, o)]
  BY DEF Answer
<1>2. /\ req'[r].outcome = outcome /\ req'[r].answer = o
      /\ req'[r].intent = req[r].intent
  BY <1>1 DEF Blank, Core, TypeInv, TypeOK
<1> QED
  BY <1>2 DEF RightAnswer, SameOrder

\* A request that lost the race for its key leaves its re-check behind.
LEMMA LoserLeavesRecheck ==
    ASSUME Core, Grows, ChainInv, NEW r \in Requests, Raced(r)
    PROVE  Left(r)'
<1> DEFINE c == req[r].recheck
<1>1. /\ req[r].pc \in Rechecked /\ req'[r].intent = req[r].intent
      /\ req'[r].pc = "answered" /\ \A q \in Requests \ {r} : req'[q] = req[q]
      /\ decisions' = decisions /\ orders' = orders
  BY DEF Raced, Answer, Blank, Rechecked, tables, Core, TypeInv, TypeOK
<1>2. /\ c \in DecisionIds /\ RecheckedBy(c) = {}
      /\ decisions[c].recheckOf = req[r].intent.decision
  BY <1>1 DEF ChainInv, Chain, Backed, Core, TypeInv, RowsExist
<1>3. \A q \in Requests \ {r} : req[q].pc \in Rechecked => req[q].recheck # c
  BY <1>1 DEF ChainInv, Apart
<1>4. c \in DecisionIds' /\ \A o \in OrderIds' : orders'[o].recheck # c
  BY <1>1, <1>2 DEF DecisionIds, RecheckedBy, OrderIds
<1>5. \A q \in Requests : req'[q].pc \in Rechecked => req'[q].recheck # c
  BY <1>1, <1>3 DEF Rechecked
<1> HIDE DEF c
<1> QED
  BY <1>1, <1>2, <1>4, <1>5 DEF Left, RecheckedBy

LEMMA OwnStepAnswers ==
    ASSUME Core, Grows, ChainInv, NEW r \in Requests, Does(r), RightAnswer(r)
    PROVE  RightAnswer(r)'
<1>00. [Next]_vars
  BY DEF Does, Next
<1>0. req \in [Requests -> RequestType] /\ orders \in Seq(OrderType)
  BY DEF Core, TypeInv, TypeOK
<1>1. ASSUME NEW label, Goto(r, label)
      PROVE  RightAnswer(r)'
  <2>1. /\ req'[r].outcome = req[r].outcome /\ req'[r].answer = req[r].answer
        /\ req'[r].intent = req[r].intent
    BY <1>0, <1>1 DEF Goto, RequestType
  <2> QED
    BY <1>00, <2>1, AnswerStays
<1>2. ASSUME NEW outcome, outcome \notin {"order", "replay"}, NEW o, Answer(r, outcome, o)
      PROVE  RightAnswer(r)'
  <2>1. req'[r].outcome = outcome
    BY <1>0, <1>2 DEF Answer, Blank
  <2> QED
    BY <1>2, <2>1 DEF RightAnswer
<1>3. ASSUME NEW status, NEW price, NEW balance,
             orders' = Append(orders, NewOrder(r, status, price, balance)),
             Answer(r, "order", Len(orders) + 1)
      PROVE  RightAnswer(r)'
  <2> DEFINE o == NewOrder(r, status, price, balance)
  <2>1. /\ o.key = req[r].intent.key /\ o.decision = req[r].intent.decision
        /\ o.approver = req[r].intent.approver
    BY DEF NewOrder
  <2> HIDE DEF o
  <2>2. Len(orders) + 1 \in OrderIds' /\ orders'[Len(orders) + 1] = o
    <3>1. orders' = Append(orders, o) /\ Len(orders) \in Nat
      BY <1>0, <1>3 DEF o
    <3> QED
      BY <1>0, <3>1 DEF OrderIds
  <2> QED
    BY <1>3, <2>1, <2>2, AnswerIsRight DEF SameOrder
<1>4. CASE Begin(r) \/ Crash(r)
  <2>1. req'[r].outcome = "none"
    BY <1>0, <1>4 DEF Begin, Crash, Idle, Blank
  <2> QED
    BY <2>1 DEF RightAnswer
<1>5. CASE LookupKey(r)
  <2>1. ASSUME NEW o \in WithKey(req[r].intent.key), SameRequest(o, req[r].intent),
               Answer(r, "replay", o)
        PROVE  RightAnswer(r)'
    <3>1. o \in OrderIds /\ orders' = orders /\ orders[o].key = req[r].intent.key
      BY <1>5 DEF LookupKey, WithKey, tables
    <3>2. o \in OrderIds' /\ SameOrder(orders'[o], req[r].intent)
      BY <2>1, <3>1 DEF SameRequest, OrderIds
    <3> QED
      BY <2>1, <3>1, <3>2, AnswerIsRight
  <2> QED
    BY <1>1, <1>2, <1>5, <2>1 DEF LookupKey
<1>6. CASE CheckDecision(r)
  BY <1>1, <1>2, <1>6 DEF CheckDecision
<1>7. CASE LockPortfolio(r) \/ Evaluate(r) \/ RecordRecheck(r)
  <2>1. /\ req'[r].outcome = req[r].outcome /\ req'[r].answer = req[r].answer
        /\ req'[r].intent = req[r].intent
    BY <1>0, <1>7 DEF LockPortfolio, Evaluate, RecordRecheck, RequestType
  <2> QED
    BY <1>00, <2>1, AnswerStays
<1>8. CASE Reread(r)
  <2>1. ASSUME NEW price, req' = [req EXCEPT ![r].pc = "position", ![r].price = price]
        PROVE  /\ req'[r].outcome = req[r].outcome /\ req'[r].answer = req[r].answer
               /\ req'[r].intent = req[r].intent
    BY <1>0, <2>1 DEF RequestType
  <2> QED
    BY <1>1, <1>8, <2>1, <1>00, AnswerStays DEF Reread
<1>9. CASE ReadPosition(r)
  <2>1. ASSUME NEW pos, req' = [req EXCEPT ![r].pc = "fill", ![r].pos = pos]
        PROVE  /\ req'[r].outcome = req[r].outcome /\ req'[r].answer = req[r].answer
               /\ req'[r].intent = req[r].intent
    BY <1>0, <2>1 DEF RequestType
  <2> QED
    BY <1>1, <1>9, <2>1, <1>00, AnswerStays DEF ReadPosition
<1>10. CASE Fill(r)
  BY <1>3, <1>10 DEF Fill
<1>11. CASE FillFails(r)
  BY <1>1, <1>2, <1>11 DEF FillFails
<1>12. CASE Reject(r)
  BY <1>1, <1>3, <1>12 DEF Reject
<1>13. CASE Raced(r)
  <2>1. ASSUME NEW o \in WithKey(req[r].intent.key), Answer(r, "replay", o)
        PROVE  RightAnswer(r)'
    <3>1. o \in OrderIds /\ orders' = orders /\ orders[o].key = req[r].intent.key
      BY <1>13 DEF Raced, WithKey, tables
    <3>2. o \in OrderIds' /\ Left(r)'
      BY <1>13, <3>1, LoserLeavesRecheck DEF OrderIds
    <3> QED
      BY <2>1, <3>1, <3>2, AnswerIsRight
  <2> QED
    BY <1>2, <1>13, <2>1 DEF Raced
<1> QED
  BY <1>4, <1>5, <1>6, <1>7, <1>8, <1>9, <1>10, <1>11, <1>12, <1>13 DEF Does, Step

LEMMA AnswersStep == Core /\ ChainInv /\ RightAnswers /\ [Next]_vars => RightAnswers'
<1> SUFFICES ASSUME Core, ChainInv, RightAnswers, [Next]_vars, NEW q \in Requests
             PROVE  RightAnswer(q)'
  BY DEF RightAnswers
<1>1. RightAnswer(q) /\ Grows
  BY CoreGrows DEF RightAnswers
<1>2. CASE req' = req
  BY <1>1, <1>2, AnswerStays
<1>3. ASSUME NEW r \in Requests, Does(r)
      PROVE  RightAnswer(q)'
  <2>1. CASE q = r
    BY <1>1, <1>3, <2>1, OwnStepAnswers
  <2>2. CASE q # r
    BY <1>1, <1>3, <2>2, OthersKeep, AnswerStays DEF Core
  <2> QED
    BY <2>1, <2>2
<1>4. CASE Environment \/ UNCHANGED vars
  BY <1>2, <1>4 DEF Environment, Tick, Activate, Deactivate, Propose, vars, tables
<1> QED
  BY <1>3, <1>4 DEF Next, Does

LEMMA RightImplies == OneOrderPerKey /\ RightAnswers => AnswersAgree
<1> SUFFICES ASSUME OneOrderPerKey, RightAnswers, NEW r \in Requests,
                    req[r].outcome \in {"order", "replay"}
             PROVE  /\ WithKey(req[r].intent.key) = {req[r].answer}
                    /\ \/ SameOrder(orders[req[r].answer], req[r].intent)
                       \/ req[r].outcome = "replay" /\ LeftRecheck(req[r].intent.decision)
  BY DEF AnswersAgree
<1>1. RightAnswer(r)
  BY DEF RightAnswers
<1>2. WithKey(req[r].intent.key) = {req[r].answer}
  BY <1>1 DEF RightAnswer, WithKey, OneOrderPerKey
<1> QED
  BY <1>1, <1>2 DEF RightAnswer, Left, LeftRecheck

\* Whoever is answered with an order gets the one order of the key; it is the request's
\* own unless the request lost the race for the key, and then its re-check stays behind
\* unused (place_order and the route's handler of IntegrityError, which compares nothing).
THEOREM AnswersAgreeOnKeys == Spec => []AnswersAgree
<1>1. Init => RightAnswers
  BY DEF Init, Idle, Blank, RightAnswers, RightAnswer
<1>2. Core /\ ChainInv /\ RightAnswers /\ [Next]_vars => (Core /\ ChainInv /\ RightAnswers)'
  BY CoreStep, ChainStep, AnswersStep
<1>3. Spec => []RightAnswers
  BY <1>1, <1>2, CoreInit, ChainInit, PTL DEF Spec
<1> QED
  BY <1>3, KeysAreUnique, RightImplies, PTL

-----------------------------------------------------------------------------
(* One request at a time (SerialSpec): what a request has read stays true   *)

LEMMA SerialIsNext == [SerialNext]_vars => [Next]_vars
  BY DEF SerialNext, Next

Alone == \A q, r \in Requests : req[q].pc \in Running /\ req[r].pc \in Running => q = r

\* The labels at which a request has its portfolio's cash, and has its verdict.
HasCash == {"evaluate", "record", "reread", "position", "fill"}
HasVerdict == {"record", "reread", "position", "fill"}

BalanceCurrent(r) ==
    req[r].pc \in HasCash => req[r].cash = cash[Proposal(r).pf]

LimitCurrent(r) ==
    req[r].pc \in HasVerdict /\ req[r].verdict = "APPROVED" /\ Proposal(r).side = "buy"
        => Held(Proposal(r)).qty + Proposal(r).qty <= MaxHolding

StillUnfilled(r) ==
    req[r].pc \in {"position", "fill"} =>
        /\ ~AlreadyExecuted(req[r].intent.decision)
        /\ ~WorseThanLimit(Proposal(r), req[r].price)

RowCurrent(r) == req[r].pc = "fill" => req[r].pos = Held(Proposal(r))

Current(r) == BalanceCurrent(r) /\ LimitCurrent(r) /\ StillUnfilled(r) /\ RowCurrent(r)

DecisionsExist == \A o \in OrderIds : orders[o].decision \in DecisionIds

CurrentInv == Alone /\ DecisionsExist /\ \A r \in Requests : Current(r)

LEMMA CurrentInit == Init => CurrentInv
<1> SUFFICES ASSUME Init PROVE CurrentInv
  OBVIOUS
<1>1. OrderIds = {}
  BY DEF Init, OrderIds
<1>2. \A r \in Requests : req[r].pc = "idle"
  BY IdleType DEF Init
<1> QED
  BY <1>1, <1>2 DEF CurrentInv, Alone, DecisionsExist, Current, BalanceCurrent, HasCash,
     LimitCurrent, HasVerdict, StillUnfilled, RowCurrent, Running

\* The request that takes a step is the only one that runs.
LEMMA OnlyRunner ==
    ASSUME Core, Alone, NEW r \in Requests,
           (Active = {} /\ Begin(r)) \/ Step(r) \/ Crash(r), NEW q \in Requests \ {r}
    PROVE  req[q].pc \notin Running
<1>1. CASE Active = {}
  BY <1>1 DEF Active
<1>2. CASE Step(r) \/ Crash(r)
  <2>1. req[r].pc \in Running
    BY <1>2 DEF Step, LookupKey, CheckDecision, LockPortfolio, Evaluate, RecordRecheck,
       Reread, ReadPosition, Fill, FillFails, Reject, Raced, Crash, Running
  <2> QED
    BY <2>1 DEF Alone
<1> QED
  BY <1>1, <1>2

\* The ledger and what a request holds stay: so does what it has made sure of.
LEMMA CurrentStays ==
    ASSUME Core, Grows, NEW q \in Requests, Current(q),
           orders' = orders, cash' = cash, positions' = positions,
           req'[q].intent = req[q].intent, req'[q].cash = req[q].cash,
           req'[q].verdict = req[q].verdict,
           req'[q].pc \in HasCash => req[q].pc \in HasCash,
           req'[q].pc \in HasVerdict => req[q].pc \in HasVerdict,
           req'[q].pc \in {"position", "fill"} =>
               req[q].pc \in {"position", "fill"} /\ req'[q].price = req[q].price,
           req'[q].pc = "fill" => req[q].pc = "fill" /\ req'[q].pos = req[q].pos
    PROVE  Current(q)'
<1>1. CASE req'[q].pc \in HasCash
  <2>1. req[q].pc \in Accepted
    BY <1>1 DEF HasCash, Accepted
  <2>2. Proposal(q)' = Proposal(q)
    BY <2>1, ProposalKept DEF Core
  <2>3. Held(Proposal(q))' = Held(Proposal(q))
    BY <2>2 DEF Held
  <2>4. BalanceCurrent(q)' /\ LimitCurrent(q)' /\ RowCurrent(q)'
    BY <1>1, <2>2, <2>3 DEF Current, BalanceCurrent, LimitCurrent, RowCurrent
  <2>5. StillUnfilled(q)'
    BY <2>2 DEF Current, StillUnfilled, AlreadyExecuted, FillsOf, OrderIds, WorseThanLimit
  <2> QED
    BY <2>4, <2>5 DEF Current
<1>2. CASE req'[q].pc \notin HasCash
  BY <1>2 DEF Current, BalanceCurrent, LimitCurrent, StillUnfilled, RowCurrent, HasCash,
     HasVerdict
<1> QED
  BY <1>1, <1>2

\* A request that waits has nothing to be current.
LEMMA NothingRead ==
    ASSUME NEW q \in Requests, req'[q].pc \notin HasCash
    PROVE  Current(q)'
  BY DEF Current, BalanceCurrent, LimitCurrent, StillUnfilled, RowCurrent, HasCash,
     HasVerdict

\* An approving verdict has judged the shares held then against the limit.
LEMMA ApprovalWithinLimits ==
    ASSUME NEW p, NEW halt, NEW held, NEW available, NEW others, p.side = "buy",
           Verdict(p, halt, held, available, others) = "APPROVED"
    PROVE  held.qty + p.qty <= MaxHolding
  BY DEF Verdict, WithinLimits

LEMMA OwnCurrent ==
    ASSUME Core, Grows, CurrentInv, NEW r \in Requests, Does(r)
    PROVE  Current(r)'
<1>0. req \in [Requests -> RequestType] /\ Current(r)
  BY DEF Core, TypeInv, TypeOK, CurrentInv
<1> USE DEF HasCash, HasVerdict
<1>1. ASSUME NEW outcome, NEW o, Answer(r, outcome, o)
      PROVE  Current(r)'
  <2>1. req'[r].pc = "answered"
    BY <1>0, <1>1 DEF Answer, Blank
  <2> QED
    BY <2>1, NothingRead
<1>2. ASSUME NEW label \in {"check", "lock", "reject", "raced"}, Goto(r, label)
      PROVE  Current(r)'
  <2>1. req'[r].pc = label
    BY <1>0, <1>2 DEF Goto, RequestType
  <2> QED
    BY <2>1, NothingRead
<1>3. CASE Begin(r) \/ Crash(r)
  <2>1. req'[r].pc \in {"lookup", "idle"}
    BY <1>0, <1>3, IdleType DEF Begin, Crash, Blank
  <2> QED
    BY <2>1, NothingRead
<1>4. CASE LookupKey(r) \/ CheckDecision(r) \/ Fill(r) \/ FillFails(r) \/ Reject(r) \/ Raced(r)
  BY <1>1, <1>2, <1>4 DEF LookupKey, CheckDecision, Fill, FillFails, Reject, Raced
<1>5. CASE LockPortfolio(r)
  <2>1. /\ req[r].pc = "lock" /\ req[r].pc \in Accepted /\ cash' = cash
        /\ req'[r].pc = "evaluate" /\ req'[r].cash = cash[Proposal(r).pf]
        /\ req'[r].intent = req[r].intent
    BY <1>0, <1>5 DEF LockPortfolio, RequestType, Accepted, tables
  <2>2. Proposal(r)' = Proposal(r)
    BY <2>1, ProposalKept DEF Core
  <2> QED
    BY <2>1, <2>2 DEF Current, BalanceCurrent, LimitCurrent, StillUnfilled, RowCurrent
<1>6. CASE Evaluate(r)
  <2>1. PICK others \in BOOLEAN :
          req' = [req EXCEPT ![r].pc = "record", ![r].haltSeen = halted,
                    ![r].verdict = Verdict(Proposal(r), halted, Held(Proposal(r)),
                                           req[r].cash, others)]
    BY <1>6 DEF Evaluate
  <2> DEFINE v == Verdict(Proposal(r), halted, Held(Proposal(r)), req[r].cash, others)
  <2>2. v = "APPROVED" /\ Proposal(r).side = "buy"
          => Held(Proposal(r)).qty + Proposal(r).qty <= MaxHolding
    BY ApprovalWithinLimits
  <2>3. req' = [req EXCEPT ![r].pc = "record", ![r].haltSeen = halted, ![r].verdict = v]
    BY <2>1
  <2> HIDE DEF v
  <2>4. /\ req'[r].pc = "record" /\ req'[r].intent = req[r].intent
        /\ req'[r].cash = req[r].cash /\ req'[r].verdict = v
    BY <1>0, <2>3 DEF RequestType
  <2>5. /\ req[r].pc = "evaluate" /\ req[r].pc \in Accepted
        /\ cash' = cash /\ positions' = positions
    BY <1>6 DEF Evaluate, tables, Accepted
  <2>6. Proposal(r)' = Proposal(r)
    BY <2>4, <2>5, ProposalKept DEF Core
  <2>7. Held(Proposal(r))' = Held(Proposal(r))
    BY <2>5, <2>6 DEF Held
  <2>8. BalanceCurrent(r)' /\ LimitCurrent(r)'
    BY <1>0, <2>2, <2>4, <2>5, <2>6, <2>7 DEF Current, BalanceCurrent, LimitCurrent
  <2> QED
    BY <2>4, <2>8 DEF Current, StillUnfilled, RowCurrent
<1>7. CASE RecordRecheck(r)
  <2>1. /\ req[r].pc = "record" /\ req'[r].pc = "reread"
        /\ req'[r].intent = req[r].intent /\ req'[r].cash = req[r].cash
        /\ req'[r].verdict = req[r].verdict
        /\ orders' = orders /\ cash' = cash /\ positions' = positions
    BY <1>0, <1>7 DEF RecordRecheck, RequestType
  <2> QED
    BY <1>0, <2>1, CurrentStays
<1>8. CASE Reread(r)
  <2>1. ASSUME NEW price, ~WorseThanLimit(Proposal(r), price),
               ~AlreadyExecuted(req[r].intent.decision),
               req' = [req EXCEPT ![r].pc = "position", ![r].price = price]
        PROVE  Current(r)'
    <3>1. /\ req'[r].pc = "position" /\ req'[r].intent = req[r].intent
          /\ req'[r].cash = req[r].cash /\ req'[r].verdict = req[r].verdict
          /\ req'[r].price = price
      BY <1>0, <2>1 DEF RequestType
    <3>2. /\ req[r].pc = "reread" /\ req[r].pc \in Accepted
          /\ orders' = orders /\ cash' = cash /\ positions' = positions
      BY <1>8 DEF Reread, tables, Accepted
    <3>3. Proposal(r)' = Proposal(r)
      BY <3>1, <3>2, ProposalKept DEF Core
    <3>4. Held(Proposal(r))' = Held(Proposal(r))
      BY <3>2, <3>3 DEF Held
    <3>5. StillUnfilled(r)'
      BY <2>1, <3>1, <3>2, <3>3 DEF StillUnfilled, AlreadyExecuted, FillsOf, OrderIds,
         WorseThanLimit
    <3>6. BalanceCurrent(r)' /\ LimitCurrent(r)'
      BY <1>0, <3>1, <3>2, <3>3, <3>4 DEF Current, BalanceCurrent, LimitCurrent
    <3> QED
      BY <3>1, <3>5, <3>6 DEF Current, RowCurrent
  <2> QED
    BY <1>2, <1>8, <2>1 DEF Reread
<1>9. CASE ReadPosition(r)
  <2>1. CASE req' = [req EXCEPT ![r].pc = "fill", ![r].pos = Held(Proposal(r))]
    <3>1. /\ req'[r].pc = "fill" /\ req'[r].intent = req[r].intent
          /\ req'[r].cash = req[r].cash /\ req'[r].verdict = req[r].verdict
          /\ req'[r].price = req[r].price /\ req'[r].pos = Held(Proposal(r))
      BY <1>0, <2>1 DEF RequestType
    <3>2. /\ req[r].pc = "position" /\ req[r].pc \in Accepted
          /\ orders' = orders /\ cash' = cash /\ positions' = positions
      BY <1>9 DEF ReadPosition, tables, Accepted
    <3>3. Proposal(r)' = Proposal(r)
      BY <3>1, <3>2, ProposalKept DEF Core
    <3>4. Held(Proposal(r))' = Held(Proposal(r))
      BY <3>2, <3>3 DEF Held
    <3>5. StillUnfilled(r)'
      BY <1>0, <3>1, <3>2, <3>3 DEF Current, StillUnfilled, AlreadyExecuted, FillsOf,
         OrderIds, WorseThanLimit
    <3>6. BalanceCurrent(r)' /\ LimitCurrent(r)' /\ RowCurrent(r)'
      BY <1>0, <3>1, <3>2, <3>3, <3>4 DEF Current, BalanceCurrent, LimitCurrent, RowCurrent
    <3> QED
      BY <3>5, <3>6 DEF Current
  <2> QED
    BY <1>2, <1>9, <2>1 DEF ReadPosition
<1> QED
  BY <1>3, <1>4, <1>5, <1>6, <1>7, <1>8, <1>9 DEF Does, Step

LEMMA DecisionsExistStep ==
    ASSUME Core, Grows, DecisionsExist, NEW r \in Requests, Does(r)
    PROVE  DecisionsExist'
<1>1. DecisionIds \subseteq DecisionIds'
  BY DEF Grows, DecisionIds, Core, TypeInv, TypeOK
<1>2. CASE orders' = orders
  BY <1>1, <1>2 DEF DecisionsExist, OrderIds
<1>3. CASE orders' # orders
  <2>1. PICK o \in OrderType : Stores(r, o)
    BY <1>3, OrdersStored
  <2>2. \A i \in OrderIds' : orders'[i] = IF i \in OrderIds THEN orders[i] ELSE o
    BY <2>1 DEF Stores, OrderIds, Core, TypeInv, TypeOK
  <2>3. o.decision \in DecisionIds
    BY <2>1 DEF Stores, Core, TypeInv, RowsExist, Accepted, Rechecked
  <2> QED
    BY <1>1, <2>2, <2>3 DEF DecisionsExist
<1> QED
  BY <1>2, <1>3

LEMMA CurrentStep == Core /\ CurrentInv /\ [SerialNext]_vars => CurrentInv'
<1> SUFFICES ASSUME Core, CurrentInv, [SerialNext]_vars PROVE CurrentInv'
  OBVIOUS
<1>1. Grows
  BY CoreGrows, SerialIsNext
<1>2. ASSUME NEW r \in Requests, (Active = {} /\ Begin(r)) \/ Step(r) \/ Crash(r)
      PROVE  CurrentInv'
  <2>1. Does(r)
    BY <1>2 DEF Does
  <2>2. \A q \in Requests \ {r} : req'[q] = req[q] /\ req[q].pc \notin Running
    BY <1>2, <2>1, OthersKeep, OnlyRunner DEF Core, CurrentInv
  <2>3. Alone'
    BY <2>2 DEF Alone
  <2>4. ASSUME NEW q \in Requests
        PROVE  Current(q)'
    <3>1. CASE q = r
      BY <1>1, <2>1, <3>1, OwnCurrent
    <3>2. CASE q # r
      <4>1. req'[q].pc \notin HasCash
        BY <2>2, <3>2 DEF HasCash, Running
      <4> QED
        BY <4>1, NothingRead
    <3> QED
      BY <3>1, <3>2
  <2> QED
    BY <1>1, <2>1, <2>3, <2>4, DecisionsExistStep DEF CurrentInv
<1>3. CASE Environment \/ UNCHANGED vars
  <2>1. /\ req' = req /\ orders' = orders /\ cash' = cash /\ positions' = positions
    BY <1>3 DEF Environment, Tick, Activate, Deactivate, Propose, vars, tables
  <2>2. \A q \in Requests : Current(q)'
    BY <1>1, <2>1, CurrentStays DEF CurrentInv
  <2>3. DecisionIds \subseteq DecisionIds'
    BY <1>1 DEF Grows, DecisionIds, Core, TypeInv, TypeOK
  <2> QED
    BY <2>1, <2>2, <2>3 DEF CurrentInv, Alone, DecisionsExist, OrderIds
<1> QED
  BY <1>2, <1>3 DEF SerialNext

\* What the invariants of this section hold of every state of SerialSpec.
SerialCore == Core /\ ChainInv /\ CurrentInv

LEMMA SerialCoreInit == Init => SerialCore
  BY CoreInit, ChainInit, CurrentInit DEF SerialCore

LEMMA SerialCoreStep == SerialCore /\ [SerialNext]_vars => SerialCore' /\ Grows
  BY SerialIsNext, CoreStep, CoreGrows, ChainStep, CurrentStep DEF SerialCore

\* An approval is spent by one fill.
SingleFill ==
    \A o1, o2 \in OrderIds :
        /\ orders[o1].status = "FILLED" /\ orders[o2].status = "FILLED"
        /\ orders[o1].decision = orders[o2].decision
        => o1 = o2

LEMMA SingleFillStep == SerialCore /\ SingleFill /\ [SerialNext]_vars => SingleFill'
<1> SUFFICES ASSUME SerialCore, SingleFill, [SerialNext]_vars PROVE SingleFill'
  OBVIOUS
<1>1. CASE orders' = orders
  BY <1>1 DEF SingleFill, OrderIds
<1>2. ASSUME NEW r \in Requests, Does(r), orders' # orders
      PROVE  SingleFill'
  <2>1. PICK o \in OrderType : Stores(r, o)
    BY <1>2, OrdersStored DEF SerialCore
  <2>2. \A i \in OrderIds' : orders'[i] = IF i \in OrderIds THEN orders[i] ELSE o
    BY <2>1 DEF Stores, OrderIds, SerialCore, Core, TypeInv, TypeOK
  <2>3. \A i \in OrderIds' : i \notin OrderIds => i = Len(orders) + 1
    BY <2>1 DEF Stores, OrderIds, SerialCore, Core, TypeInv, TypeOK
  <2>4. o.status = "FILLED" =>
          \A i \in OrderIds : orders[i].status = "FILLED" => orders[i].decision # o.decision
    BY <2>1 DEF Stores, SerialCore, CurrentInv, Current, StillUnfilled, AlreadyExecuted,
       FillsOf
  <2> QED
    BY <2>2, <2>3, <2>4 DEF SingleFill
<1>3. CASE Environment \/ UNCHANGED vars
  BY <1>1, <1>3 DEF Environment, Tick, Activate, Deactivate, Propose, vars, tables
<1> QED
  BY <1>1, <1>2, <1>3 DEF SerialNext, Does

LEMMA SingleFillCounts == SingleFill => NoDoubleFill
<1> SUFFICES ASSUME SingleFill, NEW d \in DecisionIds
             PROVE  Cardinality(FillsOf(d)) <= 1
  BY DEF NoDoubleFill
<1>1. CASE FillsOf(d) = {}
  BY <1>1, FS_EmptySet
<1>2. ASSUME NEW o \in FillsOf(d)
      PROVE  Cardinality(FillsOf(d)) <= 1
  <2>1. FillsOf(d) = {o}
    BY <1>2 DEF SingleFill, FillsOf
  <2> QED
    BY <2>1, FS_Singleton
<1> QED
  BY <1>1, <1>2

\* Of one approval, at most one fill, when order requests come one at a time: the
\* check of place_order that concurrent requests pass together (the run double_fill).
THEOREM SerialFillsOnce == SerialSpec => []NoDoubleFill
<1>1. Init => SingleFill
  BY DEF Init, SingleFill, OrderIds
<1>2. SerialCore /\ SingleFill /\ [SerialNext]_vars => (SerialCore /\ SingleFill)'
  BY SerialCoreStep, SingleFillStep
<1> QED
  BY <1>1, <1>2, SerialCoreInit, SingleFillCounts, PTL DEF SerialSpec

\* A fill of a lone request settles from the committed balance and position.
LEMMA LoneFill ==
    ASSUME SerialCore, NEW r \in Requests, Fill(r)
    PROVE  LET p == Proposal(r) IN
           /\ p \in Proposals /\ p \in ProposalType
           /\ p.pf \in Portfolios /\ p.stock \in Stocks
           /\ FillsOf(req[r].intent.decision) = {}
           /\ ~WorseThanLimit(p, req[r].price)
           /\ req[r].price \in FillPrices
           /\ p.side = "buy" => Held(p).qty + p.qty <= MaxHolding
           /\ p.side = "sell" => p.qty <= Held(p).qty
           /\ KeyFree(req[r].intent.key)
           /\ orders' = Append(orders, NewOrder(r, "FILLED", req[r].price,
                                                CashAfter(p, req[r].price, cash[p.pf])))
           /\ cash' = [cash EXCEPT ![p.pf] = CashAfter(p, req[r].price, cash[p.pf])]
           /\ positions' = [positions EXCEPT ![p.pf][p.stock] =
                               PositionAfter(p, Held(p), Len(orders) + 1)]
           /\ openTheses' = ThesesAfter(p, Held(p), Len(orders) + 1)
           /\ decisions' = decisions
<1>1. /\ req[r].pc = "fill" /\ req[r].pc \in Accepted /\ req[r].pc \in HasCash
      /\ req[r].pc \in HasVerdict
  BY DEF Fill, Accepted, HasCash, HasVerdict
<1>2. Current(r) /\ Chain(r) /\ Settling(r)
  BY DEF SerialCore, CurrentInv, ChainInv, Core, MoneyInv
<1>3. /\ req[r].cash = cash[Proposal(r).pf] /\ req[r].pos = Held(Proposal(r))
      /\ FillsOf(req[r].intent.decision) = {}
      /\ ~WorseThanLimit(Proposal(r), req[r].price)
  BY <1>1, <1>2 DEF Current, BalanceCurrent, RowCurrent, StillUnfilled, AlreadyExecuted
<1>4. Proposal(r).side = "buy" => Held(Proposal(r)).qty + Proposal(r).qty <= MaxHolding
  BY <1>1, <1>2 DEF Current, LimitCurrent, Chain, Passed
<1>5. /\ req[r].price \in FillPrices
      /\ Proposal(r).side = "sell" => Proposal(r).qty <= Held(Proposal(r)).qty
  BY <1>1, <1>2, <1>3 DEF Settling, CanSettle
<1>6. /\ Proposal(r) \in Proposals /\ Proposal(r) \in ProposalType
      /\ Proposal(r).pf \in Portfolios /\ Proposal(r).stock \in Stocks
  BY <1>1, ProposalFacts DEF SerialCore, Core
<1>7. RowUnchanged(Proposal(r), req[r].pos)
  BY <1>3 DEF RowUnchanged
<1> QED
  BY <1>3, <1>4, <1>5, <1>6, <1>7 DEF Fill

\* The theses that are open are of orders.
MonitorInv == HeldIsMonitored /\ openTheses \subseteq OrderIds

\* The trade of a stored order stays what it is.
LEMMA OrdersTrades ==
    ASSUME SerialCore, Grows, NEW o \in OrderIds
    PROVE  Traded(orders[o])' = Traded(orders[o])
  BY DEF SerialCore, CurrentInv, DecisionsExist, Grows, Traded

\* Where the theses and the shares stay, so does their agreement.
LEMMA ThesesStay ==
    ASSUME SerialCore, Grows, MonitorInv, openTheses' = openTheses, positions' = positions
    PROVE  MonitorInv'
<1>1. \A o \in openTheses : Traded(orders[o])' = Traded(orders[o])
  BY OrdersTrades DEF MonitorInv
<1>2. ASSUME NEW pf \in Portfolios, NEW s \in Stocks
      PROVE  ThesesAt(pf, s)' = ThesesAt(pf, s)
  BY <1>1 DEF ThesesAt
<1>3. OrderIds \subseteq OrderIds'
  BY DEF Grows, OrderIds, SerialCore, Core, TypeInv, TypeOK
<1>4. HeldIsMonitored'
  BY <1>2 DEF MonitorInv, HeldIsMonitored
<1> QED
  BY <1>3, <1>4 DEF MonitorInv

LEMMA ThesesOfFill ==
    ASSUME SerialCore, Grows, MonitorInv, NEW r \in Requests, Fill(r)
    PROVE  MonitorInv'
<1> DEFINE p == Proposal(r)
           held == Held(p)
<1>0. PICK id \in Nat : id = Len(orders) + 1
  BY DEF SerialCore, Core, TypeInv, TypeOK
<1> DEFINE after == PositionAfter(p, held, id)
<1>1. /\ p \in ProposalType /\ p.pf \in Portfolios /\ p.stock \in Stocks
      /\ p.side = "sell" => p.qty <= held.qty
      /\ positions' = [positions EXCEPT ![p.pf][p.stock] = after]
      /\ openTheses' = ThesesAfter(p, held, id)
  BY <1>0, LoneFill
<1>2. /\ positions \in [Portfolios -> [Stocks -> PositionType]]
      /\ openTheses \subseteq OrderIds /\ HeldIsMonitored
  BY DEF SerialCore, Core, TypeInv, TypeOK, MonitorInv
<1>3. OrderIds' = OrderIds \cup {id} /\ id \notin OrderIds
  <2>1. PICK o : orders' = Append(orders, o)
    BY LoneFill
  <2> QED
    BY <1>0, <2>1 DEF OrderIds, SerialCore, Core, TypeInv, TypeOK
<1>4. Traded(orders[id])' = p
  <2> DEFINE o == NewOrder(r, "FILLED", req[r].price,
                           CashAfter(p, req[r].price, cash[p.pf]))
  <2>1. orders' = Append(orders, o) /\ decisions' = decisions
    BY LoneFill
  <2>2. o.decision = req[r].intent.decision
    BY DEF NewOrder
  <2> HIDE DEF o
  <2>3. orders'[id] = o
    BY <1>0, <2>1 DEF SerialCore, Core, TypeInv, TypeOK
  <2> QED
    BY <2>1, <2>2, <2>3 DEF Traded, Proposal
<1>5. \A o \in OrderIds : Traded(orders[o])' = Traded(orders[o])
  BY OrdersTrades
<1>6. /\ held \in PositionType /\ held.qty \in Nat /\ p.qty \in Nat /\ p.qty > 0
      /\ p.side \in {"buy", "sell"} /\ held = positions[p.pf][p.stock]
  BY <1>1, <1>2 DEF Held, PositionType, ProposalType
<1>7. after.qty = QtyAfter(p, held) /\ QtyAfter(p, held) \in Nat
  BY <1>1, <1>6 DEF PositionAfter, SoldOut, NoPosition, QtyAfter
<1>8. positions'[p.pf] = [positions[p.pf] EXCEPT ![p.stock] = after]
      /\ positions[p.pf] \in [Stocks -> PositionType]
  BY <1>1, <1>2
<1> HIDE DEF p, held, after
<1>9. ASSUME NEW pf \in Portfolios, NEW s \in Stocks, pf # p.pf \/ s # p.stock
      PROVE  positions'[pf][s].qty > 0 <=> ThesesAt(pf, s)' # {}
  <2>1. positions'[pf][s] = positions[pf][s]
    BY <1>1, <1>2, <1>8, <1>9
  <2>2. ThesesAt(pf, s)' = ThesesAt(pf, s)
    <3>1. ASSUME NEW o \in openTheses, Traded(orders[o]).pf = pf, Traded(orders[o]).stock = s
          PROVE  o \in openTheses'
      BY <1>1, <1>9, <3>1 DEF ThesesAfter, ThesesOf, ThesesAt
    <3>2. openTheses' \subseteq openTheses \cup {id}
      BY <1>1 DEF ThesesAfter
    <3> QED
      BY <1>2, <1>3, <1>4, <1>5, <1>9, <3>1, <3>2 DEF ThesesAt
  <2> QED
    BY <1>2, <2>1, <2>2 DEF HeldIsMonitored
<1>10. ASSUME NEW pf \in Portfolios, NEW s \in Stocks, pf = p.pf, s = p.stock
       PROVE  positions'[pf][s].qty > 0 <=> ThesesAt(pf, s)' # {}
  <2>1. positions'[pf][s].qty = QtyAfter(p, held)
    BY <1>1, <1>7, <1>8, <1>10
  <2>2. ThesesOf(p) = ThesesAt(pf, s)
    BY <1>10 DEF ThesesOf
  <2>3. held.qty > 0 <=> ThesesAt(pf, s) # {}
    BY <1>2, <1>6, <1>10 DEF HeldIsMonitored
  <2>4. CASE p.side = "buy"
    <3>1. id \in openTheses' /\ QtyAfter(p, held) > 0
      BY <1>1, <1>6, <2>4 DEF ThesesAfter, QtyAfter
    <3>2. id \in ThesesAt(pf, s)'
      BY <1>4, <1>10, <3>1 DEF ThesesAt
    <3> QED
      BY <2>1, <3>1, <3>2
  <2>5. CASE p.side = "sell" /\ QtyAfter(p, held) = 0
    <3>1. openTheses' = openTheses \ ThesesAt(pf, s)
      BY <1>1, <2>2, <2>5 DEF ThesesAfter
    <3>2. ThesesAt(pf, s)' = {}
      BY <1>2, <1>5, <3>1 DEF ThesesAt
    <3> QED
      BY <2>1, <2>5, <3>2
  <2>6. CASE p.side = "sell" /\ QtyAfter(p, held) # 0
    <3>1. openTheses' = openTheses
      BY <1>1, <2>6 DEF ThesesAfter
    <3>2. ThesesAt(pf, s)' = ThesesAt(pf, s)
      BY <1>2, <1>5, <3>1 DEF ThesesAt
    <3>3. QtyAfter(p, held) > 0 /\ held.qty > 0
      BY <1>6, <1>7, <2>6 DEF QtyAfter
    <3> QED
      BY <2>1, <2>3, <3>2, <3>3
  <2> QED
    BY <1>6, <2>4, <2>5, <2>6
<1>11. HeldIsMonitored'
  BY <1>9, <1>10 DEF HeldIsMonitored
<1>12. openTheses' \subseteq OrderIds'
  BY <1>1, <1>2, <1>3 DEF ThesesAfter
<1> QED
  BY <1>11, <1>12 DEF MonitorInv

LEMMA MonitorStep == SerialCore /\ MonitorInv /\ [SerialNext]_vars => MonitorInv'
<1> SUFFICES ASSUME SerialCore, MonitorInv, [SerialNext]_vars PROVE MonitorInv'
  OBVIOUS
<1>1. Grows
  BY SerialCoreStep
<1>2. ASSUME NEW r \in Requests, Fill(r)
      PROVE  MonitorInv'
  BY <1>1, <1>2, ThesesOfFill
<1>3. ASSUME NEW r \in Requests, Does(r), ~Fill(r)
      PROVE  openTheses' = openTheses /\ positions' = positions
  BY <1>3 DEF Does, Step, Begin, Crash, LookupKey, CheckDecision, LockPortfolio, Evaluate,
     RecordRecheck, Reread, ReadPosition, FillFails, Reject, LedgerKept, Raced, tables
<1>4. CASE Environment \/ UNCHANGED vars
  <2>1. openTheses' = openTheses /\ positions' = positions
    BY <1>4 DEF Environment, Tick, Activate, Deactivate, Propose, vars, tables
  <2> QED
    BY <1>1, <2>1, ThesesStay
<1> QED
  BY <1>1, <1>2, <1>3, <1>4, ThesesStay DEF SerialNext, Does

\* Shares are held exactly while a thesis of them is open, when order requests come one
\* at a time: every holding is monitored, no thesis outlives its shares (_finish).
THEOREM SerialHoldingsAreMonitored == SerialSpec => []HeldIsMonitored
<1>1. Init => MonitorInv
  <2> SUFFICES ASSUME Init, NEW pf \in Portfolios, NEW s \in Stocks
               PROVE  openTheses = {} /\ positions[pf][s].qty = 0
    BY DEF Init, MonitorInv, HeldIsMonitored, ThesesAt, NoPosition
  <2> QED
    BY DEF Init, NoPosition
<1>2. SerialCore /\ MonitorInv /\ [SerialNext]_vars => (SerialCore /\ MonitorInv)'
  BY SerialCoreStep, MonitorStep
<1>3. MonitorInv => HeldIsMonitored
  BY DEF MonitorInv
<1> QED
  BY <1>1, <1>2, <1>3, SerialCoreInit, PTL DEF SerialSpec

-----------------------------------------------------------------------------
(* One request at a time: place_order implements PaperLedger                *)

\* The book's entry of an order.
Entry(o) ==
    [key |-> o.key, decision |-> o.decision, trade |-> Traded(o),
     status |-> o.status, price |-> o.price]

EntryType == [key: STRING, decision: Nat \ {0}, trade: Proposals,
              status: {"FILLED", "REJECTED"}, price: Nat]

\* The book is a sequence of entries, one for each order.
BookOfOrders ==
    /\ Book \in Seq(EntryType) /\ Len(Book) = Len(orders) /\ DOMAIN Book = OrderIds
    /\ \A o \in OrderIds : Book[o] = Entry(orders[o])

LEMMA BookFacts == SerialCore => BookOfOrders
<1> SUFFICES ASSUME SerialCore PROVE BookOfOrders
  OBVIOUS
<1>1. \A o \in OrderIds : Book[o] = Entry(orders[o])
  BY DEF Book, Entry
<1>2. ASSUME NEW o \in OrderIds
      PROVE  Entry(orders[o]) \in EntryType
  <2>1. orders[o] \in OrderType /\ orders[o].decision \in DecisionIds
    BY DEF SerialCore, CurrentInv, DecisionsExist, Core, TypeInv, TypeOK, OrderIds
  <2>2. decisions[orders[o].decision] \in DecisionType
    BY <2>1 DEF SerialCore, Core, TypeInv, TypeOK, DecisionIds
  <2>3. Traded(orders[o]) \in Proposals
    BY <2>2 DEF Traded, DecisionType
  <2> QED
    BY <2>1, <2>3 DEF Entry, EntryType, OrderType
<1>3. Book \in [1 .. Len(orders) -> EntryType] /\ Len(orders) \in Nat
  <2>1. Len(orders) \in Nat
    BY DEF SerialCore, Core, TypeInv, TypeOK
  <2> QED
    BY <1>1, <1>2, <2>1 DEF Book, OrderIds
<1>4. Book \in Seq(EntryType)
  BY <1>3, SeqDef
<1>5. DOMAIN Book = 1 .. Len(orders)
  BY <1>3
<1>6. Len(Book) = Len(orders)
  BY <1>3, <1>4, <1>5, LenProperties
<1> QED
  BY <1>1, <1>4, <1>5, <1>6 DEF OrderIds, BookOfOrders

\* The book grows as the table of orders does.
LEMMA BookStays ==
    ASSUME SerialCore, SerialCore', Grows, orders' = orders
    PROVE  Book' = Book
<1>1. \A o \in OrderIds : Traded(orders[o])' = Traded(orders[o])
  BY OrdersTrades
<1>2. OrderIds' = OrderIds
  BY DEF OrderIds
<1> QED
  BY <1>1, <1>2 DEF Book

LEMMA BookAppends ==
    ASSUME SerialCore, SerialCore', Grows, NEW o \in OrderType,
           orders' = Append(orders, o), decisions' = decisions
    PROVE  Book' = Append(Book, Entry(o))
<1>0. PICK n \in Nat : n = Len(orders) + 1
  BY DEF SerialCore, Core, TypeInv, TypeOK
<1>1. /\ OrderIds' = OrderIds \cup {n} /\ n \notin OrderIds
      /\ orders'[n] = o /\ \A i \in OrderIds : orders'[i] = orders[i]
  BY <1>0 DEF OrderIds, SerialCore, Core, TypeInv, TypeOK
<1>2. BookOfOrders /\ BookOfOrders'
  BY BookFacts, PTL
<1>3. \A i \in OrderIds : Entry(orders[i])' = Entry(orders[i])
  BY <1>1 DEF Entry, Traded
<1>4. Entry(orders[n])' = Entry(o)
  BY <1>1 DEF Entry, Traded
<1>5. /\ Book \in Seq(EntryType) /\ Len(Book) + 1 = n /\ OrderIds = 1 .. Len(Book)
      /\ \A i \in OrderIds : Book[i] = Entry(orders[i])
  BY <1>0, <1>2 DEF BookOfOrders, OrderIds
<1>6. /\ Book' \in Seq(EntryType) /\ Len(Book') = n
      /\ \A i \in OrderIds : Book'[i] = Book[i]
      /\ Book'[n] = Entry(o)
  <2>1. Len(orders') = n
    BY <1>0 DEF SerialCore, Core, TypeInv, TypeOK
  <2> QED
    BY <1>1, <1>2, <1>3, <1>4, <1>5, <2>1 DEF BookOfOrders, EntryType
<1>7. Entry(o) \in EntryType
  <2>1. n \in 1 .. Len(Book')
    BY <1>0, <1>5, <1>6
  <2> QED
    BY <1>6, <2>1, ElementOfSeq
<1>8. /\ Append(Book, Entry(o)) \in Seq(EntryType) /\ Len(Append(Book, Entry(o))) = n
      /\ \A i \in OrderIds : Append(Book, Entry(o))[i] = Book[i]
      /\ Append(Book, Entry(o))[n] = Entry(o)
  BY <1>5, <1>7
<1>9. \A i \in 1 .. n : i \in OrderIds \/ i = n
  BY <1>0, <1>5
<1>10. \A i \in 1 .. n : Book'[i] = Append(Book, Entry(o))[i]
  BY <1>6, <1>8, <1>9
<1> QED
  BY <1>6, <1>8, <1>10, SeqEqual

LEMMA SharesFacts ==
    ASSUME SerialCore
    PROVE  /\ Shares \in [Portfolios -> [Stocks -> Nat]]
           /\ \A pf \in Portfolios, s \in Stocks : Shares[pf][s] = positions[pf][s].qty
  BY DEF Shares, SerialCore, Core, TypeInv, TypeOK, PositionType

\* A step that stores no order and moves no money is invisible in the ledger.
LEMMA LedgerUnseen ==
    ASSUME SerialCore, SerialCore', Grows,
           orders' = orders, cash' = cash, positions' = positions
    PROVE  UNCHANGED <<Book, cash, Shares>>
<1>1. Book' = Book
  BY BookStays
<1>2. Shares' = Shares
  BY DEF Shares
<1> QED
  BY <1>1, <1>2

\* What the ledger is told of an order, whatever became of it.
LEMMA EnterOrder ==
    ASSUME SerialCore, SerialCore', Grows, NEW r \in Requests, NEW o \in OrderType,
           Stores(r, o), KeyFree(o.key)
    PROVE  /\ Ledger!Enter(o.key, o.decision, Traded(o), o.status, o.price)
           /\ Traded(o) = Proposal(r)
<1>1. orders' = Append(orders, o) /\ decisions' = decisions
  BY DEF Stores
<1>2. Book' = Append(Book, Entry(o))
  BY <1>1, BookAppends
<1>3. BookOfOrders
  BY BookFacts
<1>4. \A e \in DOMAIN Book : Book[e].key # o.key
  BY <1>3 DEF BookOfOrders, Entry, KeyFree, WithKey
<1>5. Traded(o) = Proposal(r)
  BY DEF Stores, Traded, Proposal
<1> QED
  BY <1>2, <1>4, <1>5 DEF Ledger!Enter, Ledger!Entries, Entry

\* The names of the abstract ledger cover the requests'.
LEMMA LedgerNames ==
    ASSUME SerialCore, NEW r \in Requests
    PROVE  req[r].intent.key \in Keys /\ req[r].intent.decision \in Approvals
  BY RequestFacts DEF Keys, Approvals, SerialCore, Core

LEMMA RejectRefines ==
    ASSUME SerialCore, SerialCore', Grows, NEW r \in Requests, Reject(r)
    PROVE  Ledger!Next \/ UNCHANGED <<Book, cash, Shares>>
<1>0. req[r].pc \in Rechecked /\ req[r].pc \in Accepted
  BY DEF Reject, Rechecked, Accepted
<1>1. CASE orders' = orders
  <2>1. cash' = cash /\ positions' = positions
    BY DEF Reject, LedgerKept
  <2> QED
    BY <1>1, <2>1, LedgerUnseen
<1>2. CASE orders' # orders
  <2> DEFINE o == NewOrder(r, "REJECTED", 0, 0)
  <2>1. o \in OrderType
    BY <1>0, NewOrderType DEF SerialCore, Core
  <2>2. /\ KeyFree(req[r].intent.key) /\ orders' = Append(orders, o)
        /\ Answer(r, "order", Len(orders) + 1) /\ decisions' = decisions
        /\ cash' = cash /\ positions' = positions
    BY <1>2 DEF Reject, LedgerKept
  <2>3. /\ o.key = req[r].intent.key /\ o.decision = req[r].intent.decision
        /\ o.recheck = req[r].recheck /\ o.arrived = req[r].now
        /\ o.status = "REJECTED" /\ o.price = 0
    BY DEF NewOrder
  <2> HIDE DEF o
  <2>4. req'[r].pc = "answered"
    BY <2>2 DEF Answer, Blank, SerialCore, Core, TypeInv, TypeOK
  <2>5. Stores(r, o)
    BY <1>0, <2>2, <2>3, <2>4 DEF Stores
  <2>6. /\ Ledger!Enter(o.key, o.decision, Traded(o), o.status, o.price)
        /\ Traded(o) = Proposal(r)
    BY <2>1, <2>2, <2>3, <2>5, EnterOrder
  <2>7. Shares' = Shares
    BY <2>2 DEF Shares
  <2>8. Ledger!Refuse(o.key, o.decision, Traded(o))
    BY <2>2, <2>3, <2>6, <2>7 DEF Ledger!Refuse
  <2>9. o.key \in Keys /\ o.decision \in Approvals /\ Traded(o) \in Proposals
    BY <1>0, <2>3, <2>6, LedgerNames, ProposalFacts DEF SerialCore, Core
  <2> QED
    BY <2>8, <2>9 DEF Ledger!Next
<1> QED
  BY <1>1, <1>2

\* The sums of the ledger are those of the fill.
LEMMA MoneyMoved ==
    ASSUME NEW p \in ProposalType, NEW price \in Nat, NEW available \in Int
    PROVE  CashAfter(p, price, available) =
             available + (IF p.side = "buy" THEN 0 - p.qty * price - p.qty * FeePerShare
                                            ELSE p.qty * price - p.qty * FeePerShare)
<1>1. /\ Notional(p, price) \in Nat /\ Fees(p) \in Nat
      /\ Notional(p, price) = p.qty * price /\ Fees(p) = p.qty * FeePerShare
  BY MoneyType DEF Notional, Fees
<1> QED
  BY <1>1 DEF CashAfter

\* The shares of a fill, and those of all other stocks.
LEMMA SharesMoved ==
    ASSUME SerialCore, NEW p \in ProposalType, p.pf \in Portfolios, p.stock \in Stocks,
           NEW after, NEW moved \in Int, after.qty = Shares[p.pf][p.stock] + moved,
           positions' = [positions EXCEPT ![p.pf][p.stock] = after]
    PROVE  Shares' = [Shares EXCEPT ![p.pf][p.stock] = @ + moved]
<1> DEFINE new == [Shares EXCEPT ![p.pf][p.stock] = @ + moved]
<1>1. /\ positions \in [Portfolios -> [Stocks -> PositionType]]
      /\ Shares \in [Portfolios -> [Stocks -> Nat]]
      /\ \A pf \in Portfolios, s \in Stocks : Shares[pf][s] = positions[pf][s].qty
  BY SharesFacts DEF SerialCore, Core, TypeInv, TypeOK
<1>2. \A pf \in Portfolios, s \in Stocks :
         positions'[pf][s].qty = IF pf = p.pf /\ s = p.stock THEN Shares[pf][s] + moved
                                                             ELSE Shares[pf][s]
  <2> TAKE pf \in Portfolios, s \in Stocks
  <2>1. CASE pf # p.pf
    BY <1>1, <2>1
  <2>2. CASE pf = p.pf
    <3>1. /\ positions'[pf] = [positions[pf] EXCEPT ![p.stock] = after]
          /\ positions[pf] \in [Stocks -> PositionType]
      BY <1>1, <2>2
    <3>2. CASE s = p.stock
      BY <2>2, <3>1, <3>2
    <3>3. CASE s # p.stock
      BY <1>1, <3>1, <3>3
    <3> QED
      BY <3>2, <3>3
  <2> QED
    BY <2>1, <2>2
<1>3. \A pf \in Portfolios, s \in Stocks :
         new[pf][s] = IF pf = p.pf /\ s = p.stock THEN Shares[pf][s] + moved ELSE Shares[pf][s]
  BY <1>1
<1>4. Shares' = [pf \in Portfolios |-> [s \in Stocks |-> positions'[pf][s].qty]]
  BY DEF Shares
<1>5. new = [pf \in Portfolios |-> [s \in Stocks |-> new[pf][s]]]
  BY <1>1
<1> HIDE DEF new
<1>6. Shares' = new
  BY <1>2, <1>3, <1>4, <1>5
<1> QED
  BY <1>6 DEF new

LEMMA FillRefines ==
    ASSUME SerialCore, SerialCore', Grows, NEW r \in Requests, Fill(r)
    PROVE  Ledger!Next
<1> DEFINE p == Proposal(r)
           price == req[r].price
           o == NewOrder(r, "FILLED", price, CashAfter(p, price, cash[p.pf]))
           after == PositionAfter(p, Held(p), Len(orders) + 1)
           moved == IF p.side = "buy" THEN p.qty ELSE 0 - p.qty
           money == IF p.side = "buy" THEN 0 - p.qty * price - p.qty * FeePerShare
                                      ELSE p.qty * price - p.qty * FeePerShare
<1>1. /\ p \in Proposals /\ p \in ProposalType /\ p.pf \in Portfolios /\ p.stock \in Stocks
      /\ FillsOf(req[r].intent.decision) = {} /\ ~WorseThanLimit(p, price)
      /\ price \in FillPrices
      /\ p.side = "buy" => Held(p).qty + p.qty <= MaxHolding
      /\ p.side = "sell" => p.qty <= Held(p).qty
      /\ KeyFree(req[r].intent.key) /\ orders' = Append(orders, o)
      /\ cash' = [cash EXCEPT ![p.pf] = CashAfter(p, price, cash[p.pf])]
      /\ positions' = [positions EXCEPT ![p.pf][p.stock] = after]
      /\ decisions' = decisions
  BY LoneFill
<1>2. /\ price \in Nat /\ p.qty \in Nat /\ p.limit \in Nat /\ p.side \in {"buy", "sell"}
      /\ cash \in [Portfolios -> Int] /\ Held(p) \in PositionType
      /\ Held(p).qty \in Nat /\ Shares[p.pf][p.stock] = Held(p).qty
  BY <1>1, SharesFacts, PricesAssumption
     DEF ProposalType, SerialCore, Core, TypeInv, TypeOK, Held, PositionType
<1>3. /\ o.key = req[r].intent.key /\ o.decision = req[r].intent.decision
      /\ o.recheck = req[r].recheck /\ o.arrived = req[r].now
      /\ o.status = "FILLED" /\ o.price = price
  BY DEF NewOrder
<1>4. /\ req[r].pc = "fill" /\ req[r].pc \in Rechecked
      /\ Answer(r, "order", Len(orders) + 1)
  BY DEF Fill, Rechecked
<1>5. CashAfter(p, price, cash[p.pf]) = cash[p.pf] + money /\ cash[p.pf] \in Int
      /\ CashAfter(p, price, cash[p.pf]) \in Int
  BY <1>1, <1>2, MoneyMoved, MoneyType
<1>6. o \in OrderType
  BY <1>4, <1>2, <1>5, NewOrderType DEF SerialCore, Core
<1>7. after.qty = Held(p).qty + moved /\ moved \in Int
  BY <1>1, <1>2 DEF PositionAfter, SoldOut, NoPosition, QtyAfter
<1> HIDE DEF o, after
<1>8. req'[r].pc = "answered"
  BY <1>4 DEF Answer, Blank, SerialCore, Core, TypeInv, TypeOK
<1>9. Stores(r, o)
  BY <1>1, <1>3, <1>4, <1>8 DEF Stores
<1>10. Ledger!Enter(o.key, o.decision, Traded(o), o.status, o.price) /\ Traded(o) = p
  BY <1>1, <1>3, <1>6, <1>9, EnterOrder
<1> HIDE DEF p, price, moved
<1>11. Shares' = [Shares EXCEPT ![p.pf][p.stock] = @ + moved]
  <2>1. after.qty = Shares[p.pf][p.stock] + moved
    BY <1>2, <1>7
  <2>2. /\ p \in ProposalType /\ p.pf \in Portfolios /\ p.stock \in Stocks
        /\ positions' = [positions EXCEPT ![p.pf][p.stock] = after] /\ moved \in Int
    BY <1>1, <1>7
  <2> QED
    BY <2>1, <2>2, SharesMoved, Zenon
<1>12. cash' = [cash EXCEPT ![p.pf] = @ + money]
  BY <1>1, <1>5
<1>13. cash'[p.pf] >= 0
  BY <1>1 DEF SerialCore, Core, MoneyInv, CashNeverNegative
<1>14. Shares'[p.pf][p.stock] = Shares[p.pf][p.stock] + moved
       /\ Shares'[p.pf][p.stock] >= 0
  <2>1. Shares \in [Portfolios -> [Stocks -> Nat]]
    BY SharesFacts
  <2>2. Shares'[p.pf][p.stock] = Shares[p.pf][p.stock] + moved
    BY <1>1, <1>11, <2>1
  <2> QED
    BY <1>1, <1>2, <2>2 DEF moved
<1> HIDE DEF money
<1>15. Ledger!Move(p, money, moved)
  BY <1>11, <1>12, <1>13, <1>14 DEF Ledger!Move
<1>16. Ledger!Unfilled(o.decision)
  <2>1. \A e \in OrderIds : orders[e].decision = o.decision => orders[e].status = "REJECTED"
    <3>1. FillsOf(o.decision) = {}
      BY <1>1, <1>3
    <3>2. \A e \in OrderIds : orders[e].status \in {"FILLED", "REJECTED"}
      <4>1. \A e \in OrderIds : orders[e] \in OrderType
        BY DEF OrderIds, SerialCore, Core, TypeInv, TypeOK
      <4> QED
        BY <4>1 DEF OrderType
    <3> QED
      BY <3>1, <3>2 DEF FillsOf
  <2>2. BookOfOrders
    BY BookFacts
  <2> QED
    BY <2>1, <2>2 DEF Ledger!Unfilled, Ledger!Entries, BookOfOrders, Entry
<1>17. Ledger!Enter(o.key, o.decision, p, "FILLED", price)
  BY <1>3, <1>10
<1>18. /\ o.key \in Keys /\ o.decision \in Approvals
  BY <1>3, LedgerNames
<1>19. CASE p.side = "buy"
  <2>1. price <= p.limit /\ moved = p.qty
        /\ money = 0 - p.qty * price - p.qty * FeePerShare
    BY <1>1, <1>2, <1>19 DEF WorseThanLimit, moved, money
  <2>2. Shares'[p.pf][p.stock] <= MaxHolding
    BY <1>1, <1>2, <1>14, <1>19, <2>1
  <2>3. Ledger!Buy(o.key, o.decision, p, price)
    BY <1>15, <1>16, <1>17, <1>19, <2>1, <2>2 DEF Ledger!Buy
  <2> QED
    BY <1>1, <1>18, <2>3 DEF Ledger!Next
<1>20. CASE p.side = "sell"
  <2>1. price >= p.limit /\ moved = 0 - p.qty
        /\ money = p.qty * price - p.qty * FeePerShare
    BY <1>1, <1>2, <1>20 DEF WorseThanLimit, moved, money
  <2>2. Ledger!Sell(o.key, o.decision, p, price)
    BY <1>15, <1>16, <1>17, <1>20, <2>1 DEF Ledger!Sell
  <2> QED
    BY <1>1, <1>18, <2>2 DEF Ledger!Next
<1> QED
  BY <1>2, <1>19, <1>20

LEMMA LedgerInit == Init => Ledger!Init
<1> SUFFICES ASSUME Init PROVE Ledger!Init
  OBVIOUS
<1>1. Book = <<>>
  <2>1. BookOfOrders /\ Len(orders) = 0
    BY SerialCoreInit, BookFacts DEF Init
  <2> QED
    BY <2>1, EmptySeq DEF BookOfOrders
<1>2. Shares = [pf \in Portfolios |-> [s \in Stocks |-> 0]]
  BY DEF Init, Shares, NoPosition
<1> QED
  BY <1>1, <1>2 DEF Init, Ledger!Init

LEMMA LedgerRefined ==
    SerialCore /\ SerialCore' /\ Grows /\ [SerialNext]_vars => [Ledger!Next]_(Ledger!vars)
<1> SUFFICES ASSUME SerialCore, SerialCore', Grows, [SerialNext]_vars
             PROVE  Ledger!Next \/ UNCHANGED <<Book, cash, Shares>>
  BY DEF Ledger!vars
<1>1. ASSUME NEW r \in Requests, Fill(r) \/ Reject(r)
      PROVE  Ledger!Next \/ UNCHANGED <<Book, cash, Shares>>
  BY <1>1, FillRefines, RejectRefines
<1>2. ASSUME NEW r \in Requests, Does(r), ~Fill(r), ~Reject(r)
      PROVE  orders' = orders /\ cash' = cash /\ positions' = positions
  BY <1>2 DEF Does, Step, Begin, Crash, LookupKey, CheckDecision, LockPortfolio,
     Evaluate, RecordRecheck, Reread, ReadPosition, FillFails, Raced, tables
<1>3. CASE Environment \/ UNCHANGED vars
  <2>1. orders' = orders /\ cash' = cash /\ positions' = positions
    BY <1>3 DEF Environment, Tick, Activate, Deactivate, Propose, vars, tables
  <2> QED
    BY <2>1, LedgerUnseen
<1> QED
  BY <1>1, <1>2, <1>3, LedgerUnseen DEF SerialNext, Does

\* One order request at a time, place_order implements the ledger its users are
\* promised: an approval and a key count once, every fill moves cash and shares exactly,
\* atomically and within the limits, whatever crashes and halts come between.
THEOREM SerialRefinesLedger == SerialSpec => LedgerSpec
<1>1. SerialCore /\ [SerialNext]_vars => SerialCore' /\ [Ledger!Next]_(Ledger!vars)
  BY SerialCoreStep, LedgerRefined
<1> QED
  BY <1>1, SerialCoreInit, LedgerInit, PTL DEF SerialSpec, LedgerSpec, Ledger!Spec
=============================================================================
