------------------------------ MODULE PaperTrading ------------------------------
(***************************************************************************)
(* Paper orders: an admin turns an APPROVED trade decision into an order,   *)
(* the risk engine re-checks every gate, and the fill moves cash and the    *)
(* position (backend/app/paper/service.py, backend/app/trade/service.py).   *)
(*                                                                         *)
(* Requests run in threads of a web server, each with its own database     *)
(* session at READ COMMITTED: a step of a request is one statement of its  *)
(* transaction, or a run of statements that no other session can tell      *)
(* apart, and what it writes is seen by others when it commits.  The tables *)
(* are the sequences decisions and orders, whose indices are the row ids.  *)
(* The session is made with expire_on_commit=False: what a request read    *)
(* before a commit is what it still uses after it.                         *)
(*                                                                         *)
(* Op_bug names a plausible bug in Op.  No action uses it: it takes the     *)
(* place of Op to see that a property tells the two apart.                  *)
(***************************************************************************)
EXTENDS Integers, Sequences, FiniteSets

CONSTANTS
    Requests,        \* slots of concurrent POST /paper/orders requests
    NoRequest,       \* the value of a portfolio's row lock when it is free
    Portfolios, Stocks,
    Proposals,       \* the trades a user may propose, see ProposalType
    Intents,         \* the order requests a client may send, see IntentType
    StartingCash,    \* of every portfolio
    FillPrices,      \* prices the simulated broker may fill at
    FeePerShare,     \* fees are a share of the notional: here a sum per share
    MaxHolding,      \* the post-trade position limit of the engine
    MaxAge,          \* paper_trading.max_decision_age_minutes
    Disturbances,    \* those of {"halt", "crash"} that happen in an instance
    MaxTime,         \* bound of the clock
    MaxDecisions     \* bound of the decisions table

ProposalType == [pf: Portfolios, stock: Stocks, side: {"buy", "sell"},
                 qty: Nat \ {0}, limit: Nat \ {0}]

\* A client names a decision by its id, sends an Idempotency-Key header and is
\* logged in as an admin.
IntentType == [decision: Nat \ {0}, key: STRING, approver: STRING]

ASSUME RequestsAssumption == NoRequest \notin Requests
ASSUME ProposalsAssumption == Proposals \subseteq ProposalType
ASSUME IntentsAssumption == Intents \subseteq IntentType /\ Intents # {}
ASSUME PricesAssumption ==
    /\ StartingCash \in Nat /\ FeePerShare \in Nat
    /\ FillPrices \subseteq Nat
    /\ \A f \in FillPrices : f >= FeePerShare
ASSUME LimitsAssumption ==
    /\ MaxHolding \in Nat /\ MaxAge \in Nat /\ MaxTime \in Nat /\ MaxDecisions \in Nat

VARIABLES
    clock,       \* what a request reads as `now`
    halted,      \* trading_controls.kill_switch_active
    decisions,   \* trade_proposals joined with trade_decisions
    orders,      \* paper_orders, a FILLED one joined with its paper_executions row
    cash,        \* portfolios.cash
    positions,   \* positions, row = 0 where there is no row
    openTheses,  \* ids of the entry orders whose thesis has status OPEN
    lock,        \* who holds the FOR UPDATE lock of the portfolio's row
    req          \* the local state of each request

vars == <<clock, halted, decisions, orders, cash, positions, openTheses, lock, req>>
tables == <<decisions, orders, cash, positions, openTheses>>
world == <<clock, halted>>

-----------------------------------------------------------------------------
NoPosition == [row |-> 0, qty |-> 0]

PositionType == [row: Nat, qty: Nat]

DecisionType == [proposal: Proposals, verdict: {"APPROVED", "REJECTED"},
                 decidedAt: Nat, haltSeen: BOOLEAN,
                 recheckOf: Nat]     \* 0: proposed, else "re-check of decision #"

OrderType == [key: STRING, decision: Nat \ {0}, approver: STRING,
              recheck: Nat \ {0}, status: {"FILLED", "REJECTED"},
              arrived: Nat, price: Nat, cashAfter: Int]

Waiting == {"idle", "answered"}
Running == {"lookup", "check", "lock", "evaluate", "record", "reread",
            "position", "fill", "reject", "raced"}
Outcomes == {"none", "order", "replay", "refused", "conflict", "error"}

RequestType == [pc: Waiting \cup Running, intent: Intents, now: Nat,
                cash: Int, verdict: {"APPROVED", "REJECTED"}, haltSeen: BOOLEAN,
                recheck: Nat, price: Nat, pos: PositionType,
                outcome: Outcomes, answer: Nat]

-----------------------------------------------------------------------------
(* Reading the tables                                                       *)

DecisionIds == 1 .. Len(decisions)
OrderIds == 1 .. Len(orders)

WithKey(k) == {o \in OrderIds : orders[o].key = k}

FillsOf(d) == {o \in OrderIds : orders[o].decision = d /\ orders[o].status = "FILLED"}

AlreadyExecuted_forgotten(d) == FALSE

\* "Trade decision has already been executed."
AlreadyExecuted(d) == FillsOf(d) # {}

\* Orders whose recorded pre-order re-check is decision d.
RecheckedBy(d) == {o \in OrderIds : orders[o].recheck = d}

Proposal(r) == decisions[req[r].intent.decision].proposal

Held(p) == positions[p.pf][p.stock]

Notional(p, price) == p.qty * price
Fees(p) == p.qty * FeePerShare

\* "Worse than the limit": the order is immediate-or-cancel.
WorseThanLimit(p, price) ==
    IF p.side = "buy" THEN price > p.limit ELSE price < p.limit

-----------------------------------------------------------------------------
(* The engine: of the 24 gates, the ones that read the state of this module *)
(* are spelled out (kill switch, the long-only rule of exits, the post-trade *)
(* position limit and cash of entries); `others` is the verdict of the rest, *)
(* which judge market data, research and models.                            *)

HaltBlocks_ignored(halt) == FALSE

HaltBlocks(halt) == halt

WithinLimits(p, held, available) ==
    IF p.side = "buy"
    THEN /\ held.qty + p.qty <= MaxHolding
         /\ Notional(p, p.limit) <= available
    ELSE p.qty <= held.qty

Verdict(p, halt, held, available, others) ==
    IF ~HaltBlocks(halt) /\ WithinLimits(p, held, available) /\ others
    THEN "APPROVED" ELSE "REJECTED"

-----------------------------------------------------------------------------
(* The environment: time passes, users propose trades, halt and resume.     *)

Tick ==
    /\ clock < MaxTime
    /\ clock' = clock + 1
    /\ UNCHANGED <<halted, tables, lock, req>>

Activate ==
    /\ "halt" \in Disturbances /\ ~halted
    /\ halted' = TRUE
    /\ UNCHANGED <<clock, tables, lock, req>>

Deactivate ==
    /\ halted
    /\ halted' = FALSE
    /\ UNCHANGED <<clock, tables, lock, req>>

Active == {r \in Requests : req[r].pc \in Running}

\* Every running request may still record one re-check.
RoomForDecision == Len(decisions) + Cardinality(Active) < MaxDecisions

\* INSERT of a row with a foreign key to the portfolio takes FOR KEY SHARE on
\* it, which waits for a FOR UPDATE lock; so does UPDATE of the portfolio.
Unlocked(pf) == lock[pf] = NoRequest

\* POST /trade/proposals, and the exit proposals of the thesis monitor.
Propose ==
    \E p \in Proposals, others \in BOOLEAN :
        /\ RoomForDecision
        /\ Unlocked(p.pf)
        /\ decisions' = Append(decisions,
              [proposal |-> p, decidedAt |-> clock, haltSeen |-> halted,
               recheckOf |-> 0, verdict |-> Verdict(p, halted, Held(p), cash[p.pf], others)])
        /\ UNCHANGED <<world, orders, cash, positions, openTheses, lock, req>>

-----------------------------------------------------------------------------
(* POST /paper/orders                                                       *)

Goto(r, label) == req' = [req EXCEPT ![r].pc = label]

\* A request that has read nothing yet, or whose locals are gone.
Blank(label, intent, now, outcome, order) ==
    [pc |-> label, intent |-> intent, now |-> now, cash |-> 0, verdict |-> "REJECTED",
     haltSeen |-> FALSE, recheck |-> 0, price |-> 0, pos |-> NoPosition,
     outcome |-> outcome, answer |-> order]

Idle == Blank("idle", CHOOSE i \in Intents : TRUE, 0, "none", 0)

Answer(r, outcome, order) ==
    req' = [req EXCEPT ![r] = Blank("answered", req[r].intent, 0, outcome, order)]

Begin(r) ==
    \E i \in Intents :
        /\ req[r].pc \in Waiting
        /\ RoomForDecision
        /\ req' = [req EXCEPT ![r] = Blank("lookup", i, clock, "none", 0)]
        /\ UNCHANGED <<world, tables, lock>>

SameOrder(order, i) == order.decision = i.decision /\ order.approver = i.approver

SameRequest_keyOnly(o, i) == TRUE

\* The request hash covers the decision and the approver.
SameRequest(o, i) == SameOrder(orders[o], i)

\* A replay of the same key returns the original order and does nothing again.
LookupKey(r) ==
    /\ req[r].pc = "lookup"
    /\ \/ /\ WithKey(req[r].intent.key) = {}
          /\ Goto(r, "check")
       \/ \E o \in WithKey(req[r].intent.key) :
             IF SameRequest(o, req[r].intent)
             THEN Answer(r, "replay", o)
             ELSE Answer(r, "conflict", 0)
    /\ UNCHANGED <<world, tables, lock>>

Fresh(d, now) == now - decisions[d].decidedAt \in 0 .. MaxAge

Orderable(d, now) ==
    /\ d \in DecisionIds
    /\ RecheckedBy(d) = {}
    /\ decisions[d].verdict = "APPROVED"
    /\ Fresh(d, now)
    /\ ~AlreadyExecuted(d)

CheckDecision(r) ==
    /\ req[r].pc = "check"
    /\ IF Orderable(req[r].intent.decision, req[r].now)
       THEN Goto(r, "lock")
       ELSE Answer(r, "refused", 0)
    /\ UNCHANGED <<world, tables, lock>>

\* SELECT ... FOR UPDATE: reads the cash the fill will be computed from.
LockPortfolio(r) ==
    /\ req[r].pc = "lock"
    /\ Unlocked(Proposal(r).pf)
    /\ lock' = [lock EXCEPT ![Proposal(r).pf] = r]
    /\ req' = [req EXCEPT ![r].pc = "evaluate", ![r].cash = cash[Proposal(r).pf]]
    /\ UNCHANGED <<world, tables>>

\* ts.submit, first half: the context is read and the gates are evaluated.
Evaluate(r) ==
    /\ req[r].pc = "evaluate"
    /\ \E others \in BOOLEAN :
         req' = [req EXCEPT ![r].pc = "record", ![r].haltSeen = halted,
                   ![r].verdict = Verdict(Proposal(r), halted, Held(Proposal(r)),
                                          req[r].cash, others)]
    /\ UNCHANGED <<world, tables, lock>>

Released(r) == [pf \in Portfolios |-> IF lock[pf] = r THEN NoRequest ELSE lock[pf]]

\* ts.submit, second half: the re-check's decision is inserted and COMMITTED,
\* which ends the transaction and with it the row lock.
RecordRecheck(r) ==
    /\ req[r].pc = "record"
    /\ decisions' = Append(decisions,
          [proposal |-> Proposal(r), decidedAt |-> req[r].now,
           recheckOf |-> req[r].intent.decision,
           haltSeen |-> req[r].haltSeen, verdict |-> req[r].verdict])
    /\ req' = [req EXCEPT ![r].pc = "reread", ![r].recheck = Len(decisions) + 1]
    /\ lock' = Released(r)
    /\ UNCHANGED <<world, orders, cash, positions, openTheses>>

RecheckApproves_ignored(r) == TRUE

RecheckApproves(r) == req[r].verdict = "APPROVED"

\* "Executed concurrently", the verdict, and the simulated fill at a price.
Reread(r) ==
    /\ req[r].pc = "reread"
    /\ \/ /\ AlreadyExecuted(req[r].intent.decision) \/ ~RecheckApproves(r)
          /\ Goto(r, "reject")
       \/ \E price \in FillPrices :
            /\ ~AlreadyExecuted(req[r].intent.decision) /\ RecheckApproves(r)
            /\ IF WorseThanLimit(Proposal(r), price)
               THEN Goto(r, "reject")
               ELSE req' = [req EXCEPT ![r].pc = "position", ![r].price = price]
    /\ UNCHANGED <<world, tables, lock>>

CanSettle_withoutFees(p, price, available, held) ==
    IF p.side = "buy" THEN Notional(p, price) <= available
                      ELSE p.qty <= held.qty

\* Enough cash for a buy with its fees, enough shares for a sale.
CanSettle(p, price, available, held) ==
    IF p.side = "buy" THEN Notional(p, price) + Fees(p) <= available
                      ELSE p.qty <= held.qty

ReadPosition(r) ==
    LET p == Proposal(r) IN
    /\ req[r].pc = "position"
    /\ IF CanSettle(p, req[r].price, req[r].cash, Held(p))
       THEN req' = [req EXCEPT ![r].pc = "fill", ![r].pos = Held(p)]
       ELSE Goto(r, "reject")
    /\ UNCHANGED <<world, tables, lock>>

-----------------------------------------------------------------------------
(* The fill: one flush and one commit of absolute values computed from what *)
(* the request has read.                                                    *)

\* The unique constraint on paper_orders.idempotency_key.
KeyFree(k) == WithKey(k) = {}

CashAfter_feesForgotten(p, price, available) ==
    IF p.side = "buy" THEN available - Notional(p, price)
                      ELSE available + Notional(p, price)

CashAfter(p, price, available) ==
    IF p.side = "buy" THEN available - Notional(p, price) - Fees(p)
                      ELSE available + Notional(p, price) - Fees(p)

QtyAfter(p, held) == IF p.side = "buy" THEN held.qty + p.qty ELSE held.qty - p.qty

\* Removes the row at zero shares.
SoldOut(qty) == qty = 0

\* A position row found is updated by its id, one not found is inserted.
PositionAfter(p, held, order) ==
    IF SoldOut(QtyAfter(p, held)) THEN NoPosition
    ELSE [row |-> IF held.row = 0 THEN order ELSE held.row, qty |-> QtyAfter(p, held)]

\* UPDATE of a row that is gone, or INSERT beside one that has appeared, fails
\* the flush; DELETE of a row that is gone deletes nothing and only warns.
Deletes(p, held) == SoldOut(QtyAfter(p, held))
RowUnchanged(p, held) == Held(p).row = held.row
Flushes(p, held) == RowUnchanged(p, held) \/ Deletes(p, held)

Traded(order) == decisions[order.decision].proposal

ThesesAt(pf, s) ==
    {o \in openTheses : Traded(orders[o]).pf = pf /\ Traded(orders[o]).stock = s}

ThesesOf(p) == ThesesAt(p.pf, p.stock)

ThesesAfter_closedByAnySale(p, held, order) ==
    IF p.side = "buy" THEN openTheses \cup {order} ELSE openTheses \ ThesesOf(p)

ThesesAfter(p, held, order) ==
    IF p.side = "buy" THEN openTheses \cup {order}
    ELSE IF QtyAfter(p, held) = 0 THEN openTheses \ ThesesOf(p) ELSE openTheses

NewOrder(r, status, price, balance) ==
    [key |-> req[r].intent.key, decision |-> req[r].intent.decision,
     approver |-> req[r].intent.approver, recheck |-> req[r].recheck,
     status |-> status, arrived |-> req[r].now, price |-> price, cashAfter |-> balance]

MayWrite_anytime(pf) == TRUE

\* UPDATE of the portfolio waits for its row lock.
MayWrite(pf) == Unlocked(pf)

Fill(r) ==
    LET p == Proposal(r)
        held == req[r].pos
        balance == CashAfter(p, req[r].price, req[r].cash)
        id == Len(orders) + 1
    IN
    /\ req[r].pc = "fill"
    /\ MayWrite(p.pf)
    /\ KeyFree(req[r].intent.key)
    /\ Flushes(p, held)
    /\ orders' = Append(orders, NewOrder(r, "FILLED", req[r].price, balance))
    /\ cash' = [cash EXCEPT ![p.pf] = balance]
    /\ positions' = IF RowUnchanged(p, held)
                    THEN [positions EXCEPT ![p.pf][p.stock] = PositionAfter(p, held, id)]
                    ELSE positions
    /\ openTheses' = ThesesAfter(p, held, id)
    /\ Answer(r, "order", id)
    /\ UNCHANGED <<world, decisions, lock>>

\* An IntegrityError or a StaleDataError of the flush rolls everything back.
FillFails(r) ==
    LET p == Proposal(r) IN
    /\ req[r].pc = "fill"
    /\ MayWrite(p.pf)
    /\ \/ /\ ~KeyFree(req[r].intent.key) \/ (~Flushes(p, req[r].pos) /\ req[r].pos.row = 0)
          /\ Goto(r, "raced")
       \/ /\ ~Flushes(p, req[r].pos) /\ req[r].pos.row # 0
          /\ Answer(r, "error", 0)
    /\ UNCHANGED <<world, tables, lock>>

LedgerKept_debitedFirst(r) ==
    /\ cash' = [cash EXCEPT ![Proposal(r).pf] =
                   CashAfter(Proposal(r), req[r].price, req[r].cash)]
    /\ UNCHANGED <<positions, openTheses>>

\* A REJECTED order is stored for the record and moves nothing.
LedgerKept(r) == UNCHANGED <<cash, positions, openTheses>>

Reject(r) ==
    /\ req[r].pc = "reject"
    /\ Unlocked(Proposal(r).pf)
    /\ IF KeyFree(req[r].intent.key)
       THEN /\ orders' = Append(orders, NewOrder(r, "REJECTED", 0, 0))
            /\ LedgerKept(r)
            /\ Answer(r, "order", Len(orders) + 1)
       ELSE /\ UNCHANGED <<orders, cash, positions, openTheses>>
            /\ Goto(r, "raced")
    /\ UNCHANGED <<world, decisions, lock>>

\* The route's handler of IntegrityError: whatever order holds the key is returned
\* as a replay; the decision and the approver are not compared.
Raced(r) ==
    /\ req[r].pc = "raced"
    /\ \/ \E o \in WithKey(req[r].intent.key) : Answer(r, "replay", o)
       \/ /\ WithKey(req[r].intent.key) = {}
          /\ Answer(r, "error", 0)
    /\ UNCHANGED <<world, tables, lock>>

Crash_lockKept(r) ==
    /\ "crash" \in Disturbances
    /\ req[r].pc \in Running
    /\ req' = [req EXCEPT ![r] = Idle]
    /\ UNCHANGED <<world, tables, lock>>

\* The process dies, or the statement fails: the open transaction rolls back.
Crash(r) ==
    /\ "crash" \in Disturbances
    /\ req[r].pc \in Running
    /\ req' = [req EXCEPT ![r] = Idle]
    /\ lock' = Released(r)
    /\ UNCHANGED <<world, tables>>

-----------------------------------------------------------------------------
Init ==
    /\ clock = 0 /\ halted \in BOOLEAN
    /\ decisions = <<>> /\ orders = <<>>
    /\ cash = [pf \in Portfolios |-> StartingCash]
    /\ positions = [pf \in Portfolios |-> [s \in Stocks |-> NoPosition]]
    /\ openTheses = {}
    /\ lock = [pf \in Portfolios |-> NoRequest]
    /\ req = [r \in Requests |-> Idle]

Environment == Tick \/ Activate \/ Deactivate \/ Propose

\* The steps of a request that has arrived.
Step(r) ==
    \/ LookupKey(r) \/ CheckDecision(r) \/ LockPortfolio(r) \/ Evaluate(r)
    \/ RecordRecheck(r) \/ Reread(r) \/ ReadPosition(r)
    \/ Fill(r) \/ FillFails(r) \/ Reject(r) \/ Raced(r)

Next == Environment \/ \E r \in Requests : Begin(r) \/ Step(r) \/ Crash(r)

Spec == Init /\ [][Next]_vars

\* A thread that can run does run, and a row lock is granted in turn.
Fairness == \A r \in Requests : SF_vars(Step(r))

FairSpec == Spec /\ Fairness

\* At most one order request at a time: what the code relies on the portfolio's
\* lock for.
SerialNext ==
    Environment
    \/ \E r \in Requests : (Active = {} /\ Begin(r)) \/ Step(r) \/ Crash(r)

SerialSpec == Init /\ [][SerialNext]_vars

-----------------------------------------------------------------------------
(* Properties                                                               *)

\* Types of the tables and of what each request holds.
TypeOK ==
    /\ clock \in Nat /\ halted \in BOOLEAN
    /\ decisions \in Seq(DecisionType)
    /\ orders \in Seq(OrderType)
    /\ cash \in [Portfolios -> Int]
    /\ positions \in [Portfolios -> [Stocks -> PositionType]]
    /\ openTheses \subseteq Nat
    /\ lock \in [Portfolios -> Requests \cup {NoRequest}]
    /\ req \in [Requests -> RequestType]

\* An Idempotency-Key names at most one order, however its requests race, are
\* retried after a crash, or are answered twice (the reason for the key).
OneOrderPerKey ==
    \A o1, o2 \in OrderIds : orders[o1].key = orders[o2].key => o1 = o2

\* A re-check of decision d that no order names: a request of d went that far.
LeftRecheck(d) ==
    \E c \in DecisionIds : decisions[c].recheckOf = d /\ RecheckedBy(c) = {}

\* Whoever is answered with an order, as new, as a replay or after losing the race
\* for the key, gets the one order its key has.  "The same key sent for a different
\* request is also refused" (docs/phase-11-report.md:14), but the loser of a race is not
\* compared: only that one may get another's order, and it has left a re-check behind,
\* so a key that was taken at the lookup is never answered with a stranger's order.
AnswersAgree ==
    \A r \in Requests :
        req[r].outcome \in {"order", "replay"} =>
            /\ WithKey(req[r].intent.key) = {req[r].answer}
            /\ \/ SameOrder(orders[req[r].answer], req[r].intent)
               \/ req[r].outcome = "replay" /\ LeftRecheck(req[r].intent.decision)

\* While a request holds the portfolio's lock and evaluates the gates, the cash
\* it has read is the committed cash and nobody else evaluates for that
\* portfolio: what the lock does give the re-check.
RecheckSeesCommittedCash ==
    \A r \in Requests :
        req[r].pc \in {"evaluate", "record"} =>
            /\ req[r].cash = cash[Proposal(r).pf]
            /\ \A q \in Requests \ {r} :
                 req[q].pc \in {"evaluate", "record"} => Proposal(q).pf # Proposal(r).pf

\* Whoever holds a portfolio's row lock is a request in the middle of its re-check
\* of that portfolio, which waits for no other lock: requests cannot deadlock, and
\* a lock does not outlive its transaction.
LockHoldersAdvance ==
    \A pf \in Portfolios : lock[pf] # NoRequest =>
        /\ req[lock[pf]].pc \in {"evaluate", "record"}
        /\ Proposal(lock[pf]).pf = pf

\* Every fill rests on an APPROVED decision, fresh when the request arrived, and
\* on a later APPROVED re-check of the same trade made by that very request.
FillsAreRechecked ==
    \A o \in OrderIds : orders[o].status = "FILLED" =>
        LET d == orders[o].decision
            c == orders[o].recheck
        IN /\ d \in DecisionIds /\ c \in DecisionIds /\ d < c
           /\ decisions[d].verdict = "APPROVED" /\ decisions[c].verdict = "APPROVED"
           /\ decisions[d].proposal = decisions[c].proposal
           /\ decisions[c].decidedAt = orders[o].arrived
           /\ orders[o].arrived - decisions[d].decidedAt \in 0 .. MaxAge
           /\ RecheckedBy(c) = {o}

\* No fill rests on a re-check that saw the kill switch active.
HaltStopsFills ==
    \A o \in OrderIds :
        orders[o].status = "FILLED" => ~decisions[orders[o].recheck].haltSeen

\* Cash is never spent below zero, fees included, even by requests that settle
\* from stale balances.
CashNeverNegative == \A pf \in Portfolios : cash[pf] >= 0

\* Orders are final, and only the commit of a new FILLED order moves cash or
\* positions, of its own portfolio and stock only.
OnlyFillsMoveTheLedger ==
    [][ /\ Len(orders') >= Len(orders)
        /\ \A o \in OrderIds : orders'[o] = orders[o]
        /\ \A pf \in Portfolios, s \in Stocks :
             (cash'[pf] # cash[pf] \/ positions'[pf][s] # positions[pf][s]) =>
                /\ Len(orders') = Len(orders) + 1
                /\ orders'[Len(orders')].status = "FILLED"
                /\ Traded(orders'[Len(orders')]).pf = pf
                /\ positions'[pf][s] # positions[pf][s] =>
                        Traded(orders'[Len(orders')]).stock = s ]_vars

\* Every request that arrives is answered, or its process dies, although others hold
\* the row lock it needs, take it again before it, or die with it.
RequestsAreAnswered ==
    \A r \in Requests : req[r].pc \in Running ~> req[r].pc \in Waiting

\* Of one approval, at most one fill.
NoDoubleFill == \A d \in DecisionIds : Cardinality(FillsOf(d)) <= 1

\* Shares are held exactly while a thesis of them is open: no holding goes
\* unmonitored, no thesis outlives its shares.
HeldIsMonitored ==
    \A pf \in Portfolios, s \in Stocks :
        positions[pf][s].qty > 0 <=> ThesesAt(pf, s) # {}
=============================================================================
