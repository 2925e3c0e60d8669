----------------------------- MODULE ThesisMonitor -----------------------------
(***************************************************************************)
(* The monitor of open theses (backend/app/paper/service.py, monitor): a    *)
(* job and a route look at every open thesis, store at most one event per   *)
(* thesis, kind and session, propose an exit to the trade risk engine and   *)
(* raise an alert (alerts/service.py).  Orders that fill open and close     *)
(* theses meanwhile; PaperTrading has them in detail.                       *)
(*                                                                         *)
(* The theses here are those of one portfolio and one stock.  Submitting a  *)
(* proposal commits all that the monitor has done so far in its loop.       *)
(*                                                                         *)
(* Op_bug names a plausible bug in Op.  No action uses it.                  *)
(***************************************************************************)
EXTENDS Integers, Sequences, FiniteSets

CONSTANTS
    Monitors,      \* slots of runs of monitor
    Marks,         \* closes the market may have
    Plans,         \* stop, target and sessions to hold of an entry, [stop, target, days]
    Stances,       \* stances reports may come to
    MinToPush,     \* configured severity from which alerts are pushed
    MaxQty,        \* bound of a position
    MaxTheses,     \* bound of the theses table
    MaxDays,       \* bound of the sessions
    MaxSurprises   \* bound of the revisions of closes, the stored reports and the deaths

ASSUME BoundsAssumption ==
    MaxQty \in Nat /\ MaxTheses \in Nat /\ MaxDays \in Nat /\ MaxSurprises \in Nat
ASSUME MarksAssumption == Marks \subseteq Nat
ASSUME PlansAssumption == \A p \in Plans : p.stop \in Nat /\ p.target \in Nat /\ p.days \in Nat
ASSUME PushAssumption == MinToPush \in 0 .. 2

ExitKinds == {"STOP_HIT", "TARGET_HIT", "HORIZON_EXPIRED"}
Kinds == ExitKinds \cup {"STANCE_DETERIORATED"}
AllStances == {"POSITIVE_TILT", "MIXED", "NEGATIVE_TILT", "INSUFFICIENT_DATA"}

ASSUME StancesAssumption == Stances \subseteq AllStances

VARIABLES
    market,     \* [day, close]: the last stored session, 0 before the first, and its close
    report,     \* [stance, after]: the last report; theses up to after are older than it
    position,   \* [row, qty]: the row of the holding and its shares; no row without shares
    theses,     \* the theses; the index is the id
    proposals,  \* exit proposals the engine has stored, [thesis, kind, session, qty]
    events,     \* thesis_events, [thesis, kind, session, proposal]
    alerts,     \* keys <<thesis, kind, session>> of the stored alerts
    mon,        \* the local state of each run of monitor
    pushed,     \* history: keys of the alerts handed to the push channels
    count       \* history: revisions, reports and crashes so far

vars == <<market, report, position, theses, proposals, events, alerts, mon, pushed, count>>

tables == <<theses, proposals, events, alerts>>
world == <<market, report, position>>

-----------------------------------------------------------------------------
(* The rows                                                                 *)

ThesisType == [open: BOOLEAN, stop: Nat, target: Nat, end: Nat]

EventType == [thesis: 1 .. Len(theses), kind: Kinds, session: Nat, proposal: 0 .. Len(proposals)]

ProposalType == [thesis: 1 .. Len(theses), kind: ExitKinds, session: Nat, qty: 1 .. MaxQty]

OpenTheses == {id \in 1 .. Len(theses) : theses[id].open}

EventKey(thesis, kind, session) == <<thesis, kind, session>>

Keys(es) == {EventKey(e.thesis, e.kind, e.session) : e \in es}

\* THESIS_ALERT_SEVERITY: info is 0, warning is 1, critical is 2.
Severity(kind) == IF kind = "STOP_HIT" THEN 2 ELSE 1

-----------------------------------------------------------------------------
(* The world                                                                *)

Surprises == count.revisions + count.reports + count.crashes

NewSession ==
    /\ market.day < MaxDays
    /\ \E c \in Marks : market' = [day |-> market.day + 1, close |-> c]
    /\ UNCHANGED <<report, position, tables, mon, pushed, count>>

\* A later version of the last bar.
Revise ==
    /\ market.day > 0 /\ Surprises < MaxSurprises
    /\ \E c \in Marks \ {market.close} : market' = [market EXCEPT !.close = c]
    /\ count' = [count EXCEPT !.revisions = @ + 1]
    /\ UNCHANGED <<report, position, tables, mon, pushed>>

Research ==
    /\ Surprises < MaxSurprises
    /\ \E s \in Stances : report' = [stance |-> s, after |-> Len(theses)]
    /\ count' = [count EXCEPT !.reports = @ + 1]
    /\ UNCHANGED <<market, position, tables, mon, pushed>>

\* _open_thesis: a fill that buys opens a thesis with the proposal's levels.
Buy ==
    /\ Len(theses) < MaxTheses /\ position.qty < MaxQty
    /\ position' = [row |-> IF position.qty = 0 THEN position.row + 1 ELSE position.row,
                    qty |-> position.qty + 1]
    /\ \E p \in Plans :
         theses' = Append(theses, [open |-> TRUE, stop |-> p.stop, target |-> p.target,
                                   end |-> market.day + p.days])
    /\ UNCHANGED <<market, report, proposals, events, alerts, mon, pushed, count>>

ClosedAll == [id \in 1 .. Len(theses) |-> [theses[id] EXCEPT !.open = FALSE]]

\* A fill that empties the position closes its theses, any other sale none.
Sell ==
    /\ \E q \in 1 .. position.qty :
         /\ position' = [position EXCEPT !.qty = @ - q]
         /\ theses' = IF q = position.qty THEN ClosedAll ELSE theses
    /\ UNCHANGED <<market, report, proposals, events, alerts, mon, pushed, count>>

-----------------------------------------------------------------------------
(* monitor                                                                  *)

Idle == [pc |-> "idle", todo |-> <<>>, pos |-> [row |-> 0, qty |-> 0], session |-> 0,
         kinds |-> <<>>, proposal |-> 0, closing |-> {}, events |-> {}, alerts |-> {}]

InOrder(s) == \A i, j \in DOMAIN s : i < j => s[i] < s[j]

\* The open theses are read once, at the start.
List(m) ==
    /\ mon[m].pc = "idle"
    /\ \E s \in [1 .. Cardinality(OpenTheses) -> OpenTheses] :
         /\ s # <<>> /\ InOrder(s)
         /\ mon' = [mon EXCEPT ![m] = [Idle EXCEPT !.pc = "look", !.todo = s]]
    /\ UNCHANGED <<world, tables, pushed, count>>

\* On to the next thesis, or to the last commit, if there is something to store.
NextThesis(l) ==
    LET rest == Tail(l.todo) IN
    IF rest # <<>>
    THEN [l EXCEPT !.pc = "look", !.todo = rest, !.session = 0, !.kinds = <<>>, !.proposal = 0]
    ELSE IF l.closing = {} /\ l.events = {} THEN Idle
    ELSE [Idle EXCEPT !.pc = "commit", !.closing = l.closing,
                      !.events = l.events, !.alerts = l.alerts]

StanceFell(id) == id <= report.after /\ report.stance \in {"NEGATIVE_TILT", "INSUFFICIENT_DATA"}

Holds_strictStop(id, kind) ==
    CASE kind = "STOP_HIT" -> market.close < theses[id].stop
      [] kind = "TARGET_HIT" -> market.close >= theses[id].target
      [] kind = "HORIZON_EXPIRED" -> market.day >= theses[id].end
      [] OTHER -> StanceFell(id)

Holds(id, kind) ==
    CASE kind = "STOP_HIT" -> market.close <= theses[id].stop
      [] kind = "TARGET_HIT" -> market.close >= theses[id].target
      [] kind = "HORIZON_EXPIRED" -> market.day >= theses[id].end
      [] OTHER -> StanceFell(id)

\* The kinds that hold, in the order they are tried.
KindsOf(id) ==
    LET If(k) == IF Holds(id, k) THEN <<k>> ELSE <<>> IN
    If("STOP_HIT") \o If("TARGET_HIT") \o If("HORIZON_EXPIRED") \o If("STANCE_DETERIORATED")

\* Without a position the thesis is closed, at the next commit.
Closing(l, id) == l.closing \cup {id}

\* A row the session still holds an object of keeps the quantity first read.
SeenPosition(l) == IF l.pos.row = position.row THEN l.pos ELSE position

\* The position the thesis is about exists.
Found == position.qty > 0

Look(m) ==
    LET l == mon[m] IN
    LET id == Head(l.todo) IN
    /\ l.pc = "look"
    /\ mon' = [mon EXCEPT ![m] =
          IF ~Found THEN NextThesis([l EXCEPT !.closing = Closing(l, id)])
          ELSE IF market.day = 0 \/ KindsOf(id) = <<>>
               THEN NextThesis([l EXCEPT !.pos = SeenPosition(l)])
          ELSE [l EXCEPT !.pc = "kind", !.pos = SeenPosition(l),
                         !.session = market.day, !.kinds = KindsOf(id)]]
    /\ UNCHANGED <<world, tables, pushed, count>>

NextKind(l) ==
    IF Len(l.kinds) = 1 THEN NextThesis(l)
    ELSE [l EXCEPT !.kinds = Tail(@), !.proposal = 0, !.pc = "kind"]

Key(l) == EventKey(Head(l.todo), Head(l.kinds), l.session)

Closed_wholeStock(l) == IF l.closing = {} THEN {} ELSE 1 .. Len(theses)

\* The rows the session has set to CLOSED, by their ids.
Closed(l) == l.closing

\* A commit stores what the session holds.
Saves(l) ==
    /\ theses' = [id \in 1 .. Len(theses) |->
                     IF id \in Closed(l) THEN [theses[id] EXCEPT !.open = FALSE] ELSE theses[id]]
    /\ events' = events \cup l.events
    /\ alerts' = alerts \cup l.alerts

Saved(l) == [l EXCEPT !.closing = {}, !.events = {}, !.alerts = {}]

EventExists(l) == Key(l) \in Keys(events) \cup Keys(l.events)

\* The event of this session exists already.
SkipKind(m) ==
    /\ mon[m].pc = "kind"
    /\ EventExists(mon[m])
    /\ mon' = [mon EXCEPT ![m] = NextKind(@)]
    /\ UNCHANGED <<world, tables, pushed, count>>

\* The exit is proposed; submit commits, this run's earlier work included.
Propose(m) ==
    LET l == mon[m] IN
    /\ l.pc = "kind" /\ ~EventExists(l) /\ Head(l.kinds) \in ExitKinds
    /\ Saves(l)
    /\ proposals' = Append(proposals, [thesis |-> Head(l.todo), kind |-> Head(l.kinds),
                                       session |-> l.session, qty |-> l.pos.qty])
    /\ mon' = [mon EXCEPT ![m] =
                  [Saved(l) EXCEPT !.pc = "event", !.proposal = Len(proposals) + 1]]
    /\ UNCHANGED <<world, pushed, count>>

\* A worse stance proposes nothing.
NoProposal(m) ==
    LET l == mon[m] IN
    /\ l.pc = "kind" /\ ~EventExists(l) /\ Head(l.kinds) \notin ExitKinds
    /\ mon' = [mon EXCEPT ![m].pc = "event"]
    /\ UNCHANGED <<world, tables, pushed, count>>

NewEvent(l) ==
    [thesis |-> Head(l.todo), kind |-> Head(l.kinds), session |-> l.session,
     proposal |-> l.proposal]

\* The key is inserted by another run that has not committed: the insert waits for it.
KeyLocked(m) == \E n \in Monitors \ {m} : Key(mon[m]) \in Keys(mon[n].events)

KeyTaken(l) == Key(l) \in Keys(events)

AlertKey_withoutKind(l) == EventKey(Head(l.todo), "STOP_HIT", l.session)

AlertKey(l) == Key(l)

\* raise_alert: an alert once per key, pushed in the same transaction.
AlertsAfter(l) == IF AlertKey(l) \in alerts THEN l.alerts ELSE l.alerts \cup {AlertKey(l)}

PushedAfter(l) ==
    IF AlertKey(l) \notin alerts /\ Severity(Head(l.kinds)) >= MinToPush
    THEN pushed \cup {AlertKey(l)} ELSE pushed

StoreEvent(m) ==
    LET l == mon[m] IN
    /\ l.pc = "event" /\ ~KeyLocked(m) /\ ~KeyTaken(l)
    /\ mon' = [mon EXCEPT ![m] =
                  NextKind([l EXCEPT !.events = @ \cup {NewEvent(l)}, !.alerts = AlertsAfter(l)])]
    /\ pushed' = PushedAfter(l)
    /\ UNCHANGED <<world, tables, count>>

\* Another run has stored the event: the insert raises out of monitor, and the
\* session is closed with what it has not committed.
EventRaises(m) ==
    /\ mon[m].pc = "event" /\ KeyTaken(mon[m])
    /\ mon' = [mon EXCEPT ![m] = Idle]
    /\ UNCHANGED <<world, tables, pushed, count>>

Finish(m) ==
    /\ mon[m].pc = "commit"
    /\ Saves(mon[m])
    /\ mon' = [mon EXCEPT ![m] = Idle]
    /\ UNCHANGED <<world, proposals, pushed, count>>

\* The process dies; a job that is lost is delivered again.
Die(m) ==
    /\ mon[m].pc # "idle" /\ Surprises < MaxSurprises
    /\ mon' = [mon EXCEPT ![m] = Idle]
    /\ count' = [count EXCEPT !.crashes = @ + 1]
    /\ UNCHANGED <<world, tables, pushed>>

-----------------------------------------------------------------------------
Init ==
    /\ market = [day |-> 0, close |-> 0]
    /\ report = [stance |-> "MIXED", after |-> 0]
    /\ position = [row |-> 0, qty |-> 0]
    /\ theses = <<>> /\ proposals = <<>> /\ events = {} /\ alerts = {} /\ pushed = {}
    /\ mon = [m \in Monitors |-> Idle]
    /\ count = [revisions |-> 0, reports |-> 0, crashes |-> 0]

Step(m) ==
    List(m) \/ Look(m) \/ SkipKind(m) \/ Propose(m) \/ NoProposal(m)
    \/ StoreEvent(m) \/ EventRaises(m) \/ Finish(m)

Next ==
    \/ NewSession \/ Revise \/ Research \/ Buy \/ Sell
    \/ \E m \in Monitors : Step(m) \/ Die(m)

Spec == Init /\ [][Next]_vars

\* The beat starts the job every weekday and a started job runs on.
FairSpec == Spec /\ \A m \in Monitors : WF_vars(Step(m))

-----------------------------------------------------------------------------
(* Properties                                                               *)

RunOK(l) ==
    /\ l.pc \in {"idle", "look", "kind", "event", "commit"}
    /\ l.todo \in Seq(1 .. Len(theses)) /\ l.kinds \in Seq(Kinds)
    /\ l.pos \in [row: Nat, qty: 0 .. MaxQty] /\ l.session \in 0 .. market.day
    /\ l.proposal \in 0 .. Len(proposals)
    /\ l.closing \subseteq 1 .. Len(theses) /\ l.events \subseteq EventType
    /\ l.pc \in {"look", "kind", "event"} => l.todo # <<>>
    /\ l.pc \in {"kind", "event"} => l.kinds # <<>> /\ l.pos.qty > 0

\* Types of the tables and of what a run holds, which has shares to sell whenever
\* it proposes to sell them.
TypeOK ==
    /\ market.day \in 0 .. MaxDays /\ report.after \in 0 .. Len(theses)
    /\ position \in [row: Nat, qty: 0 .. MaxQty]
    /\ theses \in Seq(ThesisType) /\ proposals \in Seq(ProposalType)
    /\ events \subseteq EventType
    /\ \A m \in Monitors : RunOK(mon[m])

\* A stored event has been told: its alert is stored with it and was pushed if it
\* is severe enough, and the exit it names is the proposal made for that thesis,
\* kind and session, whichever runs collide, die or are repeated.
EventsAreTold ==
    \A e \in events :
        /\ EventKey(e.thesis, e.kind, e.session) \in alerts
        /\ Severity(e.kind) >= MinToPush => EventKey(e.thesis, e.kind, e.session) \in pushed
        /\ e.proposal = 0 <=> e.kind \notin ExitKinds
        /\ e.proposal # 0 =>
             LET p == proposals[e.proposal] IN
             EventKey(p.thesis, p.kind, p.session) = EventKey(e.thesis, e.kind, e.session)
        /\ \A f \in events : f # e =>
             EventKey(f.thesis, f.kind, f.session) # EventKey(e.thesis, e.kind, e.session)

\* Shares that are held are watched: the monitor, which closes theses whose
\* position it did not find, never closes the last thesis of shares that were
\* sold and bought back while it ran.
HeldIsWatched == position.qty > 0 => OpenTheses # {}

AtStop(id, s) ==
    /\ market.day = s /\ id \in OpenTheses /\ position.qty > 0
    /\ market.close <= theses[id].stop

\* A close at or below the stop of an open thesis gets its event, unless the
\* thesis is closed, the close is revised or another session comes first.
StopIsNoticed ==
    \A id \in 1 .. MaxTheses, s \in 1 .. MaxDays, r \in 0 .. MaxSurprises :
        (AtStop(id, s) /\ count.revisions = r) ~>
            \/ EventKey(id, "STOP_HIT", s) \in Keys(events)
            \/ market.day # s \/ count.revisions # r \/ id \notin OpenTheses
=================================================================================
