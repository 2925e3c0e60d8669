-------------------------- MODULE ThesisMonitor_proofs --------------------------
(***************************************************************************)
(* Theorems about ThesisMonitor for every number of monitors, theses and     *)
(* sessions: its types, that events are told, and that shares are watched.   *)
(***************************************************************************)
EXTENDS ThesisMonitor, SequenceTheorems, FiniteSetTheorems, TLAPS

Fields == {"pc", "todo", "pos", "session", "kinds", "proposal", "closing", "events", "alerts"}

\* Events and proposals over n theses and k proposals.
Event(n, k) == [thesis: 1 .. n, kind: Kinds, session: Nat, proposal: 0 .. k]

Proposal(n) == [thesis: 1 .. n, kind: ExitKinds, session: Nat, qty: 1 .. MaxQty]

KeyOf(e) == EventKey(e.thesis, e.kind, e.session)

Severe(key) == Severity(key[2]) >= MinToPush

\* An event is told by the alerts a of which s were pushed, and names its proposal in p.
Told(e, p, a, s) ==
    /\ KeyOf(e) \in a
    /\ Severe(KeyOf(e)) => KeyOf(e) \in s
    /\ e.proposal = 0 <=> e.kind \notin ExitKinds
    /\ e.proposal # 0 => KeyOf(p[e.proposal]) = KeyOf(e)

AllTold(E, n, p, a, s) ==
    /\ E \subseteq Event(n, Len(p))
    /\ \A e \in E : Told(e, p, a, s)
    /\ \A e, f \in E : e # f => KeyOf(e) # KeyOf(f)

\* What a run's local state l holds over theses t, proposals p, alerts a of which s were
\* pushed, and the session d: what it will close is closed, what it will store is told.
Holdings(l, t, p, a, s, d) ==
    /\ DOMAIN l = Fields
    /\ l.todo \in Seq(1 .. Len(t)) /\ l.kinds \in Seq(Kinds)
    /\ l.pos \in [row: Nat, qty: 0 .. MaxQty] /\ (l.pos.row > 0 => l.pos.qty > 0)
    /\ l.session \in 0 .. d
    /\ l.closing \subseteq 1 .. Len(t) /\ \A id \in l.closing : ~t[id].open
    /\ AllTold(l.events, Len(t), p, a \cup l.alerts, s)
    /\ \A k \in l.alerts : Severe(k) => k \in s

Run(l, t, p, a, s, d) ==
    /\ Holdings(l, t, p, a, s, d)
    /\ l.pc \in {"idle", "look", "kind", "event", "commit"}
    /\ l.pc \in {"look", "kind", "event"} => l.todo # <<>>
    /\ l.pc \in {"kind", "event"} => l.kinds # <<>> /\ l.pos.qty > 0
    /\ l.pc # "event" => l.proposal = 0
    /\ l.pc = "event" =>
         /\ Key(l) \notin Keys(l.events)
         /\ IF Head(l.kinds) \in ExitKinds
            THEN l.proposal \in 1 .. Len(p) /\ KeyOf(p[l.proposal]) = Key(l)
            ELSE l.proposal = 0

WorldInv ==
    /\ market \in [day: 0 .. MaxDays, close: Nat]
    /\ report.after \in 0 .. Len(theses)
    /\ position \in [row: Nat, qty: 0 .. MaxQty]
    /\ position.qty > 0 => position.row > 0
    /\ theses \in Seq(ThesisType) /\ proposals \in Seq(Proposal(Len(theses)))
    /\ position.qty = 0 <=> \A id \in 1 .. Len(theses) : ~theses[id].open

EventsInv ==
    /\ AllTold(events, Len(theses), proposals, alerts, pushed)
    /\ \A k \in alerts : Severe(k) => k \in pushed

\* Events that are not committed are in nobody else's way: the unique index.
KeysInv ==
    /\ \A m \in Monitors : Keys(mon[m].events) \cap Keys(events) = {}
    /\ \A m, n \in Monitors : m # n => Keys(mon[m].events) \cap Keys(mon[n].events) = {}

MonitorInv ==
    /\ WorldInv /\ EventsInv /\ KeysInv
    /\ DOMAIN mon = Monitors
    /\ \A m \in Monitors : Run(mon[m], theses, proposals, alerts, pushed, market.day)

\* What may happen beside a run: theses and proposals are added, none is opened again.
Grows(t, p, a, s, d, t2, p2, a2, s2, d2) ==
    /\ Len(t) \in Nat /\ Len(t2) \in Nat /\ Len(t) <= Len(t2)
    /\ \A id \in 1 .. Len(t) : ~t[id].open => ~t2[id].open
    /\ Len(p) \in Nat /\ Len(p2) \in Nat /\ Len(p) <= Len(p2)
    /\ \A i \in 1 .. Len(p) : p2[i] = p[i]
    /\ a \subseteq a2 /\ s \subseteq s2
    /\ d \in Nat /\ d2 \in Nat /\ d <= d2

-----------------------------------------------------------------------------
LEMMA InvImplies == MonitorInv => TypeOK /\ EventsAreTold /\ HeldIsWatched
<1> SUFFICES ASSUME MonitorInv PROVE TypeOK /\ EventsAreTold /\ HeldIsWatched
  OBVIOUS
<1>1. /\ EventType = Event(Len(theses), Len(proposals))
      /\ ProposalType = Proposal(Len(theses))
  BY DEF EventType, Event, ProposalType, Proposal
<1>2. ASSUME NEW m \in Monitors PROVE RunOK(mon[m])
  <2>1. Run(mon[m], theses, proposals, alerts, pushed, market.day)
    BY DEF MonitorInv
  <2>2. mon[m].proposal \in 0 .. Len(proposals)
    <3>1. Len(proposals) \in Nat
      BY DEF MonitorInv, WorldInv
    <3> QED
      BY <2>1, <3>1 DEF Run, Holdings
  <2> QED
    BY <1>1, <2>1, <2>2 DEF Run, Holdings, RunOK, AllTold
<1>3. TypeOK
  BY <1>1, <1>2 DEF TypeOK, MonitorInv, WorldInv, EventsInv, AllTold
<1>4. EventsAreTold
  <2>1. AllTold(events, Len(theses), proposals, alerts, pushed)
    BY DEF MonitorInv, EventsInv
  <2>2. \A e \in events : Severe(KeyOf(e)) <=> Severity(e.kind) >= MinToPush
    BY DEF Severe, KeyOf, EventKey
  <2> QED
    BY <2>1, <2>2 DEF EventsAreTold, AllTold, Told, KeyOf
<1>5. HeldIsWatched
  <2>1. ASSUME position.qty > 0 PROVE OpenTheses # {}
    <3>1. position.qty # 0
      BY <2>1 DEF MonitorInv, WorldInv
    <3>2. \E id \in 1 .. Len(theses) : theses[id].open
      BY <3>1 DEF MonitorInv, WorldInv
    <3> QED
      BY <3>2 DEF OpenTheses
  <2> QED
    BY <2>1 DEF HeldIsWatched
<1> QED
  BY <1>3, <1>4, <1>5

LEMMA IdleRun ==
    ASSUME NEW t \in Seq(ThesisType), NEW p, NEW a, NEW s, NEW d \in Nat
    PROVE  Run(Idle, t, p, a, s, d) /\ Keys(Idle.events) = {}
<1>1. <<>> \in Seq(1 .. Len(t)) /\ <<>> \in Seq(Kinds)
  OBVIOUS
<1>2. [row |-> 0, qty |-> 0] \in [row: Nat, qty: 0 .. MaxQty]
  BY BoundsAssumption
<1> QED
  BY <1>1, <1>2 DEF Run, Holdings, Idle, Fields, AllTold, Keys

LEMMA InitInv == Init => MonitorInv
<1> SUFFICES ASSUME Init PROVE MonitorInv
  OBVIOUS
<1>1. theses = <<>> /\ theses \in Seq(ThesisType) /\ Len(theses) = 0
      /\ proposals \in Seq(Proposal(0)) /\ Len(proposals) = 0
  BY DEF Init
<1>2. WorldInv
  BY <1>1, BoundsAssumption DEF Init, WorldInv
<1>3. EventsInv
  BY <1>1 DEF Init, EventsInv, AllTold
<1>4. ASSUME NEW m \in Monitors
      PROVE  /\ Run(mon[m], theses, proposals, alerts, pushed, market.day)
             /\ Keys(mon[m].events) = {}
  <2>1. mon[m] = Idle /\ market.day = 0
    BY DEF Init
  <2> QED
    BY <2>1, <1>1, IdleRun
<1> QED
  BY <1>2, <1>3, <1>4 DEF MonitorInv, KeysInv, Init

-----------------------------------------------------------------------------
LEMMA ToldStays ==
    ASSUME NEW t, NEW p, NEW a, NEW s, NEW d, NEW t2, NEW p2, NEW a2, NEW s2, NEW d2,
           Grows(t, p, a, s, d, t2, p2, a2, s2, d2),
           NEW b, NEW b2, b \subseteq b2,
           NEW E, AllTold(E, Len(t), p, b, s)
    PROVE  AllTold(E, Len(t2), p2, b2, s2)
<1>1. E \subseteq Event(Len(t2), Len(p2))
  BY DEF AllTold, Grows, Event
<1>2. ASSUME NEW e \in E PROVE Told(e, p2, b2, s2)
  <2>1. Told(e, p, b, s) /\ e \in Event(Len(t), Len(p))
    BY DEF AllTold
  <2>2. e.proposal # 0 => e.proposal \in 1 .. Len(p) /\ p2[e.proposal] = p[e.proposal]
    BY <2>1 DEF Event, Grows
  <2> QED
    BY <2>1, <2>2 DEF Told, Grows
<1> QED
  BY <1>1, <1>2 DEF AllTold

LEMMA RunStays ==
    ASSUME NEW t, NEW p, NEW a, NEW s, NEW d, NEW t2, NEW p2, NEW a2, NEW s2, NEW d2,
           Grows(t, p, a, s, d, t2, p2, a2, s2, d2),
           NEW l, Run(l, t, p, a, s, d)
    PROVE  Run(l, t2, p2, a2, s2, d2)
<1>1. AllTold(l.events, Len(t2), p2, a2 \cup l.alerts, s2)
  <2>1. a \cup l.alerts \subseteq a2 \cup l.alerts
    BY DEF Grows
  <2> QED
    BY <2>1, ToldStays DEF Run, Holdings
<1>2. l.todo \in Seq(1 .. Len(t2))
  <2>1. 1 .. Len(t) \subseteq 1 .. Len(t2)
    BY DEF Grows
  <2>2. l.todo \in Seq(1 .. Len(t))
    BY DEF Run, Holdings
  <2> QED
    BY <2>1, <2>2, SeqMonotonic
<1>3. l.session \in 0 .. d2 /\ l.closing \subseteq 1 .. Len(t2) /\ \A id \in l.closing : ~t2[id].open
  BY DEF Run, Holdings, Grows
<1>4. ASSUME l.pc = "event"
      PROVE  IF Head(l.kinds) \in ExitKinds
             THEN l.proposal \in 1 .. Len(p2) /\ KeyOf(p2[l.proposal]) = Key(l)
             ELSE l.proposal = 0
  BY <1>4 DEF Run, Holdings, Grows
<1>5. \A k \in l.alerts : Severe(k) => k \in s2
  BY DEF Run, Holdings, Grows
<1> QED
  BY <1>1, <1>2, <1>3, <1>4, <1>5 DEF Run, Holdings

LEMMA GrowsItself ==
    ASSUME MonitorInv, NEW s2, pushed \subseteq s2
    PROVE  Grows(theses, proposals, alerts, pushed, market.day,
                 theses, proposals, alerts, s2, market.day)
BY DEF Grows, MonitorInv, WorldInv

\* A step of run m to local state x that stores nothing.
LEMMA RunMoves ==
    ASSUME MonitorInv, NEW m \in Monitors, NEW x,
           mon' = [mon EXCEPT ![m] = x], UNCHANGED <<world, tables>>, pushed \subseteq pushed',
           Run(x, theses, proposals, alerts, pushed', market.day),
           \A k \in Keys(x.events) :
               \/ k \in Keys(mon[m].events)
               \/ k \notin Keys(events) /\ \A n \in Monitors \ {m} : k \notin Keys(mon[n].events)
    PROVE  MonitorInv'
<1>1. Grows(theses, proposals, alerts, pushed, market.day,
            theses', proposals', alerts', pushed', market'.day)
  BY GrowsItself DEF world, tables
<1>2. \A n \in Monitors : mon'[n] = IF n = m THEN x ELSE mon[n]
  BY DEF MonitorInv
<1>3. ASSUME NEW n \in Monitors
      PROVE  Run(mon'[n], theses', proposals', alerts', pushed', market'.day)
  <2>1. CASE n = m
    BY <2>1, <1>2 DEF world, tables
  <2>2. CASE n # m
    BY <2>2, <1>1, <1>2, RunStays DEF MonitorInv
  <2> QED
    BY <2>1, <2>2
<1>4. KeysInv'
  <2>1. ASSUME NEW n \in Monitors PROVE Keys(mon'[n].events) \cap Keys(events) = {}
    BY <1>2 DEF MonitorInv, KeysInv
  <2>2. ASSUME NEW i \in Monitors, NEW j \in Monitors, i # j
        PROVE  Keys(mon'[i].events) \cap Keys(mon'[j].events) = {}
    BY <2>2, <1>2 DEF MonitorInv, KeysInv
  <2>3. events' = events
    BY DEF tables
  <2> QED
    BY <2>1, <2>2, <2>3 DEF KeysInv
<1>5. WorldInv'
  BY DEF MonitorInv, WorldInv, world, tables
<1>6. EventsInv'
  <2>1. alerts \subseteq alerts
    OBVIOUS
  <2>2. AllTold(events, Len(theses'), proposals', alerts', pushed')
    BY <1>1, ToldStays DEF MonitorInv, EventsInv, tables
  <2> QED
    BY <2>2 DEF MonitorInv, EventsInv, tables
<1> QED
  BY <1>2, <1>3, <1>4, <1>5, <1>6 DEF MonitorInv

\* What happens to the rows beside the runs.
LEMMA WorldMoves ==
    ASSUME MonitorInv, UNCHANGED <<events, mon, pushed, alerts>>, WorldInv',
           Grows(theses, proposals, alerts, pushed, market.day,
                 theses', proposals', alerts', pushed', market'.day)
    PROVE  MonitorInv'
<1>1. ASSUME NEW n \in Monitors
      PROVE  Run(mon'[n], theses', proposals', alerts', pushed', market'.day)
  BY RunStays DEF MonitorInv
<1>2. EventsInv'
  <2>1. AllTold(events, Len(theses'), proposals', alerts', pushed')
    BY ToldStays DEF MonitorInv, EventsInv
  <2> QED
    BY <2>1 DEF MonitorInv, EventsInv
<1>3. KeysInv'
  BY DEF MonitorInv, KeysInv
<1> QED
  BY <1>1, <1>2, <1>3 DEF MonitorInv

-----------------------------------------------------------------------------
(* A run moves on to the next thesis or the next kind                        *)

LEMMA NextThesisRuns ==
    ASSUME NEW t \in Seq(ThesisType), NEW p, NEW a, NEW s, NEW d \in Nat,
           NEW l, Holdings(l, t, p, a, s, d), l.todo # <<>>
    PROVE  Run(NextThesis(l), t, p, a, s, d) /\ NextThesis(l).events \subseteq l.events
<1>1. CASE Tail(l.todo) # <<>>
  <2> DEFINE x == [l EXCEPT !.pc = "look", !.todo = Tail(l.todo), !.session = 0,
                            !.kinds = <<>>, !.proposal = 0]
  <2>1. NextThesis(l) = x
    BY <1>1 DEF NextThesis
  <2>2. /\ DOMAIN x = Fields /\ x.pc = "look" /\ x.todo = Tail(l.todo) /\ x.session = 0
        /\ x.kinds = <<>> /\ x.proposal = 0 /\ x.pos = l.pos /\ x.closing = l.closing
        /\ x.events = l.events /\ x.alerts = l.alerts
    BY DEF Holdings, Fields
  <2>3. Tail(l.todo) \in Seq(1 .. Len(t)) /\ <<>> \in Seq(Kinds)
    <3> DEFINE S == 1 .. Len(t)
    <3>1. l.todo \in Seq(S)
      BY DEF Holdings
    <3> HIDE DEF S
    <3>2. Tail(l.todo) \in Seq(S)
      BY <3>1, HeadTailProperties
    <3> QED
      BY <3>2, EmptySeq DEF S
  <2> HIDE DEF x
  <2>4. Holdings(x, t, p, a, s, d)
    BY <2>2, <2>3 DEF Holdings
  <2> QED
    BY <1>1, <2>1, <2>2, <2>4 DEF Run
<1>2. CASE Tail(l.todo) = <<>> /\ l.closing = {} /\ l.events = {}
  BY <1>2, IdleRun DEF NextThesis, Idle
<1>3. CASE Tail(l.todo) = <<>> /\ ~(l.closing = {} /\ l.events = {})
  <2> DEFINE x == [Idle EXCEPT !.pc = "commit", !.closing = l.closing,
                               !.events = l.events, !.alerts = l.alerts]
  <2>1. NextThesis(l) = x
    BY <1>3 DEF NextThesis
  <2>2. /\ DOMAIN x = Fields /\ x.pc = "commit" /\ x.todo = <<>> /\ x.session = 0
        /\ x.kinds = <<>> /\ x.proposal = 0 /\ x.pos = Idle.pos /\ x.closing = l.closing
        /\ x.events = l.events /\ x.alerts = l.alerts
    BY DEF Idle, Fields
  <2> HIDE DEF x
  <2>3. Holdings(Idle, t, p, a, s, d) /\ Idle.todo = <<>> /\ Idle.kinds = <<>>
    BY IdleRun DEF Run, Idle
  <2>4. Holdings(x, t, p, a, s, d)
    BY <2>2, <2>3 DEF Holdings
  <2> QED
    BY <2>1, <2>2, <2>4 DEF Run
<1> QED
  BY <1>1, <1>2, <1>3

LEMMA NextKindRuns ==
    ASSUME NEW t \in Seq(ThesisType), NEW p, NEW a, NEW s, NEW d \in Nat,
           NEW l, Holdings(l, t, p, a, s, d), l.todo # <<>>, l.kinds # <<>>, l.pos.qty > 0
    PROVE  Run(NextKind(l), t, p, a, s, d) /\ NextKind(l).events \subseteq l.events
<1>1. CASE Len(l.kinds) = 1
  BY <1>1, NextThesisRuns DEF NextKind
<1>2. CASE Len(l.kinds) # 1
  <2> DEFINE x == [l EXCEPT !.kinds = Tail(l.kinds), !.proposal = 0, !.pc = "kind"]
  <2>1. NextKind(l) = x
    BY <1>2 DEF NextKind
  <2>2. /\ DOMAIN x = Fields /\ x.pc = "kind" /\ x.todo = l.todo /\ x.session = l.session
        /\ x.kinds = Tail(l.kinds) /\ x.proposal = 0 /\ x.pos = l.pos
        /\ x.closing = l.closing /\ x.events = l.events /\ x.alerts = l.alerts
    BY DEF Holdings, Fields
  <2>3. Tail(l.kinds) \in Seq(Kinds) /\ Tail(l.kinds) # <<>>
    <3>1. l.kinds \in Seq(Kinds)
      BY DEF Holdings
    <3>2. Tail(l.kinds) \in Seq(Kinds) /\ Len(Tail(l.kinds)) = Len(l.kinds) - 1
          /\ Len(l.kinds) \in Nat /\ Len(l.kinds) # 0
      BY <3>1, HeadTailProperties, EmptySeq, LenProperties
    <3>3. Len(Tail(l.kinds)) # 0 /\ Len(<<>>) = 0
      BY <3>2, <1>2
    <3>4. Tail(l.kinds) # <<>>
      BY <3>3
    <3> QED
      BY <3>2, <3>4
  <2> HIDE DEF x
  <2>4. Holdings(x, t, p, a, s, d)
    BY <2>2, <2>3 DEF Holdings
  <2> QED
    BY <2>1, <2>2, <2>3, <2>4 DEF Run
<1> QED
  BY <1>1, <1>2

-----------------------------------------------------------------------------
(* The steps that store nothing                                              *)

LEMMA ListInv == ASSUME MonitorInv, NEW m \in Monitors, List(m) PROVE MonitorInv'
<1>1. PICK q \in [1 .. Cardinality(OpenTheses) -> OpenTheses] :
         q # <<>> /\ mon' = [mon EXCEPT ![m] = [Idle EXCEPT !.pc = "look", !.todo = q]]
  BY DEF List
<1> DEFINE x == [Idle EXCEPT !.pc = "look", !.todo = q]
<1>2. q \in Seq(1 .. Len(theses))
  <2>1. Len(theses) \in Nat /\ OpenTheses \subseteq 1 .. Len(theses)
    BY DEF MonitorInv, WorldInv, OpenTheses
  <2>2. Cardinality(OpenTheses) \in Nat
    <3>1. IsFiniteSet(1 .. Len(theses))
      BY <2>1, FS_Interval
    <3> QED
      BY <2>1, <3>1, FS_Subset, FS_CardinalityType
  <2>3. q \in Seq(OpenTheses)
    BY <2>2
  <2> QED
    BY <2>1, <2>3, SeqMonotonic
<1>3. /\ DOMAIN x = Fields /\ x.pc = "look" /\ x.todo = q /\ x.session = Idle.session
      /\ x.kinds = Idle.kinds /\ x.proposal = 0 /\ x.pos = Idle.pos
      /\ x.closing = Idle.closing /\ x.events = Idle.events /\ x.alerts = Idle.alerts
  BY DEF Idle, Fields
<1>4. Holdings(Idle, theses, proposals, alerts, pushed, market.day) /\ Keys(Idle.events) = {}
  BY IdleRun DEF MonitorInv, WorldInv, Run
<1>5. mon' = [mon EXCEPT ![m] = x]
  BY <1>1
<1>6. UNCHANGED <<world, tables>> /\ pushed' = pushed
  BY DEF List
<1> HIDE DEF x
<1>7. Run(x, theses, proposals, alerts, pushed', market.day)
  BY <1>1, <1>2, <1>3, <1>4, <1>6 DEF Run, Holdings
<1>8. Keys(x.events) = {}
  BY <1>3, <1>4
<1> QED
  BY <1>5, <1>6, <1>7, <1>8, RunMoves

LEMMA SkipKindInv == ASSUME MonitorInv, NEW m \in Monitors, SkipKind(m) PROVE MonitorInv'
<1> DEFINE x == NextKind(mon[m])
<1>1. /\ mon[m].pc = "kind" /\ mon' = [mon EXCEPT ![m] = x]
      /\ UNCHANGED <<world, tables>> /\ pushed' = pushed
  BY DEF SkipKind
<1>2. /\ Run(mon[m], theses, proposals, alerts, pushed, market.day)
      /\ theses \in Seq(ThesisType) /\ market.day \in Nat
  BY DEF MonitorInv, WorldInv
<1>3. Run(x, theses, proposals, alerts, pushed, market.day) /\ x.events \subseteq mon[m].events
  BY <1>1, <1>2, NextKindRuns DEF Run
<1> HIDE DEF x
<1>4. \A k \in Keys(x.events) : k \in Keys(mon[m].events)
  BY <1>3 DEF Keys
<1> QED
  BY <1>1, <1>3, <1>4, RunMoves

LEMMA NoProposalInv == ASSUME MonitorInv, NEW m \in Monitors, NoProposal(m) PROVE MonitorInv'
<1> DEFINE l == mon[m]
           x == [l EXCEPT !.pc = "event"]
<1>1. /\ l.pc = "kind" /\ ~EventExists(l) /\ Head(l.kinds) \notin ExitKinds
      /\ mon' = [mon EXCEPT ![m] = x]
      /\ UNCHANGED <<world, tables>> /\ pushed' = pushed
  BY DEF NoProposal
<1>2. Run(l, theses, proposals, alerts, pushed, market.day)
  BY DEF MonitorInv
<1>3. /\ DOMAIN x = Fields /\ x.pc = "event" /\ x.todo = l.todo /\ x.session = l.session
      /\ x.kinds = l.kinds /\ x.proposal = l.proposal /\ x.pos = l.pos
      /\ x.closing = l.closing /\ x.events = l.events /\ x.alerts = l.alerts
  BY <1>2 DEF Run, Holdings, Fields
<1> HIDE DEF x, l
<1>4. Key(x) = Key(l) /\ Key(l) \notin Keys(l.events)
  BY <1>1, <1>3 DEF Key, EventExists
<1>5. Run(x, theses, proposals, alerts, pushed, market.day)
  BY <1>1, <1>2, <1>3, <1>4 DEF Run, Holdings
<1>6. \A k \in Keys(x.events) : k \in Keys(mon[m].events)
  BY <1>3 DEF l
<1> QED
  BY <1>1, <1>5, <1>6, RunMoves

\* Both a death and a lost insert leave nothing.
LEMMA ToIdle ==
    ASSUME MonitorInv, NEW m \in Monitors, mon' = [mon EXCEPT ![m] = Idle],
           UNCHANGED <<world, tables>>, pushed' = pushed
    PROVE  MonitorInv'
<1>1. Run(Idle, theses, proposals, alerts, pushed', market.day) /\ Keys(Idle.events) = {}
  BY IdleRun DEF MonitorInv, WorldInv
<1> QED
  BY <1>1, RunMoves

LEMMA KindsAreKinds == \A id : KindsOf(id) \in Seq(Kinds)
<1> SUFFICES ASSUME NEW id PROVE KindsOf(id) \in Seq(Kinds)
  OBVIOUS
<1> DEFINE If(k) == IF Holds(id, k) THEN <<k>> ELSE <<>>
<1>1. KindsOf(id) = If("STOP_HIT") \o If("TARGET_HIT") \o If("HORIZON_EXPIRED")
                    \o If("STANCE_DETERIORATED")
  BY DEF KindsOf
<1>2. \A k \in Kinds : If(k) \in Seq(Kinds)
  OBVIOUS
<1> HIDE DEF If
<1> QED
  BY <1>1, <1>2 DEF Kinds, ExitKinds

LEMMA LookInv == ASSUME MonitorInv, NEW m \in Monitors, Look(m) PROVE MonitorInv'
<1> DEFINE l == mon[m]
           id == Head(l.todo)
           gone == [l EXCEPT !.closing = Closing(l, id)]
           quiet == [l EXCEPT !.pos = SeenPosition(l)]
           seen == [l EXCEPT !.pc = "kind", !.pos = SeenPosition(l),
                             !.session = market.day, !.kinds = KindsOf(id)]
           Goal(x) == /\ Run(x, theses, proposals, alerts, pushed, market.day)
                      /\ x.events \subseteq l.events
<1>1. /\ l.pc = "look" /\ UNCHANGED <<world, tables>> /\ pushed' = pushed
      /\ mon' = [mon EXCEPT ![m] =
            IF ~Found THEN NextThesis(gone)
            ELSE IF market.day = 0 \/ KindsOf(id) = <<>> THEN NextThesis(quiet)
            ELSE seen]
  BY DEF Look
<1>2. /\ Run(l, theses, proposals, alerts, pushed, market.day)
      /\ theses \in Seq(ThesisType) /\ market.day \in Nat /\ l.todo # <<>>
  BY <1>1 DEF MonitorInv, WorldInv, Run
<1>3. id \in 1 .. Len(theses)
  <2> DEFINE S == 1 .. Len(theses)
  <2>1. l.todo \in Seq(S)
    BY <1>2 DEF Run, Holdings
  <2> HIDE DEF S, l
  <2>2. Head(l.todo) \in S
    BY <2>1, <1>2, HeadTailProperties
  <2> QED
    BY <2>2 DEF S
<1>4. CASE ~Found
  <2>1. \A i \in 1 .. Len(theses) : ~theses[i].open
    BY <1>4 DEF Found, MonitorInv, WorldInv
  <2>2. /\ DOMAIN gone = Fields /\ gone.todo = l.todo /\ gone.session = l.session
        /\ gone.kinds = l.kinds /\ gone.pos = l.pos /\ gone.closing = l.closing \cup {id}
        /\ gone.events = l.events /\ gone.alerts = l.alerts
    BY <1>2 DEF Run, Holdings, Fields, Closing
  <2> HIDE DEF gone, l, id
  <2>3. Holdings(gone, theses, proposals, alerts, pushed, market.day)
    BY <1>2, <1>3, <2>1, <2>2 DEF Run, Holdings
  <2>4. Goal(NextThesis(gone))
    BY <1>2, <2>2, <2>3, NextThesisRuns
  <2>5. mon' = [mon EXCEPT ![m] = NextThesis(gone)]
    BY <1>1, <1>4
  <2>6. \A k \in Keys(NextThesis(gone).events) : k \in Keys(mon[m].events)
    BY <2>4 DEF Keys, l
  <2> QED
    BY <1>1, <2>4, <2>5, <2>6, RunMoves
<1>5. CASE Found
  <2> DEFINE y == SeenPosition(l)
  <2>1. y \in [row: Nat, qty: 0 .. MaxQty] /\ y.qty > 0
    BY <1>2, <1>5 DEF Found, SeenPosition, MonitorInv, WorldInv, Run, Holdings
  <2> HIDE DEF y
  <2>2. CASE market.day = 0 \/ KindsOf(id) = <<>>
    <3>1. /\ DOMAIN quiet = Fields /\ quiet.todo = l.todo /\ quiet.session = l.session
          /\ quiet.kinds = l.kinds /\ quiet.pos = y /\ quiet.closing = l.closing
          /\ quiet.events = l.events /\ quiet.alerts = l.alerts
      BY <1>2 DEF Run, Holdings, Fields, y
    <3>2. mon' = [mon EXCEPT ![m] = NextThesis(quiet)]
      BY <1>1, <1>5, <2>2
    <3> HIDE DEF quiet, l
    <3>3. Holdings(quiet, theses, proposals, alerts, pushed, market.day)
      BY <1>2, <2>1, <3>1 DEF Run, Holdings
    <3>4. Goal(NextThesis(quiet))
      <4>1. quiet.todo # <<>> /\ quiet.events = l.events
        BY <1>2, <3>1
      <4>2. /\ Run(NextThesis(quiet), theses, proposals, alerts, pushed, market.day)
            /\ NextThesis(quiet).events \subseteq quiet.events
        BY <1>2, <3>3, <4>1, NextThesisRuns
      <4> QED
        BY <4>1, <4>2
    <3>5. \A k \in Keys(NextThesis(quiet).events) : k \in Keys(mon[m].events)
      BY <3>4 DEF Keys, l
    <3> QED
      BY <1>1, <3>2, <3>4, <3>5, RunMoves
  <2>3. CASE ~(market.day = 0 \/ KindsOf(id) = <<>>)
    <3>1. /\ DOMAIN seen = Fields /\ seen.pc = "kind" /\ seen.todo = l.todo
          /\ seen.session = market.day /\ seen.kinds = KindsOf(id) /\ seen.pos = y
          /\ seen.closing = l.closing /\ seen.events = l.events /\ seen.alerts = l.alerts
          /\ seen.proposal = l.proposal
      BY <1>2 DEF Run, Holdings, Fields, y
    <3>2. mon' = [mon EXCEPT ![m] = seen]
      BY <1>1, <1>5, <2>3
    <3>3. KindsOf(id) \in Seq(Kinds)
      BY KindsAreKinds
    <3>4. KindsOf(id) # <<>> /\ l.proposal = 0
      BY <2>3, <1>1, <1>2 DEF Run
    <3> DEFINE ks == KindsOf(id)
    <3> HIDE DEF seen, l, ks
    <3>5. Run(seen, theses, proposals, alerts, pushed, market.day)
      BY <1>2, <2>1, <3>1, <3>3, <3>4 DEF Run, Holdings
    <3>6. \A k \in Keys(seen.events) : k \in Keys(mon[m].events)
      BY <3>1 DEF l
    <3> QED
      BY <1>1, <3>2, <3>5, <3>6, RunMoves
  <2> QED
    BY <2>2, <2>3
<1> QED
  BY <1>4, <1>5

\* Nobody else holds a key that is not locked.
LEMMA StoreEventInv == ASSUME MonitorInv, NEW m \in Monitors, StoreEvent(m) PROVE MonitorInv'
<1> DEFINE l == mon[m]
           e == NewEvent(l)
           y == [l EXCEPT !.events = l.events \cup {e}, !.alerts = AlertsAfter(l)]
           k == Key(l)
<1>1. /\ l.pc = "event" /\ ~KeyLocked(m) /\ ~KeyTaken(l)
      /\ mon' = [mon EXCEPT ![m] = NextKind(y)] /\ pushed' = PushedAfter(l)
      /\ UNCHANGED <<world, tables>>
  BY DEF StoreEvent
<1>2. /\ Run(l, theses, proposals, alerts, pushed, market.day)
      /\ theses \in Seq(ThesisType) /\ market.day \in Nat
      /\ proposals \in Seq(Proposal(Len(theses)))
  BY DEF MonitorInv, WorldInv
<1>3. /\ DOMAIN y = Fields /\ y.todo = l.todo /\ y.session = l.session /\ y.kinds = l.kinds
      /\ y.pos = l.pos /\ y.closing = l.closing /\ y.events = l.events \cup {e}
      /\ y.alerts = AlertsAfter(l)
  BY <1>2 DEF Run, Holdings, Fields
<1>4. e \in Event(Len(theses), Len(proposals)) /\ KeyOf(e) = k /\ e.kind = Head(l.kinds)
      /\ e.proposal = l.proposal
  <2> DEFINE S == 1 .. Len(theses)
  <2>1. l.todo \in Seq(S) /\ l.kinds \in Seq(Kinds) /\ l.todo # <<>> /\ l.kinds # <<>>
    BY <1>1, <1>2 DEF Run, Holdings
  <2> HIDE DEF S, l
  <2>2. Head(l.todo) \in S /\ Head(l.kinds) \in Kinds
    BY <2>1, HeadTailProperties
  <2>3. Len(proposals) \in Nat
    BY <1>2
  <2>4. l.proposal \in 0 .. Len(proposals)
    BY <1>1, <1>2, <2>3 DEF Run
  <2>5. l.session \in Nat
    BY <1>2 DEF Run, Holdings
  <2> QED
    BY <2>2, <2>4, <2>5 DEF NewEvent, Event, KeyOf, Key, S
<1>5. /\ k = <<k[1], k[2], k[3]>> /\ k[2] = Head(l.kinds)
  BY DEF Key, EventKey
<1>6. /\ k \in alerts \cup AlertsAfter(l) /\ l.alerts \subseteq AlertsAfter(l)
      /\ \A j \in AlertsAfter(l) : j \in l.alerts \/ (j = k /\ k \notin alerts)
      /\ pushed \subseteq PushedAfter(l)
      /\ k \notin alerts /\ Severe(k) => k \in PushedAfter(l)
  BY <1>5 DEF AlertsAfter, PushedAfter, AlertKey, Severe
<1>7. \A j \in alerts : Severe(j) => j \in pushed
  BY DEF MonitorInv, EventsInv
<1>8. k \notin Keys(l.events) /\ k \notin Keys(events)
      /\ \A n \in Monitors \ {m} : k \notin Keys(mon[n].events)
  BY <1>1, <1>2 DEF Run, KeyTaken, KeyLocked
<1>9. Told(e, proposals, alerts \cup AlertsAfter(l), PushedAfter(l))
  <2>1. /\ e.proposal = 0 <=> e.kind \notin ExitKinds
        /\ e.proposal # 0 => KeyOf(proposals[e.proposal]) = k
    BY <1>1, <1>2, <1>4 DEF Run
  <2> HIDE DEF e, k, l
  <2> QED
    BY <2>1, <1>4, <1>6, <1>7 DEF Told
<1> DEFINE E == l.events
           a == alerts \cup AlertsAfter(l)
           b == PushedAfter(l)
<1>10. AllTold(E, Len(theses), proposals, a, b)
  <2>1. Grows(theses, proposals, alerts, pushed, market.day,
              theses, proposals, alerts, b, market.day)
    BY <1>6, GrowsItself
  <2>2. AllTold(E, Len(theses), proposals, alerts \cup l.alerts, pushed)
    BY <1>2 DEF Run, Holdings
  <2>3. alerts \cup l.alerts \subseteq a
    BY <1>6
  <2> HIDE DEF a, b, l, E
  <2> QED
    BY <2>1, <2>2, <2>3, ToldStays
<1>11. AllTold(E \cup {e}, Len(theses), proposals, a, b)
  <2>1. \A f \in E : KeyOf(f) # k
    BY <1>8 DEF Keys, KeyOf
  <2> HIDE DEF e, k, l, E, a, b
  <2>2. Told(e, proposals, a, b)
    BY <1>9 DEF a, b
  <2> QED
    BY <1>4, <1>10, <2>1, <2>2 DEF AllTold
<1>12. Holdings(y, theses, proposals, alerts, b, market.day)
  <2>1. AllTold(y.events, Len(theses), proposals, alerts \cup y.alerts, b)
    BY <1>3, <1>11
  <2>2. \A j \in y.alerts : Severe(j) => j \in b
    BY <1>2, <1>3, <1>6, <1>7 DEF Run, Holdings
  <2> HIDE DEF y, l, b
  <2> QED
    BY <1>2, <1>3, <2>1, <2>2 DEF Run, Holdings
<1>13. l.todo # <<>> /\ l.kinds # <<>> /\ l.pos.qty > 0
  BY <1>1, <1>2 DEF Run
<1> HIDE DEF y, b
<1>14. /\ Run(NextKind(y), theses, proposals, alerts, b, market.day)
       /\ NextKind(y).events \subseteq y.events
  <2> HIDE DEF l
  <2> QED
    BY <1>2, <1>3, <1>12, <1>13, NextKindRuns
<1>15. ASSUME NEW j \in Keys(NextKind(y).events)
       PROVE  \/ j \in Keys(mon[m].events)
              \/ j \notin Keys(events) /\ \A n \in Monitors \ {m} : j \notin Keys(mon[n].events)
  <2>1. PICK f \in NextKind(y).events : j = KeyOf(f)
    BY DEF Keys, KeyOf
  <2>2. f \in l.events \/ f = e
    BY <2>1, <1>3, <1>14
  <2>3. CASE f \in l.events
    BY <2>1, <2>3 DEF Keys, KeyOf
  <2>4. CASE f = e
    BY <2>1, <2>4, <1>4, <1>8
  <2> QED
    BY <2>2, <2>3, <2>4
<1>16. pushed' = b /\ pushed \subseteq b
  BY <1>1, <1>6 DEF b
<1> DEFINE x == NextKind(y)
<1>17. mon' = [mon EXCEPT ![m] = x]
  BY <1>1
<1> HIDE DEF x, l
<1> QED
  BY <1>1, <1>14, <1>15, <1>16, <1>17, RunMoves DEF x

-----------------------------------------------------------------------------
(* The steps that commit                                                     *)

\* What a run has set to CLOSED is closed already: it found no position, and without a
\* position no thesis is open.
LEMMA ClosingIsClosed == ASSUME MonitorInv, NEW m \in Monitors, Saves(mon[m])
                         PROVE  theses' = theses
<1> DEFINE l == mon[m]
<1>1. /\ theses \in Seq(ThesisType) /\ \A id \in l.closing : ~theses[id].open
      /\ theses' = [id \in 1 .. Len(theses) |->
                       IF id \in Closed(l) THEN [theses[id] EXCEPT !.open = FALSE] ELSE theses[id]]
  BY DEF MonitorInv, WorldInv, Run, Holdings, Saves
<1> HIDE DEF l
<1>2. DOMAIN theses = 1 .. Len(theses) /\ \A id \in 1 .. Len(theses) : theses[id] \in ThesisType
  BY <1>1
<1>3. theses = [id \in 1 .. Len(theses) |-> theses[id]]
  BY <1>1
<1>4. ASSUME NEW id \in 1 .. Len(theses)
      PROVE  (IF id \in Closed(l) THEN [theses[id] EXCEPT !.open = FALSE] ELSE theses[id])
             = theses[id]
  <2>1. CASE id \in Closed(l)
    <3>1. ~theses[id].open /\ theses[id] \in ThesisType
      BY <1>1, <1>2, <2>1 DEF Closed
    <3>2. theses[id].open = FALSE
      BY <3>1 DEF ThesisType
    <3>3. [theses[id] EXCEPT !.open = FALSE] = theses[id]
      BY <3>1, <3>2 DEF ThesisType
    <3> QED
      BY <2>1, <3>3
  <2> QED
    BY <2>1
<1> QED
  BY <1>1, <1>3, <1>4

\* Run m commits and is left with x; proposals may be added.
LEMMA CommitMoves ==
    ASSUME MonitorInv, NEW m \in Monitors, NEW x, mon' = [mon EXCEPT ![m] = x],
           Saves(mon[m]), pushed' = pushed, UNCHANGED world,
           proposals' \in Seq(Proposal(Len(theses))), Len(proposals) <= Len(proposals'),
           \A i \in 1 .. Len(proposals) : proposals'[i] = proposals[i],
           Keys(x.events) = {},
           Run(x, theses, proposals', alerts', pushed, market.day)
    PROVE  MonitorInv'
<1> DEFINE l == mon[m]
<1>1. theses' = theses /\ events' = events \cup l.events /\ alerts' = alerts \cup l.alerts
  BY ClosingIsClosed DEF Saves
<1>2. \A n \in Monitors : mon'[n] = IF n = m THEN x ELSE mon[n]
  BY DEF MonitorInv
<1>3. Grows(theses, proposals, alerts, pushed, market.day,
            theses', proposals', alerts', pushed', market'.day)
  BY <1>1 DEF Grows, MonitorInv, WorldInv, world
<1>4. ASSUME NEW n \in Monitors
      PROVE  Run(mon'[n], theses', proposals', alerts', pushed', market'.day)
  <2>1. CASE n = m
    BY <2>1, <1>1, <1>2 DEF world
  <2>2. CASE n # m
    BY <2>2, <1>2, <1>3, RunStays DEF MonitorInv
  <2> QED
    BY <2>1, <2>2
<1>5. WorldInv'
  BY <1>1 DEF MonitorInv, WorldInv, world
<1>6. EventsInv'
  <2>1. AllTold(events, Len(theses), proposals, alerts, pushed) /\ alerts \subseteq alerts'
    BY <1>1 DEF MonitorInv, EventsInv
  <2>2. AllTold(l.events, Len(theses), proposals, alerts \cup l.alerts, pushed)
    BY DEF MonitorInv, Run, Holdings
  <2>3. AllTold(events, Len(theses'), proposals', alerts', pushed')
    BY <1>3, <2>1, ToldStays
  <2>4. alerts \cup l.alerts \subseteq alerts'
    BY <1>1
  <2> HIDE DEF l
  <2>5. AllTold(l.events, Len(theses'), proposals', alerts', pushed')
    BY <1>3, <2>2, <2>4, ToldStays
  <2>6. \A e \in events, f \in l.events : KeyOf(e) # KeyOf(f)
    BY DEF MonitorInv, KeysInv, Keys, KeyOf, l
  <2>7. AllTold(events', Len(theses'), proposals', alerts', pushed')
    BY <1>1, <2>3, <2>5, <2>6 DEF AllTold
  <2>8. \A k \in alerts' : Severe(k) => k \in pushed'
    BY <1>1 DEF MonitorInv, EventsInv, Run, Holdings, l
  <2> QED
    BY <2>7, <2>8 DEF EventsInv
<1>7. KeysInv'
  <2>1. Keys(events') = Keys(events) \cup Keys(l.events)
    BY <1>1 DEF Keys
  <2> QED
    BY <1>2, <2>1 DEF MonitorInv, KeysInv
<1> QED
  BY <1>2, <1>4, <1>5, <1>6, <1>7 DEF MonitorInv

LEMMA FinishInv == ASSUME MonitorInv, NEW m \in Monitors, Finish(m) PROVE MonitorInv'
<1>1. /\ Saves(mon[m]) /\ mon' = [mon EXCEPT ![m] = Idle]
      /\ UNCHANGED <<world, proposals>> /\ pushed' = pushed
  BY DEF Finish
<1>2. proposals \in Seq(Proposal(Len(theses))) /\ Len(proposals) \in Nat
  BY DEF MonitorInv, WorldInv
<1>3. Run(Idle, theses, proposals', alerts', pushed, market.day) /\ Keys(Idle.events) = {}
  BY IdleRun DEF MonitorInv, WorldInv
<1> DEFINE x == Idle
<1>4. /\ mon' = [mon EXCEPT ![m] = x] /\ Keys(x.events) = {}
      /\ Run(x, theses, proposals', alerts', pushed, market.day)
  BY <1>1, <1>3
<1>5. /\ proposals' \in Seq(Proposal(Len(theses))) /\ Len(proposals) <= Len(proposals')
      /\ \A i \in 1 .. Len(proposals) : proposals'[i] = proposals[i]
  BY <1>1, <1>2
<1> HIDE DEF x
<1> QED
  BY <1>1, <1>4, <1>5, CommitMoves

LEMMA ProposeInv == ASSUME MonitorInv, NEW m \in Monitors, Propose(m) PROVE MonitorInv'
<1> DEFINE l == mon[m]
           new == [thesis |-> Head(l.todo), kind |-> Head(l.kinds),
                   session |-> l.session, qty |-> l.pos.qty]
           n == Len(proposals)
           S == 1 .. Len(theses)
           x == [Saved(l) EXCEPT !.pc = "event", !.proposal = Len(proposals) + 1]
<1>1. /\ l.pc = "kind" /\ ~EventExists(l) /\ Head(l.kinds) \in ExitKinds /\ Saves(l)
      /\ proposals' = Append(proposals, new) /\ mon' = [mon EXCEPT ![m] = x]
      /\ UNCHANGED world /\ pushed' = pushed
  BY DEF Propose
<1>2. /\ Run(l, theses, proposals, alerts, pushed, market.day)
      /\ proposals \in Seq(Proposal(Len(theses))) /\ n \in Nat
  BY DEF MonitorInv, WorldInv
<1>3. new \in Proposal(Len(theses)) /\ KeyOf(new) = Key(l)
  <2>1. l.todo \in Seq(S) /\ l.todo # <<>>
    BY <1>1, <1>2 DEF Run, Holdings
  <2>2. l.session \in Nat /\ l.pos.qty \in 1 .. MaxQty
    BY <1>1, <1>2, BoundsAssumption DEF Run, Holdings
  <2> HIDE DEF S, l
  <2>3. Head(l.todo) \in S
    BY <2>1, HeadTailProperties
  <2> QED
    BY <1>1, <2>2, <2>3 DEF Proposal, KeyOf, Key, S
<1> HIDE DEF new
<1>4. /\ proposals' \in Seq(Proposal(Len(theses))) /\ Len(proposals') = n + 1
      /\ \A i \in 1 .. n : proposals'[i] = proposals[i]
      /\ proposals'[n + 1] = new
  BY <1>1, <1>2, <1>3, AppendProperties
<1>5. /\ DOMAIN x = Fields /\ x.pc = "event" /\ x.todo = l.todo /\ x.session = l.session
      /\ x.kinds = l.kinds /\ x.proposal = n + 1 /\ x.pos = l.pos /\ x.closing = {}
      /\ x.events = {} /\ x.alerts = {}
  BY <1>2 DEF Run, Holdings, Fields, Saved
<1> HIDE DEF x, l, n
<1>6. Key(x) = Key(l) /\ Keys(x.events) = {}
  BY <1>5 DEF Key, Keys
<1>7. Holdings(x, theses, proposals', alerts', pushed, market.day)
  BY <1>2, <1>5 DEF Run, Holdings, AllTold
<1>8. Run(x, theses, proposals', alerts', pushed, market.day)
  BY <1>1, <1>2, <1>3, <1>4, <1>5, <1>6, <1>7 DEF Run
<1>9. Len(proposals) <= Len(proposals')
  BY <1>2, <1>4 DEF n
<1> QED
  BY <1>1, <1>4, <1>6, <1>8, <1>9, CommitMoves DEF l, n

-----------------------------------------------------------------------------
(* The world                                                                 *)

LEMMA MarketInv == ASSUME MonitorInv, NewSession \/ Revise \/ Research PROVE MonitorInv'
<1>1. /\ UNCHANGED <<theses, proposals, events, alerts, mon, pushed, position>>
      /\ market' \in [day: 0 .. MaxDays, close: Nat] /\ market'.day >= market.day
      /\ report'.after \in 0 .. Len(theses)
  <2>1. /\ market \in [day: 0 .. MaxDays, close: Nat] /\ report.after \in 0 .. Len(theses)
        /\ Len(theses) \in Nat
    BY DEF MonitorInv, WorldInv
  <2>2. CASE NewSession
    BY <2>1, <2>2, BoundsAssumption, MarksAssumption DEF NewSession, tables
  <2>3. CASE Revise
    BY <2>1, <2>3, BoundsAssumption, MarksAssumption DEF Revise, tables
  <2>4. CASE Research
    BY <2>1, <2>4, BoundsAssumption DEF Research, tables
  <2> QED
    BY <2>2, <2>3, <2>4
<1>2. WorldInv'
  BY <1>1 DEF MonitorInv, WorldInv
<1>3. Grows(theses, proposals, alerts, pushed, market.day,
            theses', proposals', alerts', pushed', market'.day)
  BY <1>1, BoundsAssumption DEF Grows, MonitorInv, WorldInv
<1> QED
  BY <1>1, <1>2, <1>3, WorldMoves

LEMMA BuyInv == ASSUME MonitorInv, Buy PROVE MonitorInv'
<1>1. PICK p \in Plans :
         theses' = Append(theses, [open |-> TRUE, stop |-> p.stop, target |-> p.target,
                                   end |-> market.day + p.days])
  BY DEF Buy
<1> DEFINE new == [open |-> TRUE, stop |-> p.stop, target |-> p.target,
                   end |-> market.day + p.days]
           n == Len(theses)
<1>2. /\ UNCHANGED <<proposals, events, alerts, mon, pushed, market, report>>
      /\ position.qty < MaxQty
      /\ position' = [row |-> IF position.qty = 0 THEN position.row + 1 ELSE position.row,
                      qty |-> position.qty + 1]
  BY DEF Buy
<1>3. new \in ThesisType /\ new.open
  BY PlansAssumption, BoundsAssumption DEF MonitorInv, WorldInv, ThesisType
<1>4. theses \in Seq(ThesisType) /\ n \in Nat /\ theses' = Append(theses, new)
  BY <1>1 DEF MonitorInv, WorldInv
<1> HIDE DEF new
<1>5. /\ theses' \in Seq(ThesisType) /\ Len(theses') = n + 1
      /\ \A i \in 1 .. n : theses'[i] = theses[i]
      /\ theses'[n + 1] = new
  BY <1>3, <1>4, AppendProperties
<1>6. position' \in [row: Nat, qty: 0 .. MaxQty] /\ position'.qty > 0 /\ position'.row > 0
  BY <1>2, BoundsAssumption DEF MonitorInv, WorldInv
<1>7. proposals' \in Seq(Proposal(Len(theses')))
  <2>1. Proposal(n) \subseteq Proposal(n + 1)
    BY <1>4 DEF Proposal
  <2>2. proposals \in Seq(Proposal(n))
    BY DEF MonitorInv, WorldInv
  <2>3. proposals \in Seq(Proposal(n + 1))
    BY <2>1, <2>2, SeqMonotonic
  <2> QED
    BY <1>2, <1>5, <2>3
<1>8. WorldInv'
  <2>1. n + 1 \in 1 .. Len(theses') /\ theses'[n + 1].open
    BY <1>3, <1>4, <1>5
  <2>2. report'.after \in 0 .. Len(theses')
    BY <1>2, <1>4, <1>5 DEF MonitorInv, WorldInv
  <2>3. market' \in [day: 0 .. MaxDays, close: Nat]
    BY <1>2 DEF MonitorInv, WorldInv
  <2>4. position'.qty # 0
    BY <1>6
  <2> QED
    BY <1>5, <1>6, <1>7, <2>1, <2>2, <2>3, <2>4 DEF WorldInv
<1>9. Grows(theses, proposals, alerts, pushed, market.day,
            theses', proposals', alerts', pushed', market'.day)
  <2>1. \A id \in 1 .. n : ~theses[id].open => ~theses'[id].open
    BY <1>5
  <2>2. Len(proposals) \in Nat /\ market.day \in Nat
    BY DEF MonitorInv, WorldInv
  <2> QED
    BY <1>2, <1>4, <1>5, <2>1, <2>2 DEF Grows
<1> QED
  BY <1>2, <1>8, <1>9, WorldMoves

LEMMA SellInv == ASSUME MonitorInv, Sell PROVE MonitorInv'
<1>1. PICK q \in 1 .. position.qty :
         /\ position' = [position EXCEPT !.qty = @ - q]
         /\ theses' = IF q = position.qty THEN ClosedAll ELSE theses
  BY DEF Sell
<1>2. UNCHANGED <<proposals, events, alerts, mon, pushed, market, report>>
  BY DEF Sell
<1>3. /\ theses \in Seq(ThesisType) /\ position \in [row: Nat, qty: 0 .. MaxQty]
      /\ position.qty \in Nat /\ position.row > 0 /\ Len(theses) \in Nat
  BY <1>1, BoundsAssumption DEF MonitorInv, WorldInv
<1>4. /\ ClosedAll \in Seq(ThesisType) /\ Len(ClosedAll) = Len(theses)
      /\ \A id \in 1 .. Len(theses) : ~ClosedAll[id].open
  <2>1. \A id \in 1 .. Len(theses) : [theses[id] EXCEPT !.open = FALSE] \in ThesisType
    <3>1. \A id \in 1 .. Len(theses) : theses[id] \in ThesisType
      BY <1>3, ElementOfSeq
    <3> QED
      BY <3>1 DEF ThesisType
  <2>2. \A id \in 1 .. Len(theses) : ~[theses[id] EXCEPT !.open = FALSE].open
    <3>1. \A id \in 1 .. Len(theses) : theses[id] \in ThesisType
      BY <1>3, ElementOfSeq
    <3> QED
      BY <3>1 DEF ThesisType
  <2> DEFINE closed(id) == [theses[id] EXCEPT !.open = FALSE]
             n == Len(theses)
  <2>3. ClosedAll = [id \in 1 .. n |-> closed(id)]
    BY DEF ClosedAll
  <2>4. /\ \A id \in 1 .. n : closed(id) \in ThesisType
        /\ \A id \in 1 .. n : ~closed(id).open
        /\ n \in Nat
    BY <1>3, <2>1, <2>2
  <2> HIDE DEF closed, n
  <2>5. ClosedAll \in [1 .. n -> ThesisType] /\ DOMAIN ClosedAll = 1 .. n
        /\ \A id \in 1 .. n : ClosedAll[id] = closed(id)
    BY <2>3, <2>4
  <2>6. ClosedAll \in Seq(ThesisType) /\ Len(ClosedAll) = n
    BY <2>4, <2>5
  <2> QED
    BY <2>4, <2>5, <2>6 DEF n
<1>5. /\ theses' \in Seq(ThesisType) /\ Len(theses') = Len(theses)
      /\ \A id \in 1 .. Len(theses) : ~theses[id].open => ~theses'[id].open
  <2>1. CASE q = position.qty
    BY <1>1, <1>4, <2>1
  <2>2. CASE q # position.qty
    BY <1>1, <1>3, <2>2
  <2> QED
    BY <2>1, <2>2
<1>6. /\ position' \in [row: Nat, qty: 0 .. MaxQty] /\ position'.row > 0
      /\ position'.qty = 0 <=> q = position.qty
  BY <1>1, <1>3, BoundsAssumption
<1>7. WorldInv'
  <2>1. position'.qty = 0 <=> \A id \in 1 .. Len(theses') : ~theses'[id].open
    <3>1. CASE q = position.qty
      BY <1>1, <1>4, <1>6, <3>1
    <3>2. CASE q # position.qty
      <4>1. theses' = theses /\ position.qty # 0
        BY <1>1, <1>3, <3>2
      <4>2. ~ \A id \in 1 .. Len(theses) : ~theses[id].open
        BY <4>1 DEF MonitorInv, WorldInv
      <4> QED
        BY <1>6, <3>2, <4>1, <4>2
    <3> QED
      BY <3>1, <3>2
  <2>2. /\ market' \in [day: 0 .. MaxDays, close: Nat]
        /\ report'.after \in 0 .. Len(theses') /\ proposals' \in Seq(Proposal(Len(theses')))
    BY <1>2, <1>5 DEF MonitorInv, WorldInv
  <2> QED
    BY <1>5, <1>6, <2>1, <2>2 DEF WorldInv
<1>8. Grows(theses, proposals, alerts, pushed, market.day,
            theses', proposals', alerts', pushed', market'.day)
  <2>1. Len(proposals) \in Nat /\ market.day \in Nat
    BY DEF MonitorInv, WorldInv
  <2> QED
    BY <1>2, <1>3, <1>5, <2>1 DEF Grows
<1> QED
  BY <1>2, <1>7, <1>8, WorldMoves

-----------------------------------------------------------------------------
LEMMA StepInv == MonitorInv /\ [Next]_vars => MonitorInv'
<1> SUFFICES ASSUME MonitorInv, [Next]_vars PROVE MonitorInv'
  OBVIOUS
<1>1. CASE NewSession \/ Revise \/ Research
  BY <1>1, MarketInv
<1>2. CASE Buy
  BY <1>2, BuyInv
<1>3. CASE Sell
  BY <1>3, SellInv
<1>4. ASSUME NEW m \in Monitors, Step(m) PROVE MonitorInv'
  <2>1. CASE List(m)
    BY <2>1, ListInv
  <2>2. CASE Look(m)
    BY <2>2, LookInv
  <2>3. CASE SkipKind(m)
    BY <2>3, SkipKindInv
  <2>4. CASE Propose(m)
    BY <2>4, ProposeInv
  <2>5. CASE NoProposal(m)
    BY <2>5, NoProposalInv
  <2>6. CASE StoreEvent(m)
    BY <2>6, StoreEventInv
  <2>7. CASE EventRaises(m)
    BY <2>7, ToIdle DEF EventRaises
  <2>8. CASE Finish(m)
    BY <2>8, FinishInv
  <2> QED
    BY <1>4, <2>1, <2>2, <2>3, <2>4, <2>5, <2>6, <2>7, <2>8 DEF Step
<1>5. ASSUME NEW m \in Monitors, Die(m) PROVE MonitorInv'
  BY <1>5, ToIdle DEF Die
<1>6. CASE UNCHANGED vars
  BY <1>6 DEF vars, MonitorInv, WorldInv, EventsInv, KeysInv
<1> QED
  BY <1>1, <1>2, <1>3, <1>4, <1>5, <1>6 DEF Next

LEMMA Invariance == Spec => []MonitorInv
<1> QED
  BY InitInv, StepInv, PTL DEF Spec

\* Types of the monitor's tables and runs: a run that proposes an exit has shares to sell,
\* whatever was sold since it read the position (monitor, _propose_exit).
THEOREM MonitorTypes == Spec => []TypeOK
<1> QED
  BY Invariance, InvImplies, PTL

\* However many monitors collide, die and are repeated, a stored event has its alert, was
\* pushed if it is severe, and names the exit proposed for it (monitor, raise_alert).
THEOREM EventsTold == Spec => []EventsAreTold
<1> QED
  BY Invariance, InvImplies, PTL

\* The monitor never closes the thesis of shares bought back while it ran (monitor).
THEOREM HeldWatched == Spec => []HeldIsWatched
<1> QED
  BY Invariance, InvImplies, PTL
=================================================================================
