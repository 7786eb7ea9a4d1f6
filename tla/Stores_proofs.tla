--------------------------- MODULE Stores_proofs ---------------------------
(***************************************************************************)
(* Proofs about what a restart finds on the disk: the rows and events of   *)
(* the order store (OrderStore), the approvals (ApprovalStore) and the     *)
(* lock file of the session (InstanceLock).                                *)
(***************************************************************************)
EXTENDS OrderStore, ApprovalStore, InstanceLock, TLAPS

-----------------------------------------------------------------------------
(***************************************************************************)
(* The order store, for every set of orders, keys and broker ids and every *)
(* bound on the log.  The inductive invariant adds to the checked          *)
(* invariants that an id without a row is blank (AbsentBlank): without it  *)
(* a fresh key could already belong to an id that has no row.              *)
(***************************************************************************)

AbsentBlank == \A o \in Orders : rows[o].state = "ABSENT" => rows[o].key = NoKey
PresentKeyed == \A o \in Orders : rows[o].state # "ABSENT" => rows[o].key \in Keys

StoreInv == StoreTypeOK /\ AbsentBlank /\ PresentKeyed /\ KeysUnique /\ AuditTrailFaithful

(* Every target of the transition table is a state of an order, and a      *)
(* terminal state has no targets.                                          *)
LEMMA TransitionTable ==
    /\ \A s \in OrderState : ValidTransitions[s] \subseteq OrderState
    /\ \A s \in Terminal : ValidTransitions[s] = {}
    /\ Terminal \subseteq OrderState
BY DEF OrderState, Terminal, ValidTransitions

(* The three row writers produce rows, with the state they are named for   *)
(* and a fill that is never negative.                                      *)
LEMMA ClampIsNat == \A q \in Int : Clamp(q) \in Nat
BY DEF Clamp

LEMMA NewRowFacts ==
    ASSUME NEW k \in Keys, NEW b \in BrokerIds \cup {NoBroker}, NEW q \in Int
    PROVE  /\ NewRow(k, b, q) \in Row
           /\ NewRow(k, b, q).state = "NEW"
           /\ NewRow(k, b, q).key = k
BY ClampIsNat DEF NewRow, Row, OrderState

LEMMA MovedRowFacts ==
    ASSUME NEW r \in Row, NEW s \in OrderState, NEW b \in BrokerIds \cup {NoBroker},
           NEW q \in Int
    PROVE  /\ MovedRow(r, s, b, q) \in Row
           /\ MovedRow(r, s, b, q).state = s
           /\ MovedRow(r, s, b, q).key = r.key
BY ClampIsNat DEF MovedRow, Row

LEMMA RefilledRowFacts ==
    ASSUME NEW r \in Row, NEW q \in Int
    PROVE  /\ RefilledRow(r, q) \in Row
           /\ RefilledRow(r, q).state = r.state
           /\ RefilledRow(r, q).key = r.key
           /\ RefilledRow(r, q).filled = Clamp(q)
BY ClampIsNat DEF RefilledRow, Row

(* What one write does to the type invariant: writing a proper row keeps   *)
(* both tables well typed, changes one row and lengthens one log by one.   *)
LEMMA WriteRowEffect ==
    ASSUME NEW o \in Orders, NEW r \in Row, NEW from \in OrderState \cup {"NONE"},
           r.state # "ABSENT", StoreTypeOK, WriteRow(o, r, from)
    PROVE  LET e == [from |-> from, to |-> r.state, broker |-> r.broker, filled |-> r.filled]
           IN  /\ StoreTypeOK'
               /\ rows'[o] = r
               /\ \A p \in Orders \ {o} : rows'[p] = rows[p] /\ events'[p] = events[p]
               /\ events'[o] = Append(events[o], e)
               /\ e \in Event
<1> DEFINE e == [from |-> from, to |-> r.state, broker |-> r.broker, filled |-> r.filled]
<1>1. e \in Event
  BY DEF Row, Event
<1>2. rows' = [rows EXCEPT ![o] = r] /\ events' = [events EXCEPT ![o] = Append(@, e)]
  BY DEF WriteRow
<1>3. rows \in [Orders -> Row] /\ events \in [Orders -> Seq(Event)]
  BY DEF StoreTypeOK
<1>4. Append(events[o], e) \in Seq(Event)
  BY <1>1, <1>3
<1>5. StoreTypeOK'
  BY <1>2, <1>3, <1>4 DEF StoreTypeOK
<1> QED
  BY <1>1, <1>2, <1>3, <1>5

(* The part of AuditTrailFaithful that concerns one order. *)
TrailOf(log, r) ==
    /\ r.state = "ABSENT" => log = <<>>
    /\ r.state # "ABSENT" =>
        /\ Len(log) > 0
        /\ log[1].from = "NONE" /\ log[1].to = "NEW"
        /\ \A i \in 2 .. Len(log) :
            /\ log[i].from = log[i-1].to
            /\ \/ log[i].to \in ValidTransitions[log[i].from]
               \/ log[i].to = log[i].from /\ log[i].filled # log[i-1].filled
        /\ log[Len(log)].to = r.state
        /\ log[Len(log)].broker = r.broker
        /\ log[Len(log)].filled = r.filled

LEMMA TrailSplit ==
    /\ AuditTrailFaithful <=> \A o \in Orders : TrailOf(events[o], rows[o])
    /\ AuditTrailFaithful' <=> \A o \in Orders : TrailOf(events[o]', rows[o]')
BY DEF AuditTrailFaithful, TrailOf, Present

(* Appending the event that copies a legal new version of the row keeps    *)
(* the order's trail faithful.                                             *)
LEMMA TrailExtended ==
    ASSUME NEW log \in Seq(Event), NEW r \in Row, NEW n \in Row,
           TrailOf(log, r), r.state # "ABSENT", n.state # "ABSENT",
           \/ n.state \in ValidTransitions[r.state]
           \/ n.state = r.state /\ n.filled # r.filled
    PROVE  TrailOf(Append(log, [from |-> r.state, to |-> n.state,
                                broker |-> n.broker, filled |-> n.filled]), n)
<1> DEFINE e == [from |-> r.state, to |-> n.state, broker |-> n.broker, filled |-> n.filled]
           new == Append(log, e)
<1>1. e \in Event
  BY DEF Row, Event
<1>2. /\ Len(log) \in Nat /\ Len(new) = Len(log) + 1
      /\ new[Len(new)] = e
      /\ \A i \in 1 .. Len(log) : new[i] = log[i]
  BY <1>1
<1>3. Len(log) > 0 /\ new[1] = log[1]
  BY <1>2 DEF TrailOf
<1>4. ASSUME NEW i \in 2 .. Len(new)
      PROVE  /\ new[i].from = new[i-1].to
             /\ \/ new[i].to \in ValidTransitions[new[i].from]
                \/ new[i].to = new[i].from /\ new[i].filled # new[i-1].filled
  <2>1. CASE i \in 2 .. Len(log)
    <3>1. new[i] = log[i] /\ new[i-1] = log[i-1]
      BY <1>2, <2>1
    <3> QED
      BY <2>1, <3>1 DEF TrailOf
  <2>2. CASE i = Len(log) + 1
    <3>1. new[i] = e /\ new[i-1] = log[Len(log)]
      BY <1>2, <1>3, <2>2
    <3> QED
      BY <3>1 DEF TrailOf
  <2> QED
    BY <1>2, <2>1, <2>2
<1> QED
  BY <1>2, <1>3, <1>4 DEF TrailOf

-----------------------------------------------------------------------------
(* One lemma per operation of the store. *)

LEMMA CreateKeepsInv ==
    ASSUME NEW o \in Orders, NEW k \in Keys, NEW b \in BrokerIds \cup {NoBroker},
           NEW q \in Int, StoreInv, CreateOrder(o, k, b, q)
    PROVE  StoreInv'
<1> DEFINE r == NewRow(k, b, q)
           e == [from |-> "NONE", to |-> r.state, broker |-> r.broker, filled |-> r.filled]
<1>1. r \in Row /\ r.state = "NEW" /\ r.key = k
  BY NewRowFacts
<1>2. /\ StoreTypeOK' /\ rows'[o] = r
      /\ \A p \in Orders \ {o} : rows'[p] = rows[p] /\ events'[p] = events[p]
      /\ events'[o] = Append(events[o], e) /\ e \in Event
  BY <1>1, WriteRowEffect DEF CreateOrder, StoreInv
<1>3. AbsentBlank' /\ PresentKeyed'
  BY <1>1, <1>2 DEF AbsentBlank, PresentKeyed, StoreInv
<1>4. KeysUnique'
  BY <1>1, <1>2 DEF KeysUnique, Present, CreateOrder, StoreInv
<1>5. TrailOf(events'[o], r)
  <2>1. events[o] = <<>>
    BY DEF StoreInv, AuditTrailFaithful, CreateOrder, Present
  <2>2. events'[o] = <<e>>
    BY <1>2, <2>1
  <2> QED
    BY <1>1, <2>2 DEF TrailOf
<1>6. AuditTrailFaithful'
  BY <1>2, <1>5, TrailSplit DEF StoreInv
<1> QED
  BY <1>2, <1>3, <1>4, <1>6 DEF StoreInv

(* Transition and SetFilledQuantity write a row that keeps its key. *)
LEMMA RewriteKeepsInv ==
    ASSUME NEW o \in Present, NEW r \in Row, StoreInv, r.key = rows[o].key,
           r.state # "ABSENT",
           \/ r.state \in ValidTransitions[rows[o].state]
           \/ r.state = rows[o].state /\ r.filled # rows[o].filled,
           WriteRow(o, r, rows[o].state)
    PROVE  StoreInv'
<1> DEFINE e == [from |-> rows[o].state, to |-> r.state, broker |-> r.broker, filled |-> r.filled]
<1>1. o \in Orders /\ rows[o] \in Row /\ rows[o].state \in OrderState /\ rows[o].state # "ABSENT"
  BY DEF Present, StoreInv, StoreTypeOK, Row
<1>2. /\ StoreTypeOK' /\ rows'[o] = r
      /\ \A p \in Orders \ {o} : rows'[p] = rows[p] /\ events'[p] = events[p]
      /\ events'[o] = Append(events[o], e) /\ e \in Event
  BY <1>1, WriteRowEffect DEF StoreInv
<1>3. AbsentBlank' /\ PresentKeyed'
  BY <1>1, <1>2 DEF AbsentBlank, PresentKeyed, StoreInv
<1>4. KeysUnique'
  BY <1>1, <1>2 DEF KeysUnique, Present, StoreInv
<1>5. TrailOf(events'[o], r)
  <2>1. events[o] \in Seq(Event) /\ TrailOf(events[o], rows[o])
    BY <1>1, TrailSplit DEF StoreInv, StoreTypeOK
  <2> QED
    BY <1>1, <1>2, <2>1, TrailExtended
<1>6. AuditTrailFaithful'
  BY <1>2, <1>5, TrailSplit DEF StoreInv
<1> QED
  BY <1>2, <1>3, <1>4, <1>6 DEF StoreInv

LEMMA TransitionKeepsInv ==
    ASSUME NEW o \in Orders, NEW s \in OrderState, NEW b \in BrokerIds \cup {NoBroker},
           NEW q \in Int, StoreInv, Transition(o, s, b, q)
    PROVE  StoreInv'
<1> DEFINE r == MovedRow(rows[o], s, b, q)
<1>1. o \in Present /\ rows[o] \in Row
  BY DEF Transition, StoreInv, StoreTypeOK
<1>2. r \in Row /\ r.state = s /\ r.key = rows[o].key
  BY <1>1, MovedRowFacts
<1>3. r.state # "ABSENT"
  BY <1>2 DEF OrderState
<1> QED
  BY <1>1, <1>2, <1>3, RewriteKeepsInv DEF Transition

LEMMA SetFilledKeepsInv ==
    ASSUME NEW o \in Orders, NEW q \in Int, StoreInv, SetFilledQuantity(o, q)
    PROVE  StoreInv'
<1> DEFINE r == RefilledRow(rows[o], q)
<1>1. o \in Present /\ rows[o] \in Row /\ rows[o].state # "ABSENT"
  BY DEF SetFilledQuantity, Present, StoreInv, StoreTypeOK
<1>2. /\ r \in Row /\ r.state = rows[o].state /\ r.key = rows[o].key
      /\ r.filled = Clamp(q)
  BY <1>1, RefilledRowFacts
<1> QED
  BY <1>1, <1>2, RewriteKeepsInv DEF SetFilledQuantity

(* The store keeps its invariant: types, one order per key, and an audit   *)
(* trail that reconstructs every row through legal steps only.             *)
THEOREM StoreInvariant == StoreSpec => []StoreInv
<1>1. StoreInit => StoreInv
  <2> SUFFICES ASSUME StoreInit PROVE StoreInv
    OBVIOUS
  <2>1. AbsentRow \in Row /\ AbsentRow.state = "ABSENT" /\ AbsentRow.key = NoKey
    BY DEF AbsentRow, Row
  <2>2. StoreTypeOK
    BY <2>1 DEF StoreTypeOK, StoreInit
  <2>3. AbsentBlank /\ PresentKeyed /\ KeysUnique /\ AuditTrailFaithful
    BY <2>1 DEF StoreInit, AbsentBlank, PresentKeyed, KeysUnique, AuditTrailFaithful, Present
  <2> QED
    BY <2>2, <2>3 DEF StoreInv
<1>2. StoreInv /\ [StoreNext]_storeVars => StoreInv'
  <2> SUFFICES ASSUME StoreInv, [StoreNext]_storeVars PROVE StoreInv'
    OBVIOUS
  <2>1. Quantities \subseteq Int /\ \A o \in Orders : rows[o].filled \in Int
    BY OrderStoreAssumption DEF StoreInv, StoreTypeOK, Row
  <2>2. ASSUME NEW o \in Orders, NEW k \in Keys, NEW b \in BrokerIds \cup {NoBroker},
               NEW q \in Quantities, CreateOrder(o, k, b, q)
        PROVE  StoreInv'
    BY <2>1, <2>2, CreateKeepsInv
  <2>3. ASSUME NEW o \in Orders, NEW s \in OrderState, NEW b \in BrokerIds \cup {NoBroker},
               NEW q \in Quantities \cup {rows[o].filled}, Transition(o, s, b, q)
        PROVE  StoreInv'
    BY <2>1, <2>3, TransitionKeepsInv
  <2>4. ASSUME NEW o \in Orders, NEW q \in Quantities, SetFilledQuantity(o, q)
        PROVE  StoreInv'
    BY <2>1, <2>4, SetFilledKeepsInv
  <2>5. CASE UNCHANGED storeVars
    <3>1. rows' = rows /\ events' = events
      BY <2>5 DEF storeVars
    <3>2. Present' = Present
      BY <3>1 DEF Present
    <3> QED
      BY <3>1, <3>2 DEF StoreInv, StoreTypeOK, AbsentBlank, PresentKeyed,
                        KeysUnique, AuditTrailFaithful
  <2> QED
    BY <2>2, <2>3, <2>4, <2>5 DEF StoreNext
<1> QED
  BY <1>1, <1>2, PTL DEF StoreSpec

(* Rows and events are well formed, and no fill in either is negative.     *)
THEOREM StoreTypes == StoreSpec => []StoreTypeOK
<1>1. StoreInv => StoreTypeOK
  BY DEF StoreInv
<1> QED BY <1>1, StoreInvariant, PTL

(* One order per idempotency key, in every reachable state: what makes     *)
(* create_or_get_order safe to call twice with one key.                    *)
THEOREM StoreKeysUnique == StoreSpec => []KeysUnique
<1>1. StoreInv => KeysUnique
  BY DEF StoreInv
<1> QED
  BY <1>1, StoreInvariant, PTL

(* The event log of every order replays to its row. *)
THEOREM StoreAuditTrail == StoreSpec => []AuditTrailFaithful
<1>1. StoreInv => AuditTrailFaithful
  BY DEF StoreInv
<1> QED
  BY <1>1, StoreInvariant, PTL

-----------------------------------------------------------------------------
(* The store implements OrderLifecycle: a creation is an Appear, a          *)
(* transition an Advance, a fill update a stutter.                          *)

statusOf == [o \in Orders |-> rows[o].state]
ownerOf == [o \in Orders |-> rows[o].key]

(* A write to one row, seen through the refinement mapping. *)
LEMMA MappedWrite ==
    ASSUME NEW o \in Orders, NEW r \in Row, StoreTypeOK,
           rows' = [rows EXCEPT ![o] = r]
    PROVE  /\ statusOf' = [statusOf EXCEPT ![o] = r.state]
           /\ ownerOf' = [ownerOf EXCEPT ![o] = r.key]
BY DEF statusOf, ownerOf, StoreTypeOK

LEMMA StoreStepRefines ==
    ASSUME StoreInv, StoreNext
    PROVE  Lifecycle!LifecycleNext \/ (statusOf' = statusOf /\ ownerOf' = ownerOf)
<1>0. Quantities \subseteq Int /\ \A o \in Orders : rows[o].filled \in Int
  BY OrderStoreAssumption DEF StoreInv, StoreTypeOK, Row
<1>1. ASSUME NEW o \in Orders, NEW k \in Keys, NEW b \in BrokerIds \cup {NoBroker},
             NEW q \in Quantities, CreateOrder(o, k, b, q)
      PROVE  Lifecycle!Appear(o, k)
  <2>1. NewRow(k, b, q) \in Row /\ NewRow(k, b, q).state = "NEW" /\ NewRow(k, b, q).key = k
    BY <1>0, NewRowFacts
  <2>2. /\ statusOf' = [statusOf EXCEPT ![o] = "NEW"]
        /\ ownerOf' = [ownerOf EXCEPT ![o] = k]
    BY <1>1, <2>1, MappedWrite DEF StoreInv, CreateOrder, WriteRow
  <2>3. \A p \in Orders : rows[p].key # k
    BY <1>1, OrderStatesAssumption DEF CreateOrder, Present, StoreInv, AbsentBlank
  <2>4. statusOf[o] = "ABSENT" /\ \A p \in Orders : ownerOf[p] # k
    BY <1>1, <2>3 DEF CreateOrder, statusOf, ownerOf
  <2> QED
    BY <2>2, <2>4 DEF Lifecycle!Appear, statusOf, ownerOf
<1>2. ASSUME NEW o \in Orders, NEW s \in OrderState, NEW b \in BrokerIds \cup {NoBroker},
             NEW q \in Quantities \cup {rows[o].filled}, Transition(o, s, b, q)
      PROVE  Lifecycle!Advance(o, s)
  <2>1. rows[o] \in Row /\ rows[o].state # "ABSENT"
    BY <1>2 DEF StoreInv, StoreTypeOK, Transition, Present
  <2>2. /\ MovedRow(rows[o], s, b, q) \in Row
        /\ MovedRow(rows[o], s, b, q).state = s
        /\ MovedRow(rows[o], s, b, q).key = rows[o].key
    BY <1>0, <2>1, MovedRowFacts
  <2>3. /\ statusOf' = [statusOf EXCEPT ![o] = s]
        /\ ownerOf' = [ownerOf EXCEPT ![o] = rows[o].key]
    <3>1. StoreTypeOK /\ rows' = [rows EXCEPT ![o] = MovedRow(rows[o], s, b, q)]
      BY <1>2 DEF StoreInv, Transition, WriteRow
    <3> QED
      BY <2>2, <3>1 DEF statusOf, ownerOf, StoreTypeOK
  <2>4. ownerOf' = ownerOf
    BY <2>3 DEF ownerOf
  <2>5. statusOf[o] # "ABSENT" /\ s \in Lifecycle!ValidTransitions[statusOf[o]]
    BY <1>2, <2>1 DEF Transition, statusOf, ValidTransitions, Lifecycle!ValidTransitions,
                      Lifecycle!OrderState, OrderState, Lifecycle!Terminal, Terminal
  <2> QED
    BY <2>3, <2>4, <2>5 DEF Lifecycle!Advance, statusOf, ownerOf
<1>3. ASSUME NEW o \in Orders, NEW q \in Quantities, SetFilledQuantity(o, q)
      PROVE  statusOf' = statusOf /\ ownerOf' = ownerOf
  <2>1. rows[o] \in Row
    BY DEF StoreInv, StoreTypeOK
  <2>2. /\ RefilledRow(rows[o], q) \in Row
        /\ RefilledRow(rows[o], q).state = rows[o].state
        /\ RefilledRow(rows[o], q).key = rows[o].key
    BY <1>0, <2>1, RefilledRowFacts
  <2>3. /\ statusOf' = [statusOf EXCEPT ![o] = rows[o].state]
        /\ ownerOf' = [ownerOf EXCEPT ![o] = rows[o].key]
    <3>1. StoreTypeOK /\ rows' = [rows EXCEPT ![o] = RefilledRow(rows[o], q)]
      BY <1>3 DEF StoreInv, SetFilledQuantity, WriteRow
    <3> QED
      BY <2>2, <3>1 DEF statusOf, ownerOf, StoreTypeOK
  <2> QED
    BY <2>3 DEF statusOf, ownerOf
<1>4. OrderState = Lifecycle!OrderState
  BY DEF OrderState, Lifecycle!OrderState
<1> QED
  BY <1>1, <1>2, <1>3, <1>4 DEF StoreNext, Lifecycle!LifecycleNext

(* Every behaviour of the store is a behaviour of the lifecycle: no writer  *)
(* revives a terminal order, skips an edge or re-keys an order.             *)
THEOREM StoreImplementsLifecycle == StoreSpec => LifecycleImplemented
<1>1. StoreInit => Lifecycle!LifecycleInit
  BY DEF StoreInit, Lifecycle!LifecycleInit, AbsentRow
<1>2. StoreInv /\ [StoreNext]_storeVars
        => [Lifecycle!LifecycleNext]_(Lifecycle!lifecycleVars)
  <2> SUFFICES ASSUME StoreInv, [StoreNext]_storeVars
               PROVE  Lifecycle!LifecycleNext \/ (statusOf' = statusOf /\ ownerOf' = ownerOf)
    BY DEF Lifecycle!lifecycleVars, statusOf, ownerOf
  <2>1. CASE StoreNext
    BY <2>1, StoreStepRefines
  <2>2. CASE UNCHANGED storeVars
    BY <2>2 DEF storeVars, statusOf, ownerOf
  <2> QED
    BY <2>1, <2>2
<1> QED
  BY <1>1, <1>2, StoreInvariant, PTL DEF StoreSpec, LifecycleImplemented, Lifecycle!LifecycleSpec

-----------------------------------------------------------------------------
(***************************************************************************)
(* The approvals, for any intents, callers and durations.                  *)
(***************************************************************************)

(* A row that can be spent has been paid for, and no use is paid for twice.  *)
Funded ==
    \A h \in Intents : credit[h] \in {0, 1} /\ (Status(h) = "APPROVED" => credit[h] = 1)

ApprRow == [status : Statuses, expires : Times, armed : Times \cup {NoTime}]

CreateRec == [intent : Intents \cup {NoIntent}, status : Decision, stamp : 0 .. MaxTime]
CallRec == [op : Ops \cup {"none"}, intent : Intents \cup {NoIntent}, stamp : 0 .. MaxTime]

(* A row stays a row when its status is set; an unknown intent changes none. *)
LEMMA StatusUpdate ==
    ASSUME NEW f \in [Intents -> ApprRow], NEW h, NEW s \in Statuses
    PROVE  [f EXCEPT ![h].status = s] \in [Intents -> ApprRow]
<1>1. CASE h \in Intents
  <2>1. [f[h] EXCEPT !.status = s] \in ApprRow
      BY <1>1 DEF ApprRow
  <2> QED
      BY <1>1, <2>1
<1>2. CASE h \notin Intents
    BY <1>2
<1> QED
    BY <1>1, <1>2

(* Each action leaves a row of the table a row. *)
LEMMA RowsStayTyped ==
    ASSUME ApprovalTypeOK, ApprovalNext
    PROVE  appr' \in [Intents -> ApprRow]
<1>a. appr \in [Intents -> ApprRow]
    BY DEF ApprovalTypeOK, ApprRow
<1>b. {"REJECTED", "EXPIRED", "APPROVED"} \subseteq Statuses
    BY DEF Statuses, Decision
<1>1. ASSUME NEW p \in Operators, WriteCreate(p) PROVE appr' \in [Intents -> ApprRow]
  <2> USE ApprovalAssumption DEF ApprovalTypeOK, ApprRow
  <2>1. creating[p].intent \in Intents \cup {NoIntent}
        /\ creating[p].stamp + Ttl \in Times /\ creating[p].status \in Statuses
      BY DEF Times, Statuses
  <2> QED
      BY <1>1, <2>1 DEF WriteCreate
<1>2. ASSUME NEW h \in Intents, RejectIntent(h) PROVE appr' \in [Intents -> ApprRow]
  <2>1. appr' = [appr EXCEPT ![h].status = "REJECTED"]
      BY <1>2 DEF RejectIntent, SetStatus
  <2> QED
      BY <1>a, <1>b, <2>1, StatusUpdate
<1>3. ASSUME NEW c \in Callers, CallFindsExpired(c) PROVE appr' \in [Intents -> ApprRow]
  <2>1. appr' = [appr EXCEPT ![calls[c].intent].status = "EXPIRED"]
      BY <1>3 DEF CallFindsExpired, SetStatus
  <2> QED
      BY <1>a, <1>b, <2>1, StatusUpdate
<1>4. ASSUME NEW c \in Callers, Approve(c) PROVE appr' \in [Intents -> ApprRow]
  <2>1. appr' = [appr EXCEPT ![calls[c].intent].status = "APPROVED"]
      BY <1>4 DEF Approve, SetStatus
  <2> QED
      BY <1>a, <1>b, <2>1, StatusUpdate
<1> USE ApprovalAssumption DEF ApprovalTypeOK, ApprRow
<1>5. ASSUME NEW c \in Callers, Arm(c) PROVE appr' \in [Intents -> ApprRow]
  <2> DEFINE h   == calls[c].intent
             end == calls[c].stamp + ArmTtl
             a   == IF end < appr[h].expires THEN end ELSE appr[h].expires
  <2>1. CASE h \in Intents
    <3>1. a \in Times
        BY <2>1 DEF Times
    <3> QED
        BY <1>5, <2>1, <3>1 DEF Arm
  <2>2. CASE h \notin Intents
      BY <1>5, <2>2 DEF Arm
  <2> QED
      BY <2>1, <2>2
<1>6. ASSUME NEW c \in Callers, Consume(c) \/ ConsumeArmed(c)
      PROVE  appr' \in [Intents -> ApprRow]
    BY <1>6 DEF Consume, ConsumeArmed, Spend, Statuses
<1>7. ASSUME NEW c \in Callers, ArmWindowOver(c) PROVE appr' \in [Intents -> ApprRow]
    BY <1>7 DEF ArmWindowOver
<1>8. ASSUME NEW c \in Callers, ApproveAndConsume(c) PROVE appr' \in [Intents -> ApprRow]
  <2>1. calls[c].stamp + Ttl \in Times
      BY DEF Times
  <2> QED
      BY <1>8, <2>1 DEF ApproveAndConsume, Statuses
<1> QED
    BY <1>1, <1>2, <1>3, <1>4, <1>5, <1>6, <1>7, <1>8
    DEF ApprovalNext, CheckCreate, CreateFails, StartCall, CallRefused, CallGivesUp, Tick

(* Every reachable row is one the schema accepts, with bounded times.        *)
THEOREM ApprovalTypeInvariant == ApprovalSpec => []ApprovalTypeOK
<1> USE ApprovalAssumption
<1>1. ApprovalInit => ApprovalTypeOK
  <2>1. 0 \in Times /\ 0 \in 0 .. MaxTime
      BY DEF Times
  <2> QED
      BY <2>1 DEF ApprovalInit, ApprovalTypeOK, NotCreating, NotCalling, Statuses, Decision
<1>2. ApprovalTypeOK /\ [ApprovalNext]_apprVars => ApprovalTypeOK'
  <2> SUFFICES ASSUME ApprovalTypeOK, ApprovalNext PROVE ApprovalTypeOK'
      BY DEF apprVars, ApprovalTypeOK
  <2>1. appr' \in [Intents -> [status : Statuses, expires : Times, armed : Times \cup {NoTime}]]
      BY RowsStayTyped DEF ApprRow
  <2>2. NotCreating \in CreateRec /\ NotCalling \in CallRec
      BY DEF NotCreating, NotCalling, CreateRec, CallRec, Decision
  <2> USE DEF ApprovalTypeOK, CreateRec, CallRec
  <2>3. ASSUME NEW p \in Operators, NEW h \in Intents, NEW s \in Decision, CheckCreate(p, h, s)
        PROVE  ApprovalTypeOK'
      BY <2>3, <2>1 DEF CheckCreate
  <2>4. ASSUME NEW p \in Operators, WriteCreate(p) PROVE ApprovalTypeOK'
      BY <2>4, <2>1, <2>2 DEF WriteCreate
  <2>5. ASSUME NEW p \in Operators, CreateFails(p) PROVE ApprovalTypeOK'
      BY <2>5, <2>1, <2>2 DEF CreateFails
  <2>6. ASSUME NEW h \in Intents, RejectIntent(h) PROVE ApprovalTypeOK'
    <3>1. credit' = [credit EXCEPT ![h] = 0] /\ UNCHANGED <<now, creating, calls>>
        BY <2>6 DEF RejectIntent
    <3>2. credit' \in [Intents -> Int]
        BY <3>1
    <3>3. now' \in 0 .. MaxTime /\ creating' \in [Operators -> CreateRec]
          /\ calls' \in [Callers -> CallRec]
        BY <3>1
    <3> QED
        BY <2>1, <3>2, <3>3
  <2>7. ASSUME NEW c \in Callers, NEW h \in Intents, NEW op \in Ops, StartCall(c, h, op)
        PROVE  ApprovalTypeOK'
      BY <2>7, <2>1 DEF StartCall
  <2>8. ASSUME NEW c \in Callers, EndCall(c), UNCHANGED <<now, creating>>,
               credit' \in [Intents -> Int]
        PROVE  ApprovalTypeOK'
      BY <2>8, <2>1, <2>2 DEF EndCall
  <2>9. ASSUME NEW c \in Callers,
               \/ CallRefused(c) \/ CallGivesUp(c) \/ CallFindsExpired(c)
               \/ Approve(c) \/ Arm(c) \/ Consume(c) \/ ConsumeArmed(c)
               \/ ArmWindowOver(c) \/ ApproveAndConsume(c)
        PROVE  EndCall(c) /\ UNCHANGED <<now, creating>> /\ credit' \in [Intents -> Int]
    <3> USE DEF Proceeds
    <3>1. CASE CallRefused(c) \/ CallGivesUp(c) \/ CallFindsExpired(c)
        BY <3>1 DEF CallRefused, CallGivesUp, CallFindsExpired
    <3>2. CASE Approve(c) \/ Arm(c) \/ ArmWindowOver(c) \/ ApproveAndConsume(c)
        BY <3>2 DEF Approve, Arm, ArmWindowOver, ApproveAndConsume
    <3>3. CASE Consume(c) \/ ConsumeArmed(c)
        BY <3>3 DEF Consume, ConsumeArmed, Spend
    <3> QED
        BY <2>9, <3>1, <3>2, <3>3
  <2>10. CASE Tick
      BY <2>10, <2>1 DEF Tick
  <2> QED
      BY <2>3, <2>4, <2>5, <2>6, <2>7, <2>8, <2>9, <2>10 DEF ApprovalNext
<1> QED
    BY <1>1, <1>2, PTL DEF ApprovalSpec

(* A step spends only what has been granted. *)
LEMMA FundedStep ==
    ASSUME ApprovalTypeOK, Funded, ApprovalNext
    PROVE  Funded'
<1> USE ApprovalAssumption DEF ApprovalTypeOK, Funded, Status
<1>1. ASSUME NEW p \in Operators, WriteCreate(p) PROVE Funded'
    BY <1>1 DEF WriteCreate
<1>2. ASSUME NEW h \in Intents, RejectIntent(h) PROVE Funded'
    BY <1>2 DEF RejectIntent, SetStatus
<1>3. ASSUME NEW c \in Callers, CallFindsExpired(c) PROVE Funded'
    BY <1>3 DEF CallFindsExpired, SetStatus
<1>4. ASSUME NEW c \in Callers, Approve(c) PROVE Funded'
    BY <1>4 DEF Approve, Proceeds, SetStatus
<1>5. ASSUME NEW c \in Callers, Arm(c) \/ ArmWindowOver(c) PROVE Funded'
    BY <1>5 DEF Arm, ArmWindowOver, Proceeds
<1>6. ASSUME NEW c \in Callers, Consume(c) \/ ConsumeArmed(c) PROVE Funded'
  <2>1. Status(calls[c].intent) = "APPROVED"
      BY <1>6 DEF Consume, ConsumeArmed, Proceeds, Admits
  <2>2. appr' = [appr EXCEPT ![calls[c].intent] =
            [status |-> "USED", expires |-> @.expires, armed |-> NoTime]]
        /\ credit' = [credit EXCEPT ![calls[c].intent] = @ - 1]
      BY <1>6 DEF Consume, ConsumeArmed, Spend
  <2> SUFFICES ASSUME NEW h \in Intents
               PROVE  credit'[h] \in {0, 1} /\ (appr'[h].status = "APPROVED" => credit'[h] = 1)
      OBVIOUS
  <2>3. CASE h = calls[c].intent
    <3>1. credit[h] = 1
        BY <2>1, <2>3
    <3>2. credit'[h] = 0 /\ appr'[h].status = "USED"
        BY <2>2, <2>3, <3>1
    <3> QED
        BY <3>2
  <2>4. CASE h # calls[c].intent
      BY <2>2, <2>4
  <2> QED
      BY <2>3, <2>4
<1>7. ASSUME NEW c \in Callers, ApproveAndConsume(c) PROVE Funded'
    BY <1>7 DEF ApproveAndConsume
<1>8. ASSUME UNCHANGED <<appr, credit>> PROVE Funded'
    BY <1>8
<1> QED
    BY <1>1, <1>2, <1>3, <1>4, <1>5, <1>6, <1>7, <1>8
    DEF ApprovalNext, CheckCreate, CreateFails, StartCall, CallRefused, CallGivesUp, Tick

(* Every use of an approval is paid for by a grant of its own.               *)
THEOREM UsesArePaidFor == ApprovalSpec => []OneUsePerGrant
<1>1. ApprovalInit => Funded
  <2> SUFFICES ASSUME ApprovalInit, NEW h \in Intents
               PROVE  credit[h] \in {0, 1} /\ (Status(h) = "APPROVED" => credit[h] = 1)
      BY DEF Funded
  <2>1. credit[h] = 0 /\ Status(h) = "NONE"
      BY DEF ApprovalInit, Status
  <2> QED
      BY <2>1
<1>2. ApprovalTypeOK /\ Funded /\ [ApprovalNext]_apprVars => Funded'
  <2>1. CASE UNCHANGED apprVars
      BY <2>1 DEF apprVars, Funded, Status
  <2> QED
      BY <2>1, FundedStep
<1>3. Funded => OneUsePerGrant
  <2> SUFFICES ASSUME Funded, NEW h \in Intents PROVE credit[h] >= 0
      BY DEF OneUsePerGrant
  <2>1. credit[h] \in {0, 1}
      BY DEF Funded
  <2> QED
      BY <2>1
<1> QED
    BY <1>1, <1>2, <1>3, ApprovalTypeInvariant, PTL DEF ApprovalSpec

(* An approval cannot be consumed armed after it has expired: its arming     *)
(* never reaches past its expiry.                                            *)
THEOREM ArmingEndsInTime == ApprovalSpec => []ArmedWithinValidity
<1>1. ApprovalInit => ArmedWithinValidity
    BY DEF ApprovalInit, ArmedWithinValidity
<1>2. ApprovalTypeOK /\ ArmedWithinValidity /\ [ApprovalNext]_apprVars => ArmedWithinValidity'
  <2> SUFFICES ASSUME ApprovalTypeOK, ArmedWithinValidity, [ApprovalNext]_apprVars
               PROVE  ArmedWithinValidity'
      OBVIOUS
  <2> USE ApprovalAssumption DEF ApprovalTypeOK, ArmedWithinValidity
  <2>1. ASSUME NEW p \in Operators, WriteCreate(p) PROVE ArmedWithinValidity'
      BY <2>1 DEF WriteCreate
  <2>2. ASSUME NEW h \in Intents, RejectIntent(h) PROVE ArmedWithinValidity'
      BY <2>2 DEF RejectIntent, SetStatus
  <2>3. ASSUME NEW c \in Callers, CallFindsExpired(c) \/ Approve(c) PROVE ArmedWithinValidity'
      BY <2>3 DEF CallFindsExpired, Approve, SetStatus
  <2>4. ASSUME NEW c \in Callers, Arm(c) PROVE ArmedWithinValidity'
    <3> DEFINE g   == calls[c].intent
               end == calls[c].stamp + ArmTtl
               a   == IF end < appr[g].expires THEN end ELSE appr[g].expires
    <3>1. ASSUME g \in Intents PROVE a <= appr[g].expires
        BY <3>1 DEF Times
    <3>2. appr' = [appr EXCEPT ![g].armed = a]
        BY <2>4 DEF Arm
    <3> HIDE DEF a
    <3> QED
        BY <3>1, <3>2
  <2>5. ASSUME NEW c \in Callers, Consume(c) \/ ConsumeArmed(c) PROVE ArmedWithinValidity'
      BY <2>5 DEF Consume, ConsumeArmed, Spend
  <2>6. ASSUME NEW c \in Callers, ArmWindowOver(c) \/ ApproveAndConsume(c)
        PROVE  ArmedWithinValidity'
      BY <2>6 DEF ArmWindowOver, ApproveAndConsume
  <2>7. ASSUME UNCHANGED appr PROVE ArmedWithinValidity'
      BY <2>7
  <2> QED
      BY <2>1, <2>2, <2>3, <2>4, <2>5, <2>6, <2>7
      DEF ApprovalNext, apprVars, CheckCreate, CreateFails, StartCall, CallRefused, CallGivesUp, Tick
<1> QED
    BY <1>1, <1>2, ApprovalTypeInvariant, PTL DEF ApprovalSpec

(* Once an approval is used and no creation that saw it earlier is under     *)
(* way, nothing makes it usable again.                                       *)
THEOREM UsedStaysUsed == ApprovalSpec => UsedIsFinal
<1>1. ApprovalTypeOK /\ [ApprovalNext]_apprVars =>
        [\A h \in Intents :
            Status(h) = "USED" /\ ~InCreation(h) =>
                appr'[h].status = "USED" /\ ~InCreation(h)']_apprVars
  <2> SUFFICES ASSUME ApprovalTypeOK, ApprovalNext, NEW h \in Intents,
                      appr[h].status = "USED", \A p \in Operators : creating[p].intent # h
               PROVE  /\ appr'[h].status = "USED"
                      /\ \A p \in Operators : creating'[p].intent # h
      BY DEF Status, InCreation
  <2> USE ApprovalAssumption DEF ApprovalTypeOK, Status
  <2>1. ASSUME NEW p \in Operators, NEW g \in Intents, NEW s \in Decision, CheckCreate(p, g, s)
        PROVE  /\ appr'[h].status = "USED"
               /\ \A q \in Operators : creating'[q].intent # h
      BY <2>1 DEF CheckCreate
  <2>2. ASSUME NEW p \in Operators, WriteCreate(p)
        PROVE  /\ appr'[h].status = "USED"
               /\ \A q \in Operators : creating'[q].intent # h
      BY <2>2 DEF WriteCreate, NotCreating
  <2>3. ASSUME NEW p \in Operators, CreateFails(p)
        PROVE  /\ appr'[h].status = "USED"
               /\ \A q \in Operators : creating'[q].intent # h
      BY <2>3 DEF CreateFails, NotCreating
  <2>4. ASSUME NEW g \in Intents, RejectIntent(g)
        PROVE  appr'[h].status = "USED" /\ UNCHANGED creating
      BY <2>4 DEF RejectIntent, SetStatus
  <2>5. ASSUME NEW c \in Callers, CallFindsExpired(c)
        PROVE  appr'[h].status = "USED" /\ UNCHANGED creating
      BY <2>5 DEF CallFindsExpired, Admits, SetStatus, Ops
  <2>6. ASSUME NEW c \in Callers, Approve(c) PROVE appr'[h].status = "USED" /\ UNCHANGED creating
    <3>1. appr[calls[c].intent].status \in {"PENDING", "APPROVED"} /\ UNCHANGED creating
          /\ appr' = [appr EXCEPT ![calls[c].intent].status = "APPROVED"]
        BY <2>6 DEF Approve, Proceeds, Admits, SetStatus
    <3> QED
        BY <3>1
  <2>7. ASSUME NEW c \in Callers, Arm(c) \/ ArmWindowOver(c)
        PROVE  appr'[h].status = "USED" /\ UNCHANGED creating
    <3>1. CASE Arm(c)
        BY <3>1 DEF Arm, Proceeds
    <3>2. CASE ArmWindowOver(c)
        BY <3>2 DEF ArmWindowOver, Proceeds
    <3> QED
        BY <2>7, <3>1, <3>2
  <2>8. ASSUME NEW c \in Callers, Consume(c) \/ ConsumeArmed(c)
        PROVE  appr'[h].status = "USED" /\ UNCHANGED creating
      BY <2>8 DEF Consume, ConsumeArmed, Proceeds, Spend
  <2>9. ASSUME NEW c \in Callers, ApproveAndConsume(c)
        PROVE  appr'[h].status = "USED" /\ UNCHANGED creating
      BY <2>9 DEF ApproveAndConsume
  <2> QED
      BY <2>1, <2>2, <2>3, <2>4, <2>5, <2>6, <2>7, <2>8, <2>9
      DEF ApprovalNext, StartCall, CallRefused, CallGivesUp, Tick
<1> QED
    BY <1>1, ApprovalTypeInvariant, PTL DEF ApprovalSpec, UsedIsFinal

-----------------------------------------------------------------------------
(***************************************************************************)
(* The session lock, for any number of processes and files.                *)
(***************************************************************************)

(* When no session ever unlinks the file, every descriptor is open on the   *)
(* one file lock_path names, and a session that runs owns that file's lock. *)
OneFile ==
    /\ \A p \in Procs : fd[p] # NoFile => fd[p] = path
    /\ \A p \in Procs : pc[p] = "held" => holder[fd[p]] = p
    /\ \A p \in Procs : pc[p] # "unlocked"

(* The lock table, the descriptors and the program counters stay in step in *)
(* every interleaving of acquire, release and crash.                        *)
THEOREM LockTypeInvariant == LockSpec => []LockTypeOK
<1>1. LockInit => LockTypeOK
    BY LockAssumption DEF LockInit, LockTypeOK, PC
<1>2. LockTypeOK /\ [LockNext]_lockVars => LockTypeOK'
  <2> SUFFICES ASSUME LockTypeOK, [LockNext]_lockVars PROVE LockTypeOK'
      OBVIOUS
  <2>1. ASSUME NEW p \in Procs, OpenFile(p) PROVE LockTypeOK'
      BY <2>1, LockAssumption DEF OpenFile, LockTypeOK, PC, Unused
  <2>2. ASSUME NEW p \in Procs, Flock(p) PROVE LockTypeOK'
      BY <2>2 DEF Flock, LockTypeOK, PC
  <2>3. ASSUME NEW p \in Procs, Refuse(p) PROVE LockTypeOK'
      BY <2>3 DEF Refuse, LockTypeOK, PC
  <2>4. ASSUME NEW p \in Procs, Unlock(p) PROVE LockTypeOK'
      BY <2>4 DEF Unlock, LockTypeOK, PC
  <2>5. ASSUME NEW p \in Procs, Unlink(p) PROVE LockTypeOK'
      BY <2>5 DEF Unlink, LockTypeOK, PC
  <2>6. ASSUME NEW p \in Procs, Crash(p) PROVE LockTypeOK'
      BY <2>6 DEF Crash, LockTypeOK, PC
  <2>7. CASE UNCHANGED lockVars
      BY <2>7 DEF lockVars, LockTypeOK
  <2> QED
      BY <2>1, <2>2, <2>3, <2>4, <2>5, <2>6, <2>7 DEF LockNext
<1> QED
    BY <1>1, <1>2, PTL DEF LockSpec

(* Sessions that only ever end by being killed exclude one another: the     *)
(* flock alone is sound, whatever the number of processes and restarts.     *)
THEOREM KilledSessionsExclude ==
    ASSUME Releasers = {}
    PROVE  LockSpec => []MutualExclusion
<1>1. LockInit => OneFile
    BY DEF LockInit, OneFile
<1>2. LockTypeOK /\ LockTypeOK' /\ OneFile /\ [LockNext]_lockVars => OneFile'
  <2> SUFFICES ASSUME LockTypeOK, LockTypeOK', OneFile, [LockNext]_lockVars
               PROVE  OneFile'
      OBVIOUS
  <2>1. ASSUME NEW p \in Procs, OpenFile(p) PROVE OneFile'
    <3>1. \A q \in Procs : fd'[q] # NoFile => fd'[q] = path'
        BY <2>1, LockAssumption DEF OpenFile, OneFile, LockTypeOK
    <3>2. \A q \in Procs : pc'[q] = "held" => holder'[fd'[q]] = q
        BY <2>1 DEF OpenFile, OneFile, LockTypeOK
    <3> QED
        BY <2>1, <3>1, <3>2 DEF OpenFile, OneFile, LockTypeOK
  <2>2. ASSUME NEW p \in Procs, Flock(p) PROVE OneFile'
    <3>1. \A q \in Procs : pc'[q] = "held" => holder'[fd'[q]] = q
      <4> SUFFICES ASSUME NEW q \in Procs, pc'[q] = "held"
                   PROVE  holder'[fd'[q]] = q
          OBVIOUS
      <4>1. fd[p] \in Inodes /\ fd[p] = path
          BY <2>2, LockAssumption DEF Flock, LockTypeOK, OneFile
      <4>2. CASE q = p
          BY <2>2, <4>1, <4>2 DEF Flock, LockTypeOK
      <4>3. CASE q # p
        <5>1. pc[q] = "held" /\ fd[q] = fd[p]
            BY <2>2, <4>1, <4>3, LockAssumption DEF Flock, LockTypeOK, OneFile
        <5> QED
            BY <5>1, <2>2, LockAssumption DEF Flock, OneFile
      <4> QED
          BY <4>2, <4>3
    <3> QED
        BY <2>2, <3>1 DEF Flock, OneFile, LockTypeOK
  <2>3. ASSUME NEW p \in Procs, Refuse(p) PROVE OneFile'
      BY <2>3 DEF Refuse, OneFile, LockTypeOK
  <2>4. ASSUME NEW p \in Procs, Unlock(p) \/ Unlink(p) PROVE OneFile'
      BY <2>4 DEF Unlock, Unlink, OneFile
  <2>5. ASSUME NEW p \in Procs, Crash(p) PROVE OneFile'
    <3>1. \A q \in Procs : pc'[q] = "held" => holder'[fd'[q]] = q
      <4> SUFFICES ASSUME NEW q \in Procs, pc'[q] = "held"
                   PROVE  holder'[fd'[q]] = q
          OBVIOUS
      <4>1. q # p /\ pc[q] = "held" /\ fd'[q] = fd[q] /\ fd[q] \in Inodes
          BY <2>5 DEF Crash, LockTypeOK
      <4> QED
          BY <2>5, <4>1 DEF Crash, OneFile
    <3> QED
        BY <2>5, <3>1 DEF Crash, OneFile, LockTypeOK
  <2>6. CASE UNCHANGED lockVars
      BY <2>6 DEF lockVars, OneFile
  <2> QED
      BY <2>1, <2>2, <2>3, <2>4, <2>5, <2>6 DEF LockNext
<1>3. LockTypeOK /\ OneFile => MutualExclusion
    BY DEF LockTypeOK, OneFile, MutualExclusion
<1> QED
    BY <1>1, <1>2, <1>3, LockTypeInvariant, PTL DEF LockSpec

(* With releases as well, the file that the path names has at most one      *)
(* holder: every running session owns the lock of the file it has open.     *)
THEOREM NamedFileHasOneHolder == LockSpec => []SecondSessionNeedsUnlink
<1> DEFINE Held == \A q \in Procs : pc[q] = "held" => holder[fd[q]] = q
<1>1. LockInit => Held
    BY DEF LockInit
<1>2. LockTypeOK /\ Held /\ [LockNext]_lockVars => Held'
  <2> SUFFICES ASSUME LockTypeOK, Held, [LockNext]_lockVars,
                      NEW q \in Procs, pc'[q] = "held"
               PROVE  holder'[fd'[q]] = q
      OBVIOUS
  <2>1. ASSUME NEW p \in Procs, OpenFile(p) \/ Refuse(p) \/ Unlink(p)
        PROVE  holder'[fd'[q]] = q
      BY <2>1 DEF OpenFile, Refuse, Unlink, LockTypeOK
  <2>2. ASSUME NEW p \in Procs, Flock(p) PROVE holder'[fd'[q]] = q
    <3>1. fd[p] \in Inodes /\ fd' = fd
        BY <2>2, LockAssumption DEF Flock, LockTypeOK
    <3>2. CASE q = p
        BY <2>2, <3>1, <3>2 DEF Flock, LockTypeOK
    <3>3. CASE q # p
      <4>1. holder[fd[q]] = q /\ q # Nobody
          BY <2>2, <3>3, LockAssumption DEF Flock, LockTypeOK
      <4>2. fd[q] # fd[p]
          BY <4>1, <2>2 DEF Flock
      <4> QED
          BY <2>2, <3>1, <4>1, <4>2 DEF Flock
    <3> QED
        BY <3>2, <3>3
  <2>3. ASSUME NEW p \in Procs, Unlock(p) PROVE holder'[fd'[q]] = q
    <3>1. q # p /\ pc[q] = "held" /\ fd'[q] = fd[q]
        BY <2>3 DEF Unlock, LockTypeOK
    <3>2. holder[fd[q]] = q /\ holder[fd[p]] = p
        BY <2>3, <3>1 DEF Unlock
    <3> QED
        BY <2>3, <3>1, <3>2 DEF Unlock
  <2>4. ASSUME NEW p \in Procs, Crash(p) PROVE holder'[fd'[q]] = q
    <3>1. q # p /\ pc[q] = "held" /\ fd'[q] = fd[q] /\ fd[q] \in Inodes
        BY <2>4 DEF Crash, LockTypeOK
    <3> QED
        BY <2>4, <3>1 DEF Crash
  <2>5. CASE UNCHANGED lockVars
      BY <2>5 DEF lockVars
  <2> QED
      BY <2>1, <2>2, <2>3, <2>4, <2>5 DEF LockNext
<1>3. LockTypeOK /\ Held => SecondSessionNeedsUnlink
    BY DEF LockTypeOK, SecondSessionNeedsUnlink
<1> QED
    BY <1>1, <1>2, <1>3, LockTypeInvariant, PTL DEF LockSpec

(* A process is refused only by a session that is running: no crash or      *)
(* release leaves a lock without an owner.                                  *)
THEOREM RefusalNeedsHolder == LockSpec => RefusedByLiveHolder
<1> DEFINE Owned ==
        \A i \in Inodes : holder[i] # Nobody => pc[holder[i]] = "held" /\ fd[holder[i]] = i
<1>1. LockInit => Owned
    BY DEF LockInit
<1>2. LockTypeOK /\ Owned /\ [LockNext]_lockVars => Owned'
  <2> SUFFICES ASSUME LockTypeOK, Owned, [LockNext]_lockVars,
                      NEW i \in Inodes, holder'[i] # Nobody
               PROVE  pc'[holder'[i]] = "held" /\ fd'[holder'[i]] = i
      OBVIOUS
  <2>1. ASSUME NEW p \in Procs, OpenFile(p) \/ Refuse(p) \/ Unlink(p)
        PROVE  pc'[holder'[i]] = "held" /\ fd'[holder'[i]] = i
      BY <2>1 DEF OpenFile, Refuse, Unlink, LockTypeOK
  <2>2. ASSUME NEW p \in Procs, Flock(p)
        PROVE  pc'[holder'[i]] = "held" /\ fd'[holder'[i]] = i
      BY <2>2 DEF Flock, LockTypeOK
  <2>3. ASSUME NEW p \in Procs, Unlock(p)
        PROVE  pc'[holder'[i]] = "held" /\ fd'[holder'[i]] = i
      BY <2>3 DEF Unlock, LockTypeOK
  <2>4. ASSUME NEW p \in Procs, Crash(p)
        PROVE  pc'[holder'[i]] = "held" /\ fd'[holder'[i]] = i
      BY <2>4 DEF Crash, LockTypeOK
  <2>5. CASE UNCHANGED lockVars
      BY <2>5 DEF lockVars
  <2> QED
      BY <2>1, <2>2, <2>3, <2>4, <2>5 DEF LockNext
<1>3. LockTypeOK /\ Owned /\ [LockNext]_lockVars =>
        [\A p \in Procs : pc[p] = "opened" /\ pc'[p] = "refused" =>
            \E q \in Procs \ {p} : pc[q] = "held" /\ fd[q] = fd[p]]_lockVars
  <2> SUFFICES ASSUME LockTypeOK, Owned, LockNext, NEW p \in Procs,
                      pc[p] = "opened", pc'[p] = "refused"
               PROVE  \E q \in Procs \ {p} : pc[q] = "held" /\ fd[q] = fd[p]
      OBVIOUS
  <2>1. Refuse(p)
      BY DEF LockNext, OpenFile, Flock, Refuse, Unlock, Unlink, Crash, LockTypeOK
  <2>2. fd[p] \in Inodes /\ holder[fd[p]] \in Procs
      BY <2>1, LockAssumption DEF Refuse, LockTypeOK
  <2> QED
      BY <2>1, <2>2 DEF Refuse
<1> QED
    BY <1>1, <1>2, <1>3, LockTypeInvariant, PTL DEF LockSpec, RefusedByLiveHolder
=============================================================================
