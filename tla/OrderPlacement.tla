--------------------------- MODULE OrderPlacement ---------------------------
(***************************************************************************)
(* core/execution_engine.py: place_order, composed with the reconciliation *)
(* daemons of OrderReconciler over one order store and one broker.         *)
(*                                                                         *)
(* An order id and its idempotency key are both computed from the signal,  *)
(* instrument, side and timestamp of the request, so an order is its own   *)
(* key (Keys = Orders) and SignalOf gives the part of it that the intent   *)
(* store hashes.  Two orders of one signal are two timestamps.             *)
(*                                                                         *)
(* Each store transaction, each broker call and each locked update of the  *)
(* failure counters that a caller makes is one step of its thread.         *)
(***************************************************************************)
EXTENDS OrderReconciler

CONSTANTS
    Threads,            \* callers of place_order, sharing one engine
    Signals,
    SignalOf,           \* order id -> signal
    MaxAttempts,        \* EXEC_NETWORK_RETRY_MAX_ATTEMPTS
    NetThreshold,       \* network failures tolerated in the window
    RejectThreshold     \* broker rejects tolerated

(* An order id is "ord_" and a digest of the request: no broker id is one.  *)
ASSUME OrderPlacementAssumption ==
    /\ Keys = Orders
    /\ Orders \cap BrokerIds = {}
    /\ SignalOf \in [Orders -> Signals]
    /\ MaxAttempts \in Nat \ {0}
    /\ NetThreshold \in Nat /\ RejectThreshold \in Nat

VARIABLES
    th,         \* thread -> its place in place_order
    intent,     \* order_intents: signal -> status
    seen,       \* signals in pretrade_signal_registry, within the window
    failures,   \* the engine's failure counters and its kill switch
    placedFor   \* history: broker id -> the order it was issued for

engineVars == <<th, intent, seen, failures, placedFor>>
placeVars == <<rows, book, dm, crashes, th, intent, seen, failures, placedFor>>

IdleThread == [pc |-> "idle", order |-> NoOrder, attempt |-> 1, id |-> NoBroker]
NoFailures == [net |-> 0, rejects |-> 0, killed |-> FALSE]

Goto(t, pc) == th' = [th EXCEPT ![t].pc = pc]

Return(t) == th' = [th EXCEPT ![t] = IdleThread]
At(t, pc) == th[t].pc = pc

SetIntent(t, status) == intent' = [intent EXCEPT ![SignalOf[th[t].order]] = status]

(* transition_order_state by a thread: moves the order and continues, or    *)
(* raises OrderStateTransitionError out of place_order.                     *)
MoveOrRaise(t, s, b, next) ==
    LET o == th[t].order IN
    \/ /\ CanMove(o, s)
       /\ rows' = [rows EXCEPT ![o] = MovedRow(@, s, b, @.filled)]
       /\ IF next = "idle" THEN Return(t) ELSE Goto(t, next)
    \/ /\ ~CanMove(o, s)
       /\ UNCHANGED rows
       /\ Return(t)

-----------------------------------------------------------------------------
(* place_order *)

(* Mutant of Call: the stored intent is not consulted. *)
CallUngated(t, o) ==
    /\ At(t, "idle")
    /\ th' = [th EXCEPT ![t] = [IdleThread EXCEPT !.pc = "upsert", !.order = o]]
    /\ UNCHANGED <<rows, book, dm, crashes, intent, seen, failures, placedFor>>

(* get_intent: a submitted intent returns intent_already_submitted at once. *)
Call(t, o) ==
    /\ At(t, "idle")
    /\ IF intent[SignalOf[o]] = "SUBMITTED"
         THEN UNCHANGED th
         ELSE th' = [th EXCEPT ![t] = [IdleThread EXCEPT !.pc = "upsert", !.order = o]]
    /\ UNCHANGED <<rows, book, dm, crashes, intent, seen, failures, placedFor>>

(* upsert_intent(status="NEW"), over whatever is stored by now. *)
UpsertNewIntent(t) ==
    /\ At(t, "upsert")
    /\ SetIntent(t, "NEW")
    /\ Goto(t, "create")
    /\ UNCHANGED <<rows, book, dm, crashes, seen, failures, placedFor>>

(* Mutant of CreateOrGet: an existing order is placed again. *)
CreateAlways(t) ==
    LET o == th[t].order IN
    /\ At(t, "create")
    /\ rows' = IF rows[o].state = "ABSENT"
                 THEN [rows EXCEPT ![o] = NewRow(o, NoBroker, 0)] ELSE rows
    /\ Goto(t, IF rows[o].state \in {"ABSENT", "NEW"} THEN "risk" ELSE "submit")
    /\ UNCHANGED <<book, dm, crashes, intent, seen, failures, placedFor>>

(* create_or_get_order: only the thread that inserts the row goes on. *)
CreateOrGet(t) ==
    LET o == th[t].order IN
    /\ At(t, "create")
    /\ IF rows[o].state = "ABSENT"
         THEN /\ rows' = [rows EXCEPT ![o] = NewRow(o, NoBroker, 0)]
              /\ Goto(t, "risk")
         ELSE /\ UNCHANGED rows
              /\ Return(t)
    /\ UNCHANGED <<book, dm, crashes, intent, seen, failures, placedFor>>

(* Pre-trade risk: a signal seen within the window must be refused, any     *)
(* other may be (limits, a disabled instrument) and may also be deferred    *)
(* when the caller gave no submit function.                                 *)
RiskRefuses(t) ==
    /\ At(t, "risk")
    /\ MoveOrRaise(t, "REJECTED", NoBroker, "idle")
    /\ UNCHANGED <<book, dm, crashes, intent, seen, failures, placedFor>>

RiskAllows(t) ==
    /\ At(t, "risk") /\ SignalOf[th[t].order] \notin seen
    /\ \/ Goto(t, "send")
       \/ Return(t)     \* placement_deferred
    /\ UNCHANGED <<rows, book, dm, crashes, intent, seen, failures, placedFor>>

Send(t) ==
    /\ At(t, "send")
    /\ MoveOrRaise(t, "SENT", NoBroker, "record")
    /\ UNCHANGED <<book, dm, crashes, intent, seen, failures, placedFor>>

(* record_decision(accepted=True); an exception in it is swallowed. *)
RecordAccepted(t) ==
    /\ At(t, "record")
    /\ seen' \in {seen, seen \cup {SignalOf[th[t].order]}}
    /\ Goto(t, "submit")
    /\ UNCHANGED <<rows, book, dm, crashes, intent, failures, placedFor>>

-----------------------------------------------------------------------------
(* execute_with_network_retry around submit_order_fn.  The broker lists an  *)
(* accepted order under a fresh id, whatever becomes of the response.       *)

BrokerLists(o, b, status) ==
    /\ placedFor[b] = NoOrder
    /\ book' = [book EXCEPT ![b] = [status |-> status, filled |-> 0]]
    /\ placedFor' = [placedFor EXCEPT ![b] = o]

(* Mutant of SubmitAccepted: the intent is marked before the order moves. *)
SubmitAcceptedMarksFirst(t) ==
    /\ At(t, "submit")
    /\ \E b \in BrokerIds :
        /\ BrokerLists(th[t].order, b, "OPEN")
        /\ th' = [th EXCEPT ![t] = [@ EXCEPT !.pc = "mark", !.id = b]]
    /\ UNCHANGED <<rows, dm, crashes, intent, seen, failures>>

(* Mutant of SubmitAccepted: the response is kept on the engine, where the  *)
(* response to another thread may have replaced it.                         *)
SubmitAcceptedShared(t) ==
    /\ At(t, "submit")
    /\ \E b \in BrokerIds :
        /\ BrokerLists(th[t].order, b, "OPEN")
        /\ \E id \in {b} \cup {c \in BrokerIds : placedFor[c] # NoOrder} :
                th' = [th EXCEPT ![t] = [@ EXCEPT !.pc = "ack", !.id = id]]
    /\ UNCHANGED <<rows, dm, crashes, intent, seen, failures>>

(* The broker accepts.  The id is read from a dict only: a bare order id,   *)
(* as the broker's own client returns it, leaves broker_order_id None.      *)
SubmitAccepted(t) ==
    /\ At(t, "submit")
    /\ \E b \in BrokerIds :
        /\ BrokerLists(th[t].order, b, "OPEN")
        /\ \E id \in {b, NoBroker} : th' = [th EXCEPT ![t] = [@ EXCEPT !.pc = "ack", !.id = id]]
    /\ UNCHANGED <<rows, dm, crashes, intent, seen, failures>>

(* The response says REJECTED or FAILED, with or without the id of an order *)
(* that the broker lists or does not list.                                  *)
SubmitRefused(t) ==
    /\ At(t, "submit")
    /\ \/ \E b \in BrokerIds : \E id \in {b, NoBroker} :
             /\ BrokerLists(th[t].order, b, "REJECTED")
             /\ th' = [th EXCEPT ![t] = [@ EXCEPT !.pc = "refused", !.id = id]]
       \/ Goto(t, "refused") /\ UNCHANGED <<book, placedFor>>
    /\ UNCHANGED <<rows, dm, crashes, intent, seen, failures>>

(* register_failure: counters saturate one above their threshold. *)
AfterFailure(f, net, rejects) ==
    LET n == IF f.net + net > NetThreshold THEN NetThreshold + 1 ELSE f.net + net
        r == IF f.rejects + rejects > RejectThreshold THEN RejectThreshold + 1
             ELSE f.rejects + rejects
    IN [net |-> n, rejects |-> r,
        killed |-> f.killed \/ n > NetThreshold \/ r > RejectThreshold]

Raises(f) == f.net > NetThreshold \/ f.rejects > RejectThreshold

(* Mutant of SubmitFails: the last failure falls through to the success path. *)
SubmitFailsThrough(t) ==
    /\ At(t, "submit")
    /\ UNCHANGED <<book, placedFor>>
    /\ failures' = AfterFailure(failures, 1, 0)
    /\ th' = [th EXCEPT ![t] = [@ EXCEPT
            !.pc = IF th[t].attempt >= MaxAttempts THEN "ack" ELSE "submit",
            !.attempt = IF @ >= MaxAttempts THEN @ ELSE @ + 1]]
    /\ UNCHANGED <<rows, dm, crashes, intent, seen>>

(* The kill switch raises out of the retry loop, the last attempt gives up, *)
(* any other is followed by the next.                                       *)
AfterAttempt(l, f) ==
    [l EXCEPT !.pc = CASE Raises(f) -> "killed"
                       [] ~Raises(f) /\ l.attempt >= MaxAttempts -> "failed"
                       [] ~Raises(f) /\ l.attempt < MaxAttempts -> "submit",
              !.attempt = IF l.attempt >= MaxAttempts THEN @ ELSE @ + 1]

(* The call raises, whether or not the broker took the order: the failure   *)
(* is counted before anything else.                                         *)
SubmitFails(t) ==
    /\ At(t, "submit")
    /\ \/ UNCHANGED <<book, placedFor>>
       \/ \E b \in BrokerIds : BrokerLists(th[t].order, b, "OPEN")
    /\ failures' = AfterFailure(failures, 1, 0)
    /\ th' = [th EXCEPT ![t] = AfterAttempt(@, failures')]
    /\ UNCHANGED <<rows, dm, crashes, intent, seen>>

(* The except branch: the intent is REJECTED; a kill-switch error is raised *)
(* again and the order stays as it is, any other closes the order.          *)
RejectIntent(t) ==
    /\ th[t].pc \in {"failed", "killed", "refused"}
    /\ SetIntent(t, "REJECTED")
    /\ CASE At(t, "failed")  -> Goto(t, "reject")
         [] At(t, "killed")  -> Return(t)
         [] At(t, "refused") -> Goto(t, "count")
    /\ UNCHANGED <<rows, book, dm, crashes, seen, failures, placedFor>>

(* register_failure(BROKER_REJECT), which may raise the kill switch. *)
CountRefusal(t) ==
    /\ At(t, "count")
    /\ failures' = AfterFailure(failures, 0, 1)
    /\ IF Raises(failures') THEN Return(t) ELSE Goto(t, "reject")
    /\ UNCHANGED <<rows, book, dm, crashes, intent, seen, placedFor>>

RejectOrder(t) ==
    /\ At(t, "reject")
    /\ MoveOrRaise(t, "REJECTED", th[t].id, "idle")
    /\ UNCHANGED <<book, dm, crashes, intent, seen, failures, placedFor>>

Acknowledge(t) ==
    /\ At(t, "ack")
    /\ MoveOrRaise(t, "ACKNOWLEDGED", th[t].id, "mark")
    /\ UNCHANGED <<book, dm, crashes, intent, seen, failures, placedFor>>

MarkSubmitted(t) ==
    /\ At(t, "mark")
    /\ SetIntent(t, "SUBMITTED")
    /\ Return(t)
    /\ UNCHANGED <<rows, book, dm, crashes, seen, failures, placedFor>>

(* Everything a thread does on its own after the call. *)
Continue(t) ==
    \/ UpsertNewIntent(t) \/ CreateOrGet(t)
    \/ RiskRefuses(t) \/ RiskAllows(t)
    \/ Send(t) \/ RecordAccepted(t)
    \/ SubmitAccepted(t) \/ SubmitRefused(t) \/ SubmitFails(t)
    \/ RejectIntent(t) \/ CountRefusal(t) \/ RejectOrder(t)
    \/ Acknowledge(t) \/ MarkSubmitted(t)

-----------------------------------------------------------------------------
(* The clock: network failures leave the 60 s window, signals leave the     *)
(* duplicate window.                                                        *)
FailuresAge ==
    /\ failures.net > 0
    /\ failures' = [failures EXCEPT !.net = @ - 1]
    /\ UNCHANGED <<rows, book, dm, crashes, th, intent, seen, placedFor>>

SignalAges(s) ==
    /\ s \in seen
    /\ seen' = seen \ {s}
    /\ UNCHANGED <<rows, book, dm, crashes, th, intent, failures, placedFor>>

(* The process dies with all its threads and starts again: the two stores,  *)
(* the signal registry and the broker's book remain.                        *)
ProcessCrash ==
    /\ crashes < MaxCrashes
    /\ crashes' = crashes + 1
    /\ th' = [t \in Threads |-> IdleThread]
    /\ dm' = [d \in Daemons |-> IdleDaemon]
    /\ failures' = NoFailures
    /\ UNCHANGED <<rows, book, intent, seen, placedFor>>

PlaceInit ==
    /\ rows = [o \in Orders |-> AbsentRow]
    /\ book = EmptyBook
    /\ dm = [d \in Daemons |-> IdleDaemon]
    /\ crashes = 0
    /\ th = [t \in Threads |-> IdleThread]
    /\ intent = [s \in Signals |-> "NONE"]
    /\ seen = {}
    /\ failures = NoFailures
    /\ placedFor = [b \in BrokerIds |-> NoOrder]

PlaceNext ==
    \/ \E t \in Threads : (\E o \in Orders : Call(t, o)) \/ Continue(t)
    \/ \E d \in Daemons : (DaemonStep(d) \/ SnapshotFails(d)) /\ UNCHANGED engineVars
    \/ \E b \in BrokerIds : BrokerStep(b) /\ UNCHANGED <<rows, dm, crashes>> /\ UNCHANGED engineVars
    \/ FailuresAge
    \/ \E s \in Signals : SignalAges(s)
    \/ ProcessCrash

(* A call that has started runs on; the daemons as in OrderReconciler. *)
PlaceFairness ==
    /\ \A t \in Threads : WF_placeVars(Continue(t))
    /\ \A d \in Daemons :
        /\ WF_placeVars(DaemonStep(d) /\ UNCHANGED engineVars)
        /\ SF_placeVars(FetchBrokerPositions(d) /\ UNCHANGED engineVars)

PlaceSpec == PlaceInit /\ [][PlaceNext]_placeVars /\ PlaceFairness

-----------------------------------------------------------------------------
(* Properties *)

Pcs == {"idle", "upsert", "create", "risk", "send", "record", "submit", "failed", "killed",
        "refused", "count", "reject", "ack", "mark"}

(* Types; a thread holds an order exactly while it is inside place_order. *)
PlaceTypeOK ==
    /\ rows \in [Orders -> Row]
    /\ book \in [BrokerIds -> BookEntry]
    /\ th \in [Threads -> [ pc : Pcs, order : Orders \cup {NoOrder},
                            attempt : 1 .. MaxAttempts, id : BrokerIds \cup {NoBroker} ]]
    /\ \A t \in Threads : th[t].order = NoOrder <=> At(t, "idle")
    /\ intent \in [Signals -> {"NONE", "NEW", "SUBMITTED", "REJECTED"}]
    /\ seen \subseteq Signals
    /\ failures \in [net : 0 .. NetThreshold + 1, rejects : 0 .. RejectThreshold + 1,
                     killed : BOOLEAN]
    /\ placedFor \in [BrokerIds -> Orders \cup {NoOrder}]

PlacedAs(o) == {b \in BrokerIds : placedFor[b] = o}

(* However many threads and restarts ask for one order, the broker sees at  *)
(* most the attempts of a single call: the row's insertion elects the one   *)
(* submitter, for ever.                                                     *)
SubmissionsBounded == \A o \in Orders : Cardinality(PlacedAs(o)) <= MaxAttempts

(* An order the store shows as accepted by the broker was given to it. *)
AcknowledgedWasPlaced ==
    \A o \in Orders :
        rows[o].state \in {"ACKNOWLEDGED", "PARTIAL", "FILLED"} => PlacedAs(o) # {}

(* The broker id in a row is one the broker issued for that very order. *)
BrokerIdBelongs ==
    \A o \in Orders : rows[o].broker # NoBroker => placedFor[rows[o].broker] = o

(* An intent that suppresses later calls of its signal stands for an order  *)
(* that really got past SENT.                                               *)
SubmittedIntentIsBacked ==
    \A s \in Signals : intent[s] = "SUBMITTED" =>
        \E o \in Orders : SignalOf[o] = s /\ rows[o].state \notin {"ABSENT", "NEW", "SENT"}

(* Whatever a caller leaves half done, by a kill switch raised between two  *)
(* writes or by a crash, a daemon closes or advances in the end.            *)
NoOrderStuckInFlight ==
    \A o \in Orders :
        rows[o].state \in {"NEW", "SENT"} ~> rows[o].state \notin {"NEW", "SENT"}

(* place_order: "Idempotent order placement wrapper." *)
IdempotentPlacement ==
    \A o \in Orders :
        Cardinality({b \in PlacedAs(o) : book[b].status # "REJECTED"}) <= 1

(* The daemon "repairs deterministic mismatches": what the broker has       *)
(* completed, before the caller that has heard of its acceptance got to     *)
(* acknowledge it, is in the end recorded as filled.                        *)
CompletedOrdersRecorded ==
    \A t \in Threads, o \in Orders, b \in BrokerIds :
        At(t, "ack") /\ th[t].order = o /\ th[t].id = b /\ book[b].status = "COMPLETE"
            ~> rows[o].state = "FILLED"
=============================================================================
