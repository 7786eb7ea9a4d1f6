--------------------------- MODULE ApprovalStore ---------------------------
(***************************************************************************)
(* core/approval_store.py, table order_approvals: proposals, approvals,    *)
(* rejections, arming and consumption of the approval of one order intent, *)
(* and the two gates that consume it (core/execution/chokepoint.py,        *)
(* core/execution_guard.py).                                               *)
(*                                                                         *)
(* Every transaction is BEGIN IMMEDIATE, one action, but approve, arm,     *)
(* consume and approve_and_consume read the clock before they wait for the *)
(* database lock (and retry with the same value), so the transaction may   *)
(* run with an old time stamp.  create_order_approval is not one           *)
(* transaction: it reads the row before its write begins one, so the check *)
(* and the write are two actions.                                          *)
(*                                                                         *)
(* Time is an integer; approvals last Ttl, arming lasts ArmTtl.  Names,    *)
(* channels, reasons and the audit records are left out.                   *)
(***************************************************************************)
EXTENDS Integers

CONSTANTS
    Intents,    \* order intent hashes
    Operators,  \* concurrent callers of create_order_approval
    Callers,    \* concurrent callers of arm, consume, approve_and_consume
    Ttl,        \* ORDER_APPROVAL_TTL_SEC
    ArmTtl,     \* ORDER_ARM_TTL_SEC
    MaxTime,    \* bound: the clock stops here
    NoIntent

ASSUME ApprovalAssumption ==
    /\ Ttl \in Nat \ {0} /\ ArmTtl \in Nat \ {0} /\ MaxTime \in Nat
    /\ NoIntent \notin Intents

NoTime == -1    \* SQL NULL in armed_expires_at_epoch

VARIABLES
    appr,       \* order_approvals: intent -> status, expiry, end of arming
    now,        \* the clock
    creating,   \* operator -> the creation it has checked and not yet written
    calls,      \* caller -> the call it is in, with its time stamp
    credit      \* history: intent -> 1 after a grant, 0 after a rejection, a
                \* fresh proposal or a use; each use takes one

apprVars == <<appr, now, creating, calls, credit>>

Decision == {"PENDING", "APPROVED", "REJECTED"}
Ops == {"approve", "arm", "consume", "consumeArmed", "approveAndConsume"}

NotCreating == [intent |-> NoIntent, status |-> "PENDING", stamp |-> 0]
NotCalling == [op |-> "none", intent |-> NoIntent, stamp |-> 0]

Status(h) == appr[h].status

(* UPDATE order_approvals SET status=s *)
SetStatus(h, s) == appr' = [appr EXCEPT ![h].status = s]

(* Mutant of Spend: the row is marked USED without the status in the WHERE. *)
SpendTwice(h) ==
    /\ appr' = [appr EXCEPT ![h].armed = NoTime]
    /\ credit' = [credit EXCEPT ![h] = @ - 1]

(* The UPDATE that marks an approval USED and disarms it. *)
Spend(h) ==
    /\ appr' = [appr EXCEPT ![h] =
            [status |-> "USED", expires |-> @.expires, armed |-> NoTime]]
    /\ credit' = [credit EXCEPT ![h] = @ - 1]

-----------------------------------------------------------------------------
(* create_order_approval, called as create_proposal (PENDING),              *)
(* approve_order_intent (APPROVED) or reject_order_intent (REJECTED).       *)

(* Mutant of CheckCreate: no check for a used approval. *)
CheckCreateBlind(p, h, s) ==
    /\ creating[p] = NotCreating
    /\ creating' = [creating EXCEPT ![p] = [intent |-> h, status |-> s, stamp |-> now]]
    /\ UNCHANGED <<appr, now, calls, credit>>

CheckCreate(p, h, s) ==
    /\ creating[p] = NotCreating
    /\ Status(h) # "USED"       \* otherwise approval_already_used
    /\ creating' = [creating EXCEPT ![p] = [intent |-> h, status |-> s, stamp |-> now]]
    /\ UNCHANGED <<appr, now, calls, credit>>

(* Mutant of WriteCreate: a renewed approval keeps the old arming. *)
WriteCreateArmed(p) ==
    LET c == creating[p] IN
    /\ c # NotCreating
    /\ appr' = [appr EXCEPT ![c.intent].status = c.status, ![c.intent].expires = c.stamp + Ttl]
    /\ credit' = [credit EXCEPT ![c.intent] = IF c.status = "APPROVED" THEN 1 ELSE 0]
    /\ creating' = [creating EXCEPT ![p] = NotCreating]
    /\ UNCHANGED <<now, calls>>

(* The upsert replaces the whole row, whatever it has become meanwhile. *)
WriteCreate(p) ==
    LET c == creating[p] IN
    /\ c # NotCreating
    /\ appr' = [appr EXCEPT ![c.intent] =
            [status |-> c.status, expires |-> c.stamp + Ttl, armed |-> NoTime]]
    /\ credit' = [credit EXCEPT ![c.intent] = IF c.status = "APPROVED" THEN 1 ELSE 0]
    /\ creating' = [creating EXCEPT ![p] = NotCreating]
    /\ UNCHANGED <<now, calls>>

(* The write does not get the database lock, and the call raises. *)
CreateFails(p) ==
    /\ creating[p] # NotCreating
    /\ creating' = [creating EXCEPT ![p] = NotCreating]
    /\ UNCHANGED <<appr, now, calls, credit>>

(* reject_intent: anything but a missing or used approval. *)
RejectIntent(h) ==
    /\ Status(h) \notin {"NONE", "USED"}
    /\ SetStatus(h, "REJECTED")
    /\ credit' = [credit EXCEPT ![h] = 0]
    /\ UNCHANGED <<now, creating, calls>>

-----------------------------------------------------------------------------
(* Calls that stamp the time and then fight for the database lock *)

StartCall(c, h, op) ==
    /\ calls[c] = NotCalling
    /\ calls' = [calls EXCEPT ![c] = [op |-> op, intent |-> h, stamp |-> now]]
    /\ UNCHANGED <<appr, now, creating, credit>>

EndCall(c) == calls' = [calls EXCEPT ![c] = NotCalling]

(* What each transaction checks before it compares the time stamp. *)
Admits(op, h) ==
    CASE op = "approve"            -> Status(h) \in {"PENDING", "APPROVED"}
      [] op = "approveAndConsume"  -> Status(h) # "USED"
      [] OTHER                     -> Status(h) = "APPROVED"

Expired(c) == calls[c].stamp > appr[calls[c].intent].expires

(* Refused and rolled back; consumeArmed also refuses what is not armed. *)
CallRefused(c) ==
    LET h == calls[c].intent IN
    /\ calls[c] # NotCalling
    /\ \/ ~Admits(calls[c].op, h)
       \/ calls[c].op = "consumeArmed" /\ ~Expired(c) /\ appr[h].armed = NoTime
    /\ EndCall(c)
    /\ UNCHANGED <<appr, now, creating, credit>>

(* The database stayed locked: an exception, or approval_store_locked after *)
(* five attempts.                                                           *)
CallGivesUp(c) ==
    /\ calls[c] # NotCalling
    /\ EndCall(c)
    /\ UNCHANGED <<appr, now, creating, credit>>

CallFindsExpired(c) ==
    /\ calls[c].op \in Ops \ {"approveAndConsume"}
    /\ Admits(calls[c].op, calls[c].intent) /\ Expired(c)
    /\ SetStatus(calls[c].intent, "EXPIRED")
    /\ EndCall(c)
    /\ UNCHANGED <<now, creating, credit>>

(* A call of operation op that its transaction lets through. *)
Proceeds(c, op) ==
    /\ calls[c].op = op
    /\ Admits(op, calls[c].intent) /\ ~Expired(c)
    /\ EndCall(c)
    /\ UNCHANGED <<now, creating>>

(* approve_intent: re-approving keeps the expiry and the arming. *)
Approve(c) ==
    LET h == calls[c].intent IN
    /\ Proceeds(c, "approve")
    /\ SetStatus(h, "APPROVED")
    /\ credit' = [credit EXCEPT ![h] = 1]

(* arm_order_intent: the window never outlasts the approval. *)
Arm(c) ==
    LET h   == calls[c].intent
        end == calls[c].stamp + ArmTtl
    IN
    /\ Proceeds(c, "arm")
    /\ appr' = [appr EXCEPT ![h].armed =
                    IF end < appr[h].expires THEN end ELSE appr[h].expires]
    /\ UNCHANGED credit

(* consume_valid_approval(require_armed=False) *)
Consume(c) ==
    /\ Proceeds(c, "consume")
    /\ Spend(calls[c].intent)

(* consume_valid_approval(require_armed=True), inside the arming window *)
ConsumeArmed(c) ==
    /\ Proceeds(c, "consumeArmed")
    /\ appr[calls[c].intent].armed # NoTime
    /\ calls[c].stamp <= appr[calls[c].intent].armed
    /\ Spend(calls[c].intent)

(* ... and after it: the row stays APPROVED and is disarmed. *)
ArmWindowOver(c) ==
    LET h == calls[c].intent IN
    /\ Proceeds(c, "consumeArmed")
    /\ appr[h].armed # NoTime /\ calls[c].stamp > appr[h].armed
    /\ appr' = [appr EXCEPT ![h].armed = NoTime]
    /\ UNCHANGED credit

(* approve_and_consume_order_intent: a grant and its use in one transaction, *)
(* over whatever the row holds unless it is USED.                            *)
ApproveAndConsume(c) ==
    LET h == calls[c].intent IN
    /\ calls[c].op = "approveAndConsume"
    /\ Admits("approveAndConsume", h)
    /\ appr' = [appr EXCEPT ![h] =
            [status |-> "USED", expires |-> calls[c].stamp + Ttl, armed |-> NoTime]]
    /\ credit' = [credit EXCEPT ![h] = 0]
    /\ EndCall(c)
    /\ UNCHANGED <<now, creating>>

Tick ==
    /\ now < MaxTime
    /\ now' = now + 1
    /\ UNCHANGED <<appr, creating, calls, credit>>

-----------------------------------------------------------------------------
ApprovalInit ==
    /\ appr = [h \in Intents |-> [status |-> "NONE", expires |-> 0, armed |-> NoTime]]
    /\ now = 0
    /\ creating = [p \in Operators |-> NotCreating]
    /\ calls = [c \in Callers |-> NotCalling]
    /\ credit = [h \in Intents |-> 0]

ApprovalNext ==
    \/ \E p \in Operators, h \in Intents, s \in Decision : CheckCreate(p, h, s)
    \/ \E p \in Operators : WriteCreate(p)
    \/ \E p \in Operators : CreateFails(p)
    \/ \E h \in Intents : RejectIntent(h)
    \/ \E c \in Callers, h \in Intents, op \in Ops : StartCall(c, h, op)
    \/ \E c \in Callers : CallRefused(c)
    \/ \E c \in Callers : CallGivesUp(c)
    \/ \E c \in Callers : CallFindsExpired(c)
    \/ \E c \in Callers : Approve(c)
    \/ \E c \in Callers : Arm(c)
    \/ \E c \in Callers : Consume(c)
    \/ \E c \in Callers : ConsumeArmed(c)
    \/ \E c \in Callers : ArmWindowOver(c)
    \/ \E c \in Callers : ApproveAndConsume(c)
    \/ Tick

ApprovalSpec == ApprovalInit /\ [][ApprovalNext]_apprVars

-----------------------------------------------------------------------------
Times == 0 .. MaxTime + Ttl

Statuses == Decision \cup {"NONE", "EXPIRED", "USED"}

(* Every row is a row the schema of order_approvals accepts (its status      *)
(* CHECK), with times no later than the last possible expiry.                *)
ApprovalTypeOK ==
    /\ appr \in [Intents -> [status : Statuses, expires : Times, armed : Times \cup {NoTime}]]
    /\ now \in 0 .. MaxTime
    /\ creating \in [Operators ->
            [intent : Intents \cup {NoIntent}, status : Decision, stamp : 0 .. MaxTime]]
    /\ calls \in [Callers ->
            [op : Ops \cup {"none"}, intent : Intents \cup {NoIntent}, stamp : 0 .. MaxTime]]
    /\ credit \in [Intents -> Int]

(* One order per human decision: every use of an approval is paid for by a   *)
(* grant made after the last rejection and after the last use, whichever     *)
(* calls of consume_valid_approval, reject_intent and create_order_approval  *)
(* race on the row.                                                          *)
OneUsePerGrant == \A h \in Intents : credit[h] >= 0

(* arm_order_intent and the renewal of an approval: an armed approval that   *)
(* consume_valid_approval would still accept expires no sooner than its      *)
(* arming, even when a renewal with an old time stamp moves the expiry back. *)
ArmedWithinValidity ==
    \A h \in Intents : appr[h].armed # NoTime => appr[h].armed <= appr[h].expires

InCreation(h) == \E p \in Operators : creating[p].intent = h

(* A used approval stays used: create_order_approval refuses it, approve,    *)
(* arm and reject refuse it, and only a creation that read the row before    *)
(* the use can still overwrite it.                                           *)
UsedIsFinal ==
    [][\A h \in Intents :
          Status(h) = "USED" /\ ~InCreation(h) =>
              appr'[h].status = "USED" /\ ~InCreation(h)']_apprVars
=============================================================================
