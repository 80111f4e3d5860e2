------------------------------ MODULE Payment ------------------------------
(***************************************************************************)
(* The payment service (apps/payment-service): AuthorizePayment and         *)
(* RefundPayment.  Neither handler opens a transaction: every pool.query is  *)
(* a step of its own, and any two calls interleave between them.            *)
(*                                                                          *)
(* payments.order_id is UNIQUE, so a payment is named by its order; an empty *)
(* paymentId in a reply is the status "ERROR".                              *)
(***************************************************************************)
EXTENDS Integers, FiniteSets

CONSTANTS Orders,     \* orders a payment is made for
          Calls,      \* gRPC calls in flight, one per caller
          NoOrder,    \* the order of a call slot never used
          MaxRefunds, \* bound: no refund is asked for an order with this many rows
          Faults      \* "abort": a statement fails and changes nothing
                      \* "ackLost": a statement takes effect but its answer is an error

ASSUME OrderAssumption == NoOrder \notin Orders
ASSUME RefundAssumption == MaxRefunds \in Nat

VARIABLES payments,   \* payments.status, "NONE" while the row is absent
          refunds,    \* number of rows of the refunds table, per order
          payCall     \* the calls: operation, progress and reply of each

tableVars == <<payments, refunds>>
vars == <<payments, refunds, payCall>>

Statuses == {"NONE", "AUTHORIZED", "DECLINED", "REFUNDED"}
Answers == {"NONE", "AUTHORIZED", "DECLINED", "REFUNDED", "ERROR"}
Methods == {"good", "declined"}
NoCall == [op |-> "none", st |-> "idle", order |-> NoOrder, method |-> "good", answer |-> "NONE"]

InFlight(c) == payCall[c].st \in {"sent", "checked", "recorded"}
Replied(c) == payCall[c].st = "replied"
Answered(c, op, answer) ==
  payCall[c].op = op /\ payCall[c].st = "replied" /\ payCall[c].answer = answer

Init ==
  /\ payments = [o \in Orders |-> "NONE"]
  /\ refunds = [o \in Orders |-> 0]
  /\ payCall = [c \in Calls |-> NoCall]

-----------------------------------------------------------------------------
(* The caller's side. *)

SendAuthorize(c, o, method) ==
  /\ ~InFlight(c)
  /\ payCall' = [payCall EXCEPT ![c] = [op |-> "authorize", st |-> "sent", order |-> o,
                                        method |-> method, answer |-> "NONE"]]
  /\ UNCHANGED tableVars

SendRefund(c, o) ==
  /\ ~InFlight(c)
  /\ payCall' = [payCall EXCEPT ![c] = [op |-> "refund", st |-> "sent", order |-> o,
                                        method |-> "good", answer |-> "NONE"]]
  /\ UNCHANGED tableVars

-----------------------------------------------------------------------------
(* The service's side. *)

At(c, op, st) == payCall[c].op = op /\ payCall[c].st = st
Advance(c, st) == payCall' = [payCall EXCEPT ![c].st = st]
Reply(c, answer) == payCall' = [payCall EXCEPT ![c].st = "replied", ![c].answer = answer]

\* Mutant: a refused charge is stored as the answer of a failed call.
chargePspError(method) == IF method = "good" THEN "AUTHORIZED" ELSE "ERROR"

\* The mock PSP: a declined or malformed payment method, or an authorization.
chargePsp(method) == IF method = "good" THEN "AUTHORIZED" ELSE "DECLINED"

\* Mutant: any stored row is replayed as a success.
AuthorizeLookupOptimistic(c) ==
  /\ At(c, "authorize", "sent")
  /\ IF payments[payCall[c].order] = "NONE" THEN Advance(c, "checked") ELSE Reply(c, "AUTHORIZED")
  /\ UNCHANGED tableVars

\* SELECT ... WHERE order_id: replay the stored result, or go on to charge.
AuthorizeLookup(c) ==
  LET stored == payments[payCall[c].order]
  IN  /\ At(c, "authorize", "sent")
      /\ IF stored = "NONE" THEN Advance(c, "checked") ELSE Reply(c, stored)
      /\ UNCHANGED tableVars

\* Mutant: ON CONFLICT (order_id) DO UPDATE.
InsertPaymentUpsert(c) ==
  /\ At(c, "authorize", "checked")
  /\ payments' = [payments EXCEPT ![payCall[c].order] = chargePsp(payCall[c].method)]
  /\ UNCHANGED refunds

\* The INSERT of the payment row, refused by UNIQUE (order_id) if there is one.
InsertPayment(c) ==
  LET o == payCall[c].order
  IN  /\ At(c, "authorize", "checked")
      /\ payments[o] = "NONE"
      /\ payments' = [payments EXCEPT ![o] = chargePsp(payCall[c].method)]
      /\ UNCHANGED refunds

AuthorizeCharge(c) == InsertPayment(c) /\ Reply(c, chargePsp(payCall[c].method))

\* Mutant: the catch clause rethrows what the UNIQUE constraint raised.
AuthorizeDuplicateUnanswered(c) == FALSE

\* UNIQUE (order_id) is violated: status ERROR with no payment id.
AuthorizeDuplicate(c) ==
  /\ At(c, "authorize", "checked")
  /\ payments[payCall[c].order] # "NONE"
  /\ Reply(c, "ERROR")
  /\ UNCHANGED tableVars

\* The catch clause, after either statement failed.
AuthorizeError(c) ==
  /\ "abort" \in Faults
  /\ payCall[c].op = "authorize"
  /\ InFlight(c)
  /\ Reply(c, "ERROR")
  /\ UNCHANGED tableVars

AuthorizeAckLost(c) == "ackLost" \in Faults /\ InsertPayment(c) /\ Reply(c, "ERROR")

\* Mutant: the status of the row found is not looked at.
RefundLookupAnyStatus(c) ==
  /\ At(c, "refund", "sent")
  /\ IF payments[payCall[c].order] # "NONE" THEN Advance(c, "checked") ELSE Reply(c, "ERROR")
  /\ UNCHANGED tableVars

\* SELECT status: only an AUTHORIZED payment is refunded.
RefundLookup(c) ==
  /\ At(c, "refund", "sent")
  /\ IF payments[payCall[c].order] = "AUTHORIZED" THEN Advance(c, "checked") ELSE Reply(c, "ERROR")
  /\ UNCHANGED tableVars

InsertRefund(c) ==
  /\ At(c, "refund", "checked")
  /\ refunds' = [refunds EXCEPT ![payCall[c].order] = @ + 1]
  /\ UNCHANGED payments

RefundRecord(c) == InsertRefund(c) /\ Advance(c, "recorded")

\* UPDATE payments SET status = 'REFUNDED', whatever the status is by now.
MarkRefunded(c) ==
  /\ At(c, "refund", "recorded")
  /\ payments' = [payments EXCEPT ![payCall[c].order] = "REFUNDED"]
  /\ UNCHANGED refunds

RefundMark(c) == MarkRefunded(c) /\ Reply(c, "REFUNDED")

RefundError(c) ==
  /\ "abort" \in Faults
  /\ payCall[c].op = "refund"
  /\ InFlight(c)
  /\ Reply(c, "ERROR")
  /\ UNCHANGED tableVars

RefundAckLost(c) ==
  /\ "ackLost" \in Faults
  /\ InsertRefund(c) \/ MarkRefunded(c)
  /\ Reply(c, "ERROR")

\* What the code decides by itself, and what a fault decides.
Decide(c) ==
  \/ AuthorizeLookup(c)
  \/ AuthorizeCharge(c)
  \/ AuthorizeDuplicate(c)
  \/ RefundLookup(c)
  \/ RefundRecord(c)
  \/ RefundMark(c)

Fail(c) ==
  \/ AuthorizeError(c)
  \/ AuthorizeAckLost(c)
  \/ RefundError(c)
  \/ RefundAckLost(c)

ServiceStep(c) == Decide(c) \/ Fail(c)

-----------------------------------------------------------------------------
Next ==
  \E c \in Calls :
    \/ \E o \in Orders, m \in Methods : SendAuthorize(c, o, m)
    \/ \E o \in Orders : refunds[o] < MaxRefunds /\ SendRefund(c, o)
    \/ ServiceStep(c)

\* The event loop and the database keep working; no fault is owed to anybody.
Fairness == \A c \in Calls : WF_vars(Decide(c))

Spec == Init /\ [][Next]_vars
FairSpec == Spec /\ Fairness

-----------------------------------------------------------------------------
(* Properties *)

\* Every variable holds a value of its table's or message's type.
TypeOK ==
  /\ payments \in [Orders -> Statuses]
  /\ refunds \in [Orders -> Nat]
  /\ payCall \in [Calls -> [op     : {"none", "authorize", "refund"},
                            st     : {"idle", "sent", "checked", "recorded", "replied"},
                            order  : Orders \cup {NoOrder},
                            method : Methods,
                            answer : Answers]]

\* Money goes back only where money was taken: a refund row, a REFUNDED status or a
\* refund past its status check belongs to a payment that was authorized, and no
\* payment is marked REFUNDED without its row in refunds, in spite of the two
\* statements not being a transaction and of the check being stale when used.
RefundsAreOfCharges ==
  /\ \A o \in Orders :
       /\ refunds[o] > 0 => payments[o] \in {"AUTHORIZED", "REFUNDED"}
       /\ payments[o] = "REFUNDED" => refunds[o] > 0
  /\ \A c \in Calls :
       payCall[c].op = "refund" /\ payCall[c].st \in {"checked", "recorded"} =>
         payments[payCall[c].order] \in {"AUTHORIZED", "REFUNDED"}

\* The order service confirms on an AUTHORIZED answer and records the payment id of
\* any answer but ERROR: such an answer is the truth about the row, then or later.
AnswersAreTruthful ==
  \A c \in Calls : Replied(c) =>
    LET o == payCall[c].order
    IN  /\ payCall[c].answer = "AUTHORIZED" => payments[o] \in {"AUTHORIZED", "REFUNDED"}
        /\ payCall[c].answer \in {"DECLINED", "REFUNDED"} => payments[o] = payCall[c].answer

\* The decision on an order's payment is recorded once, in spite of concurrent
\* authorizations that both found no row: a status moves only from no row to a decision
\* and from AUTHORIZED to REFUNDED, so a decline is final.  (chargePsp itself runs
\* before the UNIQUE constraint speaks, so this says nothing of a PSP with a memory.)
ChargedOnce ==
  [][\A o \in Orders : payments'[o] # payments[o] =>
       \/ payments[o] = "NONE" /\ payments'[o] \in {"AUTHORIZED", "DECLINED"}
       \/ payments[o] = "AUTHORIZED" /\ payments'[o] = "REFUNDED"]_vars

\* Every call is answered, whatever fails in the handler.
CallsAnswered == \A c \in Calls : InFlight(c) ~> Replied(c)
=============================================================================
