--------------------------- MODULE PaymentProofs ---------------------------
(***************************************************************************)
(* What Payment guarantees for any orders, number of calls and faults:      *)
(* type correctness, refunds only of charges, true answers, and one charge    *)
(* per order.                                                               *)
(***************************************************************************)
EXTENDS Payment, TLAPS

\* A call that has begun is on an order, and a refund that recorded its row has one.
CallsSound ==
  \A c \in Calls :
    LET o == payCall[c].order
    IN  /\ payCall[c].st # "idle" => o \in Orders
        /\ payCall[c].op = "refund" /\ payCall[c].st = "recorded" => refunds[o] > 0

IInv == TypeOK /\ CallsSound /\ RefundsAreOfCharges /\ AnswersAreTruthful

CallType == [op     : {"none", "authorize", "refund"},
             st     : {"idle", "sent", "checked", "recorded", "replied"},
             order  : Orders \cup {NoOrder},
             method : Methods,
             answer : Answers]

USE DEF Statuses, Answers, Methods

\* Nothing has been asked for at the start.
LEMMA InitIInv == Init => IInv
  BY DEF Init, IInv, TypeOK, CallsSound, RefundsAreOfCharges, AnswersAreTruthful, NoCall, Replied

\* How a payment's status may move in one step; what the property ChargedOnce allows.
Moves ==
  \A o \in Orders : payments'[o] # payments[o] =>
    \/ payments[o] = "NONE" /\ payments'[o] \in {"AUTHORIZED", "DECLINED"}
    \/ payments[o] = "AUTHORIZED" /\ payments'[o] = "REFUNDED"

\* A call slot takes a new value that is right about the new tables; the others stay
\* right because the tables only move the way ChargedOnce allows.
LEMMA SlotKeeps ==
  ASSUME IInv, NEW c \in Calls, NEW call \in CallType,
         payCall' = [payCall EXCEPT ![c] = call],
         call.st # "idle" => call.order \in Orders,
         payments' \in [Orders -> Statuses], refunds' \in [Orders -> Nat],
         Moves, \A o \in Orders : refunds'[o] >= refunds[o],
         \A o \in Orders : refunds'[o] > 0 => payments'[o] \in {"AUTHORIZED", "REFUNDED"},
         \A o \in Orders : payments'[o] = "REFUNDED" => refunds'[o] > 0,
         call.op = "refund" /\ call.st \in {"checked", "recorded"} =>
           payments'[call.order] \in {"AUTHORIZED", "REFUNDED"},
         call.op = "refund" /\ call.st = "recorded" => refunds'[call.order] > 0,
         call.st = "replied" /\ call.answer = "AUTHORIZED" =>
           payments'[call.order] \in {"AUTHORIZED", "REFUNDED"},
         call.st = "replied" /\ call.answer \in {"DECLINED", "REFUNDED"} =>
           payments'[call.order] = call.answer
  PROVE  IInv'
  <1>1. \A d \in Calls : payCall'[d] = IF d = c THEN call ELSE payCall[d]
    BY DEF IInv, TypeOK
  <1>2. TypeOK'
    <2>1. payCall' \in [Calls -> CallType]
      BY DEF IInv, TypeOK, CallType
    <2> QED BY <2>1 DEF TypeOK, CallType
  <1>3. \A o \in Orders :
          /\ payments[o] \in {"AUTHORIZED", "REFUNDED"} =>
               payments'[o] \in {"AUTHORIZED", "REFUNDED"}
          /\ payments[o] \in {"DECLINED", "REFUNDED"} => payments'[o] = payments[o]
          /\ refunds[o] > 0 => refunds'[o] > 0
    BY DEF Moves, IInv, TypeOK
  <1>4. CallsSound'
    BY <1>1, <1>3 DEF IInv, CallsSound
  <1>5. RefundsAreOfCharges'
    <2>1. ASSUME NEW d \in Calls, payCall'[d].op = "refund",
                 payCall'[d].st \in {"checked", "recorded"}
          PROVE  payments'[payCall'[d].order] \in {"AUTHORIZED", "REFUNDED"}
      BY <1>1, <1>3, <2>1 DEF IInv, RefundsAreOfCharges, CallsSound
    <2> QED BY <2>1 DEF RefundsAreOfCharges
  <1>6. AnswersAreTruthful'
    <2> SUFFICES ASSUME NEW d \in Calls, payCall'[d].st = "replied"
                 PROVE  /\ payCall'[d].answer = "AUTHORIZED" =>
                             payments'[payCall'[d].order] \in {"AUTHORIZED", "REFUNDED"}
                        /\ payCall'[d].answer \in {"DECLINED", "REFUNDED"} =>
                             payments'[payCall'[d].order] = payCall'[d].answer
      BY DEF AnswersAreTruthful, Replied
    <2>1. CASE d = c
      BY <1>1, <2>1
    <2>2. CASE d # c
      BY <1>1, <1>3, <2>2 DEF IInv, AnswersAreTruthful, Replied, CallsSound
    <2> QED BY <2>1, <2>2
  <1> QED BY <1>2, <1>4, <1>5, <1>6 DEF IInv

\* A step that changes only the slot of one call.
LEMMA ReplyKeeps ==
  ASSUME IInv, NEW c \in Calls, NEW call \in CallType,
         payCall' = [payCall EXCEPT ![c] = call], UNCHANGED tableVars,
         call.st # "idle" => call.order \in Orders,
         call.op = "refund" /\ call.st = "checked" => payments[call.order] = "AUTHORIZED",
         call.st # "recorded",
         call.st = "replied" /\ call.answer \in {"AUTHORIZED", "DECLINED", "REFUNDED"} =>
           payments[call.order] = call.answer
  PROVE  IInv' /\ Moves
  <1>1. Moves
    BY DEF Moves, tableVars
  <1>2. \A o \in Orders :
          /\ refunds'[o] >= refunds[o]
          /\ refunds'[o] > 0 => payments'[o] \in {"AUTHORIZED", "REFUNDED"}
          /\ payments'[o] = "REFUNDED" => refunds'[o] > 0
    BY DEF tableVars, IInv, TypeOK, RefundsAreOfCharges
  <1>3. payments' \in [Orders -> Statuses] /\ refunds' \in [Orders -> Nat]
    BY DEF tableVars, IInv, TypeOK
  <1>4. IInv'
    BY <1>1, <1>2, <1>3, SlotKeeps DEF tableVars
  <1> QED BY <1>1, <1>4

\* The new value of a slot that advanced or replied, field by field.
Slot(c, st, a) == [op |-> payCall[c].op, st |-> st, order |-> payCall[c].order,
                   method |-> payCall[c].method, answer |-> a]

\* The EXCEPTs of a call record, field by field.
LEMMA FieldWise ==
  ASSUME NEW r \in CallType, NEW s \in {"checked", "recorded", "replied"}, NEW a \in Answers
  PROVE  /\ [r EXCEPT !.st = s] =
              [op |-> r.op, st |-> s, order |-> r.order, method |-> r.method, answer |-> r.answer]
         /\ [r EXCEPT !.st = s, !.answer = a] =
              [op |-> r.op, st |-> s, order |-> r.order, method |-> r.method, answer |-> a]
  <1> DEFINE new == [op |-> r.op, st |-> s, order |-> r.order, method |-> r.method,
                     answer |-> r.answer]
  <1>1. [r EXCEPT !.st = s] = new
    BY DEF CallType
  <1>2. [new EXCEPT !.answer = a] =
          [op |-> r.op, st |-> s, order |-> r.order, method |-> r.method, answer |-> a]
    OBVIOUS
  <1>3. [r EXCEPT !.st = s, !.answer = a] = [new EXCEPT !.answer = a]
    <2> HIDE DEF new
    <2> QED BY <1>1, Zenon
  <1> QED BY <1>1, <1>2, <1>3

\* A call in flight is on an order, and its next records are calls.
LEMMA SlotOf ==
  ASSUME IInv, NEW c \in Calls, payCall[c].st # "idle"
  PROVE  /\ payCall[c].order \in Orders
         /\ \A st \in {"checked", "recorded", "replied"}, a \in Answers :
              Slot(c, st, a) \in CallType
         /\ \A st \in {"checked", "recorded"} :
              Advance(c, st) => payCall' = [payCall EXCEPT ![c] = Slot(c, st, payCall[c].answer)]
         /\ payCall[c].answer \in Answers
         /\ \A a \in Answers :
              Reply(c, a) => payCall' = [payCall EXCEPT ![c] = Slot(c, "replied", a)]
  <1>1. payCall \in [Calls -> CallType]
    BY DEF IInv, TypeOK, CallType
  <1>2. payCall[c].order \in Orders
    BY DEF IInv, CallsSound
  <1>3. ASSUME NEW st \in {"checked", "recorded", "replied"}, NEW a \in Answers
        PROVE  Slot(c, st, a) \in CallType
    BY <1>1 DEF Slot, CallType
  <1>4. ASSUME NEW st \in {"checked", "recorded"}, Advance(c, st)
        PROVE  payCall' = [payCall EXCEPT ![c] = Slot(c, st, payCall[c].answer)]
    <2>1. payCall' = [payCall EXCEPT ![c] = [payCall[c] EXCEPT !.st = st]]
      BY <1>4, Zenon DEF Advance
    <2>2. [payCall[c] EXCEPT !.st = st] = Slot(c, st, payCall[c].answer)
      BY <1>1, FieldWise, Zenon DEF Slot
    <2> QED BY <2>1, <2>2, Zenon
  <1>5. ASSUME NEW a \in Answers, Reply(c, a)
        PROVE  payCall' = [payCall EXCEPT ![c] = Slot(c, "replied", a)]
    <2>1. payCall' = [payCall EXCEPT ![c] = [payCall[c] EXCEPT !.st = "replied", !.answer = a]]
      BY <1>5, <1>1 DEF Reply, CallType
    <2>2. [payCall[c] EXCEPT !.st = "replied", !.answer = a] = Slot(c, "replied", a)
      <3>1. payCall[c] \in CallType
        BY <1>1
      <3> QED BY <3>1, FieldWise, Zenon DEF Slot
    <2> QED BY <2>1, <2>2, Zenon
  <1>6. payCall[c].answer \in Answers
    BY <1>1 DEF CallType
  <1> QED BY <1>2, <1>3, <1>4, <1>5, <1>6

\* The caller fills a slot.
LEMMA SendKeeps ==
  ASSUME IInv, NEW c \in Calls, NEW o \in Orders, NEW m \in Methods,
         SendAuthorize(c, o, m) \/ SendRefund(c, o)
  PROVE  IInv' /\ Moves
  <1>1. PICK op \in {"authorize", "refund"}, n \in Methods :
          payCall' = [payCall EXCEPT ![c] = [op |-> op, st |-> "sent", order |-> o,
                                             method |-> n, answer |-> "NONE"]]
    BY DEF SendAuthorize, SendRefund
  <1> DEFINE call == [op |-> op, st |-> "sent", order |-> o, method |-> n, answer |-> "NONE"]
  <1>2. call \in CallType
    BY DEF CallType
  <1>3. UNCHANGED tableVars
    BY DEF SendAuthorize, SendRefund
  <1> QED BY <1>1, <1>2, <1>3, ReplyKeeps

\* Answers ERROR that change no table.
LEMMA ErrorKeeps ==
  ASSUME IInv, NEW c \in Calls, InFlight(c), Reply(c, "ERROR"), UNCHANGED tableVars
  PROVE  IInv' /\ Moves
  <1> DEFINE call == Slot(c, "replied", "ERROR")
  <1>1. payCall[c].st # "idle"
    BY DEF InFlight
  <1>2. call \in CallType /\ payCall' = [payCall EXCEPT ![c] = call] /\ call.order \in Orders
    BY <1>1, SlotOf DEF Slot
  <1>3. call.st = "replied" /\ call.answer = "ERROR"
    BY DEF Slot
  <1> HIDE DEF call
  <1> QED BY <1>2, <1>3, ReplyKeeps

\* A SELECT moves its call, and answers when it finds the end of the story.
LEMMA LookupKeeps ==
  ASSUME IInv, NEW c \in Calls, AuthorizeLookup(c) \/ RefundLookup(c)
  PROVE  IInv' /\ Moves
  <1> DEFINE o == payCall[c].order
  <1>1. payCall[c].st # "idle" /\ UNCHANGED tableVars
    BY DEF AuthorizeLookup, RefundLookup, At
  <1>2. o \in Orders
    BY <1>1, SlotOf
  <1>3. payments[o] \in Statuses
    BY <1>2 DEF IInv, TypeOK
  <1>4. CASE Advance(c, "checked")
    <2> DEFINE call == Slot(c, "checked", payCall[c].answer)
    <2>1. call \in CallType /\ payCall' = [payCall EXCEPT ![c] = call]
      BY <1>1, <1>4, SlotOf
    <2>2. call.st = "checked" /\ call.order = o /\ call.op = payCall[c].op
      BY DEF Slot
    <2>3. call.op = "refund" => payments[o] = "AUTHORIZED"
      <3>1. payCall[c].op = "refund" => RefundLookup(c)
        BY DEF AuthorizeLookup, At
      <3>2. RefundLookup(c) => payments[o] = "AUTHORIZED" \/ Reply(c, "ERROR")
        BY DEF RefundLookup
      <3>3. payCall'[c].st = "checked"
        BY <2>1, <2>2 DEF IInv, TypeOK
      <3>4. ~Reply(c, "ERROR")
        BY <3>3 DEF Reply, IInv, TypeOK
      <3> QED BY <2>2, <3>1, <3>2, <3>4
    <2> HIDE DEF call
    <2> QED BY <1>1, <1>2, <2>1, <2>2, <2>3, ReplyKeeps
  <1>5. CASE Reply(c, "ERROR")
    BY <1>1, <1>5, ErrorKeeps DEF AuthorizeLookup, RefundLookup, At, InFlight
  <1>6. CASE AuthorizeLookup(c) /\ payments[o] # "NONE"
    <2> DEFINE call == Slot(c, "replied", payments[o])
    <2>1. Reply(c, payments[o])
      BY <1>6 DEF AuthorizeLookup
    <2>2. call \in CallType /\ payCall' = [payCall EXCEPT ![c] = call]
      BY <1>1, <1>3, <2>1, SlotOf
    <2>3. call.st = "replied" /\ call.order = o /\ call.answer = payments[o]
      BY DEF Slot
    <2> HIDE DEF call
    <2> QED BY <1>1, <1>2, <2>2, <2>3, ReplyKeeps
  <1> QED BY <1>4, <1>5, <1>6 DEF AuthorizeLookup, RefundLookup

\* The INSERT of the payment, whatever its caller is told.
LEMMA ChargeKeeps ==
  ASSUME IInv, NEW c \in Calls, InsertPayment(c),
         Reply(c, chargePsp(payCall[c].method)) \/ Reply(c, "ERROR")
  PROVE  IInv' /\ Moves
  <1> DEFINE o == payCall[c].order
             psp == chargePsp(payCall[c].method)
  <1>1. payCall[c].st # "idle"
    BY DEF InsertPayment, At
  <1>2. o \in Orders
    BY <1>1, SlotOf
  <1>3. psp \in {"AUTHORIZED", "DECLINED"}
    BY DEF chargePsp
  <1>4. payments' = [payments EXCEPT ![o] = psp] /\ payments[o] = "NONE" /\ refunds' = refunds
    BY DEF InsertPayment
  <1>5. Moves
    BY <1>2, <1>3, <1>4 DEF Moves, IInv, TypeOK
  <1>6. PICK a \in {psp, "ERROR"} : Reply(c, a)
    OBVIOUS
  <1> DEFINE call == Slot(c, "replied", a)
  <1>7. call \in CallType /\ payCall' = [payCall EXCEPT ![c] = call]
    BY <1>1, <1>3, <1>6, SlotOf
  <1>8. call.st = "replied" /\ call.order = o /\ call.answer = a
    BY DEF Slot
  <1>9. payments' \in [Orders -> Statuses] /\ refunds' \in [Orders -> Nat] /\ payments'[o] = psp
    BY <1>2, <1>3, <1>4 DEF IInv, TypeOK
  <1>10. \A x \in Orders :
           /\ refunds'[x] >= refunds[x]
           /\ refunds'[x] > 0 => payments'[x] \in {"AUTHORIZED", "REFUNDED"}
           /\ payments'[x] = "REFUNDED" => refunds'[x] > 0
    BY <1>2, <1>3, <1>4 DEF IInv, TypeOK, RefundsAreOfCharges
  <1> HIDE DEF call, psp
  <1>11. IInv'
    BY <1>2, <1>3, <1>5, <1>7, <1>8, <1>9, <1>10, SlotKeeps
  <1> QED BY <1>5, <1>11

\* The INSERT of a refund row, after which the call goes on or is told ERROR.
LEMMA RecordKeeps ==
  ASSUME IInv, NEW c \in Calls, InsertRefund(c), Advance(c, "recorded") \/ Reply(c, "ERROR")
  PROVE  IInv' /\ Moves
  <1> DEFINE o == payCall[c].order
  <1>1. payCall[c].st # "idle" /\ payCall[c].op = "refund" /\ payCall[c].st = "checked"
    BY DEF InsertRefund, At
  <1>2. o \in Orders
    BY <1>1, SlotOf
  <1>3. refunds' = [refunds EXCEPT ![o] = @ + 1] /\ payments' = payments
    BY DEF InsertRefund
  <1>4. payments[o] \in {"AUTHORIZED", "REFUNDED"}
    BY <1>1 DEF IInv, RefundsAreOfCharges
  <1>5. Moves
    BY <1>3 DEF Moves
  <1>6. payments' \in [Orders -> Statuses] /\ refunds' \in [Orders -> Nat] /\ refunds'[o] > 0
    BY <1>2, <1>3 DEF IInv, TypeOK
  <1>7. \A x \in Orders :
          /\ refunds'[x] >= refunds[x]
          /\ refunds'[x] > 0 => payments'[x] \in {"AUTHORIZED", "REFUNDED"}
          /\ payments'[x] = "REFUNDED" => refunds'[x] > 0
    BY <1>2, <1>3, <1>4 DEF IInv, TypeOK, RefundsAreOfCharges
  <1>8. PICK call \in CallType :
          /\ payCall' = [payCall EXCEPT ![c] = call]
          /\ call.order = o
          /\ call.st = "recorded" \/ (call.st = "replied" /\ call.answer = "ERROR")
    <2>1. CASE Advance(c, "recorded")
      <3> DEFINE next == Slot(c, "recorded", payCall[c].answer)
      <3>1. next \in CallType /\ payCall' = [payCall EXCEPT ![c] = next]
        BY <1>1, <2>1, SlotOf
      <3>2. next.order = o /\ next.st = "recorded"
        BY DEF Slot
      <3> HIDE DEF next
      <3> QED BY <3>1, <3>2
    <2>2. CASE Reply(c, "ERROR")
      <3> DEFINE next == Slot(c, "replied", "ERROR")
      <3>1. next \in CallType /\ payCall' = [payCall EXCEPT ![c] = next]
        BY <1>1, <2>2, SlotOf
      <3>2. next.order = o /\ next.st = "replied" /\ next.answer = "ERROR"
        BY DEF Slot
      <3> HIDE DEF next
      <3> QED BY <3>1, <3>2
    <2> QED BY <2>1, <2>2
  <1>9. IInv'
    BY <1>2, <1>3, <1>4, <1>5, <1>6, <1>7, <1>8, SlotKeeps
  <1> QED BY <1>5, <1>9

\* The UPDATE to REFUNDED, whatever the caller is told.
LEMMA MarkKeeps ==
  ASSUME IInv, NEW c \in Calls, MarkRefunded(c), Reply(c, "REFUNDED") \/ Reply(c, "ERROR")
  PROVE  IInv' /\ Moves
  <1> DEFINE o == payCall[c].order
  <1>1. payCall[c].st # "idle" /\ payCall[c].op = "refund" /\ payCall[c].st = "recorded"
    BY DEF MarkRefunded, At
  <1>2. o \in Orders
    BY <1>1, SlotOf
  <1>3. payments' = [payments EXCEPT ![o] = "REFUNDED"] /\ refunds' = refunds
    BY DEF MarkRefunded
  <1>4. payments[o] \in {"AUTHORIZED", "REFUNDED"} /\ refunds[o] > 0
    BY <1>1 DEF IInv, RefundsAreOfCharges, CallsSound
  <1>5. Moves
    BY <1>2, <1>3, <1>4 DEF Moves, IInv, TypeOK
  <1>6. payments' \in [Orders -> Statuses] /\ refunds' \in [Orders -> Nat]
        /\ payments'[o] = "REFUNDED"
    BY <1>2, <1>3 DEF IInv, TypeOK
  <1>7. \A x \in Orders :
          /\ refunds'[x] >= refunds[x]
          /\ refunds'[x] > 0 => payments'[x] \in {"AUTHORIZED", "REFUNDED"}
          /\ payments'[x] = "REFUNDED" => refunds'[x] > 0
    BY <1>2, <1>3, <1>4 DEF IInv, TypeOK, RefundsAreOfCharges
  <1>8. PICK a \in {"REFUNDED", "ERROR"} : Reply(c, a)
    OBVIOUS
  <1> DEFINE call == Slot(c, "replied", a)
  <1>9. call \in CallType /\ payCall' = [payCall EXCEPT ![c] = call]
    BY <1>1, <1>8, SlotOf
  <1>10. call.st = "replied" /\ call.order = o /\ call.answer = a
    BY DEF Slot
  <1> HIDE DEF call
  <1>11. IInv'
    BY <1>2, <1>5, <1>6, <1>7, <1>8, <1>9, <1>10, SlotKeeps
  <1> QED BY <1>5, <1>11

\* Every decision and every fault of the service.
LEMMA ServiceKeeps ==
  ASSUME IInv, NEW c \in Calls, ServiceStep(c)
  PROVE  IInv' /\ Moves
  <1>1. CASE AuthorizeLookup(c) \/ RefundLookup(c)
    BY <1>1, LookupKeeps
  <1>2. CASE AuthorizeCharge(c) \/ AuthorizeAckLost(c)
    BY <1>2, ChargeKeeps DEF AuthorizeCharge, AuthorizeAckLost
  <1>3. CASE AuthorizeDuplicate(c) \/ AuthorizeError(c) \/ RefundError(c)
    BY <1>3, ErrorKeeps DEF AuthorizeDuplicate, AuthorizeError, RefundError, At, InFlight
  <1>4. CASE RefundRecord(c)
    BY <1>4, RecordKeeps DEF RefundRecord
  <1>5. CASE RefundMark(c)
    BY <1>5, MarkKeeps DEF RefundMark
  <1>6. CASE RefundAckLost(c)
    BY <1>6, RecordKeeps, MarkKeeps DEF RefundAckLost
  <1> QED BY <1>1, <1>2, <1>3, <1>4, <1>5, <1>6 DEF ServiceStep, Decide, Fail

\* The service under callers that may always ask for a refund: MaxRefunds bounds what TLC
\* explores and no part of the argument.
AnyNext ==
  \E c \in Calls :
    \/ \E o \in Orders, m \in Methods : SendAuthorize(c, o, m)
    \/ \E o \in Orders : SendRefund(c, o)
    \/ ServiceStep(c)
Unbounded == Init /\ [][AnyNext]_vars

\* Every step keeps the invariant, and moves no status it may not.
LEMMA NextIInv == IInv /\ [AnyNext]_vars => IInv' /\ Moves
  <1> SUFFICES ASSUME IInv, [AnyNext]_vars PROVE IInv' /\ Moves
    OBVIOUS
  <1>1. CASE UNCHANGED vars
    BY <1>1 DEF vars, IInv, TypeOK, CallsSound, RefundsAreOfCharges, AnswersAreTruthful,
                Replied, Moves
  <1>2. CASE AnyNext
    <2>1. PICK c \in Calls :
            \/ \E o \in Orders, m \in Methods : SendAuthorize(c, o, m)
            \/ \E o \in Orders : SendRefund(c, o)
            \/ ServiceStep(c)
      BY <1>2 DEF AnyNext
    <2>2. CASE \E o \in Orders, m \in Methods : SendAuthorize(c, o, m)
      BY <2>2, SendKeeps
    <2>3. CASE \E o \in Orders : SendRefund(c, o)
      BY <2>3, SendKeeps
    <2>4. CASE ServiceStep(c)
      BY <2>4, ServiceKeeps
    <2> QED BY <2>1, <2>2, <2>3, <2>4
  <1> QED BY <1>1, <1>2

\* The bound only takes steps away.
LEMMA BoundOnlyStops == Spec => Unbounded
  <1>1. [Next]_vars => [AnyNext]_vars
    BY DEF Next, AnyNext
  <1> QED BY <1>1, PTL DEF Spec, Unbounded

\* The inductive invariant holds of every behaviour, however many refunds are asked for.
THEOREM Invariance == Unbounded => []IInv
  BY InitIInv, NextIInv, PTL DEF Unbounded

\* However many refunds are asked for: no refund without a charge, no REFUNDED status without
\* a refund row, and what a caller was told stays true.
THEOREM UnboundedSound == Unbounded => [](RefundsAreOfCharges /\ AnswersAreTruthful)
  <1>1. IInv => RefundsAreOfCharges /\ AnswersAreTruthful
    BY DEF IInv
  <1> QED BY <1>1, Invariance, PTL

\* However many refunds are asked for, the decision on a payment is taken once.
THEOREM UnboundedCharge == Unbounded => ChargedOnce
  <1>1. IInv /\ [AnyNext]_vars => [Moves]_vars
    BY NextIInv
  <1>2. [Moves]_vars =>
          [\A o \in Orders : payments'[o] # payments[o] =>
             \/ payments[o] = "NONE" /\ payments'[o] \in {"AUTHORIZED", "DECLINED"}
             \/ payments[o] = "AUTHORIZED" /\ payments'[o] = "REFUNDED"]_vars
    BY DEF Moves
  <1> QED BY <1>1, <1>2, Invariance, PTL DEF Unbounded, ChargedOnce

\* Tables and messages keep their types.
THEOREM TypeCorrect == Spec => []TypeOK
  BY BoundOnlyStops, Invariance, PTL DEF IInv

\* No refund without a charge, no REFUNDED status without a refund row.
THEOREM RefundsSound == Spec => []RefundsAreOfCharges
  BY BoundOnlyStops, Invariance, PTL DEF IInv

\* What a caller was told about a payment is and stays true.
THEOREM AnswersSound == Spec => []AnswersAreTruthful
  BY BoundOnlyStops, Invariance, PTL DEF IInv

\* The decision on an order's payment is taken once, and a decline is final.
THEOREM SingleCharge == Spec => ChargedOnce
  BY BoundOnlyStops, UnboundedCharge, PTL
=============================================================================
