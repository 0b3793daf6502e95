------------------------------ MODULE Payments ------------------------------
(***************************************************************************)
(* The money of the reservations of one agent: orders paid at the gateway, *)
(* manual and offline payments that an administrator verifies, payments    *)
(* taken at check-out, the agent's prepaid wallet with its recharges,      *)
(* debits and refunds.                                                     *)
(*                                                                         *)
(* A payment at the gateway reaches the code along two paths that race:    *)
(* the browser's callback (verifyCheckoutPayment) and the gateway's        *)
(* webhook, whose events may be late, repeated, reordered or lost.  Both   *)
(* end in one Serializable transaction, an action here; the webhook writes *)
(* the event before it, outside it, so that a failure or a crash can come  *)
(* between.  Amounts are units of money; a sum is a cardinality, so that   *)
(* no recursion is needed.                                                 *)
(***************************************************************************)
EXTENDS Integers, FiniteSets

CONSTANTS Reservation,   \* reservations that may be booked
          Total,         \* Reservation.totalAmount
          AtBooking,     \* the part due when booking (payment terms)
          AgentSource,   \* the reservations whose source is AGENT
          Wallet,        \* the agent's wallet, as what a payment is for
          Order,         \* gateway orders (PaymentAttempt, WalletRechargeAttempt)
          Slip,          \* manual and offline payments (verified later)
          Draw,          \* payments from the wallet
          Till,          \* payments taken when a guest checks out
          For,           \* what each of them pays for
          Extras,        \* the most that folio charges add to the stay
          Offline,       \* the slips an agent submits with a proof
          FirstNight,    \* penalty of a late cancellation
          ClientKey,     \* idempotency keys a client may send with a cancel
          Declinable,    \* orders whose first try to pay may fail
          Successes,     \* success events the gateway sends for one payment
          MaxAmount      \* the largest amount (bound)

PaymentId == Order \cup Slip \cup Draw \cup Till

ASSUME PaymentsAssumption ==
    /\ MaxAmount \in Nat /\ Successes \in Nat
    /\ IsFiniteSet(PaymentId) /\ IsFiniteSet(Reservation)
    /\ Order \cap Slip = {} /\ Draw \cap (Order \cup Slip) = {}
    /\ Till \cap (Order \cup Slip \cup Draw) = {}
    /\ Wallet \notin Reservation
    /\ For \in [PaymentId -> Reservation \cup {Wallet}]
    /\ \A d \in Draw \cup Till : For[d] # Wallet
    /\ Total \in [Reservation -> 0..MaxAmount]
    /\ AtBooking \in [Reservation -> 0..MaxAmount]
    /\ \A r \in Reservation : AtBooking[r] <= Total[r]
    /\ Offline \subseteq Slip /\ Declinable \subseteq Order
    /\ FirstNight \in Nat /\ Extras \in Nat
    /\ ClientKey \cap Reservation = {}

VARIABLES status,      \* Reservation.status, "NONE" before it is created
          payStatus,   \* Reservation.paymentStatus
          advance,     \* Reservation.advanceAmount
          balance,     \* Reservation.balanceAmount
          untold,      \* history: payments recorded since the amounts were
          stay,        \* Reservation.stayStatus
          due,         \* the sum of the milestones whose dueAt has passed
          attempt,     \* status of the attempt of an order
          amount,      \* amount of each payment
          payment,     \* Payment record (for a slip on the wallet, its attempt)
          wallet,      \* AgentWallet.balance
          credits,     \* RECHARGE transactions of each order and slip
          refunded,    \* sum of the BOOKING_REFUND transactions
          cancelKeys,  \* CancellationRequest.idempotencyKey (unique)
          captured,    \* gateway: orders it took the money of
          declined,    \* gateway: orders with a try that failed
          hook,        \* WebhookEvent.status, "NONE" before it is written
          handling,    \* events whose request is still in the API process
          answered     \* events the gateway got a 2xx answer for

bookVars == <<status, payStatus, advance, balance, untold>>
stayVars == <<stay, due>>
walletVars == <<wallet, credits, refunded>>
gateVars == <<captured, declined>>
hookVars == <<hook, handling, answered>>
moneyVars == <<bookVars, stayVars, attempt, amount, payment, walletVars, cancelKeys>>
payVars == <<moneyVars, gateVars, hookVars>>

Event == [order : Order, outcome : {"SUCCESS"}, copy : 1..Successes]
         \cup [order : Order, outcome : {"FAILED"}, copy : {1}]

PaymentStatus == {"UNPAID", "PENDING", "PARTIALLY_PAID", "PAID", "FAILED",
                  "REFUND_PENDING", "PARTIALLY_REFUNDED", "REFUNDED"}
PayIntent == {"PENDING_PAYMENT", "CONFIRMED"}

-----------------------------------------------------------------------------
\* The sum of amt[p] over the payments S.
Sum(amt, S) == Cardinality({u \in S \X (1..MaxAmount) : u[2] <= amt[u[1]]})

\* What reservation r has in verified payments, of any kind or of the wallet.
VerifiedOf(pay, r) == {p \in PaymentId : For[p] = r /\ pay[p] = "VERIFIED"}
Paid(r) == Sum(amount, VerifiedOf(payment, r))
\* Of the wallet are the draws: that a payment at check-out may call itself one
\* of the wallet, which it does not debit, is left out.
WalletPaid(r) == Sum(amount, VerifiedOf(payment, r) \cap Draw)
Told(r) == Sum(amount, VerifiedOf(payment, r) \ untold)
AwaitsReview(r) == \E p \in PaymentId : For[p] = r /\ payment[p] = "UNVERIFIED"

NonNegative(n) == IF n > 0 THEN n ELSE 0
LesserOf(a, b) == IF a < b THEN a ELSE b

\* The amounts of r are written anew: no payment of it is untold.
Tell(r) == untold' = {p \in untold : For[p] # r}

\* What the verified sum `paid` makes of reservation r; the table's CHECK
\* (advanceAmount <= totalAmount) aborts a transaction that would overpay.
Settle(r, paid, newStatus) ==
    /\ paid <= Total[r]
    /\ advance' = [advance EXCEPT ![r] = paid]
    /\ balance' = [balance EXCEPT ![r] = NonNegative(Total[r] - paid)]
    /\ status' = [status EXCEPT ![r] = newStatus]
    /\ Tell(r)

\* Mutant: a reservation paid in full is confirmed whatever its status.
RecalculateAny(r, pay) ==
    LET paid == Sum(amount, VerifiedOf(pay, r))
    IN  /\ payment' = pay
        /\ Settle(r, paid, IF paid = Total[r] THEN "CONFIRMED" ELSE status[r])
        /\ UNCHANGED payStatus

\* recalculateTx, in the transaction that leaves the payments as in pay.
Recalculate(r, pay) ==
    LET paid == Sum(amount, VerifiedOf(pay, r))
        full == paid >= Total[r]
        agentPaid == r \in AgentSource /\ paid > 0
        awaits == \E p \in PaymentId : For[p] = r /\ pay[p] = "UNVERIFIED"
    IN  /\ payment' = pay
        /\ Settle(r, paid, IF status[r] = "PENDING_PAYMENT" /\ (full \/ agentPaid)
                           THEN "CONFIRMED" ELSE status[r])
        /\ payStatus' = [payStatus EXCEPT ![r] =
              IF full THEN "PAID" ELSE IF paid > 0 THEN "PARTIALLY_PAID"
              ELSE IF awaits THEN "PENDING" ELSE "UNPAID"]

\* The wallet is credited with the recharge p.
Credit(p) ==
    /\ wallet' = wallet + amount[p]
    /\ credits' = [credits EXCEPT ![p] = @ + 1]

Payable(r) == status[r] \in PayIntent

PInit ==
    /\ status = [r \in Reservation |-> "NONE"]
    /\ payStatus = [r \in Reservation |-> "UNPAID"]
    /\ advance = [r \in Reservation |-> 0]
    /\ balance = [r \in Reservation |-> 0]
    /\ untold = {}
    /\ stay = [r \in Reservation |-> "EXPECTED"]
    /\ due = AtBooking
    /\ attempt = [o \in Order |-> "NONE"]
    /\ amount = [p \in PaymentId |-> 0]
    /\ payment = [p \in PaymentId |-> "NONE"]
    /\ wallet = 0
    /\ credits = [p \in Order \cup Slip |-> 0]
    /\ refunded = [r \in Reservation |-> 0]
    /\ cancelKeys = {}
    /\ captured = {} /\ declined = {}
    /\ hook = [e \in Event |-> "NONE"]
    /\ handling = {} /\ answered = {}

(***************************************************************************)
(* Bookings and the wallet.                                                *)
(***************************************************************************)

\* A payment of a from the wallet, recorded as draw d of reservation r.
WalletPayment(d, r, a) ==
    /\ payment[d] = "NONE" /\ For[d] = r
    /\ wallet >= a
    /\ wallet' = wallet - a
    /\ amount' = [amount EXCEPT ![d] = a]
    /\ payment' = [payment EXCEPT ![d] = "VERIFIED"]

\* createFromHold by an agent who pays what is due at booking by wallet.
BookByWallet(r, d) ==
    /\ status[r] = "NONE" /\ AtBooking[r] > 0
    /\ WalletPayment(d, r, AtBooking[r])
    /\ Settle(r, AtBooking[r], "CONFIRMED")
    /\ payStatus' = [payStatus EXCEPT ![r] =
          IF AtBooking[r] = Total[r] THEN "PAID" ELSE "PARTIALLY_PAID"]
    /\ UNCHANGED <<stayVars, attempt, credits, refunded, cancelKeys, gateVars, hookVars>>

\* createFromHold otherwise: nothing due at booking, or paid another way.
BookUnpaid(r) ==
    /\ status[r] = "NONE"
    /\ Settle(r, 0, "PENDING_PAYMENT")
    /\ UNCHANGED <<payStatus, stayVars, attempt, amount, payment, walletVars,
                   cancelKeys, gateVars, hookVars>>

\* The next milestone of the reservation's payment terms falls due.
MilestoneFallsDue(r) ==
    /\ Payable(r) /\ due[r] < Total[r]
    /\ due' = [due EXCEPT ![r] = Total[r]]
    /\ UNCHANGED <<bookVars, stay, attempt, amount, payment, walletVars, cancelKeys,
                   gateVars, hookVars>>

\* What a milestone payment of a makes of reservation r.
MilestonePaid(r, a) ==
    LET paid == Paid(r) + a
        full == paid >= Total[r]
    IN  /\ Settle(r, paid, IF full /\ status[r] = "PENDING_PAYMENT"
                           THEN "CONFIRMED" ELSE status[r])
        /\ payStatus' = [payStatus EXCEPT ![r] =
              IF full THEN "PAID" ELSE "PARTIALLY_PAID"]
        /\ UNCHANGED <<stayVars, attempt, credits, refunded, cancelKeys, gateVars, hookVars>>

\* Mutant: the wallet is charged all that is due, paid before or not.
PayDueAgain(r, d) ==
    LET a == due[r] - Paid(r)
    IN  /\ Payable(r) /\ a > 0 /\ wallet >= due[r]
        /\ payment[d] = "NONE" /\ For[d] = r
        /\ wallet' = wallet - due[r]
        /\ amount' = [amount EXCEPT ![d] = a]
        /\ payment' = [payment EXCEPT ![d] = "VERIFIED"]
        /\ MilestonePaid(r, a)

\* Mutant: the wallet's balance is not part of the update's condition.
PayDueUnfunded(r, d) ==
    LET a == due[r] - Paid(r)
    IN  /\ Payable(r) /\ a > 0
        /\ payment[d] = "NONE" /\ For[d] = r
        /\ wallet' = wallet - a
        /\ amount' = [amount EXCEPT ![d] = a]
        /\ payment' = [payment EXCEPT ![d] = "VERIFIED"]
        /\ MilestonePaid(r, a)

\* Mutant: the payment leaves the reservation's status as it is.
PayDueUnconfirmed(r, d) ==
    LET a == due[r] - Paid(r)
    IN  /\ Payable(r) /\ a > 0
        /\ WalletPayment(d, r, a)
        /\ Settle(r, Paid(r) + a, status[r])
        /\ UNCHANGED <<payStatus, stayVars, attempt, credits, refunded, cancelKeys,
                       gateVars, hookVars>>

\* payDueMilestones under a new key (draw d): what the milestones due leave
\* outstanding after all verified payments, oldest first.
PayDue(r, d) ==
    LET a == due[r] - Paid(r)
    IN  /\ Payable(r) /\ a > 0
        /\ WalletPayment(d, r, a)
        /\ MilestonePaid(r, a)

(***************************************************************************)
(* Orders, and the gateway they are paid at.                               *)
(***************************************************************************)

\* createOrder and createWalletRechargeOrder.  The balance is read in no
\* transaction and before the gateway is asked, which no later step can
\* tell from an order created before the balance changed.
CreateOrder(o, a) ==
    /\ attempt[o] = "NONE"
    /\ For[o] # Wallet => Payable(For[o]) /\ a <= balance[For[o]]
    /\ attempt' = [attempt EXCEPT ![o] = "PENDING"]
    /\ amount' = [amount EXCEPT ![o] = a]
    /\ UNCHANGED <<bookVars, stayVars, payment, walletVars, cancelKeys, gateVars, hookVars>>

\* The gateway: a try to pay an open order fails, or one succeeds (once).
Decline(o) ==
    /\ attempt[o] # "NONE" /\ o \in Declinable \ (captured \cup declined)
    /\ declined' = declined \cup {o}
    /\ UNCHANGED <<moneyVars, captured, hookVars>>

Capture(o) ==
    /\ attempt[o] # "NONE" /\ o \notin captured
    /\ captured' = captured \cup {o}
    /\ UNCHANGED <<moneyVars, declined, hookVars>>

\* The transaction that records the success of order o's payment: the wallet
\* is credited, or the payment is created if it is not there yet and the
\* reservation recalculated.
RecordSuccess(o) ==
    /\ attempt' = [attempt EXCEPT ![o] = "SUCCESS"]
    /\ IF For[o] = Wallet
       THEN Credit(o) /\ UNCHANGED <<bookVars, payment, refunded>>
       ELSE /\ Recalculate(For[o], [payment EXCEPT ![o] = "VERIFIED"])
            /\ UNCHANGED walletVars
    /\ UNCHANGED <<stayVars, amount, cancelKeys, gateVars>>

\* Mutant: the attempt is not looked up again inside the transaction.
VerifyCheckoutAgain(o) ==
    /\ o \in captured
    /\ RecordSuccess(o)
    /\ UNCHANGED hookVars

\* verifyCheckoutPayment, verifyWalletCheckoutPayment: the browser returns
\* with the gateway's signature.
VerifyCheckout(o) ==
    /\ o \in captured /\ attempt[o] = "PENDING"
    /\ RecordSuccess(o)
    /\ UNCHANGED hookVars

(***************************************************************************)
(* The webhook.                                                            *)
(***************************************************************************)
Sent(e) == IF e.outcome = "SUCCESS" THEN e.order \in captured ELSE e.order \in declined

\* The event is written, outside the transaction that processes it; one
\* already written is answered {duplicate: true}, whatever became of it.
ReceiveEvent(e) ==
    /\ Sent(e)
    /\ IF hook[e] = "NONE"
       THEN /\ hook' = [hook EXCEPT ![e] = "RECEIVED"]
            /\ handling' = handling \cup {e}
            /\ UNCHANGED answered
       ELSE /\ answered' = answered \cup {e}
            /\ UNCHANGED <<hook, handling>>
    /\ UNCHANGED <<moneyVars, gateVars>>

\* The handler of e ends: its event is marked, and the gateway is answered.
Finish(e, mark, answer) ==
    /\ hook' = [hook EXCEPT ![e] = mark]
    /\ handling' = handling \ {e}
    /\ answered' = answered \cup answer

\* The transaction of a success; an attempt that succeeded already is left.
ProcessSuccess(e) ==
    /\ e \in handling /\ e.outcome = "SUCCESS"
    /\ IF attempt[e.order] = "SUCCESS"
       THEN UNCHANGED <<moneyVars, gateVars>>
       ELSE RecordSuccess(e.order)
    /\ Finish(e, "PROCESSED", {e})

\* The transaction of a failure, whatever the attempt's status.
ProcessFailure(e) ==
    /\ e \in handling /\ e.outcome = "FAILED"
    /\ attempt' = [attempt EXCEPT ![e.order] = "FAILED"]
    /\ payStatus' = [r \in Reservation |->
                       IF r = For[e.order] THEN "FAILED" ELSE payStatus[r]]
    /\ Finish(e, "PROCESSED", {e})
    /\ UNCHANGED <<status, advance, balance, untold, stayVars, amount, payment,
                   walletVars, cancelKeys, gateVars>>

\* The transaction aborts (a serialization conflict, which is not tried
\* again here, or the table's CHECK): the event is marked, the gateway told.
ProcessingFails(e) ==
    /\ e \in handling
    /\ Finish(e, "FAILED", {})
    /\ UNCHANGED <<moneyVars, gateVars>>

\* The API process restarts: the requests it was handling are gone.
Restart ==
    /\ handling # {}
    /\ handling' = {}
    /\ UNCHANGED <<moneyVars, gateVars, hook, answered>>

(***************************************************************************)
(* Manual and offline payments, and offline recharges.                     *)
(***************************************************************************)
MayAwait(s) == s \in Offline => ~AwaitsReview(For[s])

\* manual, submitOffline, submitOfflineWalletRecharge: the request reads the
\* balance (of a wallet: that no recharge awaits approval) ...
BeginSlip(s, a) ==
    /\ payment[s] = "NONE"
    /\ IF For[s] = Wallet THEN ~AwaitsReview(Wallet)
       ELSE /\ status[For[s]] # "NONE" /\ a <= balance[For[s]]
            /\ s \in Offline => Payable(For[s])
    /\ payment' = [payment EXCEPT ![s] = "READ"]
    /\ amount' = [amount EXCEPT ![s] = a]
    /\ UNCHANGED <<bookVars, stayVars, attempt, walletVars, cancelKeys, gateVars, hookVars>>

\* ... and then writes the payment, unverified.
RecordSlip(s) ==
    /\ payment[s] = "READ"
    /\ For[s] # Wallet => MayAwait(s)
    /\ payment' = [payment EXCEPT ![s] = "UNVERIFIED"]
    /\ payStatus' = [r \in Reservation |->
                       IF r = For[s] THEN "PENDING" ELSE payStatus[r]]
    /\ UNCHANGED <<status, advance, balance, untold, stayVars, attempt, amount,
                   walletVars, cancelKeys, gateVars, hookVars>>

\* Mutant: the payment is verified, the reservation not recalculated.
VerifySlipOnly(s) ==
    /\ payment[s] = "UNVERIFIED"
    /\ payment' = [payment EXCEPT ![s] = "VERIFIED"]
    /\ UNCHANGED <<bookVars, walletVars, stayVars, attempt, amount, cancelKeys,
                   gateVars, hookVars>>

\* verify, verifyOfflineWalletRecharge.
VerifySlip(s) ==
    /\ payment[s] = "UNVERIFIED"
    /\ LET pay == [payment EXCEPT ![s] = "VERIFIED"]
       IN  IF For[s] = Wallet
           THEN payment' = pay /\ Credit(s) /\ UNCHANGED <<bookVars, refunded>>
           ELSE Recalculate(For[s], pay) /\ UNCHANGED walletVars
    /\ UNCHANGED <<stayVars, attempt, amount, cancelKeys, gateVars, hookVars>>

(***************************************************************************)
(* The guest in the house, and what is paid at the desk before he leaves.  *)
(***************************************************************************)
MoveStay(r, from, to) ==
    /\ stay[r] = from
    /\ stay' = [stay EXCEPT ![r] = to]
    /\ UNCHANGED <<bookVars, due, attempt, amount, payment, walletVars, cancelKeys,
                   gateVars, hookVars>>

CheckIn(r) == status[r] = "CONFIRMED" /\ MoveStay(r, "EXPECTED", "CHECKED_IN")

\* An administrator may let a guest go who still owes something.
CheckOut(r) == MoveStay(r, "CHECKED_IN", "CHECKED_OUT")

\* recordCheckoutPayment under a new key (p): a verified payment of what the
\* stay and its folio charges leave outstanding.  The amounts of the
\* reservation are not recalculated.
RecordCheckoutPayment(p, a) ==
    /\ payment[p] = "NONE"
    /\ status[For[p]] # "NONE" /\ stay[For[p]] = "CHECKED_IN"
    /\ Paid(For[p]) + a <= Total[For[p]] + Extras
    /\ payment' = [payment EXCEPT ![p] = "VERIFIED"]
    /\ amount' = [amount EXCEPT ![p] = a]
    /\ untold' = untold \cup {p}
    /\ UNCHANGED <<status, payStatus, advance, balance, stayVars, attempt, walletVars,
                   cancelKeys, gateVars, hookVars>>

(***************************************************************************)
(* Cancellation, as far as the money goes.                                 *)
(***************************************************************************)

\* The refund of r goes to the wallet as far as the wallet paid; back is that
\* part.
CancelWith(r, key, refund, back) ==
    /\ status[r] # "NONE" /\ key \notin cancelKeys
    /\ cancelKeys' = cancelKeys \cup {key}
    /\ status' = [status EXCEPT ![r] = "CANCELLED"]
    /\ wallet' = wallet + back
    /\ refunded' = [refunded EXCEPT ![r] = @ + back]
    /\ payStatus' = [payStatus EXCEPT ![r] =
          IF WalletPaid(r) > 0
          THEN IF back = 0 THEN @
               ELSE IF back >= WalletPaid(r) /\ WalletPaid(r) >= Paid(r)
                    THEN "REFUNDED" ELSE "PARTIALLY_REFUNDED"
          ELSE IF refund > 0 THEN "REFUND_PENDING" ELSE @]
    /\ UNCHANGED <<advance, balance, untold, stayVars, attempt, amount, payment,
                   credits, gateVars, hookVars>>

\* Mutant: the refund is what the stay costs, not what was paid for it.
CancelInFull(r, key, penalty) ==
    LET refund == NonNegative(Total[r] - penalty)
    IN  CancelWith(r, key, refund, refund)

\* ReservationsService.cancel: a cancelled reservation passes its test too
\* (canTransition of a status to itself); only the key tells a retry.
Cancel(r, key, penalty) ==
    LET refund == NonNegative(Paid(r) - penalty)
    IN  CancelWith(r, key, refund, LesserOf(WalletPaid(r), refund))

-----------------------------------------------------------------------------
Amounts == 1..MaxAmount

BookNext ==
    \/ \E r \in Reservation, d \in Draw : BookByWallet(r, d) \/ PayDue(r, d)
    \/ \E r \in Reservation : BookUnpaid(r) \/ MilestoneFallsDue(r)
    \/ \E r \in Reservation : \E key \in ClientKey \cup {r}, penalty \in {0, FirstNight} :
          Cancel(r, key, penalty)

GatewayNext ==
    \/ \E o \in Order, a \in Amounts : CreateOrder(o, a)
    \/ \E o \in Order : Decline(o) \/ Capture(o) \/ VerifyCheckout(o)
    \/ \E e \in Event : \/ ReceiveEvent(e) \/ ProcessSuccess(e)
                        \/ ProcessFailure(e) \/ ProcessingFails(e)
    \/ Restart

SlipNext ==
    \/ \E s \in Slip, a \in Amounts : BeginSlip(s, a)
    \/ \E s \in Slip : RecordSlip(s) \/ VerifySlip(s)

TillNext ==
    \/ \E r \in Reservation : CheckIn(r) \/ CheckOut(r)
    \/ \E p \in Till, a \in Amounts : RecordCheckoutPayment(p, a)

PayNext == BookNext \/ GatewayNext \/ SlipNext \/ TillNext

PSpec == PInit /\ [][PayNext]_payVars

-----------------------------------------------------------------------------
(***************************************************************************)
(* Properties.                                                             *)
(***************************************************************************)

\* Every variable has its type; the wallet is never overdrawn.
PTypeOK ==
    /\ status \in [Reservation -> PayIntent \cup {"NONE", "CANCELLED"}]
    /\ payStatus \in [Reservation -> PaymentStatus]
    /\ advance \in [Reservation -> 0..MaxAmount]
    /\ balance \in [Reservation -> 0..MaxAmount]
    /\ untold \subseteq Till
    /\ stay \in [Reservation -> {"EXPECTED", "CHECKED_IN", "CHECKED_OUT"}]
    /\ due \in [Reservation -> 0..MaxAmount]
    /\ attempt \in [Order -> {"NONE", "PENDING", "SUCCESS", "FAILED"}]
    /\ amount \in [PaymentId -> 0..MaxAmount]
    /\ payment \in [PaymentId -> {"NONE", "READ", "UNVERIFIED", "VERIFIED"}]
    /\ wallet \in Nat
    /\ credits \in [Order \cup Slip -> Nat]
    /\ refunded \in [Reservation -> Nat]
    /\ cancelKeys \subseteq ClientKey \cup Reservation
    /\ captured \subseteq Order /\ declined \subseteq Order
    /\ hook \in [Event -> {"NONE", "RECEIVED", "PROCESSED", "FAILED"}]
    /\ handling \subseteq Event /\ answered \subseteq Event

\* The amounts on a reservation say what its verified payments add up to and
\* what remains, whichever of the gateway's callback, its webhook, an
\* administrator, an offline proof and the wallet recorded them, and never more
\* than its total.  Payments taken at check-out are the exception: they are in
\* the amounts from the next payment of another kind on, and not before.
AdvanceAccounting ==
    /\ untold \subseteq {p \in Till : payment[p] = "VERIFIED"}
    /\ \A r \in Reservation : status[r] # "NONE" =>
          advance[r] = Told(r) /\ balance[r] = Total[r] - Told(r)

\* The amounts on a reservation are what is paid and what remains to be paid
\* (settlement-totals.ts computes them anew; so do not these two columns).
AmountsAreCurrent ==
    \A r \in Reservation : status[r] # "NONE" =>
        advance[r] = Paid(r) /\ balance[r] = NonNegative(Total[r] - Paid(r))

\* The wallet's balance is its recharges less the reservations' payments from
\* it, plus what the cancellations gave back.
Recharges == {p \in Order \cup Slip : For[p] = Wallet}
Drawn == {d \in Draw : payment[d] = "VERIFIED"}
MostCredits == Successes + 1
WalletAccounting ==
    Cardinality({u \in Recharges \X (1..MaxAmount) \X (1..MostCredits) :
                    u[2] <= amount[u[1]] /\ u[3] <= credits[u[1]]})
        + Cardinality({u \in Reservation \X (1..MaxAmount) : u[2] <= refunded[u[1]]})
      = wallet + Sum(amount, Drawn)

\* A reservation whose balance is paid is confirmed (unless it was cancelled),
\* whichever payment was the last; one that costs nothing has no last payment.
PaidIsConfirmed ==
    \A r \in Reservation :
        Payable(r) /\ Total[r] > 0 /\ balance[r] = 0 => status[r] = "CONFIRMED"

\* A cancellation gives the wallet back no more than the wallet paid.
RefundWithinPaid == \A r \in Reservation : refunded[r] <= WalletPaid(r)

\* However recharges, bookings, milestones and cancellations meet: the wallet is
\* never overdrawn, every unit of it is accounted for, a cancellation gives back
\* no more than was paid from it, and what is paid is confirmed.
WalletIsSound == PTypeOK /\ WalletAccounting /\ PaidIsConfirmed /\ RefundWithinPaid

\* A payment that arrives after the cancellation does not revive it.
CancelledStaysCancelled ==
    [][\A r \in Reservation : status[r] = "CANCELLED" => status'[r] = "CANCELLED"]_payVars

\* A recharge is credited once ("credits a wallet exactly once for a
\* successful webhook"), though the callback and the webhook both report it; and
\* where a try of the customer failed, at most once more, however late the
\* gateway reports that failure and however often the success.
CreditedOnce == \A p \in Recharges : credits[p] <= IF p \in declined THEN 2 ELSE 1

\* An event the gateway was told is done, and no request is handling, has had
\* its effect: "webhook processing is designed to tolerate retries".
AnsweredIsRecorded ==
    \A e \in answered \ handling : e.outcome = "SUCCESS" =>
        IF For[e.order] = Wallet THEN credits[e.order] >= 1
        ELSE payment[e.order] = "VERIFIED"

\* A reservation that is paid in full does not fall back to an earlier
\* payment state (UNPAID -> PENDING -> PARTIALLY_PAID -> PAID).
PaidStaysPaid ==
    [][\A r \in Reservation :
          payStatus[r] = "PAID" /\ balance'[r] = 0 =>
              payStatus'[r] \notin {"UNPAID", "PENDING", "FAILED"}]_payVars
=============================================================================
