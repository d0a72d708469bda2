---- MODULE Amounts ----
(***************************************************************************)
(* The paise of one booking: what quote of pricing/pricing.service.ts asks *)
(* for, what each capture brings in, and what the payout lines promise to  *)
(* the host.  Three places divide the price on their own: the quote, the   *)
(* instalments of pay-later/pay-later.service.ts and, capture by capture,  *)
(* the payout line of booking/booking.service.ts.  Who may pay when is     *)
(* the business of Payments and PayLater.                                  *)
(***************************************************************************)
EXTENDS Integers

CONSTANTS StayPrices,  \* nights and cleaning, in paise
          AddOnPrices, \* add-ons of the booking, in paise
          Discounts,   \* TIER_DISCOUNT_RATE, in percent
          MonthOptions \* PAY_LATER_MONTH_OPTIONS

ASSUME QuoteAssumption ==
    /\ StayPrices \subseteq Nat \ {0} /\ AddOnPrices \subseteq Nat
    /\ Discounts \subseteq 0 .. 100
    /\ MonthOptions \subseteq Nat \ {0}

VARIABLES
    quote,     \* the PriceSnapshot with the plan the guest chose
    captures,  \* payments captured so far
    captured,  \* their sum
    lines      \* sum of the PayoutLine rows of the booking

amountsVars == <<quote, captures, captured, lines>>

PaymentPlans == {"FULL", "DEPOSIT_50", "PAY_LATER"}
Snapshot == [plan : PaymentPlans, months : MonthOptions, stayPrice : Nat, total : Nat,
             deposit : Nat, first : Nat]
Unquoted == [plan |-> "none"]

RoundedDown(n, d) == n \div d   \* mutant: floor
\* Math.round(n / d)
Rounded(n, d) == (2 * n + d) \div (2 * d)

InstalmentEqual(total, months, seq) == total \div months   \* mutant: the remainder is dropped
\* splitAmount: the remainder goes to the earliest instalments, one paisa each.
Instalment(total, months, seq) ==
    (total \div months) + (IF seq <= total - (total \div months) * months THEN 1 ELSE 0)

\* splitFirst of the quote, which the first capture is compared with.
SplitFirst(total, months) ==
    (total \div months) + (IF total - (total \div months) * months > 0 THEN 1 ELSE 0)

\* Platform fee of 10 % less the tier's discount, 15 % commission (the default of an
\* add-on), and 18 % tax on both.
Fee(stayPrice, discount) ==
    Rounded(stayPrice, 10) - Rounded(Rounded(stayPrice, 10) * discount, 100)
Price(stayPrice, addOns, discount) ==
    stayPrice + Fee(stayPrice, discount) + addOns
        + Rounded(18 * (Fee(stayPrice, discount) + Rounded(15 * addOns, 100)), 100)

\* The host's share of a capture.
Share(amount) == Rounded(quote.stayPrice * amount, quote.total)

AmountsInit == quote = Unquoted /\ captures = 0 /\ captured = 0 /\ lines = 0

Quote(stayPrice, addOns, discount, plan, months) ==
    LET total == Price(stayPrice, addOns, discount) IN
    /\ quote = Unquoted
    /\ quote' = [plan |-> plan, months |-> months, stayPrice |-> stayPrice, total |-> total,
                 deposit |-> Rounded(total, 2), first |-> SplitFirst(total, months)]
    /\ UNCHANGED <<captures, captured, lines>>

\* A capture, and the payout line for it.
Capture(amount, share) ==
    /\ captures' = captures + 1
    /\ captured' = captured + amount
    /\ lines' = lines + share
    /\ UNCHANGED quote

\* confirmPayment; createPlanFromFirstCapture rolls it back when quote and schedule differ.
Confirm ==
    /\ quote # Unquoted /\ captures = 0
    /\ \/ quote.plan = "FULL" /\ Capture(quote.total, Share(quote.total))
       \/ quote.plan = "DEPOSIT_50" /\ Capture(quote.deposit, Share(quote.deposit))
       \/ /\ quote.plan = "PAY_LATER"
          /\ quote.first = Instalment(quote.total, quote.months, 1)
          /\ Capture(quote.first, Share(quote.first))

SettleBalance ==
    LET balance == quote.total - quote.deposit IN
    /\ quote.plan = "DEPOSIT_50" /\ captures = 1
    /\ Capture(balance, Share(balance))

\* recordInstalmentCapture of the next instalment writes no payout line.
PayInstalment ==
    /\ quote.plan = "PAY_LATER"
    /\ captures \in 1 .. (quote.months - 1)
    /\ Capture(Instalment(quote.total, quote.months, captures + 1), 0)

AmountsNext ==
    \/ \E stayPrice \in StayPrices, addOns \in AddOnPrices, discount \in Discounts,
          plan \in PaymentPlans, months \in MonthOptions :
             Quote(stayPrice, addOns, discount, plan, months)
    \/ Confirm \/ SettleBalance \/ PayInstalment

AmountsSpec == AmountsInit /\ [][AmountsNext]_amountsVars

(***************************************************************************)
(* Properties                                                              *)
(***************************************************************************)

AmountsTypeOK ==
    /\ quote = Unquoted \/ quote \in Snapshot
    /\ captures \in Nat /\ captured \in Nat /\ lines \in Nat

\* How many captures pay for the booking.
Due == CASE quote.plan = "FULL" -> 1
         [] quote.plan = "DEPOSIT_50" -> 2
         [] quote.plan = "PAY_LATER" -> quote.months

\* To the paisa the captures add up to the price with the last of them and not
\* before, for every price and tenor, and quote and schedule agree on the first
\* instalment: otherwise money would be missing, or captured and never accepted.
CapturesAddUp ==
    quote # Unquoted =>
        /\ captures = Due => captured = quote.total
        /\ captures < Due => captured <= quote.total
        /\ quote.first = Instalment(quote.total, quote.months, 1)

\* A paid-up booking, paid at once or by deposit and balance, promises its host the
\* price of the stay or one paisa more: two shares that both end on half a paisa are
\* both rounded up.  No line is ever written for a later Pay Later instalment.
HostGetsTheStayOrOneMore ==
    quote # Unquoted =>
        IF quote.plan = "PAY_LATER" THEN captures > 0 => lines = Share(quote.first)
        ELSE captures = Due => lines \in {quote.stayPrice, quote.stayPrice + 1}

\* The claim of settleBalance: the payout lines of deposit and balance sum to the host's
\* full accommodation share.
DepositAndBalanceSumToShare ==
    quote # Unquoted =>
        (quote.plan = "DEPOSIT_50" /\ captures = Due => lines = quote.stayPrice)
====
