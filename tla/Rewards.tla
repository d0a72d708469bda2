---- MODULE Rewards ----
(***************************************************************************)
(* What a guest earns: loyalty points and tier (membership/membership.     *)
(* service.ts), deposits of a savings plan (membership/sip.service.ts) and *)
(* the referral credit (referral/referral.service.ts), driven by the       *)
(* completion of stays (completeBooking of booking/booking.service.ts).    *)
(* Each handler reads, decides and writes back by id; only the writes of   *)
(* one deposit, and those of one credit, are a transaction.                *)
(***************************************************************************)
EXTENDS Integers, FiniteSets

CONSTANTS Stay,        \* bookings of the guest
          Deposit,     \* payment references of deposits to the plan
          Process,     \* requests and jobs in flight at once
          Thresholds,  \* points at which TIER_THRESHOLDS starts a tier above the first
          None

ASSUME RewardsAssumption ==
    /\ Thresholds \subseteq Nat \ {0} /\ IsFiniteSet(Thresholds)
    /\ IsFiniteSet(Stay)
    /\ None \notin Stay \cup Deposit

VARIABLES
    stay,      \* status of each booking: COMPLETED, before that "booked", or "gone"
    member,    \* the Membership row
    referral,  \* status of the guest's Referral row, "none" without one
    plan,      \* status of the TripSip
    deposited, \* SipContribution rows, each with its CreditLedger row, by reference
    process,   \* what each request has read and where it is
    earned,    \* history: points ever awarded
    credits,   \* history: pairs of ledger entries written for the referral
    crossed    \* history: what two processes were about to write at the same time

rewardsVars == <<stay, member, referral, plan, deposited, process, earned, credits, crossed>>

StayStates == {"booked", "COMPLETED", "gone"}
ReferralStates == {"none", "SIGNED_UP", "CREDITED"}
PlanStates == {"ACTIVE", "PAUSED", "CLOSED"}
MemberRow == [points : Nat, tier : Nat]
ProcessRecord == [pc : {"idle", "complete", "award", "store", "refer", "count", "credit",
                        "deposit", "save", "status"},
                  on : Stay \cup Deposit \cup {None}, member : MemberRow]

Free == [pc |-> "idle", on |-> None, member |-> [points |-> 0, tier |-> 0]]
Step(p, pc) == [process EXCEPT ![p].pc = pc]
Ended(p) == [process EXCEPT ![p] = Free]
\* Another process stands between its read and its write of these.
Meets(p, pcs) == \E q \in Process \ {p} : process[q].pc \in pcs

\* tierForPoints: tiers counted from EXPLORER = 0.
TierFor(points) == Cardinality({h \in Thresholds : h <= points})

AwardedTierFirst(m) ==   \* mutant: the tier is computed before the points are added
    [points |-> m.points + 1,
     tier |-> IF TierFor(m.points) > m.tier THEN TierFor(m.points) ELSE m.tier]
\* awardPoints of one unit, from the row it has read.
Awarded(m) ==
    [points |-> m.points + 1,
     tier |-> IF TierFor(m.points + 1) > m.tier THEN TierFor(m.points + 1) ELSE m.tier]

RewardsInit ==
    /\ stay = [s \in Stay |-> "booked"]
    /\ member = [points |-> 0, tier |-> 0]
    /\ referral = "none"
    /\ plan = "ACTIVE"
    /\ deposited = [d \in Deposit |-> 0]
    /\ process = [p \in Process |-> Free]
    /\ earned = 0 /\ credits = 0
    /\ crossed = {}

(***************************************************************************)
(* Stays                                                                   *)
(***************************************************************************)

\* completeBooking: its own check and its transaction's fresh read, ...
CompleteRead(p, s) ==
    /\ process[p].pc = "idle"
    /\ stay[s] = "booked"
    /\ process' = [process EXCEPT ![p].pc = "complete", ![p].on = s]
    /\ UNCHANGED <<stay, member, referral, plan, deposited, earned, credits, crossed>>

\* ... the update by id, ...
CompleteWrite(p) ==
    /\ process[p].pc = "complete"
    /\ stay' = [stay EXCEPT ![process[p].on] = "COMPLETED"]
    /\ process' = Step(p, "award")
    /\ UNCHANGED <<member, referral, plan, deposited, earned, credits, crossed>>

\* ... and the award, whose failure is swallowed.
AwardRead(p) ==
    /\ process[p].pc = "award"
    /\ \/ /\ process' = [process EXCEPT ![p].pc = "store", ![p].member = member]
          /\ crossed' = crossed \cup (IF Meets(p, {"store", "save"}) THEN {"points"} ELSE {})
       \/ process' = Step(p, "refer") /\ UNCHANGED crossed
    /\ UNCHANGED <<stay, member, referral, plan, deposited, earned, credits>>

AwardStore(p) ==
    /\ process[p].pc = "store"
    /\ member' = Awarded(process[p].member)
    /\ earned' = earned + 1
    /\ process' = Step(p, "refer")
    /\ UNCHANGED <<stay, referral, plan, deposited, credits, crossed>>

\* manualComplete and bulkCompleteBookings complete a stay and award nothing.
ManualComplete(s) ==
    /\ stay[s] = "booked"
    /\ stay' = [stay EXCEPT ![s] = "COMPLETED"]
    /\ UNCHANGED <<member, referral, plan, deposited, process, earned, credits, crossed>>

\* A cancellation, or an admin's full refund, which takes a completed stay as well.
Leave(s) ==
    /\ stay[s] \in {"booked", "COMPLETED"}
    /\ stay' = [stay EXCEPT ![s] = "gone"]
    /\ UNCHANGED <<member, referral, plan, deposited, process, earned, credits, crossed>>

(***************************************************************************)
(* Referral                                                                *)
(***************************************************************************)

\* applyReferralCode, called without waiting at registration.
ApplyCode ==
    /\ referral = "none"
    /\ referral' = "SIGNED_UP"
    /\ UNCHANGED <<stay, member, plan, deposited, process, earned, credits, crossed>>

ReferAnyStatus(p) ==   \* mutant: a CREDITED referral is not filtered out
    /\ process[p].pc = "refer"
    /\ IF referral # "none"
       THEN /\ process' = Step(p, "count")
            /\ crossed' = crossed \cup (IF Meets(p, {"count", "credit"}) THEN {"referral"} ELSE {})
       ELSE process' = Ended(p) /\ UNCHANGED crossed
    /\ UNCHANGED <<stay, member, referral, plan, deposited, earned, credits>>

\* onReferredUserFirstBooking reads the referral, ...
ReferRead(p) ==
    /\ process[p].pc = "refer"
    /\ IF referral = "SIGNED_UP"
       THEN /\ process' = Step(p, "count")
            /\ crossed' = crossed \cup (IF Meets(p, {"count", "credit"}) THEN {"referral"} ELSE {})
       ELSE process' = Ended(p) /\ UNCHANGED crossed
    /\ UNCHANGED <<stay, member, referral, plan, deposited, earned, credits>>

\* ... counts the completed stays, which must be one, ...
ReferCount(p) ==
    /\ process[p].pc = "count"
    /\ process' = IF Cardinality({s \in Stay : stay[s] = "COMPLETED"}) = 1
                  THEN Step(p, "credit") ELSE Ended(p)
    /\ UNCHANGED <<stay, member, referral, plan, deposited, earned, credits, crossed>>

\* ... and credits both guests in one transaction.
ReferCredit(p) ==
    /\ process[p].pc = "credit"
    /\ referral' = "CREDITED"
    /\ credits' = credits + 1
    /\ process' = Ended(p)
    /\ UNCHANGED <<stay, member, plan, deposited, earned, crossed>>

(***************************************************************************)
(* Savings plan                                                            *)
(***************************************************************************)

DepositReadAny(p, d) ==   \* mutant: the payment reference is not looked up
    /\ process[p].pc = "idle"
    /\ plan = "ACTIVE"
    /\ deposited[d] < 2
    /\ process' = [process EXCEPT ![p].pc = "deposit", ![p].on = d]
    /\ crossed' = crossed \cup (IF \E q \in Process \ {p} : process[q].on = d THEN {d} ELSE {})
    /\ UNCHANGED <<stay, member, referral, plan, deposited, earned, credits>>

\* recordContribution: a reference that is stored already answers with its row.
DepositRead(p, d) ==
    /\ process[p].pc = "idle"
    /\ plan = "ACTIVE"
    /\ deposited[d] = 0
    /\ process' = [process EXCEPT ![p].pc = "deposit", ![p].on = d]
    /\ crossed' = crossed \cup (IF \E q \in Process \ {p} : process[q].on = d THEN {d} ELSE {})
    /\ UNCHANGED <<stay, member, referral, plan, deposited, earned, credits>>

\* Inside its transaction awardPoints reads the membership ...
DepositAward(p) ==
    /\ process[p].pc = "deposit"
    /\ process' = [process EXCEPT ![p].pc = "save", ![p].member = member]
    /\ crossed' = crossed \cup (IF Meets(p, {"store", "save"}) THEN {"points"} ELSE {})
    /\ UNCHANGED <<stay, member, referral, plan, deposited, earned, credits>>

\* ... and everything is committed together.
DepositCommit(p) ==
    /\ process[p].pc = "save"
    /\ deposited' = [deposited EXCEPT ![process[p].on] = @ + 1]
    /\ member' = Awarded(process[p].member)
    /\ earned' = earned + 1
    /\ process' = Ended(p)
    /\ UNCHANGED <<stay, referral, plan, credits, crossed>>

\* setStatus reads the plan, which a CLOSED one refuses, and writes by id.
PlanRead(p) ==
    /\ process[p].pc = "idle"
    /\ plan # "CLOSED"
    /\ process' = Step(p, "status")
    /\ UNCHANGED <<stay, member, referral, plan, deposited, earned, credits, crossed>>

PlanWrite(p, status) ==
    /\ process[p].pc = "status"
    /\ plan' = status
    /\ process' = Ended(p)
    /\ UNCHANGED <<stay, member, referral, deposited, earned, credits, crossed>>

\* The process stops, or a statement fails.
Stop(p) ==
    /\ process[p].pc # "idle"
    /\ process' = Ended(p)
    /\ UNCHANGED <<stay, member, referral, plan, deposited, earned, credits, crossed>>

RewardsNext ==
    \/ \E p \in Process :
          \/ \E s \in Stay : CompleteRead(p, s)
          \/ CompleteWrite(p) \/ AwardRead(p) \/ AwardStore(p)
          \/ ReferRead(p) \/ ReferCount(p) \/ ReferCredit(p)
          \/ \E d \in Deposit : DepositRead(p, d)
          \/ DepositAward(p) \/ DepositCommit(p)
          \/ PlanRead(p) \/ \E status \in PlanStates : PlanWrite(p, status)
          \/ Stop(p)
    \/ \E s \in Stay : ManualComplete(s) \/ Leave(s)
    \/ ApplyCode

RewardsSpec == RewardsInit /\ [][RewardsNext]_rewardsVars

(***************************************************************************)
(* Properties                                                              *)
(***************************************************************************)

\* Types of the rows and of the processes.
RewardsTypeOK ==
    /\ stay \in [Stay -> StayStates]
    /\ member \in MemberRow
    /\ referral \in ReferralStates
    /\ plan \in PlanStates
    /\ deposited \in [Deposit -> Nat]
    /\ process \in [Process -> ProcessRecord]
    /\ earned \in Nat /\ credits \in Nat
    /\ crossed \subseteq {"points", "referral"} \cup Deposit

\* No award is lost and the tier is the one the points have reached, unless two awards
\* crossed: then the later write takes the earlier one's points back, and its tier.
PointsAddUpUnlessCrossed ==
    "points" \in crossed \/ (member.points = earned /\ member.tier = TierFor(earned))

\* The referral is paid out once, however often stays are completed, refunded and
\* completed again, unless two completions had both read it unpaid.
CreditedOnceUnlessCrossed ==
    "referral" \in crossed \/ (credits <= 1 /\ (credits = 1 <=> referral = "CREDITED"))

\* A payment is deposited once, however often it is reported, unless two reports of it
\* were under way at the same time: paymentRef is looked up first but is not unique.
DepositedOnceUnlessCrossed == \A d \in Deposit \ crossed : deposited[d] <= 1
====
