---------------------- MODULE BookingStateMachine_proofs ----------------------
(***************************************************************************)
(* Facts about the transition table alone: what transition() can return,   *)
(* whatever status the caller hands it.                                    *)
(***************************************************************************)
EXTENDS BookingStateMachine, TLAPS

\* transition() uses TRANSITIONS.find(...): the first row that matches.  The
\* order of the table never matters: no event and status match two rows.
THEOREM TableUnambiguous ==
    \A t, u \in TRANSITIONS, s \in Statuses :
        t.event = u.event /\ s \in t.from /\ s \in u.from => t = u
BY SMTT(60) DEF TRANSITIONS, Row, Statuses, Plans, Cancellable, Arrivable, Completable,
          Refundable, CancelTarget

LEMMA RowTargets ==
    \A t \in TRANSITIONS : t.to \in (Statuses \cup {CancelTarget}) \ {"PAYMENT_PENDING"}
BY DEF TRANSITIONS, Row, Statuses, CancelTarget

LEMMA ChosenRow ==
    ASSUME NEW event, NEW status, NEW plan, CanFire(event, status, plan)
    PROVE  LET t == CHOOSE t \in TRANSITIONS : Matches(t, event, status)
           IN  t \in TRANSITIONS /\ Matches(t, event, status)
BY DEF CanFire

\* Whatever event fires, the row ends in a status of the schema, and never
\* back in PAYMENT_PENDING: only an INSERT makes a pending booking.
THEOREM TargetIsStatus ==
    ASSUME NEW event, NEW status, NEW plan, NEW refund, CanFire(event, status, plan)
    PROVE  Target(event, status, refund) \in Statuses \ {"PAYMENT_PENDING"}
<1> DEFINE t == CHOOSE t \in TRANSITIONS : Matches(t, event, status)
<1>1. t \in TRANSITIONS
  BY ChosenRow
<1>2. t.to \in (Statuses \cup {CancelTarget}) \ {"PAYMENT_PENDING"}
  BY <1>1, RowTargets
<1>3. CASE t.to = CancelTarget
  BY <1>3 DEF Target, Statuses
<1>4. CASE t.to # CancelTarget
  BY <1>2, <1>4 DEF Target
<1> QED
  BY <1>3, <1>4

\* A refunded booking is final: no event of the table leaves REFUNDED.
THEOREM RefundedIsFinal ==
    \A event \in Events, plan \in Plans : ~CanFire(event, "REFUNDED", plan)
BY DEF CanFire, Matches, TRANSITIONS, Row, Cancellable, Arrivable, Completable, Refundable
=============================================================================
