---- MODULE MCServices ----
(***************************************************************************)
(* Payouts, experiences, refresh tokens, rewards, idempotency keys, the    *)
(* trip planner and the amounts of a booking for TLC.  The seven share no  *)
(* row and never call one another, so their steps need no interleaving: a  *)
(* behaviour exercises one of them and leaves the others as they are.      *)
(***************************************************************************)
EXTENDS MCPayout, Seats, RefreshTokens, Rewards, Amounts, Idempotency, Itinerary

CONSTANTS k1, k2, s1, s2, d1, p1, p2

VARIABLE service

servicesVars == <<service, vars, seatsVars, tokensVars, rewardsVars, amountsVars,
                  idemVars, plannerVars>>

ServicesInit ==
    /\ service \in {"payout", "seats", "tokens", "rewards", "amounts", "requests",
                   "planner"}
    /\ Init /\ SeatsInit /\ TokensInit /\ RewardsInit /\ AmountsInit /\ IdemInit
    /\ PlannerInit
    /\ experience.capacity = 2

ServicesNext ==
    /\ \/ /\ service = "payout" /\ Next
          /\ UNCHANGED <<seatsVars, tokensVars, rewardsVars, amountsVars, idemVars,
                         plannerVars>>
       \/ /\ service = "seats" /\ SeatsNext
          /\ UNCHANGED <<vars, tokensVars, rewardsVars, amountsVars, idemVars,
                         plannerVars>>
       \/ /\ service = "tokens" /\ TokensNext
          /\ UNCHANGED <<vars, seatsVars, rewardsVars, amountsVars, idemVars,
                         plannerVars>>
       \/ /\ service = "rewards" /\ RewardsNext
          /\ UNCHANGED <<vars, seatsVars, tokensVars, amountsVars, idemVars,
                         plannerVars>>
       \/ /\ service = "amounts" /\ AmountsNext
          /\ UNCHANGED <<vars, seatsVars, tokensVars, rewardsVars, idemVars,
                         plannerVars>>
       \/ /\ service = "requests" /\ IdemNext
          /\ UNCHANGED <<vars, seatsVars, tokensVars, rewardsVars, amountsVars,
                         plannerVars>>
       \/ /\ service = "planner" /\ PlannerNext
          /\ UNCHANGED <<vars, seatsVars, tokensVars, rewardsVars, amountsVars, idemVars>>
    /\ UNCHANGED service

ServicesSpec == ServicesInit /\ [][ServicesNext]_servicesVars

\* p1 and p2 are the requests of every service; s1 and s2 the stays and processes.
ServicesSymmetry == Permutations({s1, s2}) \cup Permutations({p1, p2})

\* Rows and requests of each service have their types.
ServicesTypeOK == /\ TypeOK /\ SeatsTypeOK /\ TokensTypeOK /\ RewardsTypeOK
                  /\ AmountsTypeOK /\ IdemTypeOK /\ PlannerTypeOK
====
