---- MODULE Accounts_proofs ----
(***************************************************************************)
(* Proofs about a guest's account: Idempotency, RefreshTokens, Rewards and *)
(* Itinerary, for any number of requests in flight at once.                *)
(*                                                                         *)
(* The four are alike: a request reads, decides, and writes what it has    *)
(* decided.  Each inductive invariant says what a request between its read *)
(* and its write still knows: that the key's row is his (HoldersRule),     *)
(* that the chain has no other usable token (ChainsAreSingle), that the    *)
(* row he has read is still the row (AwardsAreApart), that the plan has    *)
(* not changed but for messages that overlap his (TalkIsInOrder).  The     *)
(* histories name the requests of which this is not so.  At the end, the   *)
(* composition of all services that TLC checks is shown to run each of     *)
(* them by its own specification.                                          *)
(***************************************************************************)
EXTENDS MCServices, Hosts_proofs

------------------------------------------------------------------------------
(* Idempotency keys (module Idempotency). *)

\* The request holds its key: it has inserted the row and not let go of it.
Holding(r) == request[r].pc \in {"handle", "store", "clean"}

NoAnswer(k) == \A b \in Body : <<k, b>> \notin answered

\* A key has one holder at most; the row is his, nobody was answered before he has
\* run, and nobody has run before him, unless a handler threw with its work done.
HoldersRule ==
    /\ \A r, q \in Attempt : Holding(r) /\ Holding(q) /\ request[r].key = request[q].key => r = q
    /\ \A r \in Attempt : Holding(r) =>
          /\ record[request[r].key].status = "PROCESSING"
          /\ record[request[r].key].body = request[r].body
          /\ request[r].pc = "store" => runs[request[r].key] > 0
          /\ request[r].pc # "store" =>
                NoAnswer(request[r].key) /\ (runs[request[r].key] = 0 \/ request[r].key \in torn)

\* A key nobody has inserted has run nothing, but for such a handler; a completed
\* one has run.
RunsShow ==
    \A k \in IdemKey : /\ record[k].status = "none" => runs[k] = 0 \/ k \in torn
                       /\ record[k].status = "COMPLETED" => runs[k] > 0

IdemInv == IdemTypeOK /\ HoldersRule /\ RunsShow /\ HandledOnceUnlessTorn

LEMMA NoRequestTyped == NoRequest \in RequestRecord /\ NoRecord \in RecordRow /\ NoRequest.pc = "idle"
<1>1. AnyBody \in Body /\ (CHOOSE k \in IdemKey : TRUE) \in IdemKey
  BY IdemAssumption DEF AnyBody
<1> QED
  BY <1>1 DEF NoRequest, NoRecord, RequestRecord, RecordRow

LEMMA IdemStart == IdemInit => IdemInv
BY NoRequestTyped DEF IdemInit, IdemInv, IdemTypeOK, HoldersRule, Holding, RunsShow,
     HandledOnceUnlessTorn, NoRecord

LEMMA WentTo ==
    ASSUME IdemTypeOK, NEW r \in Attempt, NEW pc \in {"handle", "store", "clean"}, request' = Went(r, pc)
    PROVE  /\ request' \in [Attempt -> RequestRecord]
           /\ request'[r].pc = pc /\ request'[r].key = request[r].key
           /\ request'[r].body = request[r].body
           /\ \A q \in Attempt : q # r => request'[q] = request[q]
BY DEF IdemTypeOK, Went, RequestRecord

LEMMA IsOver ==
    ASSUME IdemTypeOK, NEW r \in Attempt, request' = Over(r)
    PROVE  /\ request' \in [Attempt -> RequestRecord] /\ request'[r].pc = "idle"
           /\ \A q \in Attempt : q # r => request'[q] = request[q]
BY NoRequestTyped DEF IdemTypeOK, Over

\* Rows and histories stay, and no request takes hold of a key.
LEMMA HoldersKept ==
    ASSUME IdemInv, UNCHANGED <<record, runs, answered, torn>>,
           request' \in [Attempt -> RequestRecord],
           \A q \in Attempt : Holding(q)' => Holding(q) /\ request'[q] = request[q]
    PROVE  IdemInv'
<1> USE DEF IdemInv
<1>1. IdemTypeOK' /\ RunsShow' /\ HandledOnceUnlessTorn'
  BY DEF IdemTypeOK, RunsShow, HandledOnceUnlessTorn
<1>2. HoldersRule'
  BY DEF HoldersRule, Holding, NoAnswer
<1> QED
  BY <1>1, <1>2

LEMMA FindKeepsInv ==
    ASSUME IdemInv, NEW r \in Attempt, NEW k \in IdemKey, NEW b \in Body, Find(r, k, b)
    PROVE  IdemInv'
<1> USE DEF IdemInv
<1>1. CASE request' = [request EXCEPT ![r] = [pc |-> "create", key |-> k, body |-> b]]
           /\ UNCHANGED <<record, runs, answered, torn>>
  <2>1. request' \in [Attempt -> RequestRecord]
    BY <1>1 DEF IdemTypeOK, RequestRecord
  <2>2. request'[r].pc = "create" /\ \A q \in Attempt : q # r => request'[q] = request[q]
    BY <1>1 DEF IdemTypeOK
  <2> QED
    BY <1>1, <2>1, <2>2, HoldersKept DEF Holding
<1>2. CASE /\ record[k] = [status |-> "COMPLETED", body |-> b]
           /\ answered' = answered \cup {<<k, b>>} /\ UNCHANGED <<record, request, runs, torn>>
  <2>1. runs[k] > 0 /\ record[k].body = b /\ record[k].status = "COMPLETED"
    BY <1>2 DEF RunsShow
  <2>2. HandledOnceUnlessTorn'
    BY <1>2, <2>1 DEF HandledOnceUnlessTorn
  <2>3. \A m \in IdemKey : m # k /\ NoAnswer(m) => NoAnswer(m)'
    BY <1>2 DEF NoAnswer
  <2>4. \A q \in Attempt : Holding(q) => request[q].key # k /\ request[q].key \in IdemKey
    BY <2>1 DEF HoldersRule, IdemTypeOK, RequestRecord
  <2>5. HoldersRule'
    BY <1>2, <2>3, <2>4 DEF HoldersRule, Holding
  <2> QED
    BY <1>2, <2>2, <2>5 DEF IdemTypeOK, RunsShow
<1> QED
  BY <1>1, <1>2 DEF Find

LEMMA CreateKeepsInv == ASSUME IdemInv, NEW r \in Attempt, Create(r) PROVE IdemInv'
<1> USE DEF IdemInv
<1> DEFINE k == request[r].key
           row == [status |-> "PROCESSING", body |-> request[r].body]
<1>0. k \in IdemKey /\ row \in RecordRow /\ ~Holding(r)
  BY DEF Create, IdemTypeOK, RequestRecord, RecordRow, Holding
<1>1. CASE record[k].status = "none" /\ request' = Went(r, "handle")
           /\ record' = [record EXCEPT ![k] = row] /\ UNCHANGED <<runs, answered, torn>>
  <2>1. /\ request' \in [Attempt -> RequestRecord] /\ request'[r].pc = "handle"
        /\ request'[r].key = k /\ request'[r].body = request[r].body
        /\ \A q \in Attempt : q # r => request'[q] = request[q]
    BY <1>1, WentTo
  <2>2. /\ runs[k] = 0 \/ k \in torn
        /\ NoAnswer(k)
        /\ \A q \in Attempt : Holding(q) => request[q].key # k
    <3>1. (runs[k] = 0 \/ k \in torn) /\ NoAnswer(k)
      BY <1>0, <1>1 DEF RunsShow, HandledOnceUnlessTorn, NoAnswer
    <3>2. \A q \in Attempt : Holding(q) => record[request[q].key].status = "PROCESSING"
      BY DEF HoldersRule
    <3> QED
      BY <1>1, <3>1, <3>2
  <2>3. record'[k] = row /\ \A m \in IdemKey : m # k => record'[m] = record[m]
    BY <1>0, <1>1 DEF IdemTypeOK
  <2>4. IdemTypeOK'
    BY <1>0, <1>1, <2>1 DEF IdemTypeOK
  <2>5. \A q \in Attempt : q # r /\ Holding(q)' =>
           Holding(q) /\ request'[q] = request[q] /\ request[q].key \in IdemKey
    BY <2>1 DEF Holding, IdemTypeOK, RequestRecord
  <2>6. HoldersRule'
    BY <1>1, <2>1, <2>2, <2>3, <2>5 DEF HoldersRule, Holding, NoAnswer
  <2>7. RunsShow'
    BY <1>1, <2>3 DEF RunsShow
  <2>8. HandledOnceUnlessTorn'
    BY <1>1, <2>2, <2>3 DEF HandledOnceUnlessTorn, NoAnswer
  <2> QED
    BY <2>4, <2>6, <2>7, <2>8
<1>2. CASE request' = Over(r) /\ UNCHANGED <<record, runs, answered, torn>>
  BY <1>2, IsOver, HoldersKept DEF Holding
<1> QED
  BY <1>1, <1>2 DEF Create

LEMMA HasRun ==
    ASSUME IdemTypeOK, NEW k \in IdemKey, Ran(k)
    PROVE  /\ runs' \in [IdemKey -> 0..2] /\ runs'[k] > 0 /\ (runs[k] = 0 => runs'[k] = 1)
           /\ \A m \in IdemKey : m # k => runs'[m] = runs[m]
BY DEF IdemTypeOK, Ran

LEMMA HandleKeepsInv == ASSUME IdemInv, NEW r \in Attempt, Handle(r) PROVE IdemInv'
<1> USE DEF IdemInv
<1> DEFINE k == request[r].key  b == request[r].body
<1>0. /\ k \in IdemKey /\ b \in Body /\ Holding(r) /\ request[r].pc = "handle" /\ record' = record
      /\ record[k].status = "PROCESSING" /\ record[k].body = b /\ NoAnswer(k)
      /\ runs[k] = 0 \/ k \in torn
  BY DEF Handle, IdemTypeOK, RequestRecord, Holding, HoldersRule
<1>1. ASSUME NEW pc \in {"store", "clean"}, request' = Went(r, pc)
      PROVE  /\ request' \in [Attempt -> RequestRecord] /\ request'[r].pc = pc
             /\ request'[r].key = k /\ request'[r].body = b
             /\ \A q \in Attempt : q # r => request'[q] = request[q]
             /\ \A q \in Attempt : q # r /\ Holding(q) => request[q].key # k /\ request[q].key \in IdemKey
  <2>1. \A q \in Attempt : q # r /\ Holding(q) => request[q].key # k
    BY <1>0 DEF HoldersRule
  <2>2. \A q \in Attempt : request[q].key \in IdemKey
    BY DEF IdemTypeOK, RequestRecord
  <2> QED
    BY <1>1, <2>1, <2>2, WentTo
<1>2. CASE request' = Went(r, "store") /\ Ran(k) /\ answered' = answered \cup {<<k, b>>} /\ torn' = torn
  <2>1. /\ runs' \in [IdemKey -> 0..2] /\ runs'[k] > 0 /\ (runs[k] = 0 => runs'[k] = 1)
        /\ \A m \in IdemKey : m # k => runs'[m] = runs[m]
    BY <1>0, <1>2, HasRun
  <2>2. IdemTypeOK'
    BY <1>0, <1>1, <1>2, <2>1 DEF IdemTypeOK
  <2>3. \A m \in IdemKey : m # k /\ NoAnswer(m) => NoAnswer(m)'
    BY <1>2 DEF NoAnswer
  <2>4. HoldersRule'
    BY <1>0, <1>1, <1>2, <2>1, <2>3 DEF HoldersRule, Holding
  <2>5. RunsShow' /\ HandledOnceUnlessTorn'
    BY <1>0, <1>2, <2>1 DEF RunsShow, HandledOnceUnlessTorn, NoAnswer
  <2> QED
    BY <2>2, <2>4, <2>5
<1>3. CASE request' = Went(r, "clean") /\ UNCHANGED <<runs, answered, torn>>
  <2>1. IdemTypeOK'
    BY <1>0, <1>1, <1>3 DEF IdemTypeOK
  <2>2. HoldersRule'
    BY <1>0, <1>1, <1>3 DEF HoldersRule, Holding, NoAnswer
  <2> QED
    BY <1>0, <1>3, <2>1, <2>2 DEF RunsShow, HandledOnceUnlessTorn
<1>4. CASE request' = Went(r, "clean") /\ Ran(k) /\ torn' = torn \cup {k} /\ answered' = answered
  <2>1. /\ runs' \in [IdemKey -> 0..2] /\ runs'[k] > 0
        /\ \A m \in IdemKey : m # k => runs'[m] = runs[m]
    BY <1>0, <1>4, HasRun
  <2>2. IdemTypeOK'
    BY <1>0, <1>1, <1>4, <2>1 DEF IdemTypeOK
  <2>3. HoldersRule'
    BY <1>0, <1>1, <1>4, <2>1 DEF HoldersRule, Holding, NoAnswer
  <2>4. RunsShow' /\ HandledOnceUnlessTorn'
    BY <1>0, <1>4, <2>1 DEF RunsShow, HandledOnceUnlessTorn
  <2> QED
    BY <2>2, <2>3, <2>4
<1> QED
  BY <1>2, <1>3, <1>4 DEF Handle

\* The holder lets go; the row is as it was, completed, or gone again.
LEMMA EndKeepsInv ==
    ASSUME IdemInv, NEW r \in Attempt, Store(r) \/ Clean(r) PROVE IdemInv'
<1> USE DEF IdemInv
<1> DEFINE k == request[r].key
<1>0. k \in IdemKey /\ Holding(r) /\ UNCHANGED <<runs, answered, torn>> /\ request' = Over(r)
  BY DEF Store, Clean, IdemTypeOK, RequestRecord, Holding
<1>1. /\ request' \in [Attempt -> RequestRecord] /\ request'[r].pc = "idle"
      /\ \A q \in Attempt : q # r => request'[q] = request[q]
      /\ \A q \in Attempt : q # r /\ Holding(q) => request[q].key # k
  BY <1>0, IsOver DEF HoldersRule
<1>2. /\ record[k].status = "PROCESSING"
      /\ request[r].pc = "store" => runs[k] > 0
      /\ request[r].pc # "store" => NoAnswer(k) /\ (runs[k] = 0 \/ k \in torn)
  BY <1>0 DEF HoldersRule
<1>3. CASE record' = record
  BY <1>0, <1>1, <1>3, HoldersKept DEF Holding
<1>4. ASSUME record' \in [IdemKey -> RecordRow], \A m \in IdemKey : m # k => record'[m] = record[m]
      PROVE  IdemTypeOK' /\ HoldersRule'
  <2>1. IdemTypeOK'
    BY <1>0, <1>1, <1>4 DEF IdemTypeOK
  <2>2. \A q \in Attempt : Holding(q)' => /\ Holding(q) /\ request'[q] = request[q]
                                          /\ record'[request[q].key] = record[request[q].key]
    BY <1>0, <1>1, <1>4 DEF Holding, IdemTypeOK, RequestRecord
  <2>3. HoldersRule'
    BY <1>0, <2>2 DEF HoldersRule, Holding, NoAnswer
  <2> QED
    BY <2>1, <2>3
<1>5. CASE Store(r) /\ record' = [record EXCEPT ![k].status = "COMPLETED"]
  <2>1. /\ record' \in [IdemKey -> RecordRow] /\ record'[k].status = "COMPLETED"
        /\ record'[k].body = record[k].body /\ \A m \in IdemKey : m # k => record'[m] = record[m]
    BY <1>0, <1>5 DEF IdemTypeOK, RecordRow
  <2>2. runs[k] > 0
    BY <1>2, <1>5 DEF Store
  <2> QED
    BY <1>0, <1>4, <2>1, <2>2 DEF RunsShow, HandledOnceUnlessTorn
<1>6. CASE Clean(r) /\ record' = [record EXCEPT ![k] = NoRecord]
  <2>1. /\ record' \in [IdemKey -> RecordRow] /\ record'[k].status = "none"
        /\ \A m \in IdemKey : m # k => record'[m] = record[m]
    BY <1>0, <1>6, NoRequestTyped DEF IdemTypeOK, NoRecord
  <2>2. NoAnswer(k) /\ (runs[k] = 0 \/ k \in torn)
    BY <1>2, <1>6 DEF Clean
  <2> QED
    BY <1>0, <1>4, <2>1, <2>2 DEF RunsShow, HandledOnceUnlessTorn, NoAnswer
<1> QED
  BY <1>3, <1>5, <1>6 DEF Store, Clean

LEMMA HaltKeepsInv == ASSUME IdemInv, NEW r \in Attempt, Halt(r) PROVE IdemInv'
<1> USE DEF IdemInv
<1> DEFINE k == request[r].key
<1>0. k \in IdemKey /\ UNCHANGED <<record, answered, torn>>
  BY DEF Halt, IdemTypeOK, RequestRecord
<1>1. /\ request' \in [Attempt -> RequestRecord] /\ request'[r].pc = "idle"
      /\ \A q \in Attempt : q # r => request'[q] = request[q]
  BY IsOver DEF Halt
<1>2. CASE runs' = runs
  BY <1>0, <1>1, <1>2, HoldersKept DEF Holding
<1>3. CASE request[r].pc = "handle" /\ Ran(k)
  <2>1. /\ runs[k] = 0 \/ k \in torn
        /\ record[k].status = "PROCESSING"
        /\ \A q \in Attempt : q # r /\ Holding(q) => request[q].key # k
    BY <1>3 DEF HoldersRule, Holding
  <2>2. /\ runs' \in [IdemKey -> 0..2] /\ runs'[k] > 0 /\ (runs[k] = 0 => runs'[k] = 1)
        /\ \A m \in IdemKey : m # k => runs'[m] = runs[m]
    BY <1>0, <1>3, HasRun
  <2>3. IdemTypeOK'
    BY <1>0, <1>1, <2>2 DEF IdemTypeOK
  <2>4. HoldersRule'
    BY <1>0, <1>1, <2>1, <2>2 DEF HoldersRule, Holding, NoAnswer, IdemTypeOK, RequestRecord
  <2> QED
    BY <1>0, <2>1, <2>2, <2>3, <2>4 DEF RunsShow, HandledOnceUnlessTorn
<1> QED
  BY <1>2, <1>3 DEF Halt

LEMMA IdemInvariant == IdemSpec => []IdemInv
<1>1. IdemInv /\ [IdemNext]_idemVars => IdemInv'
  <2> SUFFICES ASSUME IdemInv, [IdemNext]_idemVars PROVE IdemInv'
    OBVIOUS
  <2>1. CASE UNCHANGED idemVars
    BY <2>1, HoldersKept DEF idemVars, IdemInv, IdemTypeOK, Holding
  <2> QED
    BY <2>1, FindKeepsInv, CreateKeepsInv, HandleKeepsInv, EndKeepsInv, HaltKeepsInv DEF IdemNext
<1> QED
  BY <1>1, IdemStart, PTL DEF IdemSpec

\* Key rows and requests have their types.
THEOREM KeysTyped == IdemSpec => []IdemTypeOK
BY IdemInvariant, PTL DEF IdemInv

\* For any number of keys, bodies and overlapping requests: a handler takes effect
\* once under its key, unless one threw after its work was done and the key was freed
\* for a retry; and only the body whose handler took effect is ever answered.
THEOREM HandledOnce == IdemSpec => []HandledOnceUnlessTorn
BY IdemInvariant, PTL DEF IdemInv

------------------------------------------------------------------------------
(* Refresh tokens (module RefreshTokens). *)

Usable(t, f)  == token[t].family = f /\ ~token[t].used
Issuing(c, f) == client[c].pc = "issue" /\ client[c].family = f
Marking(c, f) == client[c].pc = "mark" /\ client[c].family = f

\* What a request and a token name exists; a token counts as shown from its use on.
RowsFit ==
    /\ \A c \in Client :
          /\ client[c].pc = "idle" => client[c].token = 0 /\ client[c].family = 0
          /\ client[c].family # 0 => family[client[c].family] # "none"
          /\ client[c].pc \in {"mark", "revoke"} =>
                /\ client[c].token \in Token /\ client[c].family \in Family
                /\ token[client[c].token].family = client[c].family
          /\ client[c].pc = "revoke" => shown[client[c].token] = 2
    /\ \A t \in Token :
          /\ token[t].family # 0 => family[token[t].family] # "none"
          /\ token[t].family = 0 => ~token[t].used
          /\ token[t].used <=> shown[t] # 0

\* A chain that is not forked has one usable token, or one request about to issue it,
\* and one request at most that is about to use the token up.
ChainsAreSingle ==
    \A f \in Family \ forked :
        /\ \A t, u \in Token : Usable(t, f) /\ Usable(u, f) => t = u
        /\ \A c \in Client : Issuing(c, f) =>
              (\A t \in Token : ~Usable(t, f)) /\ \A d \in Client : Issuing(d, f) => c = d
        /\ \A c \in Client : Marking(c, f) =>
              ~token[client[c].token].used /\ \A d \in Client : Marking(d, f) => c = d

\* Unless disturbed, a family that is live is not being logged out, one that is being
\* refreshed is live, and a session outlives its family only until its logout ends.
SessionsFollow ==
    \A f \in Family \ disturbed :
        /\ family[f] = "live" => session[f] = "live" /\ ~LoggingOut(f)
        /\ session[f] = "live" /\ family[f] # "live" => LoggingOut(f)
        /\ Refreshing(f) => family[f] = "live"

\* A live family has a usable token, or a request about to issue one, or lost it.
LoginsLast ==
    \A f \in Family \ stranded : family[f] = "live" =>
        (\E t \in Token : Usable(t, f)) \/ \E c \in Client : Issuing(c, f)

TokensInv ==
    TokensTypeOK /\ RowsFit /\ ChainsAreSingle /\ StolenIfShownTwice /\ SessionsFollow /\ LoginsLast

LEMMA Numbers ==
    /\ 0 \notin Family /\ 0 \notin Token
    /\ \A f \in Family : f \in Int /\ f # 0
    /\ \A t \in Token : t \in Int /\ t # 0
BY TokensAssumption DEF Family, Token

(***************************************************************************)
(* Steps                                                                   *)
(***************************************************************************)

TokenPCs == {"idle", "revoke", "mark", "issue", "sessions"}

LEMMA ClientMoves ==
    ASSUME TokensTypeOK, NEW c \in Client, NEW pc \in TokenPCs, client' = [client EXCEPT ![c].pc = pc]
    PROVE  /\ client' \in [Client -> ClientRecord]
           /\ client'[c].pc = pc /\ client'[c].token = client[c].token
           /\ client'[c].family = client[c].family
           /\ \A d \in Client \ {c} : client'[d] = client[d]
BY DEF TokensTypeOK, ClientRecord, TokenPCs

LEMMA ClientTakes ==
    ASSUME TokensTypeOK, NEW c \in Client, NEW pc \in TokenPCs, NEW t \in Token \cup {0},
           NEW f \in Family \cup {0},
           client' = [client EXCEPT ![c] = [pc |-> pc, token |-> t, family |-> f]]
    PROVE  /\ client' \in [Client -> ClientRecord]
           /\ client'[c].pc = pc /\ client'[c].token = t /\ client'[c].family = f
           /\ \A d \in Client \ {c} : client'[d] = client[d]
BY DEF TokensTypeOK, ClientRecord, TokenPCs

LEMMA ClientLeaves ==
    ASSUME TokensTypeOK, NEW c \in Client, client' = [client EXCEPT ![c] = Away]
    PROVE  /\ client' \in [Client -> ClientRecord]
           /\ client'[c].pc = "idle" /\ client'[c].token = 0 /\ client'[c].family = 0
           /\ \A d \in Client \ {c} : client'[d] = client[d]
BY ClientTakes DEF Away, TokenPCs

\* The rows stay as they are, and the request that moves is not at a token.
LEMMA RowsKept ==
    ASSUME TokensTypeOK, RowsFit, NEW c \in Client, UNCHANGED <<token, shown>>,
           \A f \in Family : family[f] # "none" => family'[f] # "none",
           \A d \in Client \ {c} : client'[d] = client[d],
           client'[c].pc \notin {"mark", "revoke"},
           client'[c].pc = "idle" => client'[c].token = 0 /\ client'[c].family = 0,
           client'[c].family # 0 => client'[c].family \in Family /\ family'[client'[c].family] # "none"
    PROVE  RowsFit'
<1>1. \A d \in Client : client[d].family \in Family \cup {0}
  BY DEF TokensTypeOK, ClientRecord
<1>2. \A t \in Token : token[t].family \in Family \cup {0}
  BY DEF TokensTypeOK, TokenRow
<1> QED
  BY <1>1, <1>2 DEF RowsFit

LEMMA ChainsKept ==
    ASSUME ChainsAreSingle, NEW c \in Client, UNCHANGED token, forked \subseteq forked',
           \A d \in Client \ {c} : client'[d] = client[d],
           client'[c].pc # "mark", client'[c].pc = "issue" => client'[c].family = 0
    PROVE  ChainsAreSingle'
<1>1. \A d \in Client, f \in Family : (Issuing(d, f)' => Issuing(d, f)) /\ (Marking(d, f)' => d # c /\ Marking(d, f))
  BY Numbers DEF Issuing, Marking
<1>2. \A t \in Token, f \in Family : Usable(t, f)' <=> Usable(t, f)
  BY DEF Usable
<1> QED
  BY <1>1, <1>2 DEF ChainsAreSingle

\* No token is shown, no family comes to life, and no handling of a replay is lost.
LEMMA TheftsKept ==
    ASSUME StolenIfShownTwice, NEW c \in Client, UNCHANGED <<token, shown>>,
           forked \subseteq forked', disturbed \subseteq disturbed',
           \A d \in Client \ {c} : client'[d] = client[d],
           client[c].pc = "revoke" => client[c].family \in disturbed',
           \A f \in Family : /\ family'[f] = "live" => family[f] = "live"
                             /\ family'[f] = "TOKEN_REUSE_DETECTED" =>
                                   \/ family[f] = "TOKEN_REUSE_DETECTED"
                                   \/ \E t \in Token : token[t].family = f /\ shown[t] = 2
    PROVE  StolenIfShownTwice'
BY DEF StolenIfShownTwice

\* The request that moves is no logout, neither before nor after.
LEMMA LogoutsKept ==
    ASSUME NEW c \in Client, \A d \in Client \ {c} : client'[d] = client[d],
           client[c].pc # "sessions", client'[c].pc # "sessions", NEW f \in Family
    PROVE  LoggingOut(f)' <=> LoggingOut(f)
BY DEF LoggingOut

LEMMA RefreshesKept ==
    ASSUME NEW c \in Client, \A d \in Client \ {c} : client'[d] = client[d], NEW f \in Family,
           client'[c].pc \in {"mark", "issue"} =>
               \/ client'[c].family = 0
               \/ client[c].pc \in {"mark", "issue"} /\ client'[c].family = client[c].family
    PROVE  Refreshing(f)' => Refreshing(f)
BY Numbers DEF Refreshing

\* No token is used up, and a request about to issue one goes on or is noted.
LEMMA LoginsKept ==
    ASSUME TokensTypeOK, LoginsLast, NEW c \in Client, UNCHANGED token, stranded \subseteq stranded',
           \A d \in Client \ {c} : client'[d] = client[d],
           \A f \in Family : Issuing(c, f) => f \in stranded',
           \A f \in Family : family'[f] = "live" => family[f] = "live"
    PROVE  LoginsLast'
<1> SUFFICES ASSUME NEW f \in Family \ stranded', family'[f] = "live"
             PROVE  (\E t \in Token : Usable(t, f)') \/ \E d \in Client : Issuing(d, f)'
  BY DEF LoginsLast
<1>1. CASE \E t \in Token : Usable(t, f)
  BY <1>1 DEF Usable
<1>2. CASE \E d \in Client : Issuing(d, f)
  BY <1>2 DEF Issuing
<1> QED
  BY <1>1, <1>2 DEF LoginsLast

LEMMA BeginLoginKeepsInv == ASSUME TokensInv, NEW c \in Client, BeginLogin(c) PROVE TokensInv'
<1>0. TokensTypeOK /\ client[c].pc = "idle" /\ UNCHANGED <<family, session, token, enabled, shown, forked, disturbed, stranded>>
  BY DEF TokensInv, BeginLogin
<1>1. /\ client' \in [Client -> ClientRecord] /\ client'[c].pc = "issue" /\ client'[c].family = 0
      /\ \A d \in Client \ {c} : client'[d] = client[d]
  BY <1>0, ClientMoves DEF BeginLogin, TokensInv, RowsFit, TokenPCs
<1>2. TokensTypeOK'
  BY <1>0, <1>1 DEF TokensTypeOK
<1>3. RowsFit' /\ ChainsAreSingle' /\ StolenIfShownTwice'
  BY <1>0, <1>1, RowsKept, ChainsKept, TheftsKept DEF TokensInv
<1>4. SessionsFollow'
  <2>1. \A g \in Family : LoggingOut(g)' <=> LoggingOut(g)
    BY <1>0, <1>1, LogoutsKept
  <2>2. \A g \in Family : Refreshing(g)' => Refreshing(g)
    BY <1>1, RefreshesKept
  <2> QED
    BY <1>0, <2>1, <2>2 DEF TokensInv, SessionsFollow
<1>5. LoginsLast'
  BY <1>0, <1>1, LoginsKept DEF TokensInv, Issuing
<1> QED
  BY <1>2, <1>3, <1>4, <1>5 DEF TokensInv

LEMMA LookupKeepsInv ==
    ASSUME TokensInv, NEW c \in Client, NEW t \in Token, Lookup(c, t) PROVE TokensInv'
<1> DEFINE f == token[t].family
<1>0. /\ TokensTypeOK /\ client[c].pc = "idle" /\ f \in Family
      /\ UNCHANGED <<family, session, token, enabled, disturbed, stranded>>
      /\ forked \subseteq forked'
  BY DEF TokensInv, Lookup, TokensTypeOK, TokenRow
<1>1. CASE token[t].used
  <2>1. /\ client' \in [Client -> ClientRecord] /\ client'[c].pc = "revoke"
        /\ client'[c].token = t /\ client'[c].family = f
        /\ \A d \in Client \ {c} : client'[d] = client[d]
    BY <1>0, <1>1, ClientTakes DEF Lookup, TokenPCs
  <2>2. /\ shown' \in [Token -> 0..2] /\ shown'[t] = 2 /\ forked' = forked
        /\ \A u \in Token \ {t} : shown'[u] = shown[u]
    BY <1>0, <1>1 DEF Lookup, Counted, TokensTypeOK, TokensInv, RowsFit
  <2>3. TokensTypeOK'
    BY <1>0, <2>1, <2>2 DEF TokensTypeOK
  <2>4. RowsFit'
    BY <1>0, <1>1, <2>1, <2>2 DEF TokensInv, RowsFit
  <2>5. ChainsAreSingle'
    BY <1>0, <2>1, <2>2, ChainsKept DEF TokensInv
  <2>6. StolenIfShownTwice'
    <3>1. \A g \in Family, d \in Client : client[d].pc = "revoke" /\ client[d].family = g
             => client'[d].pc = "revoke" /\ client'[d].family = g
      BY <1>0, <2>1
    <3>2. \A u \in Token : shown[u] = 2 => shown'[u] = 2
      BY <2>2
    <3>3. \A u \in Token : shown'[u] = 2 => shown[u] = 2 \/ u = t
      BY <2>2
    <3> QED
      BY <1>0, <2>1, <2>2, <3>1, <3>2, <3>3 DEF TokensInv, StolenIfShownTwice
  <2>7. SessionsFollow'
    BY <1>0, <2>1, LogoutsKept, RefreshesKept DEF TokensInv, SessionsFollow
  <2>8. LoginsLast'
    BY <1>0, <2>1, LoginsKept DEF TokensInv, Issuing
  <2> QED
    BY <2>3, <2>4, <2>5, <2>6, <2>7, <2>8 DEF TokensInv
<1>2. CASE ~token[t].used
  <2>1. /\ client' \in [Client -> ClientRecord] /\ client'[c].pc = "mark"
        /\ client'[c].token = t /\ client'[c].family = f
        /\ \A d \in Client \ {c} : client'[d] = client[d]
    BY <1>0, <1>2, ClientTakes DEF Lookup, TokenPCs
  <2>2. /\ shown' = shown /\ family[f] = "live" /\ forked' \subseteq Family
        /\ f \in forked' \/ \A d \in Client : ~(client[d].pc = "mark" /\ client[d].token = t)
    BY <1>0, <1>2 DEF Lookup, Accepted, TokensTypeOK
  <2>3. TokensTypeOK'
    BY <1>0, <2>1, <2>2 DEF TokensTypeOK
  <2>4. RowsFit'
    BY <1>0, <2>1, <2>2 DEF TokensInv, RowsFit
  <2>5. ChainsAreSingle'
    <3>1. \A d \in Client, g \in Family :
             /\ Issuing(d, g)' => Issuing(d, g)
             /\ Marking(d, g)' => IF d = c THEN g = f ELSE Marking(d, g)
      BY <2>1 DEF Issuing, Marking
    <3>2. \A u \in Token, g \in Family : Usable(u, g)' <=> Usable(u, g)
      BY <1>0 DEF Usable
    <3>3. ASSUME f \notin forked', NEW d \in Client PROVE ~Marking(d, f)
      <4> SUFFICES ASSUME Marking(d, f) PROVE FALSE
        OBVIOUS
      <4>1. client[d].token \in Token /\ Usable(client[d].token, f) /\ Usable(t, f)
        BY <1>0, <1>2, <3>3 DEF Marking, TokensInv, RowsFit, ChainsAreSingle, Usable
      <4>2. client[d].token = t
        BY <1>0, <3>3, <4>1 DEF TokensInv, ChainsAreSingle
      <4> QED
        BY <2>2, <3>3, <4>2 DEF Marking
    <3> QED
      BY <1>0, <1>2, <2>1, <3>1, <3>2, <3>3 DEF TokensInv, ChainsAreSingle
  <2>6. StolenIfShownTwice'
    BY <1>0, <2>1, <2>2, TheftsKept DEF TokensInv
  <2>7. SessionsFollow'
    <3>1. \A g \in Family : Refreshing(g)' => g = f \/ Refreshing(g)
      BY <2>1 DEF Refreshing
    <3> QED
      BY <1>0, <2>1, <2>2, <3>1, LogoutsKept DEF TokensInv, SessionsFollow
  <2>8. LoginsLast'
    BY <1>0, <2>1, LoginsKept DEF TokensInv, Issuing
  <2> QED
    BY <2>3, <2>4, <2>5, <2>6, <2>7, <2>8 DEF TokensInv
<1> QED
  BY <1>1, <1>2

LEMMA RevokeReusedKeepsInv == ASSUME TokensInv, NEW c \in Client, RevokeReused(c) PROVE TokensInv'
<1> DEFINE f == client[c].family  t == client[c].token
<1>0. /\ TokensTypeOK /\ client[c].pc = "revoke" /\ t \in Token /\ f \in Family
      /\ token[t].family = f /\ shown[t] = 2
      /\ UNCHANGED <<session, token, enabled, shown, forked, stranded>>
      /\ disturbed' = disturbed \cup {f}
  BY DEF TokensInv, RevokeReused, RowsFit
<1>1. /\ client' \in [Client -> ClientRecord] /\ client'[c].pc = "idle"
      /\ client'[c].token = 0 /\ client'[c].family = 0
      /\ \A d \in Client \ {c} : client'[d] = client[d]
  BY <1>0, ClientLeaves DEF RevokeReused
<1>2. /\ family' \in [Family -> FamilyStates] /\ family'[f] = "TOKEN_REUSE_DETECTED"
      /\ \A g \in Family \ {f} : family'[g] = family[g]
  BY <1>0 DEF RevokeReused, TokensTypeOK, FamilyStates
<1>3. TokensTypeOK'
  BY <1>0, <1>1, <1>2 DEF TokensTypeOK
<1>4. RowsFit' /\ ChainsAreSingle'
  BY <1>0, <1>1, <1>2, RowsKept, ChainsKept DEF TokensInv
<1>5. StolenIfShownTwice'
  <2>1. \A g \in Family : /\ family'[g] = "live" => family[g] = "live"
                          /\ family'[g] = "TOKEN_REUSE_DETECTED" =>
                                \/ family[g] = "TOKEN_REUSE_DETECTED"
                                \/ \E u \in Token : token[u].family = g /\ shown[u] = 2
    BY <1>0, <1>2
  <2> QED
    BY <1>0, <1>1, <2>1, TheftsKept DEF TokensInv
<1>6. SessionsFollow'
  BY <1>0, <1>1, <1>2, LogoutsKept, RefreshesKept DEF TokensInv, SessionsFollow
<1>7. LoginsLast'
  BY <1>0, <1>1, <1>2, LoginsKept DEF TokensInv, Issuing
<1> QED
  BY <1>3, <1>4, <1>5, <1>6, <1>7 DEF TokensInv

LEMMA MarkUsedKeepsInv == ASSUME TokensInv, NEW c \in Client, MarkUsed(c) PROVE TokensInv'
<1>a. PICK t \in Token, f \in Family : client[c].token = t /\ client[c].family = f /\ token[t].family = f
  BY DEF TokensInv, MarkUsed, RowsFit
<1>0. /\ TokensTypeOK /\ client[c].pc = "mark"
      /\ UNCHANGED <<family, session, enabled, forked, disturbed, stranded>>
  BY DEF TokensInv, MarkUsed
<1>1. /\ client' \in [Client -> ClientRecord] /\ client'[c].pc = "issue" /\ client'[c].family = f
      /\ client'[c].token = t
      /\ \A d \in Client \ {c} : client'[d] = client[d]
  BY <1>a, <1>0, ClientMoves DEF MarkUsed, TokenPCs
<1>2. /\ token' \in [Token -> TokenRow] /\ token'[t].used /\ token'[t].family = f
      /\ \A u \in Token \ {t} : token'[u] = token[u]
  BY <1>a, <1>0 DEF MarkUsed, TokensTypeOK, TokenRow
<1>3. /\ shown' \in [Token -> 0..2] /\ shown'[t] = (IF shown[t] = 0 THEN 1 ELSE 2)
      /\ \A u \in Token \ {t} : shown'[u] = shown[u]
  BY <1>a, <1>0 DEF MarkUsed, TokensTypeOK, Counted
<1>4. TokensTypeOK'
  BY <1>a, <1>0, <1>1, <1>2, <1>3 DEF TokensTypeOK
<1>5. f \notin forked => shown[t] = 0 /\ \A d \in Client : Marking(d, f) => d = c
  BY <1>a, <1>0 DEF TokensInv, RowsFit, ChainsAreSingle, Marking
<1>6. RowsFit'
  <2>1. \A d \in Client \ {c} : client[d].pc = "revoke" => client[d].token \in Token
    BY DEF TokensInv, RowsFit
  <2>2. \A u \in Token : token'[u].family = token[u].family
    BY <1>a, <1>2
  <2>3. \A u \in Token : shown[u] = 2 => shown'[u] = 2
    BY <1>3
  <2>4. \A u \in Token : token'[u].used <=> shown'[u] # 0
    BY <1>2, <1>3 DEF TokensInv, RowsFit
  <2>5. \A u \in Token : token'[u].family = 0 => ~token'[u].used
    BY <1>2, Numbers DEF TokensInv, RowsFit
  <2>6. client'[c].token = t /\ family' = family
    BY <1>a, <1>0, <1>a, <1>1
  <2> QED
    BY <1>a, <1>1, <2>1, <2>2, <2>3, <2>4, <2>5, <2>6 DEF TokensInv, RowsFit
<1>7. ChainsAreSingle'
  <2>1. \A d \in Client, g \in Family :
           /\ Issuing(d, g)' => (d = c /\ g = f) \/ Issuing(d, g)
           /\ Marking(d, g)' => d # c /\ Marking(d, g)
    BY <1>1 DEF Issuing, Marking
  <2>2. \A u \in Token, g \in Family : Usable(u, g)' => u # t /\ Usable(u, g)
    BY <1>2 DEF Usable
  <2>3. ASSUME f \notin forked PROVE Usable(t, f) /\ \A d \in Client : ~Issuing(d, f)
    <3>1. Usable(t, f)
      BY <1>a, <1>0, <2>3 DEF TokensInv, ChainsAreSingle, Marking, Usable
    <3> QED
      BY <1>a, <1>0, <2>3, <3>1 DEF TokensInv, ChainsAreSingle
  <2>4. ASSUME f \notin forked, NEW u \in Token PROVE ~Usable(u, f)'
    BY <1>a, <1>0, <2>2, <2>3, <2>4 DEF TokensInv, ChainsAreSingle
  <2>5. ASSUME NEW g \in Family \ forked, NEW d \in Client, Marking(d, g)'
        PROVE  ~token'[client'[d].token].used /\ \A e \in Client : Marking(e, g)' => d = e
    <3>1. d # c /\ Marking(d, g) /\ client'[d] = client[d] /\ g # f
      BY <1>1, <1>5, <2>1, <2>5
    <3>2. ~token[client[d].token].used /\ client[d].token \in Token /\ token[client[d].token].family = g
      BY <3>1 DEF TokensInv, RowsFit, ChainsAreSingle, Marking
    <3>3. client[d].token # t
      BY <1>a, <1>0, <3>1, <3>2
    <3> QED
      BY <1>2, <2>1, <3>1, <3>2, <3>3 DEF TokensInv, ChainsAreSingle
  <2>6. ASSUME NEW g \in Family \ forked, NEW d \in Client, Issuing(d, g)'
        PROVE  (\A u \in Token : ~Usable(u, g)') /\ \A e \in Client : Issuing(e, g)' => d = e
    BY <2>1, <2>2, <2>3, <2>4, <2>6 DEF TokensInv, ChainsAreSingle
  <2> QED
    BY <1>a, <1>0, <2>2, <2>5, <2>6 DEF TokensInv, ChainsAreSingle
<1>8. StolenIfShownTwice'
  <2>1. \A u \in Token : token'[u].family = token[u].family /\ (shown[u] = 2 => shown'[u] = 2)
    BY <1>a, <1>0, <1>2, <1>3
  <2>2. \A u \in Token : shown'[u] = 2 => shown[u] = 2 \/ token[u].family \in forked
    BY <1>a, <1>0, <1>3, <1>5
  <2>3. \A g \in Family, d \in Client : client[d].pc = "revoke" /\ client[d].family = g
           => client'[d].pc = "revoke" /\ client'[d].family = g
    BY <1>a, <1>0, <1>1
  <2> QED
    BY <1>a, <1>0, <2>1, <2>2, <2>3 DEF TokensInv, StolenIfShownTwice
<1>9. SessionsFollow'
  BY <1>a, <1>0, <1>1, LogoutsKept, RefreshesKept DEF TokensInv, SessionsFollow
<1>10. LoginsLast'
  <2>1. Issuing(c, f)'
    BY <1>1 DEF Issuing
  <2>2. \A g \in Family \ {f}, u \in Token : Usable(u, g) => Usable(u, g)'
    BY <1>a, <1>2 DEF Usable
  <2>3. \A g \in Family, d \in Client : Issuing(d, g) => Issuing(d, g)'
    BY <1>0, <1>1 DEF Issuing
  <2> QED
    BY <1>0, <2>1, <2>2, <2>3 DEF TokensInv, LoginsLast
<1> QED
  BY <1>4, <1>6, <1>7, <1>8, <1>9, <1>10 DEF TokensInv

\* A login's family is new: no token and no request names it.
LEMMA IssueKeepsInv ==
    ASSUME TokensInv, NEW c \in Client, NEW t \in Token, Issue(c, t) PROVE TokensInv'
<1>0. /\ TokensTypeOK /\ client[c].pc = "issue" /\ UNCHANGED <<enabled, shown, forked, stranded>>
      /\ token[t].family = 0 /\ ~token[t].used /\ shown[t] = 0
  BY Numbers DEF TokensInv, RowsFit, Issue
<1>1. PICK f \in Family :
          /\ IF client[c].family = 0 THEN \A e \in Family : family[e] = "none" <=> f <= e
             ELSE f = client[c].family
          /\ token' = [token EXCEPT ![t] = [family |-> f, used |-> FALSE]]
          /\ family' = [family EXCEPT ![f] = IF @ = "none" THEN "live" ELSE @]
          /\ session' = [session EXCEPT ![f] = "live"]
          /\ disturbed' = IF LoggingOut(f) THEN disturbed \cup {f} ELSE disturbed
  BY DEF Issue
<1>2. /\ client' \in [Client -> ClientRecord] /\ client'[c].pc = "idle"
      /\ client'[c].token = 0 /\ client'[c].family = 0
      /\ \A d \in Client \ {c} : client'[d] = client[d]
  BY <1>0, ClientLeaves DEF Issue
<1>3. /\ token' \in [Token -> TokenRow] /\ token'[t].family = f /\ ~token'[t].used
      /\ \A u \in Token \ {t} : token'[u] = token[u]
  BY <1>0, <1>1 DEF TokensTypeOK, TokenRow
<1>4. /\ family' \in [Family -> FamilyStates] /\ family'[f] # "none"
      /\ family'[f] = (IF family[f] = "none" THEN "live" ELSE family[f])
      /\ \A g \in Family \ {f} : family'[g] = family[g]
  BY <1>0, <1>1 DEF TokensTypeOK, FamilyStates
<1>5. /\ session' \in [Family -> SessionStates] /\ session'[f] = "live"
      /\ \A g \in Family \ {f} : session'[g] = session[g]
  BY <1>0, <1>1 DEF TokensTypeOK, SessionStates
<1>6. /\ disturbed \subseteq disturbed' /\ disturbed' \subseteq Family
      /\ f \notin disturbed' => ~LoggingOut(f)
  BY <1>0, <1>1 DEF TokensTypeOK
<1>7. TokensTypeOK'
  BY <1>0, <1>2, <1>3, <1>4, <1>5, <1>6 DEF TokensTypeOK
<1>8. /\ \A d \in Client : client[d].family \in Family \cup {0}
      /\ \A u \in Token : token[u].family \in Family \cup {0}
  BY <1>0 DEF TokensTypeOK, ClientRecord, TokenRow
\* Either the request issues for its chain, or the family is new.
<1>9. \/ Issuing(c, f) /\ family[f] # "none"
      \/ /\ family[f] = "none"
         /\ \A u \in Token : token[u].family # f
         /\ \A d \in Client : client[d].family # f
  <2>1. CASE client[c].family = 0
    <3>1. family[f] = "none"
      BY <1>1, <2>1, Numbers
    <3> QED
      BY <3>1, <1>8, Numbers DEF TokensInv, RowsFit
  <2>2. CASE client[c].family # 0
    BY <1>0, <1>1, <2>2 DEF Issuing, TokensInv, RowsFit
  <2> QED
    BY <2>1, <2>2
<1>10. RowsFit'
  <2>1. \A g \in Family : family[g] # "none" => family'[g] # "none"
    BY <1>4
  <2>2. ASSUME NEW d \in Client
        PROVE  /\ client'[d].pc = "idle" => client'[d].token = 0 /\ client'[d].family = 0
               /\ client'[d].family # 0 => family'[client'[d].family] # "none"
               /\ client'[d].pc \in {"mark", "revoke"} =>
                     /\ client'[d].token \in Token /\ client'[d].family \in Family
                     /\ token'[client'[d].token].family = client'[d].family
               /\ client'[d].pc = "revoke" => shown'[client'[d].token] = 2
    <3>1. CASE d = c
      BY <1>2, <3>1
    <3>2. CASE d # c
      <4>1. client'[d] = client[d]
        BY <1>2, <3>2
      <4>2. client[d].pc \in {"mark", "revoke"} => client[d].token # t
        BY <1>0, Numbers DEF TokensInv, RowsFit
      <4> QED
        BY <1>0, <1>3, <1>8, <2>1, <4>1, <4>2 DEF TokensInv, RowsFit
    <3> QED
      BY <3>1, <3>2
  <2>3. ASSUME NEW u \in Token
        PROVE  /\ token'[u].family # 0 => family'[token'[u].family] # "none"
               /\ token'[u].family = 0 => ~token'[u].used
               /\ token'[u].used <=> shown'[u] # 0
    <3>1. CASE u = t
      BY <1>0, <1>3, <1>4, <3>1
    <3>2. CASE u # t
      BY <1>0, <1>3, <1>8, <2>1, <3>2 DEF TokensInv, RowsFit
    <3> QED
      BY <3>1, <3>2
  <2> QED
    BY <2>2, <2>3 DEF RowsFit
<1>11. ChainsAreSingle'
  <2>1. \A d \in Client, g \in Family :
           /\ Issuing(d, g)' => d # c /\ Issuing(d, g)
           /\ Marking(d, g)' => d # c /\ Marking(d, g) /\ client'[d] = client[d]
    BY <1>2 DEF Issuing, Marking
  <2>2. \A u \in Token, g \in Family : Usable(u, g)' => (u = t /\ g = f) \/ Usable(u, g)
    BY <1>3 DEF Usable
  <2>3. ASSUME f \notin forked
        PROVE  /\ \A u \in Token : ~Usable(u, f)
               /\ \A d \in Client : ~Issuing(d, f)'
    <3>1. CASE Issuing(c, f)
      BY <1>0, <2>1, <2>3, <3>1 DEF TokensInv, ChainsAreSingle
    <3>2. CASE \A u \in Token : token[u].family # f /\ \A d \in Client : client[d].family # f
      BY <1>0, <2>1, <3>2 DEF Usable, Issuing
    <3> QED
      BY <1>9, <3>1, <3>2
  <2>4. ASSUME NEW d \in Client, NEW g \in Family, Marking(d, g)'
        PROVE  token'[client'[d].token] = token[client[d].token]
    BY <1>0, <1>3, <2>1, <2>4, Numbers DEF TokensInv, RowsFit, Marking
  <2>5. ASSUME NEW g \in Family \ forked, NEW u \in Token, NEW v \in Token, Usable(u, g)', Usable(v, g)'
        PROVE  u = v
    BY <2>2, <2>3, <2>5 DEF TokensInv, ChainsAreSingle
  <2>6. ASSUME NEW g \in Family \ forked, NEW d \in Client, Issuing(d, g)'
        PROVE  (\A u \in Token : ~Usable(u, g)') /\ \A e \in Client : Issuing(e, g)' => d = e
    BY <2>1, <2>2, <2>3, <2>6 DEF TokensInv, ChainsAreSingle
  <2>7. ASSUME NEW g \in Family \ forked, NEW d \in Client, Marking(d, g)'
        PROVE  ~token'[client'[d].token].used /\ \A e \in Client : Marking(e, g)' => d = e
    BY <2>1, <2>4, <2>7 DEF TokensInv, ChainsAreSingle
  <2> QED
    BY <1>0, <2>5, <2>6, <2>7 DEF ChainsAreSingle
<1>12. StolenIfShownTwice'
  <2>1. \A u \in Token : /\ token[u].family # 0 => token'[u].family = token[u].family
                         /\ token'[u].family = token[u].family \/ shown'[u] = 0
                         /\ shown'[u] = shown[u]
    BY <1>0, <1>3
  <2>2. \A g \in Family : /\ family'[g] = "TOKEN_REUSE_DETECTED" => family[g] = "TOKEN_REUSE_DETECTED"
                          /\ family'[g] = "live" =>
                                family[g] = "live" \/ \A u \in Token : token[u].family # g
    BY <1>4, <1>9
  <2>3. \A g \in Family, d \in Client : client[d].pc = "revoke" /\ client[d].family = g
           => client'[d].pc = "revoke" /\ client'[d].family = g
    BY <1>0, <1>2
  <2>4. ASSUME NEW g \in Family, family'[g] = "TOKEN_REUSE_DETECTED"
        PROVE  \E u \in Token : token'[u].family = g /\ shown'[u] = 2
    BY <2>1, <2>2, <2>4, Numbers DEF TokensInv, StolenIfShownTwice
  <2>5. ASSUME NEW g \in Family, family'[g] = "live", NEW u \in Token, token'[u].family = g, shown'[u] = 2
        PROVE  \/ g \in forked' \cup disturbed'
               \/ \E d \in Client : client'[d].pc = "revoke" /\ client'[d].family = g
    BY <1>0, <1>6, <2>1, <2>2, <2>3, <2>5 DEF TokensInv, StolenIfShownTwice
  <2> QED
    BY <2>4, <2>5 DEF StolenIfShownTwice
<1>13. SessionsFollow'
  <2>1. \A g \in Family : (LoggingOut(g)' <=> LoggingOut(g)) /\ (Refreshing(g)' => Refreshing(g))
    BY <1>0, <1>2, LogoutsKept, RefreshesKept
  <2>2. Issuing(c, f) => Refreshing(f)
    BY DEF Issuing, Refreshing
  <2>3. f \notin disturbed' => family'[f] = "live"
    BY <1>4, <1>6, <1>9, <2>2 DEF TokensInv, SessionsFollow
  <2> QED
    BY <1>4, <1>5, <1>6, <2>1, <2>3 DEF TokensInv, SessionsFollow
<1>14. LoginsLast'
  <2>1. Usable(t, f)'
    BY <1>3 DEF Usable
  <2>2. \A g \in Family \ {f}, u \in Token : Usable(u, g) => Usable(u, g)'
    BY <1>0, <1>3, Numbers DEF Usable
  <2>3. \A g \in Family \ {f}, d \in Client : Issuing(d, g) => Issuing(d, g)'
    BY <1>1, <1>2, Numbers DEF Issuing
  <2> QED
    BY <1>0, <1>4, <2>1, <2>2, <2>3 DEF TokensInv, LoginsLast
<1> QED
  BY <1>7, <1>10, <1>11, <1>12, <1>13, <1>14 DEF TokensInv

\* Both kinds of logout, of all families or of one.
LEMMA LogoutKeepsInv ==
    ASSUME TokensInv, NEW c \in Client, Logout(c) \/ \E f \in Family : LogoutSession(c, f)
    PROVE  TokensInv'
<1>0. /\ TokensTypeOK /\ client[c].pc = "idle" /\ client[c].token = 0 /\ client[c].family = 0
      /\ UNCHANGED <<session, token, enabled, shown, forked, stranded>> /\ disturbed \subseteq disturbed'
  BY DEF TokensInv, RowsFit, Logout, LogoutSession
<1>1. CASE Logout(c)
  <2>1. /\ client' \in [Client -> ClientRecord] /\ client'[c].pc = "sessions" /\ client'[c].family = 0
        /\ \A d \in Client \ {c} : client'[d] = client[d]
    BY <1>0, <1>1, ClientMoves DEF Logout, TokenPCs
  <2>2. /\ family' \in [Family -> FamilyStates]
        /\ \A g \in Family : /\ family'[g] = (IF family[g] = "live" THEN "LOGOUT" ELSE family[g])
                             /\ Refreshing(g) => g \in disturbed'
        /\ disturbed' \subseteq Family
    BY <1>0, <1>1 DEF Logout, TokensTypeOK, FamilyStates
  <2>3. TokensTypeOK'
    BY <1>0, <2>1, <2>2 DEF TokensTypeOK
  <2>4. RowsFit' /\ ChainsAreSingle' /\ StolenIfShownTwice'
    BY <1>0, <2>1, <2>2, RowsKept, ChainsKept, TheftsKept DEF TokensInv
  <2>5. \A g \in Family : LoggingOut(g)' /\ (Refreshing(g)' => Refreshing(g))
    BY <2>1, RefreshesKept DEF LoggingOut
  <2>6. SessionsFollow'
    BY <1>0, <2>2, <2>5 DEF TokensInv, SessionsFollow
  <2>7. LoginsLast'
    BY <1>0, <2>1, <2>2, LoginsKept DEF TokensInv, Issuing
  <2> QED
    BY <2>3, <2>4, <2>6, <2>7 DEF TokensInv
<1>2. ASSUME NEW f \in Family, LogoutSession(c, f) PROVE TokensInv'
  <2>0. client' = [client EXCEPT ![c].pc = "sessions", ![c].family = f] /\ family[f] # "none"
    BY <1>2 DEF LogoutSession
  <2>1. /\ client' \in [Client -> ClientRecord] /\ client'[c].pc = "sessions" /\ client'[c].family = f
        /\ \A d \in Client \ {c} : client'[d] = client[d]
    BY <1>0, <2>0 DEF TokensTypeOK, ClientRecord
  <2>2. /\ family' \in [Family -> FamilyStates] /\ family'[f] = "DEVICE_LOGOUT"
        /\ \A g \in Family \ {f} : family'[g] = family[g]
        /\ Refreshing(f) => f \in disturbed'
        /\ disturbed' \subseteq Family
    BY <1>0, <1>2 DEF LogoutSession, TokensTypeOK, FamilyStates
  <2>3. TokensTypeOK'
    BY <1>0, <2>1, <2>2 DEF TokensTypeOK
  <2>4. RowsFit' /\ ChainsAreSingle' /\ StolenIfShownTwice'
    BY <1>0, <2>0, <2>1, <2>2, RowsKept, ChainsKept, TheftsKept DEF TokensInv
  <2>5. \A g \in Family : /\ LoggingOut(g)' <=> g = f \/ LoggingOut(g)
                          /\ Refreshing(g)' => Refreshing(g)
    BY <1>0, <2>1, RefreshesKept, Numbers DEF LoggingOut
  <2>6. SessionsFollow'
    BY <1>0, <2>2, <2>5 DEF TokensInv, SessionsFollow
  <2>7. LoginsLast'
    BY <1>0, <2>1, <2>2, LoginsKept DEF TokensInv, Issuing
  <2> QED
    BY <2>3, <2>4, <2>6, <2>7 DEF TokensInv
<1> QED
  BY <1>1, <1>2

LEMMA CloseSessionsKeepsInv == ASSUME TokensInv, NEW c \in Client, CloseSessions(c) PROVE TokensInv'
<1>0. /\ TokensTypeOK /\ client[c].pc = "sessions"
      /\ UNCHANGED <<family, token, enabled, shown, forked, disturbed, stranded>>
  BY DEF TokensInv, CloseSessions
<1>1. /\ client' \in [Client -> ClientRecord] /\ client'[c].pc = "idle"
      /\ client'[c].token = 0 /\ client'[c].family = 0
      /\ \A d \in Client \ {c} : client'[d] = client[d]
  BY <1>0, ClientLeaves DEF CloseSessions
<1>2. /\ session' \in [Family -> SessionStates]
      /\ \A g \in Family : IF client[c].family \in {0, g} THEN session'[g] # "live"
                           ELSE session'[g] = session[g]
  BY <1>0 DEF CloseSessions, TokensTypeOK, SessionStates
<1>3. TokensTypeOK'
  BY <1>0, <1>1, <1>2 DEF TokensTypeOK
<1>4. RowsFit' /\ ChainsAreSingle' /\ StolenIfShownTwice'
  BY <1>0, <1>1, RowsKept, ChainsKept, TheftsKept DEF TokensInv
<1>5. \A g \in Family : /\ LoggingOut(g)' => LoggingOut(g)
                        /\ client[c].family \in {0, g} => LoggingOut(g)
                        /\ client[c].family \notin {0, g} /\ LoggingOut(g) => LoggingOut(g)'
                        /\ Refreshing(g)' => Refreshing(g)
  BY <1>0, <1>1, RefreshesKept DEF LoggingOut
<1>6. SessionsFollow'
  BY <1>0, <1>2, <1>5 DEF TokensInv, SessionsFollow
<1>7. LoginsLast'
  BY <1>0, <1>1, LoginsKept DEF TokensInv, Issuing
<1> QED
  BY <1>3, <1>4, <1>6, <1>7 DEF TokensInv

LEMMA DropKeepsInv == ASSUME TokensInv, NEW c \in Client, Drop(c) PROVE TokensInv'
<1>0. /\ TokensTypeOK /\ UNCHANGED <<family, session, token, enabled, shown, forked>>
      /\ disturbed \subseteq disturbed' /\ disturbed' \subseteq Family
      /\ \A g \in Family : client[c].pc \in {"revoke", "sessions"} /\ client[c].family \in {0, g}
                             => g \in disturbed'
      /\ stranded \subseteq stranded' /\ stranded' \subseteq Family
      /\ \A g \in Family : Issuing(c, g) => g \in stranded'
  BY DEF TokensInv, Drop, TokensTypeOK, Issuing
<1>1. /\ client' \in [Client -> ClientRecord] /\ client'[c].pc = "idle"
      /\ client'[c].token = 0 /\ client'[c].family = 0
      /\ \A d \in Client \ {c} : client'[d] = client[d]
  BY <1>0, ClientLeaves DEF Drop
<1>2. TokensTypeOK'
  BY <1>0, <1>1 DEF TokensTypeOK
<1>3. client[c].pc = "revoke" => client[c].family \in disturbed'
  BY <1>0 DEF TokensInv, RowsFit
<1>4. RowsFit' /\ ChainsAreSingle' /\ StolenIfShownTwice'
  BY <1>0, <1>1, <1>3, RowsKept, ChainsKept, TheftsKept DEF TokensInv
<1>5. \A g \in Family : /\ LoggingOut(g)' => LoggingOut(g)
                        /\ g \notin disturbed' /\ LoggingOut(g) => LoggingOut(g)'
                        /\ Refreshing(g)' => Refreshing(g)
  BY <1>0, <1>1, RefreshesKept DEF LoggingOut
<1>6. SessionsFollow'
  BY <1>0, <1>5 DEF TokensInv, SessionsFollow
<1>7. LoginsLast'
  BY <1>0, <1>1, LoginsKept DEF TokensInv
<1> QED
  BY <1>2, <1>4, <1>6, <1>7 DEF TokensInv

LEMMA TokensUnchanged ==
    ASSUME TokensInv, UNCHANGED <<family, session, token, client, shown, forked, disturbed, stranded>>,
           enabled' \in BOOLEAN
    PROVE  TokensInv'
<1>1. TokensTypeOK' /\ RowsFit' /\ StolenIfShownTwice'
  BY DEF TokensInv, TokensTypeOK, RowsFit, StolenIfShownTwice
<1>2. ChainsAreSingle' /\ LoginsLast'
  BY DEF TokensInv, ChainsAreSingle, LoginsLast, Usable, Issuing, Marking
<1>3. SessionsFollow'
  BY DEF TokensInv, SessionsFollow, LoggingOut, Refreshing
<1> QED
  BY <1>1, <1>2, <1>3 DEF TokensInv

LEMMA TokensStart == TokensInit => TokensInv
<1> SUFFICES ASSUME TokensInit PROVE TokensInv
  OBVIOUS
<1>0. Away \in ClientRecord /\ Away.pc = "idle" /\ Away.token = 0 /\ Away.family = 0
  BY DEF Away, ClientRecord
<1>1. TokensTypeOK
  BY <1>0 DEF TokensInit, TokensTypeOK, FamilyStates, SessionStates, TokenRow
<1>2. RowsFit /\ StolenIfShownTwice
  BY <1>0 DEF TokensInit, RowsFit, StolenIfShownTwice
<1>3. ChainsAreSingle /\ SessionsFollow /\ LoginsLast
  BY <1>0, Numbers DEF TokensInit, ChainsAreSingle, SessionsFollow, LoginsLast, Usable, Issuing, Marking,
       LoggingOut, Refreshing
<1> QED
  BY <1>1, <1>2, <1>3 DEF TokensInv

LEMMA TokensInvariant == TokensSpec => []TokensInv
<1>1. TokensInv /\ [TokensNext]_tokensVars => TokensInv'
  <2> SUFFICES ASSUME TokensInv, [TokensNext]_tokensVars PROVE TokensInv'
    OBVIOUS
  <2>1. CASE UNCHANGED tokensVars \/ Enable
    <3>1. /\ UNCHANGED <<family, session, token, client, shown, forked, disturbed, stranded>>
          /\ enabled' \in BOOLEAN
      BY <2>1 DEF tokensVars, Enable, TokensInv, TokensTypeOK
    <3> QED
      BY <3>1, TokensUnchanged
  <2> QED
    BY <2>1, BeginLoginKeepsInv, LookupKeepsInv, RevokeReusedKeepsInv, MarkUsedKeepsInv, IssueKeepsInv,
       LogoutKeepsInv, CloseSessionsKeepsInv, DropKeepsInv DEF TokensNext
<1> QED
  BY <1>1, TokensStart, PTL DEF TokensSpec

\* Families, sessions, tokens and requests have their types.
THEOREM TokensTyped == TokensSpec => []TokensTypeOK
BY TokensInvariant, PTL DEF TokensInv

\* For any number of logins, tokens and overlapping requests: one usable token a chain,
\* and none while its successor is being issued, unless two refreshes forked it.
THEOREM OneUsableToken == TokensSpec => []OneUsableTokenUnlessForked
<1>1. TokensInv => OneUsableTokenUnlessForked
  BY DEF TokensInv, ChainsAreSingle, OneUsableTokenUnlessForked, Usable, Issuing
<1> QED
  BY <1>1, TokensInvariant, PTL

\* A family is revoked as stolen only after one of its tokens came twice, and a token
\* that came twice is answered with the revocation.
THEOREM TheftNeedsReplay == TokensSpec => []StolenIfShownTwice
BY TokensInvariant, PTL DEF TokensInv

\* For any number of logins, tokens and overlapping requests: the sessions listed are
\* the logins that can be refreshed, outside logouts, unless the account is disabled, a
\* refresh was cut short between its writes, or the logout was disturbed.
THEOREM SessionsListLogins == TokensSpec => []SessionsAreRefreshable
<1>1. ASSUME TokensInv, NEW f \in Family \ disturbed, ~LoggingOut(f), CanRefresh(f)
      PROVE  session[f] = "live"
  <2>1. family[f] = "live"
    BY <1>1 DEF CanRefresh, Accepted
  <2> QED
    BY <1>1, <2>1 DEF TokensInv, SessionsFollow
<1>2. ASSUME TokensInv, NEW f \in Family \ disturbed, ~LoggingOut(f), session[f] = "live", enabled
      PROVE  CanRefresh(f) \/ MidRefresh(f) \/ f \in stranded
  <2>1. family[f] = "live"
    BY <1>2 DEF TokensInv, SessionsFollow
  <2>2. CASE \E t \in Token : Usable(t, f)
    BY <1>2, <2>1, <2>2 DEF Usable, CanRefresh, Accepted
  <2>3. CASE \E c \in Client : Issuing(c, f)
    BY <2>3 DEF Issuing, MidRefresh
  <2> QED
    BY <1>2, <2>1, <2>2, <2>3 DEF TokensInv, LoginsLast
<1>3. TokensInv => SessionsAreRefreshable
  BY <1>1, <1>2 DEF SessionsAreRefreshable
<1> QED
  BY <1>3, TokensInvariant, PTL

------------------------------------------------------------------------------
(* What a guest earns (module Rewards). *)

\* Two awards that have not crossed: one at most is between read and write, and
\* what it has read is still the row.
AwardsAreApart ==
    "points" \notin crossed =>
        /\ member.points = earned /\ member.tier = TierFor(earned)
        /\ \A p \in Process : process[p].pc \in {"store", "save"} =>
              /\ process[p].member = member
              /\ \A q \in Process : process[q].pc \in {"store", "save"} => p = q

\* The same of the referral: while one request is about to credit it, it is unpaid.
CreditsAreApart ==
    "referral" \notin crossed =>
        /\ credits <= 1 /\ (credits = 1 <=> referral = "CREDITED")
        /\ \A p \in Process : process[p].pc \in {"count", "credit"} =>
              /\ referral = "SIGNED_UP"
              /\ \A q \in Process : process[q].pc \in {"count", "credit"} => p = q

\* The process is depositing the payment.
Depositing(p, d) == process[p].pc \in {"deposit", "save"} /\ process[p].on = d

\* The same of a payment: while one report of it is under way, it is not stored.
DepositsAreApart ==
    \A d \in Deposit \ crossed :
        /\ deposited[d] <= 1
        /\ \A p \in Process : Depositing(p, d) =>
              /\ deposited[d] = 0
              /\ \A q \in Process : Depositing(q, d) => p = q

DepositsNamed == \A p \in Process : process[p].pc \in {"deposit", "save"} => process[p].on \in Deposit

RewardsInv == RewardsTypeOK /\ DepositsNamed /\ AwardsAreApart /\ CreditsAreApart /\ DepositsAreApart

(***************************************************************************)
(* Tiers                                                                   *)
(***************************************************************************)

\* A tier is a number, the first is 0, and more points never mean a lower one.
LEMMA TierIsMonotone ==
    ASSUME NEW n \in Nat
    PROVE  TierFor(n) \in Nat /\ TierFor(n + 1) \in Nat /\ TierFor(n) <= TierFor(n + 1)
<1> DEFINE Under(m) == {h \in Thresholds : h <= m}
<1>0. \A h \in Thresholds : h <= n => h <= n + 1
  <2> TAKE h \in Thresholds
  <2>1. h \in Nat
    BY RewardsAssumption
  <2> QED
    BY <2>1
<1>1. Under(n + 1) \subseteq Thresholds /\ Under(n) \subseteq Thresholds /\ Under(n) \subseteq Under(n + 1)
  BY <1>0
<1>2. IsFiniteSet(Under(n)) /\ IsFiniteSet(Under(n + 1))
  BY <1>1, RewardsAssumption, FS_Subset
<1> QED
  BY <1>1, <1>2, FS_Subset, FS_CardinalityType DEF TierFor

LEMMA FirstTier == TierFor(0) = 0
<1>0. \A h \in Thresholds : ~(h <= 0)
  <2> TAKE h \in Thresholds
  <2>1. h \in Nat /\ h # 0
    BY RewardsAssumption
  <2> QED
    BY <2>1
<1>1. {h \in Thresholds : h <= 0} = {}
  BY <1>0
<1> QED
  BY <1>1, FS_EmptySet DEF TierFor

\* awardPoints keeps the types, and the tier that belongs to the points.
LEMMA AwardIsTyped ==
    ASSUME NEW m \in MemberRow
    PROVE  /\ Awarded(m) \in MemberRow
           /\ Awarded(m).points = m.points + 1
           /\ m.tier = TierFor(m.points) => Awarded(m).tier = TierFor(m.points + 1)
<1>1. m.points \in Nat /\ m.tier \in Nat
  BY DEF MemberRow
<1> QED
  BY <1>1, TierIsMonotone DEF Awarded, MemberRow

(***************************************************************************)
(* Steps                                                                   *)
(***************************************************************************)

PCs == {"idle", "complete", "award", "store", "refer", "count", "credit", "deposit", "save", "status"}

LEMMA Steps ==
    ASSUME RewardsTypeOK, NEW p \in Process, NEW pc \in PCs, process' = Step(p, pc)
    PROVE  /\ process' \in [Process -> ProcessRecord]
           /\ process'[p].pc = pc /\ process'[p].on = process[p].on
           /\ process'[p].member = process[p].member
           /\ \A q \in Process \ {p} : process'[q] = process[q]
BY DEF RewardsTypeOK, Step, ProcessRecord, PCs

LEMMA Reads ==
    ASSUME RewardsTypeOK, NEW p \in Process, NEW pc \in PCs,
           process' = [process EXCEPT ![p].pc = pc, ![p].member = member]
    PROVE  /\ process' \in [Process -> ProcessRecord]
           /\ process'[p].pc = pc /\ process'[p].on = process[p].on /\ process'[p].member = member
           /\ \A q \in Process \ {p} : process'[q] = process[q]
BY DEF RewardsTypeOK, ProcessRecord, PCs

LEMMA TakesOn ==
    ASSUME RewardsTypeOK, NEW p \in Process, NEW pc \in PCs, NEW d \in Stay \cup Deposit,
           process' = [process EXCEPT ![p].pc = pc, ![p].on = d]
    PROVE  /\ process' \in [Process -> ProcessRecord]
           /\ process'[p].pc = pc /\ process'[p].on = d /\ process'[p].member = process[p].member
           /\ \A q \in Process \ {p} : process'[q] = process[q]
BY DEF RewardsTypeOK, ProcessRecord, PCs

LEMMA FreeIsTyped == Free \in ProcessRecord /\ Free.pc = "idle"
BY DEF Free, ProcessRecord, MemberRow

LEMMA Ends ==
    ASSUME RewardsTypeOK, NEW p \in Process, process' = Ended(p)
    PROVE  /\ process' \in [Process -> ProcessRecord] /\ process'[p].pc = "idle"
           /\ \A q \in Process \ {p} : process'[q] = process[q]
BY FreeIsTyped DEF RewardsTypeOK, Ended

\* Steps that leave the awards, the referral or the deposits as they are.
LEMMA AwardsKept ==
    ASSUME AwardsAreApart, NEW p \in Process, UNCHANGED <<member, earned>>, crossed \subseteq crossed',
           \A q \in Process \ {p} : process'[q] = process[q],
           process'[p].pc \notin {"store", "save"}
    PROVE  AwardsAreApart'
BY DEF AwardsAreApart

LEMMA CreditsKept ==
    ASSUME CreditsAreApart, NEW p \in Process, UNCHANGED <<referral, credits>>, crossed \subseteq crossed',
           \A q \in Process \ {p} : process'[q] = process[q],
           process'[p].pc \in {"count", "credit"} => process[p].pc \in {"count", "credit"}
    PROVE  CreditsAreApart'
BY DEF CreditsAreApart

LEMMA DepositsKept ==
    ASSUME DepositsAreApart, DepositsNamed, NEW p \in Process, UNCHANGED deposited, crossed \subseteq crossed',
           \A q \in Process \ {p} : process'[q] = process[q],
           process'[p].pc \in {"deposit", "save"} =>
              process[p].pc \in {"deposit", "save"} /\ process'[p].on = process[p].on
    PROVE  DepositsAreApart' /\ DepositsNamed'
<1>1. \A q \in Process, d \in Deposit : Depositing(q, d)' => Depositing(q, d)
  BY DEF Depositing
<1> QED
  BY <1>1 DEF DepositsAreApart, DepositsNamed

\* Completing a stay, up to the award.
LEMMA CompletingKeepsInv ==
    ASSUME RewardsInv, NEW p \in Process,
           (\E s \in Stay : CompleteRead(p, s)) \/ CompleteWrite(p)
    PROVE  RewardsInv'
<1>0. RewardsTypeOK /\ UNCHANGED <<member, referral, plan, deposited, earned, credits, crossed>>
  BY DEF RewardsInv, CompleteRead, CompleteWrite
<1>1. /\ process' \in [Process -> ProcessRecord] /\ process'[p].pc \in {"complete", "award"}
      /\ \A q \in Process \ {p} : process'[q] = process[q]
  BY <1>0, Steps, TakesOn DEF CompleteRead, CompleteWrite, PCs
<1>2. stay' \in [Stay -> StayStates]
  BY <1>0 DEF CompleteRead, CompleteWrite, RewardsTypeOK, StayStates
<1>3. RewardsTypeOK'
  BY <1>0, <1>1, <1>2 DEF RewardsTypeOK
<1> QED
  BY <1>0, <1>1, <1>3, AwardsKept, CreditsKept, DepositsKept DEF RewardsInv

LEMMA AwardReadKeepsInv == ASSUME RewardsInv, NEW p \in Process, AwardRead(p) PROVE RewardsInv'
<1>0. /\ RewardsTypeOK /\ UNCHANGED <<stay, member, referral, plan, deposited, earned, credits>>
      /\ crossed \subseteq crossed' /\ process[p].pc = "award"
  BY DEF RewardsInv, AwardRead
<1>1. CASE process' = Step(p, "refer") /\ UNCHANGED crossed
  <2>1. /\ process' \in [Process -> ProcessRecord] /\ process'[p].pc = "refer"
        /\ \A q \in Process \ {p} : process'[q] = process[q]
    BY <1>0, <1>1, Steps DEF PCs
  <2>2. RewardsTypeOK'
    BY <1>0, <1>1, <2>1 DEF RewardsTypeOK
  <2> QED
    BY <1>0, <2>1, <2>2, AwardsKept, CreditsKept, DepositsKept DEF RewardsInv
<1>2. CASE /\ process' = [process EXCEPT ![p].pc = "store", ![p].member = member]
           /\ crossed' = crossed \cup (IF Meets(p, {"store", "save"}) THEN {"points"} ELSE {})
  <2>1. /\ process' \in [Process -> ProcessRecord] /\ process'[p].pc = "store"
        /\ process'[p].member = member
        /\ \A q \in Process \ {p} : process'[q] = process[q]
    BY <1>0, <1>2, Reads DEF PCs
  <2>2. RewardsTypeOK'
    BY <1>0, <1>2, <2>1 DEF RewardsTypeOK
  <2>3. AwardsAreApart'
    BY <1>0, <1>2, <2>1 DEF RewardsInv, AwardsAreApart, Meets
  <2> QED
    BY <1>0, <2>1, <2>2, <2>3, CreditsKept, DepositsKept DEF RewardsInv
<1> QED
  BY <1>1, <1>2 DEF AwardRead

\* Points are written back: the award was the only one, or "points" is crossed.
LEMMA AwardsStored ==
    ASSUME RewardsTypeOK, AwardsAreApart, NEW p \in Process, process[p].pc \in {"store", "save"},
           member' = Awarded(process[p].member), earned' = earned + 1, UNCHANGED crossed,
           \A q \in Process \ {p} : process'[q] = process[q],
           process'[p].pc \notin {"store", "save"}
    PROVE  /\ member' \in MemberRow /\ earned' \in Nat
           /\ AwardsAreApart'
<1>1. process[p].member \in MemberRow /\ member \in MemberRow /\ earned \in Nat
  BY DEF RewardsTypeOK, ProcessRecord
<1>2. member' \in MemberRow /\ earned' \in Nat
  BY <1>1, AwardIsTyped
<1>3. ASSUME "points" \notin crossed PROVE member'.points = earned' /\ member'.tier = TierFor(earned')
  <2>1. process[p].member = member /\ member.points = earned /\ member.tier = TierFor(earned)
    BY <1>3 DEF AwardsAreApart
  <2> QED
    BY <1>1, <2>1, AwardIsTyped
<1>4. ASSUME "points" \notin crossed, NEW q \in Process PROVE process'[q].pc \notin {"store", "save"}
  BY <1>4 DEF AwardsAreApart
<1> QED
  BY <1>2, <1>3, <1>4 DEF AwardsAreApart

LEMMA AwardStoreKeepsInv == ASSUME RewardsInv, NEW p \in Process, AwardStore(p) PROVE RewardsInv'
<1>0. RewardsTypeOK /\ UNCHANGED <<stay, referral, plan, deposited, credits, crossed>>
  BY DEF RewardsInv, AwardStore
<1>1. /\ process' \in [Process -> ProcessRecord] /\ process'[p].pc = "refer"
      /\ \A q \in Process \ {p} : process'[q] = process[q]
  BY <1>0, Steps DEF AwardStore, PCs
<1>2. member' \in MemberRow /\ earned' \in Nat /\ AwardsAreApart'
  BY <1>0, <1>1, AwardsStored DEF RewardsInv, AwardStore
<1>3. RewardsTypeOK'
  BY <1>0, <1>1, <1>2 DEF RewardsTypeOK
<1> QED
  BY <1>0, <1>1, <1>2, <1>3, CreditsKept, DepositsKept DEF RewardsInv

LEMMA ReferReadKeepsInv == ASSUME RewardsInv, NEW p \in Process, ReferRead(p) PROVE RewardsInv'
<1>0. /\ RewardsTypeOK /\ UNCHANGED <<stay, member, referral, plan, deposited, earned, credits>>
      /\ crossed \subseteq crossed' /\ process[p].pc = "refer"
  BY DEF RewardsInv, ReferRead
<1>1. CASE process' = Ended(p) /\ UNCHANGED crossed
  <2>1. /\ process' \in [Process -> ProcessRecord] /\ process'[p].pc = "idle"
        /\ \A q \in Process \ {p} : process'[q] = process[q]
    BY <1>0, <1>1, Ends
  <2>2. RewardsTypeOK'
    BY <1>0, <1>1, <2>1 DEF RewardsTypeOK
  <2> QED
    BY <1>0, <2>1, <2>2, AwardsKept, CreditsKept, DepositsKept DEF RewardsInv
<1>2. CASE /\ referral = "SIGNED_UP" /\ process' = Step(p, "count")
           /\ crossed' = crossed \cup (IF Meets(p, {"count", "credit"}) THEN {"referral"} ELSE {})
  <2>1. /\ process' \in [Process -> ProcessRecord] /\ process'[p].pc = "count"
        /\ \A q \in Process \ {p} : process'[q] = process[q]
    BY <1>0, <1>2, Steps DEF PCs
  <2>2. RewardsTypeOK'
    BY <1>0, <1>2, <2>1 DEF RewardsTypeOK
  <2>3. CreditsAreApart'
    BY <1>0, <1>2, <2>1 DEF RewardsInv, CreditsAreApart, Meets
  <2> QED
    BY <1>0, <2>1, <2>2, <2>3, AwardsKept, DepositsKept DEF RewardsInv
<1> QED
  BY <1>1, <1>2 DEF ReferRead

\* The count, and every way a process stops without writing anything but the plan.
LEMMA QuietEndKeepsInv ==
    ASSUME RewardsInv, NEW p \in Process,
           ReferCount(p) \/ Stop(p) \/ PlanRead(p) \/ (\E status \in PlanStates : PlanWrite(p, status))
    PROVE  RewardsInv'
<1>0. /\ RewardsTypeOK /\ UNCHANGED <<stay, member, referral, deposited, earned, credits, crossed>>
      /\ plan' \in PlanStates
  BY DEF RewardsInv, RewardsTypeOK, ReferCount, Stop, PlanRead, PlanWrite
<1>1. /\ process' \in [Process -> ProcessRecord]
      /\ process'[p].pc \in {"idle", "credit", "status"}
      /\ process'[p].pc = "credit" => process[p].pc = "count"
      /\ \A q \in Process \ {p} : process'[q] = process[q]
  <2>1. CASE process' = Ended(p)
    BY <1>0, <2>1, Ends
  <2>2. CASE process' = Step(p, "credit") /\ process[p].pc = "count"
    BY <1>0, <2>2, Steps DEF PCs
  <2>3. CASE process' = Step(p, "status")
    BY <1>0, <2>3, Steps DEF PCs
  <2> QED
    BY <2>1, <2>2, <2>3 DEF ReferCount, Stop, PlanRead, PlanWrite
<1>2. RewardsTypeOK'
  BY <1>0, <1>1 DEF RewardsTypeOK
<1> QED
  BY <1>0, <1>1, <1>2, AwardsKept, CreditsKept, DepositsKept DEF RewardsInv

LEMMA ReferCreditKeepsInv == ASSUME RewardsInv, NEW p \in Process, ReferCredit(p) PROVE RewardsInv'
<1>0. /\ RewardsTypeOK /\ UNCHANGED <<stay, member, plan, deposited, earned, crossed>>
      /\ referral' = "CREDITED" /\ credits' = credits + 1 /\ process[p].pc = "credit"
  BY DEF RewardsInv, ReferCredit
<1>1. /\ process' \in [Process -> ProcessRecord] /\ process'[p].pc = "idle"
      /\ \A q \in Process \ {p} : process'[q] = process[q]
  BY <1>0, Ends DEF ReferCredit
<1>2. RewardsTypeOK'
  BY <1>0, <1>1 DEF RewardsTypeOK, ReferralStates
<1>3. ASSUME "referral" \notin crossed PROVE credits' = 1
  BY <1>0, <1>3 DEF RewardsInv, CreditsAreApart, RewardsTypeOK
<1>4. ASSUME "referral" \notin crossed, NEW q \in Process PROVE process'[q].pc \notin {"count", "credit"}
  BY <1>0, <1>1, <1>4 DEF RewardsInv, CreditsAreApart
<1>5. CreditsAreApart'
  BY <1>0, <1>3, <1>4 DEF CreditsAreApart
<1> QED
  BY <1>0, <1>1, <1>2, <1>5, AwardsKept, DepositsKept DEF RewardsInv

LEMMA DepositReadKeepsInv ==
    ASSUME RewardsInv, NEW p \in Process, NEW d \in Deposit, DepositRead(p, d) PROVE RewardsInv'
<1>0. /\ RewardsTypeOK /\ UNCHANGED <<stay, member, referral, plan, deposited, earned, credits>>
      /\ crossed \subseteq crossed' /\ process[p].pc = "idle" /\ deposited[d] = 0
      /\ d \notin crossed' => \A q \in Process \ {p} : process[q].on # d
  BY DEF RewardsInv, DepositRead
<1>1. /\ process' \in [Process -> ProcessRecord] /\ process'[p].pc = "deposit"
      /\ process'[p].on = d
      /\ \A q \in Process \ {p} : process'[q] = process[q]
  BY <1>0, TakesOn DEF DepositRead, PCs
<1>2. RewardsTypeOK'
  BY <1>0, <1>1 DEF RewardsTypeOK, DepositRead
<1>3. \A e \in Deposit \ crossed', q \in Process : Depositing(q, e)' =>
          IF e = d THEN q = p ELSE Depositing(q, e)
  BY <1>0, <1>1 DEF Depositing
<1>4. DepositsAreApart' /\ DepositsNamed'
  BY <1>0, <1>1, <1>3 DEF RewardsInv, DepositsAreApart, DepositsNamed
<1> QED
  BY <1>0, <1>1, <1>2, <1>4, AwardsKept, CreditsKept DEF RewardsInv

LEMMA DepositAwardKeepsInv == ASSUME RewardsInv, NEW p \in Process, DepositAward(p) PROVE RewardsInv'
<1>0. /\ RewardsTypeOK /\ UNCHANGED <<stay, member, referral, plan, deposited, earned, credits>>
      /\ crossed \subseteq crossed' /\ process[p].pc = "deposit"
      /\ "points" \notin crossed' => ~Meets(p, {"store", "save"})
  BY DEF RewardsInv, DepositAward
<1>1. /\ process' \in [Process -> ProcessRecord] /\ process'[p].pc = "save"
      /\ process'[p].on = process[p].on /\ process'[p].member = member
      /\ \A q \in Process \ {p} : process'[q] = process[q]
  BY <1>0, Reads DEF DepositAward, PCs
<1>2. RewardsTypeOK'
  BY <1>0, <1>1 DEF RewardsTypeOK, DepositAward
<1>3. AwardsAreApart'
  BY <1>0, <1>1 DEF RewardsInv, AwardsAreApart, Meets
<1> QED
  BY <1>0, <1>1, <1>2, <1>3, CreditsKept, DepositsKept DEF RewardsInv

LEMMA DepositCommitKeepsInv == ASSUME RewardsInv, NEW p \in Process, DepositCommit(p) PROVE RewardsInv'
<1> DEFINE d == process[p].on
<1>0. /\ RewardsTypeOK /\ UNCHANGED <<stay, referral, plan, credits, crossed>>
      /\ process[p].pc = "save" /\ d \in Deposit
      /\ deposited' = [deposited EXCEPT ![d] = @ + 1]
  BY DEF RewardsInv, DepositsNamed, DepositCommit
<1>1. /\ process' \in [Process -> ProcessRecord] /\ process'[p].pc = "idle"
      /\ \A q \in Process \ {p} : process'[q] = process[q]
  BY <1>0, Ends DEF DepositCommit
<1>2. member' \in MemberRow /\ earned' \in Nat /\ AwardsAreApart'
  BY <1>0, <1>1, AwardsStored DEF RewardsInv, DepositCommit
<1>3. /\ deposited' \in [Deposit -> Nat] /\ deposited'[d] = deposited[d] + 1
      /\ \A e \in Deposit \ {d} : deposited'[e] = deposited[e]
  BY <1>0 DEF RewardsTypeOK
<1>4. RewardsTypeOK'
  BY <1>0, <1>1, <1>2, <1>3 DEF RewardsTypeOK
<1>5. d \notin crossed => deposited[d] = 0 /\ \A q \in Process : Depositing(q, d) => q = p
  BY <1>0 DEF RewardsInv, DepositsAreApart, Depositing
<1>6. \A e \in Deposit, q \in Process : Depositing(q, e)' => q # p /\ Depositing(q, e)
  BY <1>1 DEF Depositing
<1>7. DepositsAreApart' /\ DepositsNamed'
  BY <1>0, <1>1, <1>3, <1>5, <1>6 DEF RewardsInv, DepositsAreApart, DepositsNamed
<1> QED
  BY <1>0, <1>1, <1>2, <1>4, <1>7, CreditsKept DEF RewardsInv

\* Steps of nobody: a stay completed by hand or left, a referral code applied.
LEMMA StaysKeepInv ==
    ASSUME RewardsInv, ApplyCode \/ \E s \in Stay : ManualComplete(s) \/ Leave(s)
    PROVE  RewardsInv'
<1>1. UNCHANGED <<member, plan, deposited, process, earned, credits, crossed>>
  BY DEF ApplyCode, ManualComplete, Leave
<1>2. RewardsTypeOK'
  BY <1>1 DEF RewardsInv, RewardsTypeOK, ApplyCode, ManualComplete, Leave, StayStates, ReferralStates
<1>3. CreditsAreApart'
  BY <1>1 DEF RewardsInv, CreditsAreApart, ApplyCode, ManualComplete, Leave
<1> QED
  BY <1>1, <1>2, <1>3 DEF RewardsInv, DepositsNamed, AwardsAreApart, DepositsAreApart, Depositing

LEMMA RewardsStart == RewardsInit => RewardsInv
BY FreeIsTyped, FirstTier DEF RewardsInit, RewardsInv, RewardsTypeOK, DepositsNamed, AwardsAreApart,
     CreditsAreApart, DepositsAreApart, Depositing, StayStates, MemberRow, ReferralStates, PlanStates

LEMMA RewardsInvariant == RewardsSpec => []RewardsInv
<1>1. RewardsInv /\ [RewardsNext]_rewardsVars => RewardsInv'
  <2> SUFFICES ASSUME RewardsInv, [RewardsNext]_rewardsVars PROVE RewardsInv'
    OBVIOUS
  <2>1. CASE UNCHANGED rewardsVars
    BY <2>1 DEF rewardsVars, RewardsInv, RewardsTypeOK, DepositsNamed, AwardsAreApart,
         CreditsAreApart, DepositsAreApart, Depositing
  <2> QED
    BY <2>1, CompletingKeepsInv, AwardReadKeepsInv, AwardStoreKeepsInv, ReferReadKeepsInv,
       QuietEndKeepsInv, ReferCreditKeepsInv, DepositReadKeepsInv, DepositAwardKeepsInv,
       DepositCommitKeepsInv, StaysKeepInv DEF RewardsNext
<1> QED
  BY <1>1, RewardsStart, PTL DEF RewardsSpec

\* Bookings, the membership, the referral, the plan and the requests have their types.
THEOREM RewardsTyped == RewardsSpec => []RewardsTypeOK
BY RewardsInvariant, PTL DEF RewardsInv

\* For any number of stays, deposits, tiers and overlapping requests: unless two awards
\* crossed, the points are what was earned and the tier is theirs.
THEOREM PointsAddUp == RewardsSpec => []PointsAddUpUnlessCrossed
<1>1. RewardsInv => PointsAddUpUnlessCrossed
  BY DEF RewardsInv, AwardsAreApart, PointsAddUpUnlessCrossed
<1> QED
  BY <1>1, RewardsInvariant, PTL

\* The referral is paid out once, and then CREDITED, unless two completions crossed.
THEOREM CreditedOnce == RewardsSpec => []CreditedOnceUnlessCrossed
<1>1. RewardsInv => CreditedOnceUnlessCrossed
  BY DEF RewardsInv, CreditsAreApart, CreditedOnceUnlessCrossed
<1> QED
  BY <1>1, RewardsInvariant, PTL

\* A payment that is reported again and again is deposited once, unless two reports of
\* it overlapped.
THEOREM DepositedOnce == RewardsSpec => []DepositedOnceUnlessCrossed
<1>1. RewardsInv => DepositedOnceUnlessCrossed
  BY DEF RewardsInv, DepositsAreApart, DepositedOnceUnlessCrossed
<1> QED
  BY <1>1, RewardsInvariant, PTL

------------------------------------------------------------------------------
(* The trip planner (module Itinerary). *)

\* Only the process that drew the lease in Redis keeps its token.
LeaseIsKeptByHolder == \A s \in Api : kept[s] # 0 /\ lock = kept[s] => holder = s

\* A message still to be written has read the plan as it is, but for messages that
\* overlap; two in flight overlap, and so does one the finalization has overtaken.
TalkIsInOrder ==
    /\ \A c \in Call :
          /\ call[c].kind = "chat" => call[c].chat \in Chat /\ call[c].pc # "idle"
          /\ call[c].pc = "write" => call[c].kind = "chat"
          /\ call[c].kind = "chat" /\ call[c].pc # "record" =>
                /\ call[c].read \ overlapped = trip.built \ overlapped
                /\ trip.status = "FINALIZED" => call[c].chat \in overlapped
    /\ \A c, d \in Call : call[c].kind = "chat" /\ call[d].kind = "chat" /\ c # d
                             => call[c].chat \in overlapped
    /\ PlanFollowsTalkUnlessOverlapped

\* Requests whose cost may still come.
Asked == {c \in Call : call[c].pc \in {"ask", "write", "record"}}

PlannerInv == PlannerTypeOK /\ LeaseIsKeptByHolder /\ TalkIsInOrder /\ OverrunIsInFlight

(***************************************************************************)
(* How requests move                                                       *)
(***************************************************************************)

\* The request d is gone, is none with a message, or carries what it carried.
Calmly(d) ==
    \/ call'[d] = Nothing
    \/ call'[d].kind # "chat" /\ call'[d].pc # "write"
    \/ /\ call'[d].kind = call[d].kind /\ call'[d].chat = call[d].chat
       /\ call'[d].read = call[d].read
       /\ call'[d].pc = "idle" => call[d].pc = "idle"
       /\ call'[d].pc = "write" => call[d].kind = "chat"
       /\ call'[d].pc # "record" => call[d].pc # "record"

CallPCs == {"idle", "check", "ask", "write", "record", "release", "forget"}

LEMMA NothingIsTyped == Nothing \in CallRecord /\ Nothing.pc = "idle" /\ Nothing.kind = "ideas"
BY DEF Nothing, CallRecord

LEMMA CallMovesTo ==
    ASSUME PlannerTypeOK, NEW c \in Call, NEW pc \in CallPCs, call' = MovedTo(c, pc)
    PROVE  /\ call' \in [Call -> CallRecord]
           /\ call'[c].pc = pc /\ call'[c].kind = call[c].kind /\ call'[c].chat = call[c].chat
           /\ call'[c].read = call[c].read
           /\ \A d \in Call \ {c} : call'[d] = call[d]
BY DEF PlannerTypeOK, CallRecord, CallPCs, MovedTo

LEMMA CallReturns ==
    ASSUME PlannerTypeOK, NEW c \in Call, call' = Returned(c)
    PROVE  /\ call' \in [Call -> CallRecord] /\ call'[c] = Nothing
           /\ \A d \in Call \ {c} : call'[d] = call[d]
BY NothingIsTyped DEF PlannerTypeOK, Returned

LEMMA CallUnwinds ==
    ASSUME PlannerTypeOK, NEW c \in Call, call' = Unwind(c)
    PROVE  /\ call' \in [Call -> CallRecord]
           /\ call'[c] = Nothing \/ (call'[c].kind = "plan" /\ call'[c].pc = "release")
           /\ \A d \in Call \ {c} : call'[d] = call[d]
BY CallMovesTo, CallReturns DEF Unwind, CallPCs

LEMMA CallGenerates ==
    ASSUME PlannerTypeOK, NEW c \in Call, NEW s \in Api, call' = Generate(c, s)
    PROVE  /\ call' \in [Call -> CallRecord]
           /\ call'[c].kind = "plan" /\ call'[c].pc = "check"
           /\ \A d \in Call \ {c} : call'[d] = call[d]
<1> DEFINE t == [Nothing EXCEPT !.pc = "check", !.kind = "plan", !.api = s]
<1>1. t \in CallRecord /\ t.kind = "plan" /\ t.pc = "check"
  BY DEF Nothing, CallRecord
<1>2. call' = [call EXCEPT ![c] = t]
  BY DEF Generate
<1> HIDE DEF t
<1> QED
  BY <1>1, <1>2 DEF PlannerTypeOK

LEMMA OthersCalmly ==
    ASSUME TalkIsInOrder, NEW d \in Call, call'[d] = call[d] PROVE Calmly(d)
BY DEF Calmly, TalkIsInOrder

(***************************************************************************)
(* What may be in order after a step                                       *)
(***************************************************************************)

LEMMA TalkKept ==
    ASSUME TalkIsInOrder, \A d \in Call : Calmly(d), UNCHANGED <<trip, applied, overlapped, frozen>>
    PROVE  TalkIsInOrder'
<1>1. \A d \in Call : call'[d].kind = "chat" =>
         /\ call[d].kind = "chat" /\ call'[d].chat = call[d].chat /\ call'[d].read = call[d].read
         /\ call'[d].pc # "record" => call[d].pc # "record"
         /\ call'[d].pc # "idle"
  BY NothingIsTyped DEF Calmly, TalkIsInOrder
<1>2. \A d \in Call : call'[d].pc = "write" => call'[d].kind = "chat"
  BY NothingIsTyped DEF Calmly, TalkIsInOrder
<1>3. PlanFollowsTalkUnlessOverlapped'
  BY DEF TalkIsInOrder, PlanFollowsTalkUnlessOverlapped
<1> QED
  BY <1>1, <1>2, <1>3 DEF TalkIsInOrder

LEMMA AskedAreCounted ==
    /\ IsFiniteSet(Asked) /\ Cardinality(Asked) \in Nat /\ Cardinality(Call) \in Nat
    /\ Cardinality(Asked) <= Cardinality(Call)
BY PlannerAssumption, FS_Subset, FS_CardinalityType DEF Asked

LEMMA Cheaper ==
    ASSUME NEW k \in Nat, NEW m \in Nat, NEW n \in Nat, m <= n
    PROVE  k * m \in Nat /\ k * n \in Nat /\ k * m <= k * n
OBVIOUS

\* Nobody new is asking, or the month is still under its cap.
LEMMA OverrunKept ==
    ASSUME PlannerTypeOK, OverrunIsInFlight, used' = used, Asked' \subseteq Asked \/ used < Cap
    PROVE  OverrunIsInFlight'
<1> DEFINE n == Cardinality(Asked)  m == Cardinality(Asked')  all == Cardinality(Call)
<1>0. used \in Nat /\ Cap \in Nat /\ MaxCost \in Nat
  BY PlannerAssumption DEF PlannerTypeOK
<1>1. n \in Nat /\ m \in Nat /\ all \in Nat /\ m <= all
  <2>1. Asked' \subseteq Call
    BY DEF Asked
  <2> QED
    BY <2>1, AskedAreCounted, PlannerAssumption, FS_Subset, FS_CardinalityType
<1>2. CASE Asked' \subseteq Asked
  <2>1. m <= n
    BY <1>2, AskedAreCounted, FS_Subset
  <2>2. MaxCost * m <= MaxCost * n /\ MaxCost * m \in Nat /\ MaxCost * n \in Nat /\ MaxCost * all \in Nat
    BY <1>0, <1>1, <2>1, Cheaper
  <2>3. used + MaxCost * n < Cap + MaxCost * all
    BY DEF OverrunIsInFlight, Asked
  <2>4. used + MaxCost * m < Cap + MaxCost * all
    <3> HIDE DEF n, m, all
    <3> QED
      BY <1>0, <2>2, <2>3
  <2> QED
    BY <2>4 DEF OverrunIsInFlight, Asked
<1>3. CASE used < Cap
  <2>1. MaxCost * m <= MaxCost * all /\ MaxCost * m \in Nat /\ MaxCost * all \in Nat
    BY <1>0, <1>1, Cheaper
  <2>2. used + MaxCost * m < Cap + MaxCost * all
    <3> HIDE DEF n, m, all
    <3> QED
      BY <1>0, <1>3, <2>1
  <2> QED
    BY <2>2 DEF OverrunIsInFlight, Asked
<1> QED
  BY <1>2, <1>3

\* A cost has come: one request less, and no more than it may cost.
LEMMA OverrunPaid ==
    ASSUME PlannerTypeOK, OverrunIsInFlight, NEW c \in Asked, Asked' = Asked \ {c},
           NEW cost \in 0..MaxCost, used' = used + cost
    PROVE  OverrunIsInFlight'
<1> DEFINE n == Cardinality(Asked)  m == Cardinality(Asked')  all == Cardinality(Call)
<1>0. used \in Nat /\ Cap \in Nat /\ MaxCost \in Nat /\ cost \in Nat /\ cost <= MaxCost
  BY PlannerAssumption DEF PlannerTypeOK
<1>1. n \in Nat /\ m \in Nat /\ all \in Nat /\ n = m + 1
  <2>1. m = n - 1 /\ IsFiniteSet(Asked')
    BY AskedAreCounted, FS_RemoveElement
  <2>2. m \in Nat
    BY <2>1, FS_CardinalityType
  <2> QED
    BY <2>1, <2>2, AskedAreCounted
<1>2. used + MaxCost * n < Cap + MaxCost * all
  BY DEF OverrunIsInFlight, Asked
<1>3. MaxCost * n = MaxCost * m + MaxCost /\ MaxCost * m \in Nat /\ MaxCost * n \in Nat /\ MaxCost * all \in Nat
  <2> HIDE DEF n, m, all
  <2> QED
    BY <1>0, <1>1
<1>4. used + cost + MaxCost * m < Cap + MaxCost * all
  <2> HIDE DEF n, m, all
  <2> QED
    BY <1>0, <1>2, <1>3
<1> QED
  BY <1>4 DEF OverrunIsInFlight, Asked

(***************************************************************************)
(* The lock                                                                *)
(***************************************************************************)

LEMMA DrawnLease ==
    ASSUME PlannerTypeOK, NEW s \in Api, NEW l \in Lease, Draw(s, l)
    PROVE  lock' = l /\ holder' = s /\ l # 0 /\ \A t \in Api : kept[t] # l
BY PlannerAssumption DEF Draw, Lease

LEMMA AcquireLeaseKeepsInv ==
    ASSUME PlannerInv, NEW c \in Call, NEW s \in Api, AcquireLease(c, s) PROVE PlannerInv'
<1>0. /\ PlannerTypeOK /\ call[c].pc = "idle" /\ call' = Generate(c, s)
      /\ UNCHANGED <<trip, linked, busy, used, applied, overlapped, frozen>>
  BY DEF PlannerInv, AcquireLease
<1>1. PICK l \in Lease : Draw(s, l) /\ kept' = [kept EXCEPT ![s] = l]
  BY DEF AcquireLease
<1>2. lock' = l /\ holder' = s /\ l # 0 /\ \A t \in Api : kept[t] # l
  BY <1>0, <1>1, DrawnLease
<1>3. /\ call' \in [Call -> CallRecord] /\ call'[c].kind = "plan" /\ call'[c].pc = "check"
      /\ \A d \in Call \ {c} : call'[d] = call[d]
  BY <1>0, CallGenerates
<1>4. /\ kept' \in [Api -> Lease \cup {0}] /\ kept'[s] = l
      /\ \A t \in Api \ {s} : kept'[t] = kept[t]
  BY <1>0, <1>1 DEF PlannerTypeOK
<1>5. PlannerTypeOK'
  BY <1>0, <1>2, <1>3, <1>4 DEF PlannerTypeOK
<1>6. LeaseIsKeptByHolder'
  BY <1>2, <1>4 DEF LeaseIsKeptByHolder
<1>7. \A d \in Call : Calmly(d)
  BY <1>3, OthersCalmly DEF Calmly, PlannerInv
<1>8. Asked' \subseteq Asked
  BY <1>3 DEF Asked
<1> QED
  BY <1>0, <1>5, <1>6, <1>7, <1>8, TalkKept, OverrunKept DEF PlannerInv

LEMMA AcquireLocallyKeepsInv ==
    ASSUME PlannerInv, NEW c \in Call, NEW s \in Api, AcquireLocally(c, s) PROVE PlannerInv'
<1>0. /\ PlannerTypeOK /\ call' = Generate(c, s) /\ busy' = busy \cup {s}
      /\ UNCHANGED <<trip, kept, used, applied, overlapped, frozen>>
  BY DEF PlannerInv, AcquireLocally
<1>1. /\ call' \in [Call -> CallRecord] /\ call'[c].kind = "plan" /\ call'[c].pc = "check"
      /\ \A d \in Call \ {c} : call'[d] = call[d]
  BY <1>0, CallGenerates
<1>2. \/ UNCHANGED <<lock, linked, holder>>
      \/ /\ lock' \in Lease /\ holder' = s /\ linked' = linked \ {s}
         /\ \A t \in Api : kept[t] # lock'
  BY <1>0, DrawnLease DEF AcquireLocally
<1>3. PlannerTypeOK'
  BY <1>0, <1>1, <1>2 DEF PlannerTypeOK
<1>4. LeaseIsKeptByHolder'
  BY <1>0, <1>2 DEF PlannerInv, LeaseIsKeptByHolder
<1>5. \A d \in Call : Calmly(d)
  BY <1>1, OthersCalmly DEF Calmly, PlannerInv
<1>6. Asked' \subseteq Asked
  BY <1>1 DEF Asked
<1> QED
  BY <1>0, <1>3, <1>4, <1>5, <1>6, TalkKept, OverrunKept DEF PlannerInv

\* The two steps of the finally block.
LEMMA ReleaseKeepsInv ==
    ASSUME PlannerInv, NEW c \in Call, ReleaseLease(c) \/ Forget(c) PROVE PlannerInv'
<1>0. PlannerTypeOK /\ UNCHANGED <<trip, linked, used, applied, overlapped, frozen>>
  BY DEF PlannerInv, ReleaseLease, Forget, histories
<1>1. /\ call' \in [Call -> CallRecord]
      /\ \A d \in Call : Calmly(d)
      /\ Asked' \subseteq Asked
  <2>1. CASE ReleaseLease(c)
    <3>0. call[c].pc = "release" /\ call' = MovedTo(c, "forget")
      BY <2>1 DEF ReleaseLease
    <3>1. /\ call' \in [Call -> CallRecord] /\ call'[c].pc = "forget"
          /\ call'[c].kind = call[c].kind /\ call'[c].chat = call[c].chat
          /\ call'[c].read = call[c].read
          /\ \A d \in Call \ {c} : call'[d] = call[d]
      BY <1>0, <3>0, CallMovesTo DEF CallPCs
    <3>2. Calmly(c)
      BY <3>0, <3>1 DEF Calmly
    <3> QED
      BY <3>1, <3>2, OthersCalmly DEF PlannerInv, Asked
  <2>2. CASE Forget(c)
    <3>1. /\ call' \in [Call -> CallRecord] /\ call'[c] = Nothing
          /\ \A d \in Call \ {c} : call'[d] = call[d]
      BY <1>0, <2>2, CallReturns DEF Forget
    <3>2. Calmly(c)
      BY <3>1 DEF Calmly
    <3> QED
      BY <3>1, <3>2, OthersCalmly, NothingIsTyped DEF PlannerInv, Asked
  <2> QED
    BY <2>1, <2>2
<1>2. /\ kept' \in [Api -> Lease \cup {0}] /\ busy' \subseteq Api
      /\ \A t \in Api : kept'[t] \in {kept[t], 0}
      /\ \/ UNCHANGED <<lock, holder>>
         \/ lock' = 0 /\ holder' = NoApi
         \/ lock' = lock /\ holder' = NoApi /\ lock' = 0
  BY <1>0 DEF ReleaseLease, Forget, Freed, histories, PlannerTypeOK
<1>3. PlannerTypeOK'
  BY <1>0, <1>1, <1>2 DEF PlannerTypeOK
<1>4. LeaseIsKeptByHolder'
  BY <1>2 DEF PlannerInv, LeaseIsKeptByHolder
<1> QED
  BY <1>0, <1>1, <1>3, <1>4, TalkKept, OverrunKept DEF PlannerInv

\* A lease runs out, a link is lost, a process starts again.
LEMMA ProcessesKeepInv ==
    ASSUME PlannerInv, ExpireLease \/ \E s \in Api : LoseLink(s) \/ Restart(s) PROVE PlannerInv'
<1>0. PlannerTypeOK /\ UNCHANGED <<trip, used, applied, overlapped, frozen>>
  BY DEF PlannerInv, ExpireLease, LoseLink, Restart, histories
<1>1. /\ call' \in [Call -> CallRecord]
      /\ \A d \in Call : call'[d] \in {call[d], Nothing}
  BY <1>0, NothingIsTyped DEF ExpireLease, LoseLink, Restart, PlannerTypeOK
<1>2. (\A d \in Call : Calmly(d)) /\ Asked' \subseteq Asked
  <2>1. \A d \in Call : call'[d] = Nothing => Calmly(d)
    BY DEF Calmly
  <2> QED
    BY <1>1, <2>1, OthersCalmly, NothingIsTyped DEF Asked, PlannerInv
<1>3. /\ kept' \in [Api -> Lease \cup {0}] /\ busy' \subseteq Api /\ linked' \subseteq Api
      /\ \A t \in Api : kept'[t] \in {kept[t], 0}
      /\ UNCHANGED <<lock, holder>> \/ (lock' = 0 /\ holder' = NoApi)
  BY <1>0 DEF ExpireLease, LoseLink, Restart, histories, PlannerTypeOK
<1>4. PlannerTypeOK'
  BY <1>0, <1>1, <1>3 DEF PlannerTypeOK
<1>5. LeaseIsKeptByHolder'
  BY <1>3 DEF PlannerInv, LeaseIsKeptByHolder
<1> QED
  BY <1>0, <1>2, <1>4, <1>5, TalkKept, OverrunKept DEF PlannerInv

(***************************************************************************)
(* Requests                                                                *)
(***************************************************************************)

\* Steps of a request that write nothing: the check, the model, the end.
LEMMA PlannerRequestKeepsInv ==
    ASSUME PlannerInv, NEW c \in Call, AskIdeas(c) \/ CheckCap(c) \/ AskModel(c) \/ CutOff(c)
    PROVE  PlannerInv'
<1>0. /\ PlannerTypeOK
      /\ UNCHANGED <<trip, used, lock, linked, kept, busy, holder, applied, overlapped, frozen>>
  BY DEF PlannerInv, AskIdeas, CheckCap, AskModel, CutOff, lockVars, histories
<1>1. /\ call' \in [Call -> CallRecord]
      /\ \A d \in Call \ {c} : call'[d] = call[d]
      /\ Calmly(c)
      /\ call'[c].pc \in {"ask", "write", "record"} => call[c].pc \in {"ask", "write", "record"} \/ used < Cap
  <2>1. CASE call' = Returned(c) \/ call' = Unwind(c)
    BY <1>0, <2>1, CallReturns, CallUnwinds, NothingIsTyped DEF Calmly
  <2>2. CASE call[c].pc = "idle" /\ call' = MovedTo(c, "check")
    BY <1>0, <2>2, CallMovesTo DEF Calmly, CallPCs, PlannerInv, TalkIsInOrder
  <2>3. CASE call[c].pc = "check" /\ used < Cap /\ call' = MovedTo(c, "ask")
    BY <1>0, <2>3, CallMovesTo DEF Calmly, CallPCs
  <2>4. CASE call[c].pc = "ask" /\ call' = MovedTo(c, "record")
    BY <1>0, <2>4, CallMovesTo DEF Calmly, CallPCs
  <2>5. CASE call[c].pc = "ask" /\ call[c].kind = "chat" /\ call' = MovedTo(c, "write")
    BY <1>0, <2>5, CallMovesTo DEF Calmly, CallPCs
  <2> QED
    BY <2>1, <2>2, <2>3, <2>4, <2>5 DEF AskIdeas, CheckCap, AskModel, CutOff
<1>2. \A d \in Call : Calmly(d)
  BY <1>1, OthersCalmly DEF PlannerInv
<1>3. Asked' \subseteq Asked \/ used < Cap
  BY <1>1 DEF Asked
<1>4. PlannerTypeOK' /\ LeaseIsKeptByHolder'
  BY <1>0, <1>1 DEF PlannerInv, PlannerTypeOK, LeaseIsKeptByHolder
<1> QED
  BY <1>0, <1>2, <1>3, <1>4, TalkKept, OverrunKept DEF PlannerInv

LEMMA RecordUsageKeepsInv == ASSUME PlannerInv, NEW c \in Call, RecordUsage(c) PROVE PlannerInv'
<1>0. /\ PlannerTypeOK /\ call[c].pc = "record" /\ call' = Unwind(c)
      /\ UNCHANGED <<trip, lock, linked, kept, busy, holder, applied, overlapped, frozen>>
  BY DEF PlannerInv, RecordUsage, lockVars, histories
<1>1. PICK cost \in 0..MaxCost : used' = used + cost
  BY DEF RecordUsage
<1>2. /\ call' \in [Call -> CallRecord]
      /\ call'[c] = Nothing \/ (call'[c].kind = "plan" /\ call'[c].pc = "release")
      /\ \A d \in Call \ {c} : call'[d] = call[d]
  BY <1>0, CallUnwinds
<1>3. \A d \in Call : Calmly(d)
  BY <1>2, OthersCalmly DEF Calmly, PlannerInv
<1>4. c \in Asked /\ Asked' = Asked \ {c}
  BY <1>0, <1>2, NothingIsTyped DEF Asked
<1>5. used' \in Nat
  BY <1>0, <1>1, PlannerAssumption DEF PlannerTypeOK
<1>6. PlannerTypeOK' /\ LeaseIsKeptByHolder'
  BY <1>0, <1>2, <1>5 DEF PlannerInv, PlannerTypeOK, LeaseIsKeptByHolder
<1> QED
  BY <1>0, <1>1, <1>3, <1>4, <1>6, TalkKept, OverrunPaid DEF PlannerInv

\* A message reads the plan: it is alone, or it and those in flight overlap.
LEMMA ReadTripKeepsInv ==
    ASSUME PlannerInv, NEW c \in Call, NEW n \in Chat, ReadTrip(c, n) PROVE PlannerInv'
<1> DEFINE others == {call[d].chat : d \in Talking}
<1>0. /\ PlannerTypeOK /\ call[c].pc = "idle" /\ trip.status = "GENERATED"
      /\ n \notin applied /\ n \notin others
      /\ overlapped' = IF others = {} THEN overlapped \ {n} ELSE overlapped \cup others \cup {n}
      /\ call' = [call EXCEPT ![c] = [pc |-> "check", kind |-> "chat", api |-> NoApi,
                                      chat |-> n, read |-> trip.built]]
      /\ UNCHANGED <<trip, used, lock, linked, kept, busy, holder, applied, frozen>>
  BY DEF PlannerInv, ReadTrip, Modifiable, lockVars
<1>1. /\ call' \in [Call -> CallRecord] /\ call'[c].pc = "check" /\ call'[c].kind = "chat"
      /\ call'[c].chat = n /\ call'[c].read = trip.built
      /\ \A d \in Call \ {c} : call'[d] = call[d]
  BY <1>0 DEF PlannerTypeOK, CallRecord, TripRow
<1>2. \A d \in Call : call[d].kind = "chat" => d # c /\ call[d].chat \in others /\ call[d].chat \in Chat
  BY <1>0 DEF PlannerInv, TalkIsInOrder, Talking
<1>3. others \subseteq Chat
  BY <1>2 DEF Talking
<1>4. PlannerTypeOK' /\ LeaseIsKeptByHolder'
  BY <1>0, <1>1, <1>3 DEF PlannerInv, PlannerTypeOK, LeaseIsKeptByHolder
<1>5. Asked' \subseteq Asked
  BY <1>1 DEF Asked
<1>6. PlanFollowsTalkUnlessOverlapped'
  BY <1>0 DEF PlannerInv, TalkIsInOrder, PlanFollowsTalkUnlessOverlapped
<1>7. \A d \in Call \ {c} : call[d].kind = "chat" => /\ call[d].chat \in overlapped' /\ n \in overlapped'
                                                    /\ overlapped \subseteq overlapped'
  BY <1>0, <1>2
<1>8. TalkIsInOrder'
  <2>1. ASSUME NEW d \in Call
        PROVE  /\ call'[d].kind = "chat" => call'[d].chat \in Chat /\ call'[d].pc # "idle"
               /\ call'[d].pc = "write" => call'[d].kind = "chat"
               /\ call'[d].kind = "chat" /\ call'[d].pc # "record" =>
                     call'[d].read \ overlapped' = trip'.built \ overlapped'
    <3>1. CASE d = c
      BY <1>0, <1>1, <3>1
    <3>2. CASE d # c
      <4>1. call'[d] = call[d]
        BY <1>1, <3>2
      <4>2. call[d].kind = "chat" => overlapped \subseteq overlapped'
        BY <1>7, <3>2
      <4> QED
        BY <1>0, <4>1, <4>2 DEF PlannerInv, TalkIsInOrder
    <3> QED
      BY <3>1, <3>2
  <2>2. ASSUME NEW d \in Call, NEW e \in Call, call'[d].kind = "chat", call'[e].kind = "chat", d # e
        PROVE  call'[d].chat \in overlapped'
    BY <1>1, <1>7, <2>2
  <2> QED
    BY <1>0, <1>6, <2>1, <2>2 DEF TalkIsInOrder
<1> QED
  BY <1>0, <1>4, <1>5, <1>8, OverrunKept DEF PlannerInv

\* The plan becomes what the message has read of it, and the message.
LEMMA WriteTripKeepsInv == ASSUME PlannerInv, NEW c \in Call, WriteTrip(c) PROVE PlannerInv'
<1>0. /\ PlannerTypeOK /\ call[c].pc = "write" /\ call[c].kind = "chat" /\ call[c].chat \in Chat
      /\ UNCHANGED <<used, lock, linked, kept, busy, holder, overlapped, frozen>>
  BY DEF PlannerInv, TalkIsInOrder, WriteTrip, lockVars
<1>1. CASE call' = Returned(c) /\ UNCHANGED <<trip, applied>>
  <2>1. /\ call' \in [Call -> CallRecord] /\ call'[c] = Nothing
        /\ \A d \in Call \ {c} : call'[d] = call[d]
    BY <1>0, <1>1, CallReturns
  <2>2. \A d \in Call : Calmly(d)
    BY <2>1, OthersCalmly DEF Calmly, PlannerInv
  <2>3. Asked' \subseteq Asked
    BY <2>1, NothingIsTyped DEF Asked
  <2>4. PlannerTypeOK' /\ LeaseIsKeptByHolder'
    BY <1>0, <1>1, <2>1 DEF PlannerInv, PlannerTypeOK, LeaseIsKeptByHolder
  <2> QED
    BY <1>0, <1>1, <2>2, <2>3, <2>4, TalkKept, OverrunKept DEF PlannerInv
<1>2. CASE /\ trip' = [trip EXCEPT !.built = call[c].read \cup {call[c].chat}]
           /\ applied' = applied \cup {call[c].chat}
           /\ call' = MovedTo(c, "record")
  <2>1. /\ call' \in [Call -> CallRecord] /\ call'[c].pc = "record" /\ call'[c].kind = "chat"
        /\ call'[c].chat = call[c].chat /\ call'[c].read = call[c].read
        /\ \A d \in Call \ {c} : call'[d] = call[d]
    BY <1>0, <1>2, CallMovesTo DEF CallPCs
  <2>2. /\ trip' \in TripRow /\ trip'.built = call[c].read \cup {call[c].chat}
        /\ trip'.status = trip.status /\ applied' \subseteq Chat
    BY <1>0, <1>2 DEF PlannerTypeOK, TripRow, CallRecord
  <2>3. PlannerTypeOK' /\ LeaseIsKeptByHolder'
    BY <1>0, <2>1, <2>2 DEF PlannerInv, PlannerTypeOK, LeaseIsKeptByHolder
  <2>4. Asked' \subseteq Asked
    BY <1>0, <2>1 DEF Asked
  <2>5. /\ call[c].read \ overlapped = trip.built \ overlapped
        /\ trip.status = "FINALIZED" => call[c].chat \in overlapped
        /\ \A d \in Call \ {c} : call[d].kind = "chat" =>
              call[c].chat \in overlapped /\ call[d].chat \in overlapped
    BY <1>0 DEF PlannerInv, TalkIsInOrder
  <2>6. call[c].chat \in overlapped => trip'.built \ overlapped = trip.built \ overlapped
    BY <2>2, <2>5
  <2>7. PlanFollowsTalkUnlessOverlapped'
    <3>1. applied' \ overlapped \subseteq trip'.built
      BY <1>2, <2>2, <2>5 DEF PlannerInv, TalkIsInOrder, PlanFollowsTalkUnlessOverlapped
    <3>2. trip'.status = "FINALIZED" => trip'.built \ overlapped = frozen \ overlapped
      BY <2>2, <2>5, <2>6 DEF PlannerInv, TalkIsInOrder, PlanFollowsTalkUnlessOverlapped
    <3> QED
      BY <1>0, <3>1, <3>2 DEF PlanFollowsTalkUnlessOverlapped
  <2>8. TalkIsInOrder'
    <3>1. ASSUME NEW d \in Call, d # c, call'[d].kind = "chat", call'[d].pc # "record"
          PROVE  /\ call'[d].read \ overlapped = trip'.built \ overlapped
                 /\ trip'.status = "FINALIZED" => call'[d].chat \in overlapped
      BY <2>1, <2>2, <2>5, <2>6, <3>1 DEF PlannerInv, TalkIsInOrder
    <3>2. ASSUME NEW d \in Call
          PROVE  /\ call'[d].kind = "chat" => call'[d].chat \in Chat /\ call'[d].pc # "idle"
                 /\ call'[d].pc = "write" => call'[d].kind = "chat"
                 /\ call'[d].kind = call[d].kind /\ call'[d].chat = call[d].chat
      BY <1>0, <2>1 DEF PlannerInv, TalkIsInOrder
    <3>3. \A d, e \in Call : call'[d].kind = "chat" /\ call'[e].kind = "chat" /\ d # e
             => call'[d].chat \in overlapped
      BY <3>2 DEF PlannerInv, TalkIsInOrder
    <3> QED
      BY <1>0, <2>1, <2>7, <3>1, <3>2, <3>3 DEF TalkIsInOrder
  <2> QED
    BY <1>0, <2>3, <2>4, <2>8, OverrunKept DEF PlannerInv
<1> QED
  BY <1>1, <1>2 DEF WriteTrip

LEMMA GuestKeepsInv == ASSUME PlannerInv, Finalize \/ Delete PROVE PlannerInv'
<1>0. /\ PlannerTypeOK /\ UNCHANGED <<used, call, lock, linked, kept, busy, holder, applied>>
      /\ trip'.built = trip.built /\ trip' \in TripRow
  BY DEF PlannerInv, PlannerTypeOK, TripRow, Finalize, Delete, lockVars, histories
<1>1. CASE Finalize
  <2>1. /\ trip'.status = "FINALIZED" /\ frozen' = trip.built
        /\ overlapped \subseteq overlapped' /\ overlapped' \subseteq Chat
        /\ \A d \in Call : call[d].kind = "chat" => call[d].chat \in overlapped'
    BY <1>0, <1>1 DEF Finalize, Talking, PlannerInv, TalkIsInOrder, PlannerTypeOK, TripRow
  <2>2. PlannerTypeOK'
    BY <1>0, <2>1 DEF PlannerTypeOK, TripRow
  <2>3. PlanFollowsTalkUnlessOverlapped'
    BY <1>0, <2>1 DEF PlannerInv, TalkIsInOrder, PlanFollowsTalkUnlessOverlapped
  <2>4. TalkIsInOrder'
    BY <1>0, <2>1, <2>3 DEF PlannerInv, TalkIsInOrder
  <2> QED
    BY <1>0, <2>2, <2>4 DEF PlannerInv, LeaseIsKeptByHolder, OverrunIsInFlight
<1>2. CASE Delete
  <2>1. trip'.status = "deleted" /\ UNCHANGED <<overlapped, frozen>>
    BY <1>0, <1>2 DEF Delete, histories, PlannerTypeOK, TripRow
  <2>2. PlannerTypeOK' /\ TalkIsInOrder'
    BY <1>0, <2>1 DEF PlannerInv, PlannerTypeOK, TalkIsInOrder, PlanFollowsTalkUnlessOverlapped
  <2> QED
    BY <1>0, <2>2 DEF PlannerInv, LeaseIsKeptByHolder, OverrunIsInFlight
<1> QED
  BY <1>1, <1>2

LEMMA PlannerStart == PlannerInit => PlannerInv
<1> SUFFICES ASSUME PlannerInit PROVE PlannerInv
  OBVIOUS
<1>1. \A c \in Call : call[c] = Nothing
  BY DEF PlannerInit
<1>2. PlannerTypeOK
  BY NothingIsTyped DEF PlannerInit, PlannerTypeOK, TripRow
<1>3. TalkIsInOrder
  BY <1>1, NothingIsTyped DEF PlannerInit, TalkIsInOrder, PlanFollowsTalkUnlessOverlapped
<1>4. OverrunIsInFlight
  <2>1. Asked = {}
    BY <1>1, NothingIsTyped DEF Asked
  <2>2. Cardinality(Asked) = 0 /\ Cardinality(Call) \in Nat
    BY <2>1, FS_EmptySet, AskedAreCounted
  <2>3. MaxCost * Cardinality(Call) \in Nat /\ MaxCost * 0 = 0
    BY <2>2, PlannerAssumption
  <2>4. used + MaxCost * Cardinality(Asked) < Cap + MaxCost * Cardinality(Call)
    BY <2>2, <2>3, PlannerAssumption DEF PlannerInit
  <2> QED
    BY <2>4 DEF OverrunIsInFlight, Asked
<1>5. LeaseIsKeptByHolder
  BY DEF PlannerInit, LeaseIsKeptByHolder
<1> QED
  BY <1>2, <1>3, <1>4, <1>5 DEF PlannerInv

LEMMA PlannerInvStep == PlannerInv /\ [PlannerNext]_plannerVars => PlannerInv'
<1> SUFFICES ASSUME PlannerInv, [PlannerNext]_plannerVars PROVE PlannerInv'
  OBVIOUS
<1>1. CASE UNCHANGED plannerVars
  BY <1>1 DEF plannerVars, PlannerInv, PlannerTypeOK, LeaseIsKeptByHolder, TalkIsInOrder,
       PlanFollowsTalkUnlessOverlapped, OverrunIsInFlight
<1> QED
  BY <1>1, AcquireLeaseKeepsInv, AcquireLocallyKeepsInv, ReleaseKeepsInv, ProcessesKeepInv, PlannerRequestKeepsInv,
     RecordUsageKeepsInv, ReadTripKeepsInv, WriteTripKeepsInv, GuestKeepsInv DEF PlannerNext

LEMMA PlannerInvariant == PlannerSpec => []PlannerInv
BY PlannerStart, PlannerInvStep, PTL DEF PlannerSpec

\* The plan, the locks, the month and the requests have their types.
THEOREM PlannerTyped == PlannerSpec => []PlannerTypeOK
BY PlannerInvariant, PTL DEF PlannerInv

\* For any number of messages and requests: what the guest was told is in the plan, and
\* a finalized plan stays what it was, but for messages that overlapped.
THEOREM PlanFollowsTalk == PlannerSpec => []PlanFollowsTalkUnlessOverlapped
<1>1. PlannerInv => PlanFollowsTalkUnlessOverlapped
  BY DEF PlannerInv, TalkIsInOrder
<1> QED
  BY <1>1, PlannerInvariant, PTL

\* For any cap, cost and number of requests: the month ends no further above its cap
\* than the requests in flight can cost.
THEOREM OverrunIsBounded == PlannerSpec => []OverrunIsInFlight
BY PlannerInvariant, PTL DEF PlannerInv

\* Of the processes of a request, only a release frees the lease, and it frees its own.
THEOREM LeaseFreedByOwner == PlannerSpec => LeaseFreedByItsProcess
<1> DEFINE Frees(c) == call[c].pc = "release" /\ call'[c].pc = "forget" /\ lock' # lock
<1>1. ASSUME PlannerInv, PlannerNext, NEW c \in Call, Frees(c) PROVE holder = call[c].api
  <2>0. PlannerTypeOK
    BY <1>1 DEF PlannerInv
  <2>1. CASE ReleaseLease(c)
    BY <1>1, <2>1 DEF ReleaseLease, Freed, PlannerInv, PlannerTypeOK, LeaseIsKeptByHolder
  <2>2. ASSUME NEW d \in Call, d # c,
               \/ \E s \in Api : AcquireLease(d, s) \/ AcquireLocally(d, s)
               \/ ReleaseLease(d)
        PROVE  FALSE
    <3>1. call'[c] = call[c]
      BY <2>0, <2>2, CallGenerates, CallMovesTo DEF AcquireLease, AcquireLocally, ReleaseLease, CallPCs
    <3> QED
      BY <1>1, <3>1
  <2>3. CASE \E s \in Api : AcquireLease(c, s) \/ AcquireLocally(c, s)
    BY <1>1, <2>3 DEF AcquireLease, AcquireLocally
  <2>4. CASE ExpireLease
    BY <1>1, <2>4 DEF ExpireLease
  <2>5. lock' # lock
    BY <1>1
  <2> QED
    BY <1>1, <2>1, <2>2, <2>3, <2>4, <2>5 DEF PlannerNext, ReadTrip, AskIdeas, CheckCap, AskModel, WriteTrip,
         RecordUsage, Forget, CutOff, LoseLink, Restart, Finalize, Delete, lockVars
<1>2. ASSUME PlannerInv, [PlannerNext]_plannerVars
      PROVE  [\A c \in Call : Frees(c) => holder = call[c].api]_plannerVars
  BY <1>1, <1>2
<1> QED
  BY <1>2, PlannerInvariant, PTL DEF PlannerSpec, LeaseFreedByItsProcess

------------------------------------------------------------------------------
(* The services together (module MCServices). *)

\* What the services do together, each does by its own next-state relation.
LEMMA ServiceByService ==
    ASSUME [ServicesNext]_servicesVars
    PROVE  /\ [Next]_vars /\ [SeatsNext]_seatsVars /\ [TokensNext]_tokensVars
           /\ [RewardsNext]_rewardsVars /\ [AmountsNext]_amountsVars
           /\ [IdemNext]_idemVars /\ [PlannerNext]_plannerVars
<1>1. CASE UNCHANGED servicesVars
  BY <1>1 DEF servicesVars
<1>2. CASE ServicesNext
  BY <1>2 DEF ServicesNext
<1> QED
  BY <1>1, <1>2

\* Behaviours of the composition that is model-checked are behaviours of each service,
\* so that what is proved of a service holds in the composition.
THEOREM ServicesAreComposed ==
    ServicesSpec => /\ Spec /\ SeatsSpec /\ TokensSpec /\ RewardsSpec /\ AmountsSpec
                    /\ IdemSpec /\ PlannerSpec
<1>1. ServicesInit => /\ Init /\ SeatsInit /\ TokensInit /\ RewardsInit /\ AmountsInit
                      /\ IdemInit /\ PlannerInit
  BY DEF ServicesInit
<1> QED
  BY <1>1, ServiceByService, PTL
     DEF ServicesSpec, Spec, SeatsSpec, TokensSpec, RewardsSpec, AmountsSpec, IdemSpec, PlannerSpec

\* In the composition the rows and the requests of every service have their types.
THEOREM ServicesTyped == ServicesSpec => []ServicesTypeOK
BY ServicesAreComposed, PayoutTyped, SeatsTyped, TokensTyped, RewardsTyped, AmountsTyped,
   KeysTyped, PlannerTyped, PTL DEF ServicesTypeOK
====
