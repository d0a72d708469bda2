---- MODULE Idempotency ----
(***************************************************************************)
(* The idempotency keys of requests that book, hold and pay:               *)
(* common/interceptors/idempotency.interceptor.ts.  A request looks its    *)
(* key up, inserts it as PROCESSING, runs its handler, and stores the      *)
(* response under the key, or deletes the key if the handler threw.  These *)
(* are four statements; only the unique key stands between two requests.   *)
(* A handler may throw with its work done: createBooking audits after its  *)
(* transaction, initPayment stores a row after the order at the gateway.   *)
(***************************************************************************)
EXTENDS Naturals

CONSTANTS Attempt,  \* requests in flight at once
          IdemKey,  \* values of the x-idempotency-key header
          Body      \* request bodies, told apart by requestHash

ASSUME IdemAssumption == IdemKey # {} /\ Body # {}

VARIABLES
    record,   \* the IdempotencyKey rows: status and requestHash
    request,  \* what each request carries and where it is
    runs,     \* history: handlers that have done their work under the key, 2 for more
    answered, \* history: keys and bodies that were answered with a response
    torn      \* history: keys of handlers that threw with their work done

idemVars == <<record, request, runs, answered, torn>>

RecordRow == [status : {"none", "PROCESSING", "COMPLETED"}, body : Body]
RequestRecord == [pc : {"idle", "create", "handle", "store", "clean"}, key : IdemKey, body : Body]

AnyBody == CHOOSE b \in Body : TRUE
NoRecord == [status |-> "none", body |-> AnyBody]
NoRequest == [pc |-> "idle", key |-> CHOOSE k \in IdemKey : TRUE, body |-> AnyBody]

Went(r, pc) == [request EXCEPT ![r].pc = pc]
Over(r) == [request EXCEPT ![r] = NoRequest]

IdemInit ==
    /\ record = [k \in IdemKey |-> NoRecord]
    /\ request = [r \in Attempt |-> NoRequest]
    /\ runs = [k \in IdemKey |-> 0]
    /\ answered = {} /\ torn = {}

\* A key being processed, or completed with another body, is refused: nothing changes.
Find(r, k, b) ==
    /\ request[r].pc = "idle"
    /\ \/ /\ record[k].status = "none"
          /\ request' = [request EXCEPT ![r] = [pc |-> "create", key |-> k, body |-> b]]
          /\ UNCHANGED answered
       \/ /\ record[k] = [status |-> "COMPLETED", body |-> b]
          /\ answered' = answered \cup {<<k, b>>}
          /\ UNCHANGED request
    /\ UNCHANGED <<record, runs, torn>>

CreateOrReplace(r) ==   \* mutant: an upsert
    LET q == request[r] IN
    /\ q.pc = "create"
    /\ record' = [record EXCEPT ![q.key] = [status |-> "PROCESSING", body |-> q.body]]
    /\ request' = Went(r, "handle")
    /\ UNCHANGED <<runs, answered, torn>>

\* The key is unique: whoever comes second fails.
Create(r) ==
    LET q == request[r] IN
    /\ q.pc = "create"
    /\ \/ /\ record[q.key].status = "none"
          /\ record' = [record EXCEPT ![q.key] = [status |-> "PROCESSING", body |-> q.body]]
          /\ request' = Went(r, "handle")
       \/ /\ record[q.key].status # "none"
          /\ request' = Over(r)
          /\ UNCHANGED record
    /\ UNCHANGED <<runs, answered, torn>>

Ran(k) == runs' = [runs EXCEPT ![k] = IF @ = 0 THEN 1 ELSE 2]

\* The response goes out without waiting for the update of the record.  A handler
\* throws before its work is done, or with the booking or the order already made.
Handle(r) ==
    LET q == request[r] IN
    /\ q.pc = "handle"
    /\ \/ /\ request' = Went(r, "store")
          /\ Ran(q.key)
          /\ answered' = answered \cup {<<q.key, q.body>>}
          /\ UNCHANGED torn
       \/ /\ request' = Went(r, "clean")
          /\ UNCHANGED <<runs, answered, torn>>
       \/ /\ request' = Went(r, "clean")
          /\ Ran(q.key)
          /\ torn' = torn \cup {q.key}
          /\ UNCHANGED answered
    /\ UNCHANGED record

\* What the update and the delete throw is swallowed: the key stays PROCESSING.
Store(r) ==
    LET k == request[r].key IN
    /\ request[r].pc = "store"
    /\ record' \in {record, [record EXCEPT ![k].status = "COMPLETED"]}
    /\ request' = Over(r)
    /\ UNCHANGED <<runs, answered, torn>>

Clean(r) ==
    LET k == request[r].key IN
    /\ request[r].pc = "clean"
    /\ record' \in {record, [record EXCEPT ![k] = NoRecord]}
    /\ request' = Over(r)
    /\ UNCHANGED <<runs, answered, torn>>

\* The process stops; a handler cut off may have committed already.
Halt(r) ==
    LET q == request[r] IN
    /\ q.pc # "idle"
    /\ request' = Over(r)
    /\ \/ UNCHANGED runs
       \/ /\ q.pc = "handle"
          /\ Ran(q.key)
    /\ UNCHANGED <<record, answered, torn>>

IdemNext ==
    \E r \in Attempt :
        \/ \E k \in IdemKey, b \in Body : Find(r, k, b)
        \/ Create(r) \/ Handle(r) \/ Store(r) \/ Clean(r) \/ Halt(r)

IdemSpec == IdemInit /\ [][IdemNext]_idemVars

(***************************************************************************)
(* Properties                                                              *)
(***************************************************************************)

\* Types of the rows and the requests.
IdemTypeOK ==
    /\ record \in [IdemKey -> RecordRow]
    /\ request \in [Attempt -> RequestRecord]
    /\ runs \in [IdemKey -> 0 .. 2]
    /\ answered \subseteq IdemKey \X Body /\ torn \subseteq IdemKey

\* However requests with one key overlap, fail and come again, their handler takes
\* effect once, unless one threw with its work done: the interceptor then frees the
\* key, and a retry works again.  Every response ever given for the key is of a run
\* that took effect, went to the same body and holds the key for good.
HandledOnceUnlessTorn ==
    \A k \in IdemKey :
        /\ k \notin torn => runs[k] <= 1
        /\ \A b \in Body : <<k, b>> \in answered =>
              runs[k] > 0 /\ record[k].body = b /\ record[k].status # "none"
====
