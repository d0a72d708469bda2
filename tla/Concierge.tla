------------------------------ MODULE Concierge -------------------------------
(***************************************************************************)
(* The concierge thread of one booking: guest, host and operations write   *)
(* in it, a guest's message starts the host's reply clock, and the hourly  *)
(* sweep flags a lapsed clock to operations and closes threads a week      *)
(* after the stay (messaging/messaging.service.ts, jobs/concierge-sla.     *)
(* processor.ts).                                                          *)
(*                                                                         *)
(* sendMessage reads the thread, stores the message and then touches the   *)
(* thread, in three statements; the sweep reads, then flags by id, then    *)
(* notifies.  Messages of others, a second sweep or the end of a process   *)
(* may come between any two.                                               *)
(***************************************************************************)
EXTENDS Naturals

CONSTANTS Writer,   \* calls of sendMessage, each of one message
          Monitor,  \* sweeps that may overlap
          MaxStops, \* bound on sweeps that are cut short
          NoWriter

ASSUME ConciergeAssumption == NoWriter \notin Writer /\ MaxStops \in Nat

VARIABLES thread,  \* the Conversation row
          stale,   \* its booking is COMPLETED and ended more than a week ago
          latest,  \* the call that stored the latest message
          writer,  \* where each sendMessage is
          monitor, \* where each sweep is
          stops,   \* sweeps cut short so far
          alerted, \* history: operations were told of the guest's present wait
          muted,   \* history: a sweep ended between the flag and the notification
          mistimed  \* history: a touch was lost, or came after a later message

conciergeVars == <<thread, stale, latest, writer, monitor, stops, alerted, muted, mistimed>>
sweeping == <<monitor, stops>>

------------------------------------------------------------------------------
\* slaDueAt null, to come, past; slaBreachedAt set or not.
Thread == [status : {"none", "OPEN", "CLOSED"}, due : {"off", "running", "lapsed"}, breached : BOOLEAN]
Roles  == {"GUEST", "HOST", "ADMIN"}

ConciergeTypeOK ==
    /\ thread \in Thread /\ stale \in BOOLEAN /\ latest \in Writer \cup {NoWriter}
    /\ writer \in [Writer -> [stage : {"idle", "checked", "stored", "done"}, role : Roles]]
    /\ monitor \in [Monitor -> {"idle", "due", "flagged", "flags done", "close"}]
    /\ stops \in 0..MaxStops
    /\ alerted \in BOOLEAN /\ muted \in BOOLEAN /\ mistimed \in BOOLEAN

ConciergeInit ==
    /\ thread = [status |-> "none", due |-> "off", breached |-> FALSE]
    /\ stale = FALSE /\ latest = NoWriter
    /\ writer = [s \in Writer |-> [stage |-> "idle", role |-> "GUEST"]]
    /\ monitor = [w \in Monitor |-> "idle"] /\ stops = 0
    /\ alerted = FALSE /\ muted = FALSE /\ mistimed = FALSE

------------------------------------------------------------------------------
(* The thread and its messages. *)

\* ensureConciergeThread; its welcome is a system message.
OpenThread ==
    /\ thread.status = "none" /\ thread' = [thread EXCEPT !.status = "OPEN"]
    /\ UNCHANGED <<stale, latest, writer, sweeping, alerted, muted, mistimed>>

CheckThread(s, role) ==
    /\ writer[s].stage = "idle" /\ thread.status = "OPEN"
    /\ writer' = [writer EXCEPT ![s] = [stage |-> "checked", role |-> role]]
    /\ UNCHANGED <<thread, stale, latest, sweeping, alerted, muted, mistimed>>

StoreMessage(s) ==
    /\ writer[s].stage = "checked" /\ writer' = [writer EXCEPT ![s].stage = "stored"]
    /\ latest' = s
    /\ UNCHANGED <<thread, stale, sweeping, alerted, muted, mistimed>>

ClockStoppedByHost(role) ==   \* mutant: operations standing in do not stop the clock
    [thread EXCEPT !.due = CASE role = "GUEST" -> "running" [] role = "HOST" -> "off" [] OTHER -> @,
                   !.breached = FALSE]
ClockKeepsFlag(role) ==       \* mutant: a guest's message leaves slaBreachedAt as it is
    [thread EXCEPT !.due = IF role = "GUEST" THEN "running" ELSE "off",
                   !.breached = @ /\ role = "GUEST"]
\* touchConversationAfterMessage of a thread that was OPEN when it was read: a
\* guest's message restarts the clock, any other stops it.
ClockAfter(role) ==
    [thread EXCEPT !.due = IF role = "GUEST" THEN "running" ELSE "off", !.breached = FALSE]

TouchThread(s) ==
    /\ writer[s].stage = "stored" /\ writer' = [writer EXCEPT ![s].stage = "done"]
    /\ thread' = ClockAfter(writer[s].role)
    /\ alerted' = (alerted /\ writer[s].role # "GUEST")
    /\ mistimed' = (mistimed \/ latest # s)
    /\ UNCHANGED <<stale, latest, sweeping, muted>>

\* The process ends, or a statement throws; a message already stored stays.
StopWriting(s) ==
    /\ writer[s].stage \in {"checked", "stored"}
    /\ writer' = [writer EXCEPT ![s].stage = "done"]
    /\ mistimed' = (mistimed \/ writer[s].stage = "stored")
    /\ UNCHANGED <<thread, stale, latest, sweeping, alerted, muted>>

------------------------------------------------------------------------------
(* Time. *)

DueTimePasses ==
    /\ thread.due = "running" /\ thread' = [thread EXCEPT !.due = "lapsed"]
    /\ UNCHANGED <<stale, latest, writer, sweeping, alerted, muted, mistimed>>

WeekAfterStayPasses ==
    /\ ~stale /\ stale' = TRUE
    /\ UNCHANGED <<thread, latest, writer, sweeping, alerted, muted, mistimed>>

------------------------------------------------------------------------------
(* sweepSlaBreaches, then closeStaleConciergeThreads. *)

Sweeps(w, from, to) == monitor[w] = from /\ monitor' = [monitor EXCEPT ![w] = to]

ReadBreaches(w) ==
    /\ IF thread.status = "OPEN" /\ thread.due = "lapsed" /\ ~thread.breached
       THEN Sweeps(w, "idle", "due") ELSE Sweeps(w, "idle", "flags done")
    /\ UNCHANGED <<thread, stale, latest, writer, stops, alerted, muted, mistimed>>

FlagBreach(w) ==
    /\ Sweeps(w, "due", "flagged")
    /\ thread' = [thread EXCEPT !.breached = TRUE]
    /\ UNCHANGED <<stale, latest, writer, stops, alerted, muted, mistimed>>

NotifyOps(w) ==
    /\ Sweeps(w, "flagged", "flags done")
    /\ alerted' = TRUE
    /\ UNCHANGED <<thread, stale, latest, writer, stops, muted, mistimed>>

ReadStale(w) ==
    /\ IF thread.status = "OPEN" /\ stale
       THEN Sweeps(w, "flags done", "close") ELSE Sweeps(w, "flags done", "idle")
    /\ UNCHANGED <<thread, stale, latest, writer, stops, alerted, muted, mistimed>>

CloseThread(w) ==
    /\ Sweeps(w, "close", "idle")
    /\ thread' = [thread EXCEPT !.status = "CLOSED"]
    /\ UNCHANGED <<stale, latest, writer, stops, alerted, muted, mistimed>>

StopSweep(w) ==
    /\ monitor[w] # "idle" /\ stops < MaxStops
    /\ monitor' = [monitor EXCEPT ![w] = "idle"] /\ stops' = stops + 1
    /\ muted' = (muted \/ monitor[w] = "flagged")
    /\ UNCHANGED <<thread, stale, latest, writer, alerted, mistimed>>

------------------------------------------------------------------------------
MonitorStep(w) ==
    ReadBreaches(w) \/ FlagBreach(w) \/ NotifyOps(w) \/ ReadStale(w) \/ CloseThread(w)

ConciergeNext ==
    \/ OpenThread \/ DueTimePasses \/ WeekAfterStayPasses
    \/ \E s \in Writer : \/ \E role \in Roles : CheckThread(s, role)
                         \/ StoreMessage(s) \/ TouchThread(s) \/ StopWriting(s)
    \/ \E w \in Monitor : MonitorStep(w) \/ StopSweep(w)

\* The job runs every hour; nothing is assumed of those who write.
ConciergeFairness == \A w \in Monitor : WF_conciergeVars(MonitorStep(w))

ConciergeSpec == ConciergeInit /\ [][ConciergeNext]_conciergeVars /\ ConciergeFairness

------------------------------------------------------------------------------
(* Properties *)

\* While no call is between its message and its touch, the reply clock is set
\* exactly if the latest message is the guest's, unless touches came in another
\* order than their messages or one was lost (sendMessage).
ClockFollowsTalkUnlessMistimed ==
    (~mistimed /\ \A s \in Writer : writer[s].stage # "stored")
        => (thread.due # "off" <=> latest # NoWriter /\ writer[latest].role = "GUEST")

\* A reply clock that lapses on an open thread is brought to operations, unless
\* somebody writes, the thread is closed, or a sweep ended between its flag and
\* its notification (sweepSlaBreaches).
LapseIsAlerted ==
    (thread.status = "OPEN" /\ thread.due = "lapsed")
        ~> (alerted \/ muted \/ thread.due # "lapsed" \/ thread.status = "CLOSED")
================================================================================
