------------------------------ MODULE Submission ------------------------------
(***************************************************************************)
(* Submissions end to end: the queue of a device (SubmissionQueue), the     *)
(* HTTP transport (bris-submit/src/transport.rs) and the collector          *)
(* (Collector).  A request may be lost on its way, an answer on the way     *)
(* back, and a flusher that has given up leaves a handler running that      *)
(* still stores the submission.                                            *)
(*                                                                         *)
(* The collector tells one POST from another by nothing but the id it draws *)
(* for each: what is sent again is stored again.                            *)
(***************************************************************************)
EXTENDS SubmissionQueue, Collector

CONSTANT
  Refusable    \* the submissions a 4xx (or an unreadable 200) may meet

ASSUME NoneIsNoId == NoCollectorId \notin Ids

VARIABLES
  request,   \* for each flusher, the id drawn for the POST it waits for
  origin     \* for each id, the submission it was drawn for

svars == <<qvars, cvars, request, origin>>

NoRequest == NoCollectorId

SInit ==
  /\ QInit /\ CInit
  /\ request = [f \in Flushers |-> NoRequest]
  /\ origin = [c \in Ids |-> 0]

\* The POST of flusher f reaches post_submission, which draws c for it.
Arrive(f, c) ==
  /\ At(f, "sending") /\ request[f] = NoRequest
  /\ Stage(c)
  /\ request' = [request EXCEPT ![f] = c]
  /\ origin' = [origin EXCEPT ![c] = flusher[f].id]
  /\ UNCHANGED qvars

\* HttpTransport::send returns.
Hears(f, answer) ==
  /\ answer
  /\ request' = [request EXCEPT ![f] = NoRequest]
  /\ UNCHANGED <<cvars, origin>>

HearsAccepted(f) ==
  /\ request[f] \in Ids /\ post[request[f]] = "accepted"
  /\ Hears(f, Accept(f, request[f]))

HearsRefused(f) ==
  /\ flusher[f].id \in Refusable
  /\ Hears(f, Refuse(f))

\* 5xx, 429, no connection, or no answer within the timeout: at any moment,
\* whatever has become of the request.
HearsNothing(f) == Hears(f, Fail(f))

SQueueStep ==
  /\ QueueStep
  /\ request' = [f \in Flushers |-> IF flusher'[f].pc = "sending" THEN request[f] ELSE NoRequest]
  /\ UNCHANGED <<cvars, origin>>

\* Stage happens with Arrive.
SCollectorStep ==
  /\ \/ \E c \in Ids : Place(c) \/ Insert(c) \/ SaveFails(c)
     \/ ServerCrashes
  /\ UNCHANGED <<qvars, request, origin>>

Answer(f) == HearsAccepted(f) \/ HearsRefused(f) \/ HearsNothing(f)

SNext ==
  \/ SQueueStep \/ SCollectorStep
  \/ \E f \in Flushers : Answer(f) \/ \E c \in Ids : Arrive(f, c)

\* The operator goes on flushing, a request ends by its timeout at the latest,
\* a backoff elapses; nothing else is promised.
SFairness ==
  /\ \A f \in Flushers :
       /\ WF_svars(SQueueStep /\ FlusherStep(f))
       /\ WF_svars(Answer(f))
  /\ \A s \in Submissions : WF_svars(SQueueStep /\ BackoffElapses(s))

SSpec == SInit /\ [][SNext]_svars /\ SFairness

-----------------------------------------------------------------------------
(* Properties.                                                             *)

\* An entry in sent/ names an id under which the collector holds that very
\* submission, whatever was lost, retried or interrupted (queue.rs:366-375, store.rs:150-231).
SentIsStored ==
  \A s \in In("sent") :
    /\ entry[s].collector_id \in Ids
    /\ origin[entry[s].collector_id] = s
    /\ Payload \subseteq files[entry[s].collector_id]

\* Nothing takes an entry from pending/ but an answer: it goes to sent/ with
\* the collector's id, or to dead/ with the reason, however often a flusher
\* died between the state's write and the rename (queue.rs:430-440).
NothingLeavesUnresolved ==
  [][\A s \in In("pending") :
       \/ entry'[s].place = "pending"
       \/ entry'[s].place = "sent" /\ entry'[s].collector_id # NoCollectorId
       \/ entry'[s].place = "dead" /\ entry'[s].rejected]_svars

\* The queue gives up: a flusher that is alone sends an entry at most
\* MaxAttempts times, and once more for each crash, failed write or failed
\* rename that forgot an attempt or left a dead-lettered entry in pending/
\* (queue.rs:259-260, 386-411, 432-439).  Several may exceed this: one writes
\* back the count of another.
RetriesAreBounded ==
  \A s \in Submissions : posts[s] <= MaxAttempts + crashes

\* If the operator goes on flushing, every entry leaves pending/, unless one
\* whose parts drifted stands before it, where every pass ends.
EveryEntryIsResolved ==
  \A s \in Submissions :
    entry[s].place = "pending"
      ~> (entry[s].place # "pending" \/ \E t \in corrupt : t <= s)

=============================================================================
