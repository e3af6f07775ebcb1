-------------------------------- MODULE Events --------------------------------
(***************************************************************************)
(* The two consumers of the topic order-events, notification-service and   *)
(* review-service (consumer.py of each: the loop is the same, the handlers *)
(* differ), and POST /reviews, which reads what review-service's consumer  *)
(* wrote (routers/reviews.py).                                             *)
(*                                                                         *)
(* Each service has one consumer thread, in a group of its own, and is     *)
(* assigned every partition.  Messages on the topic stay; a position per   *)
(* partition says which one the thread gets next, the committed offset     *)
(* which one it gets after a restart.                                      *)
(***************************************************************************)
EXTENDS Naturals

CONSTANTS
  Groups,            \* the consumer groups checked, of "notification", "review"
  Partitions, Size,  \* the partitions and how many messages each holds
  Ids,               \* eligibility ids, one per user and product
  Delivers,          \* the ids an order.delivered names; none for other events
  Malformed,         \* the messages every attempt to handle raises on
  MaxAttempts,       \* max_processing_attempts
  Calls, IdOf,       \* calls of POST /reviews and the id each is about
  Faults,            \* which of "mongo", "kafka", "dlq", "crash" can happen
  MaxMishaps         \* bound: how many of them do

Messages == UNION {{k} \X (1..Size[k]) : k \in Partitions}

ASSUME GroupsAssumption == Groups \subseteq {"notification", "review"}
ASSUME LogAssumption == /\ Size \in [Partitions -> Nat]
                        /\ Delivers \in [Messages -> SUBSET Ids]
                        /\ Malformed \subseteq Messages
ASSUME AttemptsAssumption == MaxAttempts \in Nat \ {0}
ASSUME BoundAssumption == MaxMishaps \in Nat
ASSUME CallsAssumption == IdOf \in [Calls -> Ids]

VARIABLES
  thread,     \* each consumer thread: where it is, in which partition, ids left to write
  pos,        \* the next message of each partition, or the one being handled
  tries,      \* retry_counts, for the message at pos
  committed,  \* offsets committed to Kafka, per group and partition
  letter,     \* what became of a message's copy for order-events-dlq
  elig,       \* the eligibility collection
  call,       \* calls of POST /reviews
  reviews,    \* the reviews collection: the calls whose document is in it
  done,       \* history: messages whose handler returned
  failed,     \* history: how often handling or committing a message failed
  mishaps     \* how many faults happened

loopVars   == <<thread, pos, tries, committed, letter, done, failed>>
reviewVars == <<call, reviews>>
vars == <<thread, pos, tries, committed, letter, elig, call, reviews, done, failed, mishaps>>

Polling == [pc |-> "poll", on |-> "none", todo |-> {}]
NewCall == [pc |-> "idle", late |-> FALSE]

Init == /\ thread = [g \in Groups |-> Polling]
        /\ pos = [g \in Groups |-> [k \in Partitions |-> 1]]
        /\ tries = [g \in Groups |-> [k \in Partitions |-> 0]]
        /\ committed = [g \in Groups |-> [k \in Partitions |-> 0]]
        /\ letter = [g \in Groups |-> [m \in Messages |-> "none"]]
        /\ elig = [x \in Ids |-> "none"]
        /\ call = [c \in Calls |-> NewCall]
        /\ reviews = {}
        /\ done = [g \in Groups |-> {}]
        /\ failed = [g \in Groups |-> [m \in Messages |-> 0]]
        /\ mishaps = 0

Mishap(f) == f \in Faults /\ mishaps < MaxMishaps /\ mishaps' = mishaps + 1

On(g)       == thread[g].on
Msg(g)      == <<On(g), pos[g][On(g)]>>
At(g, pc)   == thread[g].pc = pc
Goto(g, pc) == thread' = [thread EXCEPT ![g] = [@ EXCEPT !.pc = pc]]
Idle(g)     == thread' = [thread EXCEPT ![g] = Polling]

\* Mutants: a loop that gives up one attempt early; no seek;
\* $set of reviewed on every delivery; a find that takes no document for a free
\* one; a return after the first product.
OneTooFew(n)    == n + 1 >= MaxAttempts
NotSought(p)    == p + 1
SetAgain(e)     == "open"
NotUsed(e)      == e # "used"
FirstOnly(s, x) == {}

GivesUp(n)         == n >= MaxAttempts
Sought(p)          == p
Upserted(e)        == IF e = "none" THEN "open" ELSE e
Eligible(e)        == e = "open"
StillToWrite(s, x) == s \ {x}

-----------------------------------------------------------------------------
(* run_consumer: poll, handle_event, commit *)

Take(g, k) ==
  /\ At(g, "poll") /\ pos[g][k] <= Size[k]
  /\ thread' = [thread EXCEPT ![g] = [pc |-> "handle", on |-> k, todo |->
                  IF g = "review" THEN Delivers[<<k, pos[g][k]>>] ELSE {}]]
  /\ UNCHANGED <<pos, tries, committed, letter, elig, reviewVars, done, failed, mishaps>>

\* The handler, or the commit after it, raises: the except clause.
Raise(g) == /\ Goto(g, "except")
            /\ failed' = [failed EXCEPT ![g][Msg(g)] = IF @ < MaxAttempts THEN @ + 1 ELSE @]

Reject(g) == /\ At(g, "handle") /\ Msg(g) \in Malformed
             /\ Raise(g)
             /\ UNCHANGED <<pos, tries, committed, letter, elig, reviewVars, done, mishaps>>

\* One product of an order.delivered, in review-service.
Upsert(g, x) ==
  /\ At(g, "handle") /\ Msg(g) \notin Malformed /\ x \in thread[g].todo
  /\ elig' = [elig EXCEPT ![x] = Upserted(@)]
  /\ thread' = [thread EXCEPT ![g] = [@ EXCEPT !.todo = StillToWrite(thread[g].todo, x)]]
  /\ UNCHANGED <<pos, tries, committed, letter, reviewVars, done, failed, mishaps>>

\* MongoDB fails the upsert, before or after carrying it out.
UpsertFails(g, x) ==
  /\ At(g, "handle") /\ Msg(g) \notin Malformed /\ x \in thread[g].todo
  /\ Mishap("mongo")
  /\ Raise(g)
  /\ elig' \in {elig, [elig EXCEPT ![x] = Upserted(@)]}
  /\ UNCHANGED <<pos, tries, committed, letter, reviewVars, done>>

\* handle_event returns.  In notification-service it logs, and posts to a
\* webhook whose failures it swallows.
Handled(g) ==
  /\ At(g, "handle") /\ Msg(g) \notin Malformed /\ thread[g].todo = {}
  /\ Goto(g, "commit")
  /\ done' = [done EXCEPT ![g] = @ \cup {Msg(g)}]
  /\ UNCHANGED <<pos, tries, committed, letter, elig, reviewVars, failed, mishaps>>

\* The offset is committed and the count of the message popped.
PassOn(g) ==
  /\ Idle(g)
  /\ committed' = [committed EXCEPT ![g][On(g)] = pos[g][On(g)]]
  /\ pos' = [pos EXCEPT ![g][On(g)] = @ + 1]
  /\ tries' = [tries EXCEPT ![g][On(g)] = 0]
  /\ UNCHANGED <<letter, elig, reviewVars, done, failed, mishaps>>

Commit(g) == At(g, "commit") /\ PassOn(g)

\* A commit that raises may have reached the broker.
CommitFails(g) ==
  /\ At(g, "commit") /\ Mishap("kafka")
  /\ Raise(g)
  /\ committed' \in {committed, [committed EXCEPT ![g][On(g)] = pos[g][On(g)]]}
  /\ UNCHANGED <<pos, tries, letter, elig, reviewVars, done>>

-----------------------------------------------------------------------------
(* The except clause: count, then seek back or send to the dead letters *)

Count(g) == tries' = [tries EXCEPT ![g][On(g)] = @ + 1]

SeekBack(g) ==
  /\ At(g, "except") /\ ~GivesUp(tries[g][On(g)] + 1)
  /\ Count(g) /\ Idle(g)
  /\ pos' = [pos EXCEPT ![g][On(g)] = Sought(@)]
  /\ UNCHANGED <<committed, letter, elig, reviewVars, done, failed, mishaps>>

SendToDlq(g) ==
  /\ At(g, "except") /\ GivesUp(tries[g][On(g)] + 1)
  /\ Count(g) /\ Goto(g, "flush")
  /\ letter' = [letter EXCEPT ![g][Msg(g)] = IF @ = "sent" THEN "sent" ELSE "queued"]
  /\ UNCHANGED <<pos, committed, elig, reviewVars, done, failed, mishaps>>

\* flush(5) returns when the queue is empty, or after 5 s.
Flush(g) ==
  /\ At(g, "flush") /\ \A m \in Messages : letter[g][m] # "queued"
  /\ Goto(g, "pass")
  /\ UNCHANGED <<pos, tries, committed, letter, elig, reviewVars, done, failed, mishaps>>
FlushTimesOut(g) ==
  /\ At(g, "flush") /\ Mishap("dlq")
  /\ Goto(g, "pass")
  /\ UNCHANGED <<pos, tries, committed, letter, elig, reviewVars, done, failed>>

CommitPast(g) == At(g, "pass") /\ PassOn(g)

\* The producer's queue dies with the thread or the process.
Unqueued(g) == [m \in Messages |-> IF letter[g][m] = "queued" THEN "lost" ELSE letter[g][m]]

\* seek, or the commit past the message, raises in the except clause: the
\* thread ends, nothing starts it again, and readiness stays as it was.
ThreadEnds(g) ==
  /\ \/ At(g, "except") /\ committed' = committed
     \/ At(g, "pass") /\ committed' \in {committed, [committed EXCEPT ![g][On(g)] = pos[g][On(g)]]}
  /\ Mishap("kafka")
  /\ thread' = [thread EXCEPT ![g] = [Polling EXCEPT !.pc = "ended"]]
  /\ letter' = [letter EXCEPT ![g] = Unqueued(g)]
  /\ UNCHANGED <<pos, tries, elig, reviewVars, done, failed>>

\* librdkafka delivers what is queued in the background, or gives up.
Deliver(g, m) ==
  /\ letter[g][m] = "queued"
  /\ letter' = [letter EXCEPT ![g][m] = "sent"]
  /\ UNCHANGED <<thread, pos, tries, committed, elig, reviewVars, done, failed, mishaps>>
DeliveryExpires(g, m) ==
  /\ letter[g][m] = "queued" /\ Mishap("dlq")
  /\ letter' = [letter EXCEPT ![g][m] = "lost"]
  /\ UNCHANGED <<thread, pos, tries, committed, elig, reviewVars, done, failed>>

-----------------------------------------------------------------------------
(* POST /reviews: find_one, insert_one, update_one *)

\* Was a review of the same product answered before this call began?
FindEligible(c) ==
  /\ call[c].pc = "idle"
  /\ call' = [call EXCEPT ![c] =
       [pc |-> IF Eligible(elig[IdOf[c]]) THEN "insert" ELSE "refused",
        late |-> \E d \in Calls : IdOf[d] = IdOf[c] /\ call[d].pc = "created"]]
  /\ UNCHANGED <<loopVars, elig, reviews, mishaps>>

InsertReview(c) ==
  /\ call[c].pc = "insert"
  /\ reviews' = reviews \cup {c}
  /\ call' = [call EXCEPT ![c] = [@ EXCEPT !.pc = "mark"]]
  /\ UNCHANGED <<loopVars, elig, mishaps>>

Marked(c) == [elig EXCEPT ![IdOf[c]] = "used"]
MarkReviewed(c) ==
  /\ call[c].pc = "mark"
  /\ elig' = Marked(c)
  /\ call' = [call EXCEPT ![c] = [@ EXCEPT !.pc = "created"]]
  /\ UNCHANGED <<loopVars, reviews, mishaps>>

\* A command of the call fails, before or after MongoDB carried it out.
CallFails(c) ==
  /\ \/ call[c].pc = "insert" /\ elig' = elig /\ reviews' \in {reviews, reviews \cup {c}}
     \/ call[c].pc = "mark" /\ elig' \in {elig, Marked(c)} /\ reviews' = reviews
  /\ Mishap("mongo")
  /\ call' = [call EXCEPT ![c] = [@ EXCEPT !.pc = "failed"]]
  /\ UNCHANGED loopVars

-----------------------------------------------------------------------------
\* A service dies and is started again: its thread polls from the committed
\* offsets with no retry counts and an empty producer queue.
Crash(g) ==
  /\ Mishap("crash")
  /\ thread' = [thread EXCEPT ![g] = Polling]
  /\ pos' = [pos EXCEPT ![g] = [k \in Partitions |-> committed[g][k] + 1]]
  /\ tries' = [tries EXCEPT ![g] = [k \in Partitions |-> 0]]
  /\ letter' = [letter EXCEPT ![g] = Unqueued(g)]
  /\ call' = [c \in Calls |-> IF g = "review" /\ call[c].pc \in {"insert", "mark"}
                              THEN [call[c] EXCEPT !.pc = "failed"] ELSE call[c]]
  /\ UNCHANGED <<committed, elig, reviews, done, failed>>

Consume(g) == \/ \E k \in Partitions : Take(g, k)
              \/ Reject(g) \/ Handled(g) \/ Commit(g)
              \/ SeekBack(g) \/ SendToDlq(g) \/ Flush(g) \/ CommitPast(g)
              \/ \E x \in Ids : Upsert(g, x)
Background(g) == \E m \in Messages : Deliver(g, m)

Next == \/ \E g \in Groups : \/ Consume(g) \/ Background(g)
                             \/ CommitFails(g) \/ FlushTimesOut(g) \/ ThreadEnds(g) \/ Crash(g)
                             \/ \E x \in Ids : UpsertFails(g, x)
                             \/ \E m \in Messages : DeliveryExpires(g, m)
        \/ \E c \in Calls : FindEligible(c) \/ InsertReview(c) \/ MarkReviewed(c) \/ CallFails(c)

Spec == Init /\ [][Next]_vars

\* The threads keep running and librdkafka keeps sending; faults are finitely
\* many by their bound, and nobody has to call.
FairSpec == Spec /\ \A g \in Groups : WF_vars(Consume(g)) /\ WF_vars(Background(g))

-----------------------------------------------------------------------------
(* Properties *)

\* Every variable keeps its shape; a retry count, above all, never reaches the
\* limit without the message being sent away.
ThreadState == [pc : {"poll", "handle", "commit", "except", "flush", "pass", "ended"},
                on : Partitions \cup {"none"}, todo : SUBSET Ids]
TypeOK ==
  /\ thread \in [Groups -> ThreadState]
  /\ pos \in [Groups -> [Partitions -> Nat \ {0}]]
  /\ tries \in [Groups -> [Partitions -> 0..MaxAttempts]]
  /\ committed \in [Groups -> [Partitions -> Nat]]
  /\ letter \in [Groups -> [Messages -> {"none", "queued", "sent", "lost"}]]
  /\ elig \in [Ids -> {"none", "open", "used"}]
  /\ call \in [Calls -> [pc : {"idle", "insert", "mark", "created", "refused", "failed"},
                         late : BOOLEAN]]
  /\ reviews \subseteq Calls
  /\ done \in [Groups -> SUBSET Messages]
  /\ failed \in [Groups -> [Messages -> 0..MaxAttempts]]
  /\ mishaps \in 0..MaxMishaps

\* No consumer goes past a message, in memory or in what it committed, that it
\* has neither handled nor made a dead letter of (consumer.py of both, 3-9 and
\* 5-7: commit after the work, retry by seeking back).
Past(g, m) == m[2] < pos[g][m[1]] \/ m[2] <= committed[g][m[1]]
NothingSkipped ==
  \A g \in Groups : \A m \in Messages :
    Past(g, m) => m \in done[g] \/ letter[g][m] # "none"

\* A message becomes a dead letter only after max_processing_attempts failures,
\* however commits, retries of other partitions and restarts interleave.
LastResort ==
  \A g \in Groups : \A m \in Messages :
    letter[g][m] # "none" => failed[g][m] = MaxAttempts

\* When review-service is past an order.delivered, each of its products can be
\* or has been reviewed, unless the event became a dead letter.
DeliveredIsReviewable ==
  \A g \in Groups \cap {"review"} : \A m \in Messages :
    Past(g, m) /\ letter[g][m] = "none" => \A x \in Delivers[m] : elig[x] # "none"

\* Only verified purchasers review (consumer.py:1-4): for every review the
\* consumer has seen an order.delivered of that user and product.
OnlyVerified ==
  \A g \in Groups \cap {"review"} : \A c \in reviews : \E m \in Messages :
    IdOf[c] \in Delivers[m] /\ m \notin Malformed /\ m[2] <= pos[g][m[1]]

\* A second review is refused (API_REFERENCE.md:341-343), whatever is delivered
\* again: no call that began after another was answered 201 writes one.
SecondReviewRefused == \A c \in reviews : ~call[c].late

\* Every message is in the end handled or on order-events-dlq, unless its dead
\* letter was lost or an error in the except clause ended the thread.
EveryEventArrives ==
  \A g \in Groups : \A m \in Messages :
    <>(m \in done[g] \/ letter[g][m] \in {"sent", "lost"} \/ thread[g].pc = "ended")

\* What "must not silently drop the event" (review-service, consumer.py:5-7)
\* and "at-least-once, never zero-times" (notification-service, :5) say.
NeverDropped ==
  \A g \in Groups : \A m \in Messages :
    m[2] <= committed[g][m[1]] => m \in done[g] \/ letter[g][m] \in {"queued", "sent"}

\* "A second review for the same product: also 403 NOT_ELIGIBLE"
\* (API_REFERENCE.md:342-343), of calls that overlap too.
ReviewedAtMostOnce == \A c, d \in reviews : IdOf[c] = IdOf[d] => c = d
==============================================================================
