------------------------------- MODULE Payment -------------------------------
(***************************************************************************)
(* payment-service: POST /payments/charge and GET /payments/{key}          *)
(* (routers/payments.py) over the idempotency records it keeps in Redis.   *)
(* A call is a thread of the server's pool; each of its actions is one     *)
(* Redis command or the simulated charge between two of them.  There is no *)
(* database: what a charge did is kept here as a history, "processed".     *)
(***************************************************************************)
EXTENDS Integers, Sequences

CONSTANTS
  Calls,       \* HTTP calls that pass the internal-token check
  Keys,        \* idempotency keys
  KeyOf,       \* the key each call names
  Reads,       \* the calls that are GETs; the others are charges
  Attempts,    \* _wait_for_result polls this often (10) before it gives up
  UnsafeMode,  \* settings.unsafe_idempotency_mode
  Faults       \* which of "crash", "redis", "expire" can happen

ASSUME KeyOfAssumption    == KeyOf \in [Calls -> Keys]
ASSUME ReadsAssumption    == Reads \subseteq Calls
ASSUME AttemptsAssumption == Attempts \in Nat \ {0}
ASSUME FaultsAssumption   == Faults \subseteq {"crash", "redis", "expire"} /\ UnsafeMode \in BOOLEAN

VARIABLES
  call,      \* program counter and locals of each call
  record,    \* Redis: the idempotency record of each key
  processed  \* history, per key: the outcomes _process_charge reached, and expiries

vars == <<call, record, processed>>

Outcomes == {"charged", "declined"}
Records  == {"none", "in_progress"} \cup Outcomes

\* An answer is an outcome (200 or 402) or one of the errors 404, 409, 500.
Answers   == {"none", "not_found", "conflict", "error"} \cup Outcomes
Pcs       == {"idle", "process", "store", "poll", "done", "dead"}
CallState == [pc : Pcs, polls : 0..Attempts, result : {"none"} \cup Outcomes, answer : Answers]
Fresh     == [pc |-> "idle", polls |-> 0, result |-> "none", answer |-> "none"]

Init ==
  /\ call = [c \in Calls |-> Fresh]
  /\ record = [k \in Keys |-> "none"]
  /\ processed = [k \in Keys |-> << >>]

At(c, pc)         == call[c].pc = pc
Goto(c, pc)       == call' = [call EXCEPT ![c].pc = pc]
Respond(c, a)     == call' = [call EXCEPT ![c] = [Fresh EXCEPT !.pc = "done", !.answer = a]]

-----------------------------------------------------------------------------
(* POST /payments/charge *)

\* Mutant: the claim is not conditional on the key being free.
ClaimAlways(c) ==
  /\ At(c, "idle") /\ c \notin Reads /\ ~UnsafeMode
  /\ record' = [record EXCEPT ![KeyOf[c]] = "in_progress"]
  /\ Goto(c, "process")
  /\ UNCHANGED processed

\* SET NX: whoever finds the key free claims it, anybody else polls.
Claim(c) ==
  LET k == KeyOf[c] IN
  /\ At(c, "idle") /\ c \notin Reads /\ ~UnsafeMode
  /\ IF record[k] = "none" THEN record' = [record EXCEPT ![k] = "in_progress"] /\ Goto(c, "process")
     ELSE Goto(c, "poll") /\ UNCHANGED record
  /\ UNCHANGED processed

\* Mutant: the record is not looked at.
LookupNothing(c) ==
  /\ At(c, "idle") /\ c \notin Reads /\ UnsafeMode
  /\ Goto(c, "process")
  /\ UNCHANGED <<record, processed>>

\* The unsafe mode claims nothing: a plain GET decides.
Lookup(c) ==
  LET k == KeyOf[c] IN
  /\ At(c, "idle") /\ c \notin Reads /\ UnsafeMode
  /\ IF record[k] = "none" THEN Goto(c, "process") ELSE Respond(c, record[k])
  /\ UNCHANGED <<record, processed>>

\* _process_charge: after some time, charged or (synthetically) declined.
Process(c) ==
  /\ At(c, "process")
  /\ \E o \in Outcomes :
       /\ processed' = [processed EXCEPT ![KeyOf[c]] = Append(@, o)]
       /\ call' = [call EXCEPT ![c] = [@ EXCEPT !.pc = "store", !.result = o]]
  /\ UNCHANGED record

\* Mutant: a declined result is not kept, so that a retry may try again.
StoreChargedOnly(c) ==
  /\ At(c, "store")
  /\ record' = [record EXCEPT ![KeyOf[c]] = IF call[c].result = "charged" THEN "charged" ELSE "none"]
  /\ Respond(c, call[c].result)
  /\ UNCHANGED processed

\* The result replaces the claim, whatever it is, and is answered.
Store(c) ==
  /\ At(c, "store")
  /\ record' = [record EXCEPT ![KeyOf[c]] = call[c].result]
  /\ Respond(c, call[c].result)
  /\ UNCHANGED processed

\* Mutant: attempts are not counted.
PollForever(c) ==
  LET k == KeyOf[c] IN
  /\ At(c, "poll") /\ call[c].polls < Attempts
  /\ IF record[k] \in Outcomes THEN Respond(c, record[k]) ELSE UNCHANGED call
  /\ UNCHANGED <<record, processed>>

\* One GET of _wait_for_result.
Poll(c) ==
  LET k == KeyOf[c] IN
  /\ At(c, "poll") /\ call[c].polls < Attempts
  /\ IF record[k] \in Outcomes THEN Respond(c, record[k])
     ELSE call' = [call EXCEPT ![c].polls = @ + 1]
  /\ UNCHANGED <<record, processed>>

GiveUp(c) ==
  /\ At(c, "poll") /\ call[c].polls = Attempts
  /\ Respond(c, "conflict")
  /\ UNCHANGED <<record, processed>>

-----------------------------------------------------------------------------
(* GET /payments/{idempotency_key} *)

GetResult(c) ==
  LET k == KeyOf[c] IN
  /\ At(c, "idle") /\ c \in Reads
  /\ Respond(c, IF record[k] = "none" THEN "not_found"
                ELSE IF record[k] = "in_progress" THEN "conflict" ELSE record[k])
  /\ UNCHANGED <<record, processed>>

-----------------------------------------------------------------------------
(* Redis and the process *)

\* A Redis command fails: the handler raises and the client gets a 500.
RedisFails(c) ==
  /\ "redis" \in Faults
  /\ call[c].pc \in {"idle", "store", "poll"}
  /\ Respond(c, "error")
  /\ UNCHANGED <<record, processed>>

\* Redis drops the record 24 h after it was written: no call lasts that long.
Expire(k) ==
  /\ "expire" \in Faults
  /\ record[k] # "none"
  /\ \A c \in Calls : KeyOf[c] = k => call[c].pc \notin {"process", "store"}
  /\ record' = [record EXCEPT ![k] = "none"]
  /\ processed' = [processed EXCEPT ![k] = Append(@, "expired")]
  /\ UNCHANGED call

\* The process dies and is started again; Redis keeps the records.
Crash ==
  /\ "crash" \in Faults
  /\ \E c \in Calls : call[c].pc \in {"process", "store", "poll"}
  /\ call' = [c \in Calls |-> IF call[c].pc \in {"process", "store", "poll"}
                              THEN [Fresh EXCEPT !.pc = "dead"] ELSE call[c]]
  /\ UNCHANGED <<record, processed>>

Work(c) == Process(c) \/ Store(c) \/ Poll(c) \/ GiveUp(c)

Next ==
  \/ \E c \in Calls : Claim(c) \/ Lookup(c) \/ Work(c) \/ GetResult(c) \/ RedisFails(c)
  \/ \E k \in Keys : Expire(k)
  \/ Crash

Spec == Init /\ [][Next]_vars

\* A thread that has started keeps running; nobody has to call.
FairSpec == Spec /\ \A c \in Calls : WF_vars(Work(c))

-----------------------------------------------------------------------------
(* Properties *)

TypeOK ==
  /\ call \in [Calls -> CallState]
  /\ record \in [Keys -> Records]
  /\ processed \in [Keys -> Seq(Outcomes \cup {"expired"})]

\* A key is charged for at most once, however many calls name it and whenever
\* they arrive: "do NOT process again, regardless of what the original result
\* was" (the SET NX claim, payments.py:107-118).
ProcessedOnce == \A k \in Keys : Len(processed[k]) <= 1

\* All calls for one key that learn an outcome learn the same one, charges and
\* GETs alike.
AnswersAgree ==
  \A c, d \in Calls : KeyOf[c] = KeyOf[d] /\ call[c].answer \in Outcomes /\ call[d].answer \in Outcomes
                        => call[c].answer = call[d].answer

\* Once a call was told an outcome, no later call starts a charge for the key
\* until its record expires, in either mode: the result is stored before it is
\* answered (payments.py:104, 121).
Expired(k) == \E i \in DOMAIN processed[k] : processed[k][i] = "expired"
NoChargeAfterAnswer ==
  [][\A c \in Calls : ~At(c, "process") /\ At(c, "process")' /\ ~Expired(KeyOf[c]) =>
       \A d \in Calls : KeyOf[d] = KeyOf[c] => call[d].answer \notin Outcomes]_vars

\* Seen through what was processed last, the service is the charge-once
\* register its callers are written against (Checkout uses the same register).
Settled == [k \in Keys |-> IF processed[k] = << >> THEN "none"
                           ELSE processed[k][Len(processed[k])]]
Register == INSTANCE ChargeOnce WITH result <- Settled
ChargeOnceSpec == Register!Spec

\* Every call that starts ends, with an answer unless the process died: a call
\* that polls a key whose charge never settles gives up (payments.py:84).
EveryCallEnds == \A c \in Calls : call[c].pc \in {"process", "poll"} ~> call[c].pc \in {"done", "dead"}
==============================================================================
