---------------------------- MODULE PaymentProofs ----------------------------
(***************************************************************************)
(* One charge per key, one answer per key, and the refinement of           *)
(* ChargeOnce, for every set of calls and keys: in the safe mode, while no *)
(* record expires.  The last theorem needs neither: what was answered is   *)
(* not charged again in any mode, while its record lasts.                  *)
(***************************************************************************)
EXTENDS Payment, TLAPS

Safe == ~UnsafeMode /\ "expire" \notin Faults

\* A call between its claim and its answer has the key for itself.
Working(c) == call[c].pc \in {"process", "store"}
Exclusive  == \A c, d \in Calls : Working(c) /\ Working(d) /\ KeyOf[c] = KeyOf[d] => c = d
Claimed    == \A c \in Calls :
  /\ Working(c) => record[KeyOf[c]] = "in_progress"
  /\ At(c, "process") => processed[KeyOf[c]] = << >>
  /\ At(c, "store") => call[c].result \in Outcomes /\ processed[KeyOf[c]] = <<call[c].result>>

\* The record tells what was processed; only an abandoned claim leaves it open.
RecordFits == \A k \in Keys :
  /\ record[k] = "none" => processed[k] = << >>
  /\ record[k] = "in_progress" => Len(processed[k]) <= 1
  /\ record[k] \in Outcomes => processed[k] = <<record[k]>>

AnswerRecorded == \A c \in Calls : call[c].answer \in Outcomes => record[KeyOf[c]] = call[c].answer

Inv == TypeOK /\ Exclusive /\ Claimed /\ RecordFits /\ AnswerRecorded

LEMMA InitInv == Init => Inv
  BY AttemptsAssumption DEF Init, Inv, TypeOK, CallState, Fresh, Pcs, Answers, Records, Exclusive,
     Working, Claimed, At, RecordFits, AnswerRecorded, Outcomes

\* A step that answers a call which is not working, or moves it on to polling.
LEMMA BystanderStep ==
  ASSUME Inv, NEW c \in Calls, ~Working(c), UNCHANGED <<record, processed>>,
         NEW s \in CallState, call' = [call EXCEPT ![c] = s],
         s.pc \notin {"process", "store"},
         s.answer \in Outcomes => record[KeyOf[c]] = s.answer
  PROVE  Inv'
<1>1. TypeOK' BY DEF Inv, TypeOK
<1>2. Exclusive' /\ Claimed' BY DEF Inv, TypeOK, Exclusive, Claimed, Working, At
<1>3. RecordFits' BY DEF Inv, RecordFits
<1>4. AnswerRecorded' BY DEF Inv, TypeOK, AnswerRecorded
<1> QED BY <1>1, <1>2, <1>3, <1>4 DEF Inv

LEMMA ResponseType ==
  ASSUME NEW a \in Answers PROVE [Fresh EXCEPT !.pc = "done", !.answer = a] \in CallState
<1>1. 0 \in 0..Attempts BY AttemptsAssumption
<1>2. Fresh \in CallState BY <1>1 DEF Fresh, CallState, Pcs, Answers
<1> QED BY <1>2 DEF CallState, Pcs

LEMMA ClaimStep == ASSUME Inv, Safe, NEW c \in Calls, Claim(c) PROVE Inv'
<1> DEFINE k == KeyOf[c]
<1>1. /\ k \in Keys /\ call[c].pc = "idle" /\ call[c] \in CallState /\ UNCHANGED processed
      /\ call \in [Calls -> CallState] /\ record \in [Keys -> Records]
  BY KeyOfAssumption DEF Inv, TypeOK, Claim, At
<1>2. CASE record[k] = "none"
  <2>1. /\ record' = [record EXCEPT ![k] = "in_progress"] /\ call' = [call EXCEPT ![c].pc = "process"]
        /\ processed[k] = << >>
    BY <1>1, <1>2 DEF Claim, Goto, Inv, RecordFits
  <2>2. \A d \in Calls : Working(d) => KeyOf[d] # k
    BY <1>2 DEF Inv, Claimed
  <2>3. TypeOK' BY <1>1, <2>1 DEF Inv, TypeOK, Records, CallState, Pcs
  <2>4. Exclusive' BY <1>1, <2>1, <2>2 DEF Inv, Exclusive, Working, CallState
  <2>5. Claimed' BY <1>1, <2>1, <2>2, KeyOfAssumption DEF Inv, Claimed, Working, At, CallState
  <2>6. RecordFits' BY <1>1, <2>1 DEF Inv, RecordFits, Outcomes
  <2>7. AnswerRecorded' BY <1>1, <1>2, <2>1, KeyOfAssumption DEF Inv, AnswerRecorded, CallState, Outcomes
  <2> QED BY <2>3, <2>4, <2>5, <2>6, <2>7 DEF Inv
<1>3. CASE record[k] # "none"
  <2> DEFINE s == [call[c] EXCEPT !.pc = "poll"]
  <2>1. call' = [call EXCEPT ![c] = s] /\ UNCHANGED <<record, processed>>
    BY <1>1, <1>3 DEF Claim, Goto
  <2>2. s \in CallState /\ s.pc = "poll" /\ s.answer = call[c].answer BY <1>1 DEF CallState, Pcs
  <2>3. call[c].answer \in Outcomes => record[k] = call[c].answer BY DEF Inv, AnswerRecorded
  <2> HIDE DEF s
  <2> QED BY <1>1, <2>1, <2>2, <2>3, BystanderStep DEF Working
<1> QED BY <1>2, <1>3

LEMMA ProcessStep == ASSUME Inv, NEW c \in Calls, Process(c) PROVE Inv'
<1> DEFINE k == KeyOf[c]
<1>1. /\ k \in Keys /\ call[c].pc = "process" /\ call[c] \in CallState /\ UNCHANGED record
      /\ call \in [Calls -> CallState] /\ processed \in [Keys -> Seq(Outcomes \cup {"expired"})]
      /\ processed[k] = << >> /\ record[k] = "in_progress"
  BY KeyOfAssumption DEF Inv, TypeOK, Process, At, Claimed, Working
<1>2. PICK o \in Outcomes :
        /\ processed' = [processed EXCEPT ![k] = Append(@, o)]
        /\ call' = [call EXCEPT ![c] = [@ EXCEPT !.pc = "store", !.result = o]]
  BY DEF Process
<1>3. /\ processed'[k] = <<o>> /\ \A j \in Keys : j # k => processed'[j] = processed[j]
      /\ processed' \in [Keys -> Seq(Outcomes \cup {"expired"})]
  BY <1>1, <1>2
<1>4. /\ call'[c].pc = "store" /\ call'[c].result = o /\ call'[c].answer = call[c].answer
      /\ call'[c] \in CallState /\ \A d \in Calls : d # c => call'[d] = call[d]
  BY <1>1, <1>2 DEF CallState, Pcs
<1>5. TypeOK' BY <1>1, <1>2, <1>3, <1>4 DEF Inv, TypeOK
<1>6. \A d \in Calls : d # c /\ Working(d) => KeyOf[d] # k BY <1>1 DEF Inv, Exclusive, Working
<1>7. Exclusive' BY <1>1, <1>4, <1>6 DEF Inv, Exclusive, Working
<1>8. Claimed' BY <1>1, <1>3, <1>4, <1>6, KeyOfAssumption DEF Inv, Claimed, Working, At
<1>9. RecordFits'
  <2>1. Len(<<o>>) <= 1 OBVIOUS
  <2> QED BY <1>1, <1>3, <2>1 DEF Inv, RecordFits, Outcomes
<1>10. AnswerRecorded' BY <1>1, <1>4 DEF Inv, AnswerRecorded
<1> QED BY <1>5, <1>7, <1>8, <1>9, <1>10 DEF Inv

LEMMA StoreStep == ASSUME Inv, NEW c \in Calls, Store(c) PROVE Inv'
<1> DEFINE k == KeyOf[c]
           o == call[c].result
<1>1. /\ k \in Keys /\ call[c].pc = "store" /\ UNCHANGED processed
      /\ call \in [Calls -> CallState] /\ record \in [Keys -> Records]
      /\ o \in Outcomes /\ processed[k] = <<o>> /\ record[k] = "in_progress"
  BY KeyOfAssumption DEF Inv, TypeOK, Store, At, Claimed, Working
<1>2. /\ record' = [record EXCEPT ![k] = o]
      /\ call' = [call EXCEPT ![c] = [Fresh EXCEPT !.pc = "done", !.answer = o]]
  BY DEF Store, Respond
<1> HIDE DEF o
<1>3. /\ call'[c].pc = "done" /\ call'[c].answer = o /\ call'[c] \in CallState
      /\ \A d \in Calls : d # c => call'[d] = call[d]
  BY <1>1, <1>2, ResponseType DEF Fresh, Answers
<1>4. TypeOK' BY <1>1, <1>2, <1>3 DEF Inv, TypeOK, Records
<1>5. \A d \in Calls : d # c /\ Working(d) => KeyOf[d] # k BY <1>1 DEF Inv, Exclusive, Working
<1>6. Exclusive' BY <1>1, <1>3 DEF Inv, Exclusive, Working
<1>7. Claimed' BY <1>1, <1>2, <1>3, <1>5, KeyOfAssumption DEF Inv, Claimed, Working, At
<1>8. RecordFits' BY <1>1, <1>2 DEF Inv, RecordFits, Outcomes
<1>9. AnswerRecorded' BY <1>1, <1>2, <1>3, KeyOfAssumption DEF Inv, AnswerRecorded, Outcomes
<1> QED BY <1>4, <1>6, <1>7, <1>8, <1>9 DEF Inv

LEMMA PollStep == ASSUME Inv, NEW c \in Calls, Poll(c) \/ GiveUp(c) \/ GetResult(c) PROVE Inv'
<1>1. /\ call[c].pc \in {"poll", "idle"} /\ call[c] \in CallState /\ UNCHANGED <<record, processed>>
      /\ record[KeyOf[c]] \in Records
  BY KeyOfAssumption DEF Inv, TypeOK, Poll, GiveUp, GetResult, At
<1>2. ~Working(c) BY <1>1 DEF Working
<1>3. ASSUME NEW a \in Answers, Respond(c, a), a \in Outcomes => record[KeyOf[c]] = a PROVE Inv'
  <2> DEFINE s == [Fresh EXCEPT !.pc = "done", !.answer = a]
  <2>1. s \in CallState /\ s.pc = "done" /\ s.answer = a BY ResponseType DEF Fresh
  <2>2. call' = [call EXCEPT ![c] = s] BY <1>3 DEF Respond
  <2> HIDE DEF s
  <2> QED BY <1>1, <1>2, <1>3, <2>1, <2>2, BystanderStep
<1>4. CASE Poll(c)
  <2>1. CASE record[KeyOf[c]] \in Outcomes
    BY <1>3, <1>4, <2>1 DEF Poll, Answers
  <2>2. CASE record[KeyOf[c]] \notin Outcomes
    <3> DEFINE s == [call[c] EXCEPT !.polls = @ + 1]
    <3>1. call' = [call EXCEPT ![c] = s] /\ call[c].polls < Attempts /\ call[c].pc = "poll"
      BY <1>1, <1>4, <2>2 DEF Poll, At
    <3>2. s \in CallState /\ s.pc = "poll" /\ s.answer = call[c].answer
      BY <1>1, <3>1, AttemptsAssumption DEF CallState
    <3>3. s.answer \in Outcomes => record[KeyOf[c]] = s.answer BY <3>2 DEF Inv, AnswerRecorded
    <3> HIDE DEF s
    <3> QED BY <1>1, <1>2, <3>1, <3>2, <3>3, BystanderStep
  <2> QED BY <2>1, <2>2
<1>5. CASE GiveUp(c) BY <1>3, <1>5 DEF GiveUp, Answers, Outcomes
<1>6. CASE GetResult(c)
  BY <1>1, <1>3, <1>6 DEF GetResult, Answers, Outcomes, Records
<1> QED BY <1>4, <1>5, <1>6

\* An exception or a crash takes calls out of their work.
LEMMA StopStep ==
  ASSUME Inv, UNCHANGED <<record, processed>>, call' \in [Calls -> CallState],
         \A c \in Calls : call'[c] = call[c]
                          \/ (call'[c].pc \in {"done", "dead"} /\ call'[c].answer \notin Outcomes)
  PROVE  Inv'
<1>1. TypeOK' BY DEF Inv, TypeOK
<1>2. Exclusive' /\ Claimed' BY DEF Inv, Exclusive, Claimed, Working, At
<1>3. RecordFits' /\ AnswerRecorded' BY DEF Inv, RecordFits, AnswerRecorded
<1> QED BY <1>1, <1>2, <1>3 DEF Inv

LEMMA RedisFailsStep == ASSUME Inv, NEW c \in Calls, RedisFails(c) PROVE Inv'
<1> DEFINE s == [Fresh EXCEPT !.pc = "done", !.answer = "error"]
<1>1. s \in CallState /\ s.pc = "done" /\ s.answer = "error"
  BY ResponseType DEF Fresh, Answers
<1>2. call' = [call EXCEPT ![c] = s] /\ UNCHANGED <<record, processed>> /\ call \in [Calls -> CallState]
  BY DEF RedisFails, Respond, Inv, TypeOK
<1> HIDE DEF s
<1> QED BY <1>1, <1>2, StopStep DEF Outcomes

LEMMA CrashStep == ASSUME Inv, Crash PROVE Inv'
<1> DEFINE s == [Fresh EXCEPT !.pc = "dead"]
<1>1. s \in CallState /\ s.pc = "dead" /\ s.answer = "none"
  BY AttemptsAssumption DEF Fresh, CallState, Pcs, Answers
<1>2. /\ UNCHANGED <<record, processed>> /\ call \in [Calls -> CallState]
      /\ call' = [c \in Calls |-> IF call[c].pc \in {"process", "store", "poll"} THEN s ELSE call[c]]
  BY DEF Crash, Inv, TypeOK
<1> HIDE DEF s
<1> QED BY <1>1, <1>2, StopStep DEF Outcomes

LEMMA StepInv == Safe /\ Inv /\ [Next]_vars => Inv'
<1> SUFFICES ASSUME Safe, Inv, [Next]_vars PROVE Inv' OBVIOUS
<1>1. ASSUME NEW c \in Calls, Claim(c) \/ Work(c) \/ GetResult(c) \/ RedisFails(c) PROVE Inv'
  BY <1>1, ClaimStep, ProcessStep, StoreStep, PollStep, RedisFailsStep DEF Work
<1>2. ASSUME NEW c \in Calls, Lookup(c) PROVE FALSE BY <1>2 DEF Lookup, Safe
<1>3. ASSUME NEW k \in Keys, Expire(k) PROVE FALSE BY <1>3 DEF Expire, Safe
<1>4. CASE Crash BY <1>4, CrashStep
<1>5. CASE UNCHANGED vars
  BY <1>5 DEF vars, Inv, TypeOK, Exclusive, Claimed, Working, At, RecordFits, AnswerRecorded
<1> QED BY <1>1, <1>2, <1>3, <1>4, <1>5 DEF Next

LEMMA SafeInv == ASSUME Safe PROVE Spec => []Inv
<1>1. Init => Inv BY InitInv
<1>2. Inv /\ [Next]_vars => Inv' BY StepInv
<1> QED BY <1>1, <1>2, PTL DEF Spec

\* A key is charged for at most once, however many calls race for it and
\* wherever Redis or the process fails (payments.py:107-122).
THEOREM ChargedOnce == ASSUME Safe PROVE Spec => []ProcessedOnce
<1>1. Inv => ProcessedOnce
  <2> SUFFICES ASSUME Inv, NEW k \in Keys PROVE Len(processed[k]) <= 1
    BY DEF ProcessedOnce
  <2>1. record[k] \in Records BY DEF Inv, TypeOK
  <2>2. CASE record[k] = "none" BY <2>2 DEF Inv, RecordFits
  <2>3. CASE record[k] = "in_progress" BY <2>3 DEF Inv, RecordFits
  <2>4. CASE record[k] \in Outcomes
    <3>1. processed[k] = <<record[k]>> BY <2>4 DEF Inv, RecordFits
    <3>2. Len(<<record[k]>>) = 1 OBVIOUS
    <3> QED BY <3>1, <3>2
  <2> QED BY <2>1, <2>2, <2>3, <2>4 DEF Records
<1> QED BY <1>1, SafeInv, PTL

\* Whoever learns an outcome for a key learns the same one.
THEOREM OneAnswer == ASSUME Safe PROVE Spec => []AnswersAgree
<1>1. Inv => AnswersAgree BY DEF Inv, AnswerRecorded, AnswersAgree
<1> QED BY <1>1, SafeInv, PTL

\* The service implements the register Checkout charges against.
THEOREM ImplementsChargeOnce == ASSUME Safe PROVE Spec => ChargeOnceSpec
<1>1. Init => Register!Init
  BY DEF Init, Register!Init, Settled
<1>2. Inv /\ [Next]_vars => [Register!Next]_Settled
  <2> SUFFICES ASSUME Inv, [Next]_vars PROVE [Register!Next]_Settled OBVIOUS
  <2>1. ASSUME NEW c \in Calls, Process(c) PROVE Register!Next
    <3> DEFINE k == KeyOf[c]
    <3>1. /\ k \in Keys /\ processed[k] = << >> /\ processed \in [Keys -> Seq(Outcomes \cup {"expired"})]
      BY <2>1, KeyOfAssumption DEF Inv, TypeOK, Process, At, Claimed
    <3>2. PICK o \in Outcomes : processed' = [processed EXCEPT ![k] = Append(@, o)]
      BY <2>1 DEF Process
    <3>3. processed'[k] = <<o>> /\ \A j \in Keys : j # k => processed'[j] = processed[j]
      BY <3>1, <3>2
    <3>4. Settled[k] = "none" BY <3>1 DEF Settled
    <3>5. Settled'[k] = o
      <4>1. <<o>> # << >> /\ <<o>>[Len(<<o>>)] = o OBVIOUS
      <4> QED BY <3>1, <3>3, <4>1 DEF Settled
    <3>6. \A j \in Keys : j # k => Settled'[j] = Settled[j] BY <3>3 DEF Settled
    <3>7. Settled' = [Settled EXCEPT ![k] = o]
      BY <3>1, <3>5, <3>6 DEF Settled
    <3> QED BY <3>1, <3>4, <3>7 DEF Register!Next, Register!Charge, Register!Outcomes, Outcomes
  <2>2. CASE UNCHANGED processed BY <2>2 DEF Settled
  <2>3. UNCHANGED processed \/ \E c \in Calls : Process(c)
    BY DEF Safe, Next, Claim, Lookup, Work, Store, Poll, GiveUp, GetResult, RedisFails, Expire, Crash, vars
  <2> QED BY <2>1, <2>2, <2>3
<1> QED BY <1>1, <1>2, SafeInv, PTL DEF Spec, ChargeOnceSpec, Register!Spec

-----------------------------------------------------------------------------
(* In either mode, and though records expire *)

\* Until its record expires, a key somebody was told an outcome of has one.
Kept(k) == \A c \in Calls : KeyOf[c] = k /\ call[c].answer \in Outcomes =>
                              record[k] \in Outcomes \/ Expired(k)
ResultsSet == \A c \in Calls : At(c, "store") => call[c].result \in Outcomes
\* The unsafe mode never claims.
Unclaimed == UnsafeMode => \A k \in Keys : record[k] # "in_progress"

KInv == TypeOK /\ ResultsSet /\ Unclaimed /\ \A k \in Keys : Kept(k)

\* A record of an outcome gives way to an outcome only, or expires; an outcome
\* is told only of a key that has one.
LEMMA KeptStep ==
  ASSUME KInv, TypeOK', ResultsSet', Unclaimed',
         \A k \in Keys : Expired(k) => Expired(k)',
         \A k \in Keys : record[k] \in Outcomes => record'[k] \in Outcomes \/ Expired(k)',
         \A c \in Calls : call'[c].answer \in Outcomes =>
           call[c].answer = call'[c].answer \/ record'[KeyOf[c]] \in Outcomes
  PROVE  KInv'
<1>1. \A k \in Keys : Kept(k)' BY DEF KInv, Kept
<1> QED BY <1>1 DEF KInv

LEMMA KInvInit == Init => KInv
  BY InitInv DEF Init, Inv, KInv, ResultsSet, Unclaimed, Kept, At, Fresh, Outcomes

\* A call that answers, or goes on without a new answer, over the same records.
LEMMA KeptAnswer ==
  ASSUME KInv, NEW c \in Calls, UNCHANGED <<record, processed>>, NEW s \in CallState,
         call' = [call EXCEPT ![c] = s], s.pc # "store",
         s.answer \in Outcomes => call[c].answer = s.answer \/ record[KeyOf[c]] \in Outcomes
  PROVE  KInv'
<1>1. call \in [Calls -> CallState] BY DEF KInv, TypeOK
<1>2. call'[c] = s /\ \A d \in Calls : d # c => call'[d] = call[d] BY <1>1
<1>3. TypeOK' BY <1>1 DEF KInv, TypeOK
<1>4. ResultsSet' BY <1>2 DEF KInv, ResultsSet, At
<1>5. Unclaimed' /\ \A k \in Keys : Expired(k) => Expired(k)' BY DEF Expired, KInv, Unclaimed
<1> QED BY <1>2, <1>3, <1>4, <1>5, KeptStep

LEMMA KeptRespond ==
  ASSUME KInv, NEW c \in Calls, UNCHANGED <<record, processed>>, NEW a \in Answers, Respond(c, a),
         a \in Outcomes => record[KeyOf[c]] \in Outcomes
  PROVE  KInv'
<1> DEFINE s == [Fresh EXCEPT !.pc = "done", !.answer = a]
<1>1. s \in CallState /\ s.pc = "done" /\ s.answer = a BY ResponseType DEF Fresh
<1>2. call' = [call EXCEPT ![c] = s] BY DEF Respond
<1> HIDE DEF s
<1> QED BY <1>1, <1>2, KeptAnswer

LEMMA KeptGoto ==
  ASSUME KInv, NEW c \in Calls, UNCHANGED processed, Goto(c, "process") \/ Goto(c, "poll"),
         record' \in [Keys -> Records], UnsafeMode => UNCHANGED record,
         \A k \in Keys : record[k] \in Outcomes => record'[k] = record[k]
  PROVE  KInv'
<1>1. call \in [Calls -> CallState] BY DEF KInv, TypeOK
<1>2. /\ call'[c] \in CallState /\ call'[c].pc # "store" /\ call'[c].answer = call[c].answer
      /\ \A d \in Calls : d # c => call'[d] = call[d]
      /\ call' \in [Calls -> CallState]
  <2>1. call[c] \in CallState BY <1>1
  <2> QED BY <1>1, <2>1 DEF Goto, CallState, Pcs
<1>3. TypeOK' BY <1>2 DEF KInv, TypeOK
<1>4. ResultsSet' BY <1>2 DEF KInv, ResultsSet, At
<1>5. Unclaimed' /\ \A k \in Keys : Expired(k) => Expired(k)' BY DEF Expired, KInv, Unclaimed
<1> QED BY <1>2, <1>3, <1>4, <1>5, KeptStep

LEMMA KeptProcess == ASSUME KInv, NEW c \in Calls, Process(c) PROVE KInv'
<1> DEFINE k == KeyOf[c]
<1>1. /\ k \in Keys /\ call \in [Calls -> CallState] /\ UNCHANGED record
      /\ processed \in [Keys -> Seq(Outcomes \cup {"expired"})]
  BY KeyOfAssumption DEF KInv, TypeOK, Process
<1>2. PICK o \in Outcomes :
        /\ processed' = [processed EXCEPT ![k] = Append(@, o)]
        /\ call' = [call EXCEPT ![c] = [@ EXCEPT !.pc = "store", !.result = o]]
  BY DEF Process
<1>3. /\ call'[c].result = o /\ call'[c].answer = call[c].answer /\ call'[c] \in CallState
      /\ \A d \in Calls : d # c => call'[d] = call[d]
  <2>1. call[c] \in CallState BY <1>1
  <2> QED BY <1>1, <1>2, <2>1 DEF CallState, Pcs
<1>4. TypeOK' BY <1>1, <1>2, <1>3 DEF KInv, TypeOK
<1>5. ResultsSet' BY <1>2, <1>3 DEF KInv, ResultsSet, At
<1>6. \A j \in Keys : Expired(j) => Expired(j)'
  <2> SUFFICES ASSUME NEW j \in Keys, Expired(j) PROVE Expired(j)' OBVIOUS
  <2>1. PICK i \in DOMAIN processed[j] : processed[j][i] = "expired" BY DEF Expired
  <2>2. i \in DOMAIN processed'[j] /\ processed'[j][i] = processed[j][i] BY <1>1, <1>2
  <2> QED BY <2>1, <2>2 DEF Expired
<1>7. Unclaimed' BY <1>1 DEF KInv, Unclaimed
<1> QED BY <1>1, <1>3, <1>4, <1>5, <1>6, <1>7, KeptStep

LEMMA KeptStore == ASSUME KInv, NEW c \in Calls, Store(c) PROVE KInv'
<1> DEFINE k == KeyOf[c]
           o == call[c].result
           s == [Fresh EXCEPT !.pc = "done", !.answer = o]
<1>1. /\ k \in Keys /\ call \in [Calls -> CallState] /\ record \in [Keys -> Records]
      /\ o \in Outcomes /\ UNCHANGED processed
  BY KeyOfAssumption DEF KInv, TypeOK, ResultsSet, Store, At
<1>2. record' = [record EXCEPT ![k] = o] /\ call' = [call EXCEPT ![c] = s] BY DEF Store, Respond
<1>3. s \in CallState /\ s.pc = "done" BY <1>1, ResponseType DEF Fresh, Answers
<1> HIDE DEF s, o
<1>4. call'[c] = s /\ \A d \in Calls : d # c => call'[d] = call[d] BY <1>1, <1>2
<1>5. TypeOK' BY <1>1, <1>2, <1>3 DEF KInv, TypeOK, Records
<1>6. ResultsSet' BY <1>3, <1>4 DEF KInv, ResultsSet, At
<1>7. \A j \in Keys : Expired(j) => Expired(j)' BY <1>1 DEF Expired
<1>8. record'[k] \in Outcomes /\ \A j \in Keys : record[j] \in Outcomes => record'[j] \in Outcomes
  BY <1>1, <1>2
<1>9. Unclaimed' BY <1>1, <1>2 DEF KInv, Unclaimed, Outcomes
<1> QED BY <1>4, <1>5, <1>6, <1>7, <1>8, <1>9, KeptStep

LEMMA KeptExpire == ASSUME KInv, NEW k \in Keys, Expire(k) PROVE KInv'
<1>1. /\ processed \in [Keys -> Seq(Outcomes \cup {"expired"})] /\ record \in [Keys -> Records]
      /\ record' = [record EXCEPT ![k] = "none"] /\ UNCHANGED call
      /\ processed' = [processed EXCEPT ![k] = Append(@, "expired")]
  BY DEF KInv, TypeOK, Expire
<1>2. TypeOK' BY <1>1 DEF KInv, TypeOK, Records
<1>3. ResultsSet' BY <1>1 DEF KInv, ResultsSet, At
<1>4. Expired(k)'
  <2>1. /\ Len(processed[k]) + 1 \in DOMAIN processed'[k]
        /\ processed'[k][Len(processed[k]) + 1] = "expired"
    BY <1>1
  <2> QED BY <2>1 DEF Expired
<1>5. \A j \in Keys : j # k => record'[j] = record[j] /\ processed'[j] = processed[j] BY <1>1
<1>6. \A j \in Keys : Expired(j) => Expired(j)' BY <1>4, <1>5 DEF Expired
<1>7. Unclaimed' BY <1>1 DEF KInv, Unclaimed
<1> QED BY <1>1, <1>2, <1>3, <1>4, <1>5, <1>6, <1>7, KeptStep

LEMMA KeptCrash == ASSUME KInv, Crash PROVE KInv'
<1> DEFINE s == [Fresh EXCEPT !.pc = "dead"]
<1>1. s \in CallState /\ s.pc = "dead" /\ s.answer = "none"
  BY AttemptsAssumption DEF Fresh, CallState, Pcs, Answers
<1>2. /\ UNCHANGED <<record, processed>> /\ call \in [Calls -> CallState]
      /\ call' = [c \in Calls |-> IF call[c].pc \in {"process", "store", "poll"} THEN s ELSE call[c]]
  BY DEF Crash, KInv, TypeOK
<1> HIDE DEF s
<1>3. \A c \in Calls : call'[c] = call[c] \/ call'[c] = s BY <1>2
<1>4. TypeOK' BY <1>1, <1>2 DEF KInv, TypeOK
<1>5. ResultsSet' BY <1>1, <1>3 DEF KInv, ResultsSet, At
<1>6. Unclaimed' /\ \A k \in Keys : Expired(k) => Expired(k)' BY <1>2 DEF Expired, KInv, Unclaimed
<1> QED BY <1>1, <1>2, <1>3, <1>4, <1>5, <1>6, KeptStep DEF Outcomes

LEMMA KeptNext == KInv /\ [Next]_vars => KInv'
<1> SUFFICES ASSUME KInv, [Next]_vars PROVE KInv' OBVIOUS
<1>1. record \in [Keys -> Records] /\ call \in [Calls -> CallState] BY DEF KInv, TypeOK
<1>2. ASSUME NEW c \in Calls, Claim(c) PROVE KInv'
  <2>1. /\ KeyOf[c] \in Keys /\ ~UnsafeMode /\ UNCHANGED processed
        /\ Goto(c, "process") \/ Goto(c, "poll")
        /\ record' = record \/ (record[KeyOf[c]] = "none"
                                /\ record' = [record EXCEPT ![KeyOf[c]] = "in_progress"])
    BY <1>2, KeyOfAssumption DEF Claim
  <2>2. /\ record' \in [Keys -> Records]
        /\ \A k \in Keys : record[k] \in Outcomes => record'[k] = record[k]
    BY <1>1, <2>1 DEF Records, Outcomes
  <2> QED BY <2>1, <2>2, KeptGoto
<1>3. ASSUME NEW c \in Calls, Lookup(c) PROVE KInv'
  <2>1. /\ record[KeyOf[c]] \in {"none"} \cup Outcomes /\ UNCHANGED <<record, processed>>
    BY <1>1, <1>3, KeyOfAssumption DEF Lookup, KInv, Unclaimed, Records
  <2>2. CASE Goto(c, "process") BY <1>1, <2>1, <2>2, KeptGoto
  <2>3. CASE record[KeyOf[c]] \in Outcomes /\ Respond(c, record[KeyOf[c]])
    BY <2>1, <2>3, KeptRespond DEF Answers
  <2> QED BY <1>3, <2>1, <2>2, <2>3 DEF Lookup
<1>4. ASSUME NEW c \in Calls, Poll(c) \/ GiveUp(c) PROVE KInv'
  <2>1. CASE GiveUp(c) BY <2>1, KeptRespond DEF GiveUp, Answers, Outcomes
  <2>2. CASE Poll(c) /\ record[KeyOf[c]] \in Outcomes BY <2>2, KeptRespond DEF Poll, Answers
  <2>3. CASE Poll(c) /\ record[KeyOf[c]] \notin Outcomes
    <3> DEFINE s == [call[c] EXCEPT !.polls = @ + 1]
    <3>1. /\ call' = [call EXCEPT ![c] = s] /\ call[c].polls < Attempts /\ call[c].pc = "poll"
          /\ UNCHANGED <<record, processed>>
      BY <1>1, <2>3 DEF Poll, At
    <3>2. s \in CallState /\ s.pc = "poll" /\ s.answer = call[c].answer
      BY <1>1, <3>1, AttemptsAssumption DEF CallState
    <3> HIDE DEF s
    <3> QED BY <3>1, <3>2, KeptAnswer
  <2> QED BY <1>4, <2>1, <2>2, <2>3
<1>5. ASSUME NEW c \in Calls, GetResult(c) PROVE KInv'
  <2> DEFINE a == IF record[KeyOf[c]] = "none" THEN "not_found"
                  ELSE IF record[KeyOf[c]] = "in_progress" THEN "conflict" ELSE record[KeyOf[c]]
  <2>1. Respond(c, a) /\ UNCHANGED <<record, processed>> BY <1>5 DEF GetResult
  <2>2. a \in Answers /\ (a \in Outcomes => record[KeyOf[c]] \in Outcomes)
    BY <1>1, KeyOfAssumption DEF Answers, Records, Outcomes
  <2> QED BY <2>1, <2>2, KeptRespond
<1>6. ASSUME NEW c \in Calls, RedisFails(c) PROVE KInv'
  BY <1>6, KeptRespond DEF RedisFails, Answers, Outcomes
<1>7. CASE UNCHANGED vars
  BY <1>7 DEF vars, KInv, TypeOK, ResultsSet, Unclaimed, Kept, Expired, At
<1> QED BY <1>2, <1>3, <1>4, <1>5, <1>6, <1>7, KeptProcess, KeptStore, KeptExpire, KeptCrash DEF Next, Work

\* In both modes, whatever fails or expires: while the record of an answered
\* outcome has not expired, no call starts to charge for its key again
\* (payments.py:95-105, 107-122).
THEOREM AnsweredNotRecharged == Spec => NoChargeAfterAnswer
<1>1. ASSUME KInv, Next, NEW c \in Calls, ~At(c, "process"), At(c, "process")', ~Expired(KeyOf[c]),
             NEW d \in Calls, KeyOf[d] = KeyOf[c]
      PROVE  call[d].answer \notin Outcomes
  <2>1. call \in [Calls -> CallState] BY <1>1 DEF KInv, TypeOK
  <2>2. ASSUME NEW e \in Calls, Claim(e) \/ Lookup(e), e # c PROVE FALSE
    BY <1>1, <2>1, <2>2 DEF Claim, Lookup, Goto, Respond, At
  <2>3. ASSUME NEW e \in Calls, Process(e) \/ Store(e) \/ Poll(e) \/ GiveUp(e) \/ GetResult(e) \/ RedisFails(e)
        PROVE  FALSE
    <3>1. ASSUME Process(e) PROVE FALSE BY <1>1, <2>1, <3>1 DEF Process, At, CallState
    <3>2. ASSUME NEW a, Respond(e, a) PROVE FALSE BY <1>1, <2>1, <3>2 DEF Respond, Fresh, At
    <3>3. ASSUME Poll(e) PROVE FALSE
      BY <1>1, <2>1, <3>2, <3>3 DEF Poll, At, CallState
    <3> QED BY <2>3, <3>1, <3>2, <3>3 DEF Store, GiveUp, GetResult, RedisFails
  <2>4. ASSUME NEW k \in Keys, Expire(k) PROVE FALSE BY <1>1, <2>4 DEF Expire, At
  <2>5. CASE Crash BY <1>1, <2>1, <2>5 DEF Crash, Fresh, At
  <2>6. CASE Claim(c) \/ Lookup(c)
    <3>1. record[KeyOf[c]] \notin Outcomes
      <4>1. CASE record[KeyOf[c]] = "none" BY <4>1 DEF Outcomes
      <4>2. CASE record[KeyOf[c]] # "none"
        BY <1>1, <2>1, <2>6, <4>2 DEF Claim, Lookup, Goto, Respond, Fresh, At, CallState
      <4> QED BY <4>1, <4>2
    <3> QED BY <1>1, <3>1, KeyOfAssumption DEF KInv, Kept
  <2> QED BY <1>1, <2>2, <2>3, <2>4, <2>5, <2>6 DEF Next, Work
<1>2. KInv /\ [Next]_vars =>
        [\A c \in Calls : ~At(c, "process") /\ At(c, "process")' /\ ~Expired(KeyOf[c]) =>
           \A d \in Calls : KeyOf[d] = KeyOf[c] => call[d].answer \notin Outcomes]_vars
  BY <1>1
<1> QED BY <1>2, KInvInit, KeptNext, PTL DEF Spec, NoChargeAfterAnswer
==============================================================================
