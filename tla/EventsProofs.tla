----------------------------- MODULE EventsProofs -----------------------------
(***************************************************************************)
(* Theorems about Events, for any partitions and messages, any number of   *)
(* attempts, calls, faults and restarts.                                   *)
(***************************************************************************)
EXTENDS Events, TLAPS

-----------------------------------------------------------------------------
(* The inductive invariant, per consumer group *)

Busy == {"handle", "commit", "except", "flush", "pass"}

\* A busy thread works on a message that exists.
InPartition(g) == thread[g].pc \in Busy => On(g) \in Partitions /\ pos[g][On(g)] <= Size[On(g)]

\* A count at the limit belongs to the message on its way to the dead letters.
Trying(g) == \A k \in Partitions : \/ tries[g][k] < MaxAttempts
                                   \/ thread[g].pc = "ended"
                                   \/ thread[g].pc \in {"flush", "pass"} /\ On(g) = k

Accounted(g) == \A m \in Messages : Past(g, m) => m \in done[g] \/ letter[g][m] # "none"

\* What is about to be committed is handled, or a dead letter.
Working(g) == /\ thread[g].pc = "commit" => Msg(g) \in done[g]
              /\ thread[g].pc \in {"flush", "pass"} => letter[g][Msg(g)] # "none"

\* retry_counts forgets failures, at a restart, and never makes them up.
Counted(g) == \A k \in Partitions : pos[g][k] <= Size[k] =>
                /\ failed[g][<<k, pos[g][k]>>] >= tries[g][k]
                /\ thread[g].pc = "except" /\ On(g) = k => failed[g][<<k, pos[g][k]>>] > tries[g][k]

Last(g) == \A m \in Messages : letter[g][m] # "none" => failed[g][m] = MaxAttempts

\* What review-service handled is in the eligibility collection.
Reviewable(g) == g = "review" =>
  /\ \A m \in done[g] : \A x \in Delivers[m] : elig[x] # "none"
  /\ thread[g].pc = "handle" => \A x \in Delivers[Msg(g)] \ thread[g].todo : elig[x] # "none"

LoopInv(g) == /\ InPartition(g) /\ Trying(g) /\ Accounted(g) /\ Working(g)
              /\ Counted(g) /\ Last(g) /\ Reviewable(g)
Inv == TypeOK /\ \A g \in Groups : LoopInv(g)

-----------------------------------------------------------------------------
(* Lemmas *)

LEMMA MessagePairs ==
  /\ \A k \in Partitions : \A i \in 1..Size[k] : <<k, i>> \in Messages
  /\ \A m \in Messages : /\ m = <<m[1], m[2]>>
                         /\ m[1] \in Partitions /\ m[2] \in 1..Size[m[1]]
  <1>1. ASSUME NEW k \in Partitions, NEW i \in 1..Size[k] PROVE <<k, i>> \in Messages
    <2>1. <<k, i>> \in {k} \X (1..Size[k])
      OBVIOUS
    <2> QED
      BY <2>1 DEF Messages
  <1>2. ASSUME NEW m \in Messages
        PROVE  /\ m = <<m[1], m[2]>>
               /\ m[1] \in Partitions /\ m[2] \in 1..Size[m[1]]
    <2>1. PICK k \in Partitions : m \in {k} \X (1..Size[k])
      BY DEF Messages
    <2> QED
      BY <2>1
  <1> QED
    BY <1>1, <1>2

\* The message a busy thread works on.
LEMMA AtMessage ==
  ASSUME Inv, NEW g \in Groups, thread[g].pc \in Busy
  PROVE  /\ On(g) \in Partitions /\ pos[g][On(g)] \in 1..Size[On(g)]
         /\ Msg(g) \in Messages /\ Msg(g)[1] = On(g) /\ Msg(g)[2] = pos[g][On(g)]
  <1>1. On(g) \in Partitions /\ pos[g][On(g)] <= Size[On(g)]
    BY DEF Inv, LoopInv, InPartition
  <1>2. pos[g][On(g)] \in Nat \ {0} /\ Size[On(g)] \in Nat
    BY <1>1, LogAssumption DEF Inv, TypeOK
  <1>3. pos[g][On(g)] \in 1..Size[On(g)]
    BY <1>1, <1>2
  <1> QED
    BY <1>1, <1>3, MessagePairs DEF Msg

\* What the invariant of group h reads is as it was.
Same(h) == /\ thread'[h] = thread[h] /\ pos'[h] = pos[h] /\ tries'[h] = tries[h]
           /\ committed'[h] = committed[h] /\ letter'[h] = letter[h]
           /\ done'[h] = done[h] /\ failed'[h] = failed[h]
Grows   == \A x \in Ids : elig[x] # "none" => elig'[x] # "none"

LEMMA SameKeeps ==
  ASSUME Inv, NEW h \in Groups, Same(h), Grows
  PROVE  LoopInv(h)'
  <1>1. thread[h].pc \in Busy => Msg(h) \in Messages
    BY AtMessage
  <1>2. \A m \in Messages : Delivers[m] \subseteq Ids
    BY LogAssumption
  <1>3. done[h] \subseteq Messages
    BY DEF Inv, TypeOK
  <1>4. Reviewable(h)'
    BY <1>1, <1>2, <1>3 DEF Inv, LoopInv, Reviewable, Same, Grows, Msg, On, Busy
  <1> QED
    BY <1>4 DEF Inv, LoopInv, InPartition, Trying, Accounted, Working, Counted, Last, Same, Msg, On, Past

LEMMA InitInv == Init => Inv
  <1> SUFFICES ASSUME Init PROVE Inv
    OBVIOUS
  <1>1. \A k \in Partitions : Size[k] \in Nat
    BY LogAssumption
  <1>2. TypeOK
    BY AttemptsAssumption, BoundAssumption DEF Init, TypeOK, Polling, ThreadState, NewCall
  <1>3. ASSUME NEW g \in Groups PROVE LoopInv(g)
    <2>1. \A m \in Messages : ~Past(g, m)
      BY MessagePairs, <1>1 DEF Init, Past
    <2>2. Accounted(g) /\ Working(g) /\ InPartition(g) /\ Reviewable(g)
      BY <2>1 DEF Init, Accounted, Working, InPartition, Reviewable, Polling, Busy
    <2>3. Trying(g) /\ Last(g)
      BY AttemptsAssumption DEF Init, Trying, Last
    <2>4. Counted(g)
      <3> SUFFICES ASSUME NEW k \in Partitions, pos[g][k] <= Size[k]
                   PROVE  /\ failed[g][<<k, pos[g][k]>>] >= tries[g][k]
                          /\ thread[g].pc # "except"
        BY DEF Counted
      <3>1. pos[g][k] = 1 /\ tries[g][k] = 0 /\ thread[g].pc = "poll"
        BY DEF Init, Polling
      <3>2. <<k, 1>> \in Messages
        BY <3>1, <1>1, MessagePairs
      <3>3. failed[g][<<k, 1>>] = 0
        BY <3>2 DEF Init
      <3> QED
        BY <3>1, <3>3
    <2> QED
      BY <2>2, <2>3, <2>4 DEF LoopInv
  <1> QED
    BY <1>2, <1>3 DEF Inv

-----------------------------------------------------------------------------
(* How a step changes one group only *)

ThreadPcs == {"poll", "handle", "commit", "except", "flush", "pass", "ended"}

LEMMA GotoIs ==
  ASSUME TypeOK, NEW g \in Groups, NEW pc \in ThreadPcs, Goto(g, pc)
  PROVE  /\ thread' \in [Groups -> ThreadState]
         /\ thread'[g].pc = pc /\ thread'[g].on = thread[g].on /\ thread'[g].todo = thread[g].todo
         /\ \A h \in Groups : h # g => thread'[h] = thread[h]
  <1>1. thread \in [Groups -> ThreadState] /\ thread[g] \in ThreadState
    BY DEF TypeOK
  <1>2. thread' = [thread EXCEPT ![g] = [thread[g] EXCEPT !.pc = pc]]
    BY DEF Goto
  <1>3. [thread[g] EXCEPT !.pc = pc] \in ThreadState
    BY <1>1 DEF ThreadState, ThreadPcs
  <1>4. thread' \in [Groups -> ThreadState] /\ thread'[g] = [thread[g] EXCEPT !.pc = pc]
    BY <1>1, <1>2, <1>3
  <1>5. thread'[g].pc = pc /\ thread'[g].on = thread[g].on /\ thread'[g].todo = thread[g].todo
    BY <1>1, <1>4 DEF ThreadState
  <1> QED
    BY <1>1, <1>2, <1>4, <1>5

LEMMA StepInv ==
  ASSUME Inv, NEW g \in Groups, TypeOK', LoopInv(g)',
         \A h \in Groups : h # g => Same(h), Grows
  PROVE  Inv'
  <1>1. ASSUME NEW h \in Groups PROVE LoopInv(h)'
    <2>1. CASE h = g
      BY <2>1
    <2>2. CASE h # g
      BY <2>2, SameKeeps
    <2> QED
      BY <2>1, <2>2
  <1> QED
    BY <1>1 DEF Inv

\* Steps that change where the thread is, and nothing the other parts read.
OnlyThread(g) ==
  /\ thread' \in [Groups -> ThreadState]
  /\ \A h \in Groups : h # g => thread'[h] = thread[h]
  /\ UNCHANGED <<pos, tries, committed, letter, failed>>

LEMMA OnlyThreadKeeps ==
  ASSUME Inv, NEW g \in Groups, OnlyThread(g),
         thread'[g].pc # "ended" /\ thread[g].pc # "ended",
         thread[g].pc \in {"flush", "pass"} =>
           thread'[g].pc \in {"flush", "pass"} /\ thread'[g].on = thread[g].on,
         thread'[g].pc # "except", done[g] \subseteq done'[g]
  PROVE  Trying(g)' /\ Accounted(g)' /\ Counted(g)' /\ Last(g)'
  <1>1. Trying(g)'
    BY DEF Inv, LoopInv, Trying, OnlyThread, On
  <1>2. Accounted(g)' /\ Last(g)'
    BY DEF Inv, LoopInv, Accounted, Last, OnlyThread, Past
  <1>3. Counted(g)'
    BY DEF Inv, LoopInv, Counted, OnlyThread
  <1> QED
    BY <1>1, <1>2, <1>3

-----------------------------------------------------------------------------
(* The loop, action by action *)

LEMMA TakeInv ==
  ASSUME Inv, NEW g \in Groups, NEW k \in Partitions, Take(g, k)
  PROVE  Inv'
  <1>1. TypeOK /\ thread[g].pc = "poll" /\ pos[g][k] <= Size[k]
    BY DEF Inv, Take, At
  <1>2. pos[g][k] \in Nat \ {0} /\ Size[k] \in Nat
    BY <1>1, LogAssumption DEF TypeOK
  <1>3. <<k, pos[g][k]>> \in Messages
    BY <1>1, <1>2, MessagePairs
  <1>4. /\ thread'[g].pc = "handle" /\ thread'[g].on = k
        /\ thread'[g].todo = IF g = "review" THEN Delivers[<<k, pos[g][k]>>] ELSE {}
        /\ \A h \in Groups : h # g => thread'[h] = thread[h]
        /\ thread' \in [Groups -> ThreadState]
    <2>1. Delivers[<<k, pos[g][k]>>] \subseteq Ids
      BY <1>3, LogAssumption
    <2> QED
      BY <1>1, <2>1 DEF Take, TypeOK, ThreadState
  <1>5. TypeOK'
    BY <1>1, <1>4 DEF Take, TypeOK, reviewVars
  <1>6. OnlyThread(g)
    BY <1>4 DEF Take, OnlyThread
  <1>7. Trying(g)' /\ Accounted(g)' /\ Counted(g)' /\ Last(g)'
    BY <1>1, <1>4, <1>6, OnlyThreadKeeps DEF Take
  <1>8. InPartition(g)' /\ Working(g)'
    BY <1>1, <1>4 DEF Take, InPartition, Working, On
  <1>9. Reviewable(g)'
    BY <1>1, <1>4 DEF Inv, LoopInv, Take, Reviewable, On, Msg
  <1> QED
    BY <1>4, <1>5, <1>7, <1>8, <1>9, StepInv DEF LoopInv, Same, Grows, Take

LEMMA HandledInv ==
  ASSUME Inv, NEW g \in Groups, Handled(g)
  PROVE  Inv'
  <1>1. TypeOK /\ thread[g].pc = "handle" /\ thread[g].pc \in Busy /\ thread[g].todo = {}
    BY DEF Inv, Handled, At, Busy
  <1>2. /\ On(g) \in Partitions /\ pos[g][On(g)] \in 1..Size[On(g)] /\ Msg(g) \in Messages
    BY <1>1, AtMessage
  <1>3. Goto(g, "commit")
    BY DEF Handled
  <1>4. /\ thread' \in [Groups -> ThreadState]
        /\ thread'[g].pc = "commit" /\ thread'[g].on = thread[g].on
        /\ \A h \in Groups : h # g => thread'[h] = thread[h]
    BY <1>1, <1>3, GotoIs DEF ThreadPcs
  <1>5. done'[g] = done[g] \cup {Msg(g)} /\ \A h \in Groups : h # g => done'[h] = done[h]
    BY <1>1 DEF Handled, TypeOK
  <1>6. TypeOK'
    <2>1. done' \in [Groups -> SUBSET Messages]
      BY <1>1, <1>2 DEF Handled, TypeOK
    <2> QED
      BY <1>1, <1>4, <2>1 DEF Handled, TypeOK, reviewVars
  <1>7. Trying(g)' /\ Accounted(g)' /\ Counted(g)' /\ Last(g)'
    <2>1. OnlyThread(g)
      BY <1>4 DEF Handled, OnlyThread
    <2> QED
      BY <1>1, <1>4, <1>5, <2>1, OnlyThreadKeeps
  <1>8. InPartition(g)' /\ Working(g)'
    BY <1>1, <1>2, <1>4, <1>5 DEF Inv, LoopInv, Handled, InPartition, Working, On, Msg
  <1>9. Reviewable(g)'
    BY <1>1, <1>4, <1>5 DEF Inv, LoopInv, Handled, Reviewable, On, Msg
  <1> QED
    BY <1>4, <1>5, <1>6, <1>7, <1>8, <1>9, StepInv DEF LoopInv, Same, Grows, Handled

\* flush returns, with the letter sent or not.
LEMMA FlushInv ==
  ASSUME Inv, NEW g \in Groups, Flush(g) \/ FlushTimesOut(g)
  PROVE  Inv'
  <1>1. TypeOK /\ thread[g].pc = "flush" /\ Goto(g, "pass")
    BY DEF Inv, Flush, FlushTimesOut, At
  <1>2. /\ thread' \in [Groups -> ThreadState]
        /\ thread'[g].pc = "pass" /\ thread'[g].on = thread[g].on
        /\ \A h \in Groups : h # g => thread'[h] = thread[h]
    BY <1>1, GotoIs DEF ThreadPcs
  <1>3. UNCHANGED <<pos, tries, committed, letter, elig, reviewVars, done, failed>>
    BY DEF Flush, FlushTimesOut
  <1>4. TypeOK'
    <2>1. mishaps' \in 0..MaxMishaps
      BY <1>1, BoundAssumption DEF Flush, FlushTimesOut, TypeOK, Mishap
    <2> QED
      BY <1>1, <1>2, <1>3, <2>1 DEF TypeOK, reviewVars
  <1>5. Trying(g)' /\ Accounted(g)' /\ Counted(g)' /\ Last(g)'
    <2>1. OnlyThread(g)
      BY <1>2, <1>3 DEF OnlyThread
    <2> QED
      BY <1>1, <1>2, <1>3, <2>1, OnlyThreadKeeps
  <1>6. InPartition(g)' /\ Working(g)'
    BY <1>1, <1>2, <1>3 DEF Inv, LoopInv, InPartition, Working, On, Msg, Busy
  <1>7. Reviewable(g)'
    BY <1>2, <1>3 DEF Inv, LoopInv, Reviewable
  <1> QED
    BY <1>2, <1>3, <1>4, <1>5, <1>6, <1>7, StepInv DEF LoopInv, Same, Grows

LEMMA UpsertInv ==
  ASSUME Inv, NEW g \in Groups, NEW x \in Ids, Upsert(g, x)
  PROVE  Inv'
  <1>1. TypeOK /\ thread[g].pc = "handle" /\ thread[g].pc \in Busy
    BY DEF Inv, Upsert, At, Busy
  <1>2. Msg(g) \in Messages
    BY <1>1, AtMessage
  <1>3. /\ thread' \in [Groups -> ThreadState]
        /\ thread'[g].pc = "handle" /\ thread'[g].on = thread[g].on
        /\ thread'[g].todo = thread[g].todo \ {x}
        /\ \A h \in Groups : h # g => thread'[h] = thread[h]
    <2>1. thread \in [Groups -> ThreadState] /\ thread[g] \in ThreadState
      BY <1>1 DEF TypeOK
    <2>2. thread' = [thread EXCEPT ![g] = [@ EXCEPT !.todo = thread[g].todo \ {x}]]
      BY DEF Upsert, StillToWrite
    <2>3. [thread[g] EXCEPT !.todo = thread[g].todo \ {x}] \in ThreadState
      BY <2>1 DEF ThreadState
    <2>4. thread' \in [Groups -> ThreadState]
          /\ thread'[g] = [thread[g] EXCEPT !.todo = thread[g].todo \ {x}]
      BY <2>1, <2>2, <2>3
    <2> QED
      BY <1>1, <2>1, <2>2, <2>4 DEF ThreadState
  <1>4. /\ elig' \in [Ids -> {"none", "open", "used"}] /\ elig'[x] # "none"
        /\ \A y \in Ids : elig[y] # "none" => elig'[y] # "none"
    BY <1>1 DEF Upsert, Upserted, TypeOK
  <1>5. TypeOK'
    BY <1>1, <1>3, <1>4 DEF Upsert, TypeOK, reviewVars
  <1>6. Trying(g)' /\ Accounted(g)' /\ Counted(g)' /\ Last(g)'
    <2>1. OnlyThread(g)
      BY <1>3 DEF Upsert, OnlyThread
    <2> QED
      BY <1>1, <1>3, <2>1, OnlyThreadKeeps DEF Upsert
  <1>7. InPartition(g)' /\ Working(g)'
    BY <1>1, <1>3 DEF Inv, LoopInv, Upsert, InPartition, Working, On, Msg
  <1>8. Reviewable(g)'
    <2>1. \A m \in Messages : Delivers[m] \subseteq Ids
      BY LogAssumption
    <2>2. done[g] \subseteq Messages /\ done'[g] = done[g] /\ Msg(g)' = Msg(g)
      BY <1>1, <1>3 DEF TypeOK, Upsert, Msg, On
    <2>3. Reviewable(g)
      BY DEF Inv, LoopInv
    <2> QED
      BY <1>1, <1>2, <1>3, <1>4, <2>1, <2>2, <2>3 DEF Reviewable
  <1> QED
    BY <1>3, <1>4, <1>5, <1>6, <1>7, <1>8, StepInv DEF LoopInv, Same, Grows, Upsert

-----------------------------------------------------------------------------
(* The except clause *)

\* Entering it counts a failure more of the message than tries does.
LEMMA RaiseInv ==
  ASSUME Inv, NEW g \in Groups, thread[g].pc \in {"handle", "commit"}, Raise(g),
         UNCHANGED <<pos, tries, letter, reviewVars, done>>,
         committed' \in [Groups -> [Partitions -> Nat]],
         \A h \in Groups : h # g => committed'[h] = committed[h],
         \A m \in Messages : Past(g, m)' => Past(g, m) \/ m \in done[g],
         elig' \in [Ids -> {"none", "open", "used"}], Grows,
         mishaps' \in 0..MaxMishaps
  PROVE  Inv'
  <1>1. TypeOK /\ thread[g].pc \in Busy
    BY DEF Inv, Busy
  <1>2. /\ On(g) \in Partitions /\ pos[g][On(g)] \in 1..Size[On(g)]
        /\ Msg(g) \in Messages /\ Msg(g) = <<On(g), pos[g][On(g)]>>
    BY <1>1, AtMessage DEF Msg
  <1>3. /\ thread' \in [Groups -> ThreadState]
        /\ thread'[g].pc = "except" /\ thread'[g].on = thread[g].on
        /\ \A h \in Groups : h # g => thread'[h] = thread[h]
    BY <1>1, GotoIs DEF ThreadPcs, Raise
  <1>4. /\ failed' \in [Groups -> [Messages -> 0..MaxAttempts]]
        /\ \A h \in Groups : h # g => failed'[h] = failed[h]
        /\ \A m \in Messages : m # Msg(g) => failed'[g][m] = failed[g][m]
        /\ failed'[g][Msg(g)] = IF failed[g][Msg(g)] < MaxAttempts
                                THEN failed[g][Msg(g)] + 1 ELSE failed[g][Msg(g)]
    <2>1. failed \in [Groups -> [Messages -> 0..MaxAttempts]]
      BY <1>1 DEF TypeOK
    <2>2. (IF failed[g][Msg(g)] < MaxAttempts THEN failed[g][Msg(g)] + 1
           ELSE failed[g][Msg(g)]) \in 0..MaxAttempts
      BY <1>2, <2>1, AttemptsAssumption
    <2> QED
      BY <1>2, <2>1, <2>2 DEF Raise
  <1>5. TypeOK'
    BY <1>1, <1>3, <1>4 DEF TypeOK, reviewVars
  <1>6. Trying(g)'
    BY <1>3 DEF Inv, LoopInv, Trying, On
  <1>7. Accounted(g)'
    BY DEF Inv, LoopInv, Accounted
  <1>8. InPartition(g)' /\ Working(g)' /\ Reviewable(g)'
    <2>1. InPartition(g)' /\ Working(g)'
      BY <1>1, <1>3 DEF Inv, LoopInv, InPartition, Working, On
    <2>2. Reviewable(g)'
      BY <1>1, <1>3, LogAssumption DEF Inv, LoopInv, Reviewable, Grows, TypeOK
    <2> QED
      BY <2>1, <2>2
  <1>9. Counted(g)'
    <2> SUFFICES ASSUME NEW k \in Partitions, pos[g][k] <= Size[k]
                 PROVE  /\ failed'[g][<<k, pos[g][k]>>] >= tries[g][k]
                        /\ On(g) = k => failed'[g][<<k, pos[g][k]>>] > tries[g][k]
      BY <1>3 DEF Counted, On
    <2>1. /\ pos[g][k] \in Nat \ {0} /\ Size[k] \in Nat /\ tries[g][k] \in 0..MaxAttempts
          /\ MaxAttempts \in Nat
      BY <1>1, LogAssumption, AttemptsAssumption DEF TypeOK
    <2>2. <<k, pos[g][k]>> \in Messages /\ failed[g][<<k, pos[g][k]>>] \in 0..MaxAttempts
      BY <1>1, <2>1, MessagePairs DEF TypeOK
    <2>3. tries[g][k] < MaxAttempts /\ failed[g][<<k, pos[g][k]>>] >= tries[g][k]
      BY DEF Inv, LoopInv, Trying, Counted
    <2>4. CASE On(g) = k
      BY <1>2, <1>4, <2>1, <2>2, <2>3, <2>4
    <2>5. CASE On(g) # k
      BY <1>2, <1>4, <2>2, <2>3, <2>5
    <2> QED
      BY <2>4, <2>5
  <1>10. Last(g)'
    <2> SUFFICES ASSUME NEW m \in Messages, letter[g][m] # "none"
                 PROVE  failed'[g][m] = MaxAttempts
      BY DEF Last
    <2>1. failed[g][m] = MaxAttempts
      BY DEF Inv, LoopInv, Last
    <2> QED
      BY <1>4, <2>1, AttemptsAssumption
  <1> QED
    BY <1>3, <1>4, <1>5, <1>6, <1>7, <1>8, <1>9, <1>10, StepInv DEF LoopInv, Same

LEMMA RejectInv ==
  ASSUME Inv, NEW g \in Groups, Reject(g)
  PROVE  Inv'
  <1>1. /\ thread[g].pc \in {"handle", "commit"} /\ Raise(g)
        /\ UNCHANGED <<pos, tries, committed, letter, elig, reviewVars, done, mishaps>>
    BY DEF Reject, At
  <1>2. Grows /\ \A m \in Messages : Past(g, m)' => Past(g, m)
    BY <1>1 DEF Grows, Past
  <1> QED
    BY <1>1, <1>2, RaiseInv DEF Inv, TypeOK

LEMMA UpsertFailsInv ==
  ASSUME Inv, NEW g \in Groups, NEW x \in Ids, UpsertFails(g, x)
  PROVE  Inv'
  <1>1. /\ thread[g].pc \in {"handle", "commit"} /\ Raise(g) /\ TypeOK
        /\ UNCHANGED <<pos, tries, committed, letter, reviewVars, done>>
    BY DEF Inv, UpsertFails, At
  <1>2. elig' \in [Ids -> {"none", "open", "used"}] /\ Grows
    BY <1>1 DEF UpsertFails, Upserted, Grows, TypeOK
  <1>3. \A m \in Messages : Past(g, m)' => Past(g, m)
    BY <1>1 DEF Past
  <1>4. mishaps' \in 0..MaxMishaps
    BY <1>1, BoundAssumption DEF UpsertFails, Mishap, TypeOK
  <1> QED
    BY <1>1, <1>2, <1>3, <1>4, RaiseInv DEF TypeOK

\* A commit that reached the broker after all passes a message that is done.
LEMMA CommitFailsInv ==
  ASSUME Inv, NEW g \in Groups, CommitFails(g)
  PROVE  Inv'
  <1>1. /\ thread[g].pc = "commit" /\ thread[g].pc \in Busy /\ Raise(g) /\ TypeOK
        /\ UNCHANGED <<pos, tries, letter, elig, reviewVars, done>>
    BY DEF Inv, CommitFails, At, Busy
  <1>2. /\ On(g) \in Partitions /\ pos[g][On(g)] \in 1..Size[On(g)]
        /\ Msg(g) = <<On(g), pos[g][On(g)]>> /\ Msg(g) \in done[g]
    BY <1>1, AtMessage DEF Msg, Inv, LoopInv, Working
  <1>3. /\ committed' \in [Groups -> [Partitions -> Nat]]
        /\ \A h \in Groups : h # g => committed'[h] = committed[h]
        /\ \A k \in Partitions : \/ committed'[g][k] = committed[g][k]
                                 \/ k = On(g) /\ committed'[g][k] = pos[g][k]
    <2>1. committed \in [Groups -> [Partitions -> Nat]] /\ pos[g][On(g)] \in Nat
      BY <1>1, <1>2 DEF TypeOK
    <2>2. CASE committed' = committed
      BY <2>1, <2>2
    <2>3. CASE committed' = [committed EXCEPT ![g][On(g)] = pos[g][On(g)]]
      BY <1>2, <2>1, <2>3
    <2> QED
      BY <2>2, <2>3 DEF CommitFails
  <1>4. ASSUME NEW m \in Messages, Past(g, m)' PROVE Past(g, m) \/ m \in done[g]
    <2>1. m = <<m[1], m[2]>> /\ m[1] \in Partitions /\ m[2] \in Nat /\ pos[g][m[1]] \in Nat
      BY <1>1, MessagePairs, LogAssumption DEF TypeOK
    <2>2. m[2] < pos[g][m[1]] \/ m[2] <= committed'[g][m[1]]
      BY <1>1, <1>4 DEF Past
    <2>3. CASE m[2] < pos[g][m[1]] \/ committed'[g][m[1]] = committed[g][m[1]]
      BY <2>2, <2>3 DEF Past
    <2>4. CASE m[1] = On(g) /\ committed'[g][m[1]] = pos[g][m[1]]
      <3>1. CASE m[2] = pos[g][m[1]]
        BY <1>2, <2>1, <2>4, <3>1
      <3>2. CASE m[2] < pos[g][m[1]]
        BY <3>2 DEF Past
      <3> QED
        BY <2>1, <2>2, <2>4, <3>1, <3>2
    <2> QED
      BY <1>3, <2>1, <2>3, <2>4
  <1>5. mishaps' \in 0..MaxMishaps
    BY <1>1, BoundAssumption DEF CommitFails, Mishap, TypeOK
  <1> QED
    BY <1>1, <1>3, <1>4, <1>5, RaiseInv DEF TypeOK, Grows

\* Committing past a message that is accounted for, and taking the next one.
LEMMA PassOnInv ==
  ASSUME Inv, NEW g \in Groups, Commit(g) \/ CommitPast(g)
  PROVE  Inv'
  <1>1. TypeOK /\ thread[g].pc \in {"commit", "pass"} /\ thread[g].pc \in Busy /\ PassOn(g)
    BY DEF Inv, Commit, CommitPast, At, Busy
  <1>2. /\ On(g) \in Partitions /\ pos[g][On(g)] \in 1..Size[On(g)] /\ Msg(g) \in Messages
        /\ Msg(g) = <<On(g), pos[g][On(g)]>>
        /\ Msg(g) \in done[g] \/ letter[g][Msg(g)] # "none"
    BY <1>1, AtMessage DEF Msg, Inv, LoopInv, Working
  <1>3. pos[g][On(g)] \in Nat \ {0}
    BY <1>1, <1>2 DEF TypeOK
  <1>4. /\ thread' \in [Groups -> ThreadState] /\ thread'[g].pc = "poll"
        /\ \A h \in Groups : h # g => thread'[h] = thread[h]
    <2>1. Polling \in ThreadState /\ Polling.pc = "poll"
      BY DEF Polling, ThreadState
    <2> QED
      BY <1>1, <2>1 DEF PassOn, Idle, TypeOK
  <1>5. /\ pos' \in [Groups -> [Partitions -> Nat \ {0}]]
        /\ \A h \in Groups : h # g => pos'[h] = pos[h]
        /\ pos'[g][On(g)] = pos[g][On(g)] + 1
        /\ \A k \in Partitions : k # On(g) => pos'[g][k] = pos[g][k]
    BY <1>1, <1>2, <1>3 DEF PassOn, TypeOK
  <1>6. /\ committed' \in [Groups -> [Partitions -> Nat]]
        /\ \A h \in Groups : h # g => committed'[h] = committed[h]
        /\ committed'[g][On(g)] = pos[g][On(g)]
        /\ \A k \in Partitions : k # On(g) => committed'[g][k] = committed[g][k]
    BY <1>1, <1>2, <1>3 DEF PassOn, TypeOK
  <1>7. /\ tries' \in [Groups -> [Partitions -> 0..MaxAttempts]]
        /\ \A h \in Groups : h # g => tries'[h] = tries[h]
        /\ tries'[g][On(g)] = 0
        /\ \A k \in Partitions : k # On(g) => tries'[g][k] = tries[g][k]
    BY <1>1, <1>2, AttemptsAssumption DEF PassOn, TypeOK
  <1>8. UNCHANGED <<letter, elig, call, reviews, done, failed, mishaps>>
    BY <1>1 DEF PassOn, reviewVars
  <1>9. TypeOK'
    BY <1>1, <1>4, <1>5, <1>6, <1>7, <1>8 DEF TypeOK
  <1>10. Trying(g)'
    BY <1>1, <1>2, <1>4, <1>7, AttemptsAssumption DEF Inv, LoopInv, Trying
  <1>11. Accounted(g)'
    <2> SUFFICES ASSUME NEW m \in Messages, Past(g, m)'
                 PROVE  m \in done[g] \/ letter[g][m] # "none"
      BY <1>8 DEF Accounted
    <2>1. m = <<m[1], m[2]>> /\ m[1] \in Partitions /\ m[2] \in Nat
      BY MessagePairs, LogAssumption
    <2>2. m[2] < pos'[g][m[1]] \/ m[2] <= committed'[g][m[1]]
      BY DEF Past
    <2>3. CASE m[1] # On(g)
      <3>1. Past(g, m)
        BY <1>5, <1>6, <2>1, <2>2, <2>3 DEF Past
      <3> QED
        BY <3>1 DEF Inv, LoopInv, Accounted
    <2>4. CASE m[1] = On(g) /\ m[2] < pos[g][On(g)]
      <3>1. Past(g, m)
        BY <2>4 DEF Past
      <3> QED
        BY <3>1 DEF Inv, LoopInv, Accounted
    <2>5. CASE m[1] = On(g) /\ m[2] = pos[g][On(g)]
      BY <1>2, <2>1, <2>5
    <2>6. ASSUME m[1] = On(g) PROVE m[2] <= pos[g][On(g)]
      BY <1>3, <1>5, <1>6, <2>1, <2>2, <2>6
    <2>7. ASSUME m[1] = On(g) PROVE m[2] < pos[g][On(g)] \/ m[2] = pos[g][On(g)]
      BY <1>3, <2>1, <2>6, <2>7
    <2> QED
      BY <2>3, <2>4, <2>5, <2>7
  <1>12. Counted(g)'
    <2> SUFFICES ASSUME NEW k \in Partitions, pos'[g][k] <= Size[k]
                 PROVE  failed[g][<<k, pos'[g][k]>>] >= tries'[g][k]
      BY <1>4, <1>8 DEF Counted
    <2>1. CASE k = On(g)
      <3>1. pos'[g][k] \in Nat \ {0} /\ Size[k] \in Nat
        BY <1>5, LogAssumption
      <3>2. <<k, pos'[g][k]>> \in Messages
        BY <3>1, MessagePairs
      <3>3. failed[g][<<k, pos'[g][k]>>] \in Nat
        BY <1>1, <3>2, AttemptsAssumption DEF TypeOK
      <3> QED
        BY <1>7, <2>1, <3>3
    <2>2. CASE k # On(g)
      BY <1>5, <1>7, <2>2 DEF Inv, LoopInv, Counted
    <2> QED
      BY <2>1, <2>2
  <1>13. InPartition(g)' /\ Working(g)' /\ Last(g)'
    BY <1>4, <1>8 DEF Inv, LoopInv, InPartition, Working, Last, Busy
  <1>14. Reviewable(g)'
    BY <1>4, <1>8 DEF Inv, LoopInv, Reviewable
  <1> QED
    BY <1>4, <1>5, <1>6, <1>7, <1>8, <1>9, <1>10, <1>11, <1>12, <1>13, <1>14, StepInv
       DEF LoopInv, Same, Grows

\* Counting the failure that raised, in either branch.
LEMMA CountIs ==
  ASSUME Inv, NEW g \in Groups, thread[g].pc = "except", Count(g)
  PROVE  /\ tries' \in [Groups -> [Partitions -> 0..MaxAttempts]]
         /\ \A h \in Groups : h # g => tries'[h] = tries[h]
         /\ tries'[g][On(g)] = tries[g][On(g)] + 1 /\ tries[g][On(g)] \in 0..(MaxAttempts - 1)
         /\ \A k \in Partitions : k # On(g) => tries'[g][k] = tries[g][k] /\ tries[g][k] < MaxAttempts
  <1>1. TypeOK /\ thread[g].pc \in Busy
    BY DEF Inv, Busy
  <1>2. On(g) \in Partitions
    BY <1>1, AtMessage
  <1>3. tries \in [Groups -> [Partitions -> 0..MaxAttempts]] /\ MaxAttempts \in Nat
    BY <1>1, AttemptsAssumption DEF TypeOK
  <1>4. \A k \in Partitions : tries[g][k] < MaxAttempts
    BY DEF Inv, LoopInv, Trying
  <1>5. tries[g][On(g)] \in 0..MaxAttempts /\ tries[g][On(g)] < MaxAttempts
    BY <1>2, <1>3, <1>4
  <1>6. tries[g][On(g)] + 1 \in 0..MaxAttempts /\ tries[g][On(g)] \in 0..(MaxAttempts - 1)
    BY <1>3, <1>5
  <1> QED
    BY <1>2, <1>3, <1>4, <1>6 DEF Count

LEMMA SeekBackInv ==
  ASSUME Inv, NEW g \in Groups, SeekBack(g)
  PROVE  Inv'
  <1>1. TypeOK /\ thread[g].pc = "except" /\ thread[g].pc \in Busy /\ Count(g) /\ Idle(g)
    BY DEF Inv, SeekBack, At, Busy
  <1>2. On(g) \in Partitions /\ pos[g][On(g)] \in 1..Size[On(g)] /\ Msg(g) = <<On(g), pos[g][On(g)]>>
    BY <1>1, AtMessage DEF Msg
  <1>3. /\ thread' \in [Groups -> ThreadState] /\ thread'[g].pc = "poll"
        /\ \A h \in Groups : h # g => thread'[h] = thread[h]
    <2>1. Polling \in ThreadState /\ Polling.pc = "poll"
      BY DEF Polling, ThreadState
    <2> QED
      BY <1>1, <2>1 DEF Idle, TypeOK
  <1>4. pos' = pos
    BY <1>1, <1>2 DEF SeekBack, Sought, TypeOK
  <1>5. UNCHANGED <<committed, letter, elig, call, reviews, done, failed, mishaps>>
    BY DEF SeekBack, reviewVars
  <1>6. /\ tries' \in [Groups -> [Partitions -> 0..MaxAttempts]]
        /\ \A h \in Groups : h # g => tries'[h] = tries[h]
        /\ tries'[g][On(g)] = tries[g][On(g)] + 1 /\ tries[g][On(g)] \in 0..(MaxAttempts - 1)
        /\ \A k \in Partitions : k # On(g) => tries'[g][k] = tries[g][k] /\ tries[g][k] < MaxAttempts
    BY <1>1, CountIs
  <1>7. TypeOK'
    BY <1>1, <1>3, <1>4, <1>5, <1>6 DEF TypeOK
  <1>8. Trying(g)'
    <2>1. tries'[g][On(g)] < MaxAttempts
      BY <1>6, AttemptsAssumption DEF SeekBack, GivesUp
    <2> QED
      BY <1>6, <2>1 DEF Trying
  <1>9. Accounted(g)' /\ Last(g)' /\ InPartition(g)' /\ Working(g)'
    BY <1>3, <1>4, <1>5 DEF Inv, LoopInv, Accounted, Last, InPartition, Working, Past, Busy
  <1>10. Counted(g)'
    <2> SUFFICES ASSUME NEW k \in Partitions, pos[g][k] <= Size[k]
                 PROVE  failed[g][<<k, pos[g][k]>>] >= tries'[g][k]
      BY <1>3, <1>4, <1>5 DEF Counted
    <2>1. CASE k = On(g)
      <3>1. failed[g][<<k, pos[g][k]>>] > tries[g][k]
        BY <1>1, <2>1 DEF Inv, LoopInv, Counted
      <3>2. Msg(g) \in Messages
        BY <1>1, AtMessage
      <3>3. failed[g][<<k, pos[g][k]>>] \in Nat
        BY <1>1, <1>2, <2>1, <3>2, AttemptsAssumption DEF TypeOK
      <3> QED
        BY <1>6, <2>1, <3>1, <3>3
    <2>2. CASE k # On(g)
      BY <1>6, <2>2 DEF Inv, LoopInv, Counted
    <2> QED
      BY <2>1, <2>2
  <1>11. Reviewable(g)'
    BY <1>3, <1>5 DEF Inv, LoopInv, Reviewable
  <1> QED
    BY <1>3, <1>4, <1>5, <1>6, <1>7, <1>8, <1>9, <1>10, <1>11, StepInv DEF LoopInv, Same, Grows

LEMMA SendToDlqInv ==
  ASSUME Inv, NEW g \in Groups, SendToDlq(g)
  PROVE  Inv'
  <1>1. TypeOK /\ thread[g].pc = "except" /\ thread[g].pc \in Busy /\ Count(g) /\ Goto(g, "flush")
    BY DEF Inv, SendToDlq, At, Busy
  <1>2. /\ On(g) \in Partitions /\ pos[g][On(g)] \in 1..Size[On(g)]
        /\ Msg(g) \in Messages /\ Msg(g) = <<On(g), pos[g][On(g)]>>
    BY <1>1, AtMessage DEF Msg
  <1>3. /\ thread' \in [Groups -> ThreadState]
        /\ thread'[g].pc = "flush" /\ thread'[g].on = thread[g].on
        /\ \A h \in Groups : h # g => thread'[h] = thread[h]
    BY <1>1, GotoIs DEF ThreadPcs
  <1>4. UNCHANGED <<pos, committed, elig, call, reviews, done, failed, mishaps>>
    BY DEF SendToDlq, reviewVars
  <1>5. /\ letter' \in [Groups -> [Messages -> {"none", "queued", "sent", "lost"}]]
        /\ \A h \in Groups : h # g => letter'[h] = letter[h]
        /\ letter'[g][Msg(g)] # "none"
        /\ \A m \in Messages : m # Msg(g) => letter'[g][m] = letter[g][m]
    BY <1>1, <1>2 DEF SendToDlq, TypeOK
  <1>6. /\ tries' \in [Groups -> [Partitions -> 0..MaxAttempts]]
        /\ \A h \in Groups : h # g => tries'[h] = tries[h]
        /\ tries'[g][On(g)] = tries[g][On(g)] + 1 /\ tries[g][On(g)] \in 0..(MaxAttempts - 1)
        /\ \A k \in Partitions : k # On(g) => tries'[g][k] = tries[g][k] /\ tries[g][k] < MaxAttempts
    BY <1>1, CountIs
  <1>7. TypeOK'
    BY <1>1, <1>3, <1>4, <1>5, <1>6 DEF TypeOK
  <1>8. Trying(g)'
    BY <1>3, <1>6 DEF Trying, On
  <1>9. Accounted(g)'
    BY <1>2, <1>4, <1>5 DEF Inv, LoopInv, Accounted, Past
  <1>10. InPartition(g)' /\ Working(g)'
    BY <1>1, <1>3, <1>4, <1>5 DEF Inv, LoopInv, InPartition, Working, On, Msg
  <1>11. failed[g][Msg(g)] > tries[g][On(g)] /\ failed[g][Msg(g)] \in 0..MaxAttempts
    <2>1. failed[g][Msg(g)] \in 0..MaxAttempts
      BY <1>1, <1>2 DEF TypeOK
    <2>2. Counted(g) /\ pos[g][On(g)] <= Size[On(g)]
      BY <1>1 DEF Inv, LoopInv, InPartition
    <2>3. failed[g][<<On(g), pos[g][On(g)]>>] > tries[g][On(g)]
      BY <1>1, <1>2, <2>2 DEF Counted
    <2> QED
      BY <1>2, <2>1, <2>3
  <1>12. Last(g)'
    <2>1. failed[g][Msg(g)] = MaxAttempts
      <3>1. tries[g][On(g)] + 1 >= MaxAttempts
        BY DEF SendToDlq, GivesUp
      <3> HIDE DEF Msg, On
      <3> QED
        BY <1>6, <1>11, <3>1, AttemptsAssumption
    <2> QED
      BY <1>4, <1>5, <2>1 DEF Inv, LoopInv, Last
  <1>13. Counted(g)'
    <2> SUFFICES ASSUME NEW k \in Partitions, pos[g][k] <= Size[k]
                 PROVE  failed[g][<<k, pos[g][k]>>] >= tries'[g][k]
      BY <1>3, <1>4 DEF Counted
    <2>1. CASE k = On(g)
      BY <1>2, <1>6, <1>11, <2>1
    <2>2. CASE k # On(g)
      BY <1>6, <2>2 DEF Inv, LoopInv, Counted
    <2> QED
      BY <2>1, <2>2
  <1>14. Reviewable(g)'
    BY <1>3, <1>4 DEF Inv, LoopInv, Reviewable
  <1> QED
    BY <1>3, <1>4, <1>5, <1>6, <1>7, <1>8, <1>9, <1>10, <1>12, <1>13, <1>14, StepInv
       DEF LoopInv, Same, Grows

-----------------------------------------------------------------------------
(* Letters, ends of threads, restarts *)

\* What happens to a letter once it was queued makes none of it.
LettersMove(g) ==
  /\ letter' \in [Groups -> [Messages -> {"none", "queued", "sent", "lost"}]]
  /\ \A h \in Groups : h # g => letter'[h] = letter[h]
  /\ \A m \in Messages : letter'[g][m] = "none" <=> letter[g][m] = "none"

LEMMA LettersInv ==
  ASSUME Inv, NEW g \in Groups, NEW m \in Messages, Deliver(g, m) \/ DeliveryExpires(g, m)
  PROVE  Inv'
  <1>1. TypeOK /\ letter[g][m] = "queued"
    BY DEF Inv, Deliver, DeliveryExpires
  <1>2. /\ UNCHANGED <<thread, pos, tries, committed, elig, call, reviews, done, failed>>
        /\ \E x \in {"sent", "lost"} : letter' = [letter EXCEPT ![g][m] = x]
    BY DEF Deliver, DeliveryExpires, reviewVars
  <1>3. LettersMove(g)
    BY <1>1, <1>2 DEF LettersMove, TypeOK
  <1>4. mishaps' \in 0..MaxMishaps
    BY <1>1, BoundAssumption DEF Deliver, DeliveryExpires, Mishap, TypeOK
  <1>5. TypeOK'
    BY <1>1, <1>2, <1>3, <1>4 DEF TypeOK, LettersMove
  <1>6. InPartition(g)' /\ Trying(g)' /\ Counted(g)'
    BY <1>2 DEF Inv, LoopInv, InPartition, Trying, Counted, On
  <1>7. Accounted(g)' /\ Last(g)'
    BY <1>2, <1>3 DEF Inv, LoopInv, Accounted, Last, Past, LettersMove
  <1>8. Working(g)'
    <2>1. thread[g].pc \in Busy => Msg(g) \in Messages
      BY AtMessage
    <2> QED
      BY <1>2, <1>3, <2>1 DEF Inv, LoopInv, Working, LettersMove, Busy, Msg, On
  <1>9. Reviewable(g)'
    BY <1>2 DEF Inv, LoopInv, Reviewable, Msg, On
  <1> QED
    BY <1>2, <1>3, <1>5, <1>6, <1>7, <1>8, <1>9, StepInv DEF LoopInv, Same, Grows, LettersMove

LEMMA UnqueuedMoves ==
  ASSUME TypeOK, NEW g \in Groups, letter' = [letter EXCEPT ![g] = Unqueued(g)]
  PROVE  LettersMove(g)
  <1>1. letter \in [Groups -> [Messages -> {"none", "queued", "sent", "lost"}]]
    BY DEF TypeOK
  <1>2. Unqueued(g) \in [Messages -> {"none", "queued", "sent", "lost"}]
    BY <1>1 DEF Unqueued
  <1>3. letter'[g] = Unqueued(g)
    BY <1>1
  <1>4. \A m \in Messages : letter'[g][m] = "none" <=> letter[g][m] = "none"
    BY <1>1, <1>3 DEF Unqueued
  <1> QED
    BY <1>1, <1>2, <1>4 DEF LettersMove

LEMMA ThreadEndsInv ==
  ASSUME Inv, NEW g \in Groups, ThreadEnds(g)
  PROVE  Inv'
  <1>1. TypeOK /\ thread[g].pc \in {"except", "pass"} /\ thread[g].pc \in Busy
    BY DEF Inv, ThreadEnds, At, Busy
  <1>2. /\ On(g) \in Partitions /\ pos[g][On(g)] \in 1..Size[On(g)]
        /\ Msg(g) = <<On(g), pos[g][On(g)]>>
    BY <1>1, AtMessage DEF Msg
  <1>3. UNCHANGED <<pos, tries, elig, call, reviews, done, failed>>
    BY DEF ThreadEnds, reviewVars
  <1>4. /\ thread' \in [Groups -> ThreadState] /\ thread'[g].pc = "ended"
        /\ \A h \in Groups : h # g => thread'[h] = thread[h]
    <2>1. [Polling EXCEPT !.pc = "ended"] \in ThreadState
          /\ [Polling EXCEPT !.pc = "ended"].pc = "ended"
      BY DEF Polling, ThreadState
    <2> QED
      BY <1>1, <2>1 DEF ThreadEnds, TypeOK
  <1>5. LettersMove(g)
    BY <1>1, UnqueuedMoves DEF ThreadEnds
  <1>6. /\ committed' \in [Groups -> [Partitions -> Nat]]
        /\ \A h \in Groups : h # g => committed'[h] = committed[h]
        /\ \A k \in Partitions :
             \/ committed'[g][k] = committed[g][k]
             \/ thread[g].pc = "pass" /\ k = On(g) /\ committed'[g][k] = pos[g][k]
    <2>1. committed \in [Groups -> [Partitions -> Nat]] /\ pos[g][On(g)] \in Nat
      BY <1>1, <1>2 DEF TypeOK
    <2>2. CASE committed' = committed
      BY <2>1, <2>2
    <2>3. CASE /\ thread[g].pc = "pass"
               /\ committed' = [committed EXCEPT ![g][On(g)] = pos[g][On(g)]]
      BY <1>2, <2>1, <2>3
    <2> QED
      BY <2>2, <2>3 DEF ThreadEnds, At
  <1>7. TypeOK'
    <2>1. mishaps' \in 0..MaxMishaps
      BY <1>1, BoundAssumption DEF ThreadEnds, Mishap, TypeOK
    <2> QED
      BY <1>1, <1>3, <1>4, <1>5, <1>6, <2>1 DEF TypeOK, LettersMove
  <1>8. Accounted(g)'
    <2> SUFFICES ASSUME NEW m \in Messages, Past(g, m)'
                 PROVE  m \in done[g] \/ letter[g][m] # "none"
      BY <1>3, <1>5 DEF Accounted, LettersMove
    <2>1. m = <<m[1], m[2]>> /\ m[1] \in Partitions /\ m[2] \in Nat /\ pos[g][m[1]] \in Nat
      BY <1>1, MessagePairs, LogAssumption DEF TypeOK
    <2>2. m[2] < pos[g][m[1]] \/ m[2] <= committed'[g][m[1]]
      BY <1>3 DEF Past
    <2>3. CASE m[2] < pos[g][m[1]] \/ m[2] <= committed[g][m[1]]
      BY <2>3 DEF Inv, LoopInv, Accounted, Past
    <2>4. CASE /\ thread[g].pc = "pass" /\ m[1] = On(g)
               /\ m[2] <= pos[g][m[1]] /\ ~(m[2] < pos[g][m[1]])
      <3>1. m = Msg(g)
        BY <1>2, <2>1, <2>4
      <3> QED
        BY <2>4, <3>1 DEF Inv, LoopInv, Working
    <2> QED
      BY <1>6, <2>1, <2>2, <2>3, <2>4
  <1>9. Counted(g)' /\ Trying(g)' /\ Last(g)'
    BY <1>3, <1>4, <1>5 DEF Inv, LoopInv, Counted, Trying, Last, LettersMove
  <1>10. InPartition(g)' /\ Working(g)' /\ Reviewable(g)'
    BY <1>3, <1>4 DEF Inv, LoopInv, InPartition, Working, Reviewable, Busy
  <1> QED
    BY <1>3, <1>4, <1>5, <1>6, <1>7, <1>8, <1>9, <1>10, StepInv DEF LoopInv, Same, Grows, LettersMove

LEMMA CrashInv ==
  ASSUME Inv, NEW g \in Groups, Crash(g)
  PROVE  Inv'
  <1>1. TypeOK
    BY DEF Inv
  <1>2. UNCHANGED <<committed, elig, reviews, done, failed>>
    BY DEF Crash
  <1>3. /\ thread' \in [Groups -> ThreadState] /\ thread'[g].pc = "poll"
        /\ \A h \in Groups : h # g => thread'[h] = thread[h]
    <2>1. Polling \in ThreadState /\ Polling.pc = "poll"
      BY DEF Polling, ThreadState
    <2> QED
      BY <1>1, <2>1 DEF Crash, TypeOK
  <1>4. LettersMove(g)
    BY <1>1, UnqueuedMoves DEF Crash
  <1>5. /\ pos' \in [Groups -> [Partitions -> Nat \ {0}]]
        /\ \A h \in Groups : h # g => pos'[h] = pos[h]
        /\ \A k \in Partitions : pos'[g][k] = committed[g][k] + 1
    BY <1>1 DEF Crash, TypeOK
  <1>6. /\ tries' \in [Groups -> [Partitions -> 0..MaxAttempts]]
        /\ \A h \in Groups : h # g => tries'[h] = tries[h]
        /\ \A k \in Partitions : tries'[g][k] = 0
    BY <1>1, AttemptsAssumption DEF Crash, TypeOK
  <1>7. TypeOK'
    <2>1. mishaps' \in 0..MaxMishaps
      BY <1>1, BoundAssumption DEF Crash, Mishap, TypeOK
    <2>2. call' \in [Calls -> [pc : {"idle", "insert", "mark", "created", "refused", "failed"},
                               late : BOOLEAN]]
      BY <1>1 DEF Crash, TypeOK
    <2> QED
      BY <1>1, <1>2, <1>3, <1>4, <1>5, <1>6, <2>1, <2>2 DEF TypeOK, LettersMove
  <1>8. Accounted(g)'
    <2> SUFFICES ASSUME NEW m \in Messages, Past(g, m)'
                 PROVE  m \in done[g] \/ letter[g][m] # "none"
      BY <1>2, <1>4 DEF Accounted, LettersMove
    <2>1. m[1] \in Partitions /\ m[2] \in Nat /\ committed[g][m[1]] \in Nat
      BY <1>1, MessagePairs, LogAssumption DEF TypeOK
    <2>2. m[2] <= committed[g][m[1]]
      BY <1>2, <1>5, <2>1 DEF Past
    <2> QED
      BY <2>2 DEF Inv, LoopInv, Accounted, Past
  <1>9. Counted(g)'
    <2> SUFFICES ASSUME NEW k \in Partitions, pos'[g][k] <= Size[k]
                 PROVE  failed[g][<<k, pos'[g][k]>>] >= 0
      BY <1>2, <1>3, <1>6 DEF Counted
    <2>1. <<k, pos'[g][k]>> \in Messages
      BY <1>5, LogAssumption, MessagePairs
    <2> QED
      BY <1>1, <2>1, AttemptsAssumption DEF TypeOK
  <1>10. Trying(g)' /\ Last(g)'
    BY <1>2, <1>4, <1>6, AttemptsAssumption DEF Inv, LoopInv, Trying, Last, LettersMove
  <1>11. InPartition(g)' /\ Working(g)' /\ Reviewable(g)'
    BY <1>2, <1>3 DEF Inv, LoopInv, InPartition, Working, Reviewable, Busy
  <1> QED
    BY <1>2, <1>3, <1>4, <1>5, <1>6, <1>7, <1>8, <1>9, <1>10, <1>11, StepInv
       DEF LoopInv, Same, Grows, LettersMove

\* A call of POST /reviews gives no document back: used is not none.
LEMMA ReviewInv ==
  ASSUME Inv, NEW c \in Calls,
         FindEligible(c) \/ InsertReview(c) \/ MarkReviewed(c) \/ CallFails(c)
  PROVE  Inv'
  <1>1. TypeOK /\ UNCHANGED loopVars
    BY DEF Inv, FindEligible, InsertReview, MarkReviewed, CallFails
  <1>2. IdOf[c] \in Ids
    BY CallsAssumption
  <1>3. elig' \in [Ids -> {"none", "open", "used"}] /\ Grows
    BY <1>1, <1>2 DEF FindEligible, InsertReview, MarkReviewed, CallFails, Marked, TypeOK, Grows
  <1>4. mishaps' \in 0..MaxMishaps
    BY <1>1, BoundAssumption DEF FindEligible, InsertReview, MarkReviewed, CallFails, Mishap, TypeOK
  <1>5. call' \in [Calls -> [pc : {"idle", "insert", "mark", "created", "refused", "failed"},
                             late : BOOLEAN]]
    <2> DEFINE Later == \E d \in Calls : IdOf[d] = IdOf[c] /\ call[d].pc = "created"
    <2>1. call \in [Calls -> [pc : {"idle", "insert", "mark", "created", "refused", "failed"},
                              late : BOOLEAN]]
      BY <1>1 DEF TypeOK
    <2>2. CASE FindEligible(c)
      <3>1. Later \in BOOLEAN
        OBVIOUS
      <3>2. call' = [call EXCEPT ![c] = [pc |-> IF Eligible(elig[IdOf[c]]) THEN "insert" ELSE "refused",
                                         late |-> Later]]
        BY <2>2 DEF FindEligible
      <3> HIDE DEF Later
      <3> QED
        BY <2>1, <3>1, <3>2
    <2>3. CASE InsertReview(c) \/ MarkReviewed(c) \/ CallFails(c)
      <3>1. \E pc \in {"mark", "created", "failed"} : call' = [call EXCEPT ![c] = [@ EXCEPT !.pc = pc]]
        BY <2>3 DEF InsertReview, MarkReviewed, CallFails
      <3> QED
        BY <2>1, <3>1
    <2> QED
      BY <2>2, <2>3
  <1>6. reviews' \subseteq Calls
    BY <1>1 DEF FindEligible, InsertReview, MarkReviewed, CallFails, TypeOK
  <1>7. TypeOK'
    BY <1>1, <1>3, <1>4, <1>5, <1>6 DEF TypeOK, loopVars
  <1>8. \A h \in Groups : Same(h)
    BY <1>1 DEF Same, loopVars
  <1> QED
    BY <1>3, <1>7, <1>8, SameKeeps DEF Inv

-----------------------------------------------------------------------------
(* Theorems *)

LEMMA NextInv == Inv /\ [Next]_vars => Inv'
  <1> SUFFICES ASSUME Inv, [Next]_vars PROVE Inv'
    OBVIOUS
  <1>1. ASSUME NEW g \in Groups, Consume(g) \/ Background(g) PROVE Inv'
    BY <1>1, TakeInv, RejectInv, HandledInv, PassOnInv, SeekBackInv, SendToDlqInv, FlushInv,
       UpsertInv, LettersInv DEF Consume, Background
  <1>2. ASSUME NEW g \in Groups, CommitFails(g) \/ FlushTimesOut(g) \/ ThreadEnds(g) \/ Crash(g)
        PROVE  Inv'
    BY <1>2, CommitFailsInv, FlushInv, ThreadEndsInv, CrashInv
  <1>3. ASSUME NEW g \in Groups, NEW x \in Ids, UpsertFails(g, x) PROVE Inv'
    BY <1>3, UpsertFailsInv
  <1>4. ASSUME NEW g \in Groups, NEW m \in Messages, DeliveryExpires(g, m) PROVE Inv'
    BY <1>4, LettersInv
  <1>5. ASSUME NEW c \in Calls,
               FindEligible(c) \/ InsertReview(c) \/ MarkReviewed(c) \/ CallFails(c)
        PROVE  Inv'
    BY <1>5, ReviewInv
  <1>6. CASE UNCHANGED vars
    <2>1. TypeOK'
      BY <1>6 DEF Inv, TypeOK, vars, loopVars, reviewVars
    <2>2. Grows /\ \A h \in Groups : Same(h)
      BY <1>6 DEF vars, loopVars, reviewVars, Same, Grows
    <2> QED
      BY <2>1, <2>2, SameKeeps DEF Inv
  <1> QED
    BY <1>1, <1>2, <1>3, <1>4, <1>5, <1>6 DEF Next

\* The inductive invariant holds in every reachable state.
THEOREM LoopInvariant == Spec => []Inv
  <1> QED
    BY InitInv, NextInv, PTL DEF Spec

\* Every variable keeps its shape; a retry count never passes the limit.
THEOREM TypeCorrect == Spec => []TypeOK
  <1>1. Inv => TypeOK
    BY DEF Inv
  <1> QED
    BY <1>1, LoopInvariant, PTL

\* No consumer goes past a message it neither handled nor made a dead letter
\* of, whatever fails and however often it restarts.
THEOREM EventsAccounted == Spec => []NothingSkipped
  <1>1. Inv => NothingSkipped
    BY DEF Inv, LoopInv, Accounted, NothingSkipped
  <1> QED
    BY <1>1, LoopInvariant, PTL

\* Only a message that failed max_processing_attempts times becomes a dead
\* letter: a restart forgets failures and never makes them up.
THEOREM LettersAreLast == Spec => []LastResort
  <1>1. Inv => LastResort
    BY DEF Inv, LoopInv, Last, LastResort
  <1> QED
    BY <1>1, LoopInvariant, PTL

\* Past an order.delivered that is no dead letter, each of its products can be
\* reviewed or was.
THEOREM DeliveredReviewable == Spec => []DeliveredIsReviewable
  <1>1. Inv => DeliveredIsReviewable
    BY DEF Inv, LoopInv, Accounted, Reviewable, DeliveredIsReviewable
  <1> QED
    BY <1>1, LoopInvariant, PTL

-----------------------------------------------------------------------------
(* POST /reviews: who can write a review, and how often *)

\* A restart goes back by the message in hand at most.
Near == \A g \in Groups : \A k \in Partitions : pos[g][k] <= committed[g][k] + 1

\* Only review-service has eligibility to write, and only what the message names.
Owed == \A g \in Groups :
  /\ g # "review" => thread[g].todo = {}
  /\ thread[g].pc = "handle" => thread[g].todo \subseteq Delivers[Msg(g)]

\* Review-service has seen an order.delivered of the user and product x.
Seen(x) == \E g \in Groups \cap {"review"} : \E m \in Messages :
             x \in Delivers[m] /\ m \notin Malformed /\ m[2] <= pos[g][m[1]]
Verified == \A x \in Ids : elig[x] # "none" => Seen(x)

\* A call that passed find_one found a document; used is for ever.
Passed == \A c \in Calls :
  /\ call[c].pc \notin {"idle", "refused"} => elig[IdOf[c]] # "none"
  /\ c \in reviews => call[c].pc \notin {"idle", "refused"}
  /\ call[c].pc = "created" => elig[IdOf[c]] = "used"
  /\ call[c].late => call[c].pc = "refused"

RInv == Inv /\ Near /\ Owed /\ Verified /\ Passed

-----------------------------------------------------------------------------
(* Positions *)

\* No step but a restart moves a position back, and a restart stays Near.
Forward == \A g \in Groups : \A k \in Partitions : pos'[g][k] >= pos[g][k]

LEMMA PosStays ==
  ASSUME Inv, Near, UNCHANGED <<pos, committed>>
  PROVE  Near' /\ Forward
  BY DEF Near, Forward, Inv, TypeOK

\* committed may only become the position of a group.
LEMMA CommittedMoves ==
  ASSUME Inv, Near, NEW g \in Groups, NEW k \in Partitions, UNCHANGED pos,
         committed' \in {committed, [committed EXCEPT ![g][k] = pos[g][k]]}
  PROVE  Near' /\ Forward
  <1>1. /\ pos \in [Groups -> [Partitions -> Nat \ {0}]]
        /\ committed \in [Groups -> [Partitions -> Nat]]
    BY DEF Inv, TypeOK
  <1>2. Forward
    BY <1>1 DEF Forward
  <1>3. CASE committed' = committed
    BY <1>3, PosStays
  <1>4. CASE committed' = [committed EXCEPT ![g][k] = pos[g][k]]
    <2> SUFFICES ASSUME NEW h \in Groups, NEW j \in Partitions
                 PROVE  pos[h][j] <= committed'[h][j] + 1
      BY <1>2 DEF Near
    <2>1. committed'[h][j] = pos[h][j] \/ committed'[h][j] = committed[h][j]
      BY <1>1, <1>4
    <2> QED
      BY <1>1, <2>1 DEF Near
  <1> QED
    BY <1>3, <1>4

LEMMA PassOnForward ==
  ASSUME Inv, Near, NEW g \in Groups, Commit(g) \/ CommitPast(g)
  PROVE  Near' /\ Forward
  <1>1. /\ pos \in [Groups -> [Partitions -> Nat \ {0}]]
        /\ committed \in [Groups -> [Partitions -> Nat]]
    BY DEF Inv, TypeOK
  <1>2. On(g) \in Partitions
    BY AtMessage DEF Commit, CommitPast, At, Busy
  <1>3. /\ committed' = [committed EXCEPT ![g][On(g)] = pos[g][On(g)]]
        /\ pos' = [pos EXCEPT ![g][On(g)] = pos[g][On(g)] + 1]
    BY DEF Commit, CommitPast, PassOn
  <1>4. ASSUME NEW h \in Groups, NEW j \in Partitions
        PROVE  pos'[h][j] >= pos[h][j] /\ pos'[h][j] <= committed'[h][j] + 1
    <2>1. CASE h = g /\ j = On(g)
      BY <1>1, <1>2, <1>3, <2>1
    <2>2. CASE ~(h = g /\ j = On(g))
      <3>1. pos'[h][j] = pos[h][j] /\ committed'[h][j] = committed[h][j]
        BY <1>1, <1>2, <1>3, <2>2
      <3> QED
        BY <1>1, <3>1 DEF Near
    <2> QED
      BY <2>1, <2>2
  <1> QED
    BY <1>4 DEF Near, Forward

LEMMA CrashForward ==
  ASSUME Inv, Near, NEW g \in Groups, Crash(g)
  PROVE  Near' /\ Forward
  <1>1. /\ pos \in [Groups -> [Partitions -> Nat \ {0}]]
        /\ committed \in [Groups -> [Partitions -> Nat]]
    BY DEF Inv, TypeOK
  <1>2. /\ committed' = committed
        /\ pos' = [pos EXCEPT ![g] = [k \in Partitions |-> committed[g][k] + 1]]
    BY DEF Crash
  <1>3. ASSUME NEW h \in Groups, NEW j \in Partitions
        PROVE  pos'[h][j] >= pos[h][j] /\ pos'[h][j] <= committed'[h][j] + 1
    BY <1>1, <1>2 DEF Near
  <1> QED
    BY <1>3 DEF Near, Forward

LEMMA StepForward ==
  ASSUME Inv, Near, Next
  PROVE  Near' /\ Forward
  <1>1. ASSUME NEW g \in Groups, Consume(g) \/ Background(g) PROVE Near' /\ Forward
    <2>1. CASE Commit(g) \/ CommitPast(g)
      BY <2>1, PassOnForward
    <2>2. CASE SeekBack(g)
      <3>1. pos' = pos /\ committed' = committed
        BY <2>2 DEF SeekBack, Sought, Inv, TypeOK
      <3> QED
        BY <3>1, PosStays
    <2>3. CASE \/ \E k \in Partitions : Take(g, k)
               \/ Reject(g) \/ Handled(g) \/ SendToDlq(g) \/ Flush(g)
               \/ \E x \in Ids : Upsert(g, x)
               \/ Background(g)
      <3>1. UNCHANGED <<pos, committed>>
        BY <2>3 DEF Take, Reject, Handled, SendToDlq, Flush, Upsert, Background, Deliver
      <3> QED
        BY <3>1, PosStays
    <2> QED
      BY <1>1, <2>1, <2>2, <2>3 DEF Consume
  <1>2. ASSUME NEW g \in Groups, CommitFails(g) \/ ThreadEnds(g) PROVE Near' /\ Forward
    <2>1. On(g) \in Partitions
      BY <1>2, AtMessage DEF CommitFails, ThreadEnds, At, Busy
    <2>2. /\ UNCHANGED pos
          /\ committed' \in {committed, [committed EXCEPT ![g][On(g)] = pos[g][On(g)]]}
      BY <1>2 DEF CommitFails, ThreadEnds
    <2> QED
      BY <2>1, <2>2, CommittedMoves
  <1>3. ASSUME NEW g \in Groups, Crash(g) PROVE Near' /\ Forward
    BY <1>3, CrashForward
  <1>4. ASSUME \/ \E g \in Groups : \/ FlushTimesOut(g)
                                    \/ \E x \in Ids : UpsertFails(g, x)
                                    \/ \E m \in Messages : DeliveryExpires(g, m)
               \/ \E c \in Calls : FindEligible(c) \/ InsertReview(c) \/ MarkReviewed(c) \/ CallFails(c)
        PROVE  Near' /\ Forward
    <2>1. UNCHANGED <<pos, committed>>
      BY <1>4 DEF FlushTimesOut, UpsertFails, DeliveryExpires, FindEligible, InsertReview,
                  MarkReviewed, CallFails, loopVars
    <2> QED
      BY <2>1, PosStays
  <1> QED
    BY <1>1, <1>2, <1>3, <1>4 DEF Next

LEMMA SeenStays ==
  ASSUME Inv, Inv', Forward, NEW x \in Ids, Seen(x)
  PROVE  Seen(x)'
  <1>1. PICK g \in Groups \cap {"review"}, m \in Messages :
          x \in Delivers[m] /\ m \notin Malformed /\ m[2] <= pos[g][m[1]]
    BY DEF Seen
  <1>2. m[1] \in Partitions /\ m[2] \in Nat
    BY MessagePairs, LogAssumption
  <1>3. pos[g][m[1]] \in Nat /\ pos'[g][m[1]] \in Nat /\ pos'[g][m[1]] >= pos[g][m[1]]
    BY <1>2 DEF Inv, TypeOK, Forward
  <1>4. m[2] <= pos'[g][m[1]]
    BY <1>1, <1>2, <1>3
  <1> QED
    BY <1>1, <1>4 DEF Seen

-----------------------------------------------------------------------------
(* What the threads owe *)

LEMMA OwedStep ==
  ASSUME Inv, Owed, Next
  PROVE  Owed'
  <1>0. TypeOK /\ thread \in [Groups -> ThreadState]
    BY DEF Inv, TypeOK
  <1>1. ASSUME NEW g \in Groups,
               \A h \in Groups : h # g => thread'[h] = thread[h] /\ pos'[h] = pos[h],
               thread'[g].todo \subseteq thread[g].todo \/ thread'[g].todo = {},
               thread'[g].pc = "handle" => thread[g].pc = "handle" /\ Msg(g)' = Msg(g)
        PROVE  Owed'
    <2> SUFFICES ASSUME NEW h \in Groups
                 PROVE  /\ h # "review" => thread'[h].todo = {}
                        /\ thread'[h].pc = "handle" => thread'[h].todo \subseteq Delivers[Msg(h)']
      BY DEF Owed
    <2>1. CASE h = g
      BY <1>1, <2>1 DEF Owed
    <2>2. CASE h # g
      BY <1>1, <2>2 DEF Owed, Msg, On
    <2> QED
      BY <2>1, <2>2
  <1>2. ASSUME NEW g \in Groups, NEW k \in Partitions, Take(g, k) PROVE Owed'
    <2>1. /\ thread'[g] = [pc |-> "handle", on |-> k,
                           todo |-> IF g = "review" THEN Delivers[<<k, pos[g][k]>>] ELSE {}]
          /\ \A h \in Groups : h # g => thread'[h] = thread[h]
          /\ pos' = pos
      BY <1>0, <1>2 DEF Take
    <2>2. Msg(g)' = <<k, pos[g][k]>>
      BY <2>1 DEF Msg, On
    <2> SUFFICES ASSUME NEW h \in Groups
                 PROVE  /\ h # "review" => thread'[h].todo = {}
                        /\ thread'[h].pc = "handle" => thread'[h].todo \subseteq Delivers[Msg(h)']
      BY DEF Owed
    <2>3. CASE h = g
      BY <2>1, <2>2, <2>3
    <2>4. CASE h # g
      BY <2>1, <2>4 DEF Owed, Msg, On
    <2> QED
      BY <2>3, <2>4
  <1>3. ASSUME NEW g \in Groups, NEW x \in Ids, Upsert(g, x) PROVE Owed'
    <2>1. thread' = [thread EXCEPT ![g] = [@ EXCEPT !.todo = thread[g].todo \ {x}]] /\ pos' = pos
      BY <1>3 DEF Upsert, StillToWrite
    <2>2. thread'[g] = [thread[g] EXCEPT !.todo = thread[g].todo \ {x}]
          /\ \A h \in Groups : h # g => thread'[h] = thread[h]
      BY <1>0, <2>1
    <2>3. thread'[g].todo \subseteq thread[g].todo /\ thread'[g].pc = thread[g].pc
          /\ thread'[g].on = thread[g].on
      BY <1>0, <2>2 DEF ThreadState
    <2> QED
      BY <1>1, <2>1, <2>2, <2>3 DEF Msg, On
  <1>4. ASSUME NEW g \in Groups, NEW pc \in ThreadPcs \ {"handle"}, Goto(g, pc), pos' = pos
        PROVE  Owed'
    BY <1>0, <1>1, <1>4, GotoIs
  <1>5. ASSUME NEW g \in Groups, \A h \in Groups : h # g => pos'[h] = pos[h],
               NEW pc \in ThreadPcs \ {"handle"}, thread' = [thread EXCEPT ![g] = [Polling EXCEPT !.pc = pc]]
        PROVE  Owed'
    <2>1. /\ \A h \in Groups : h # g => thread'[h] = thread[h]
          /\ thread'[g].pc = pc /\ thread'[g].todo = {}
      BY <1>0, <1>5 DEF Polling
    <2> QED
      BY <1>1, <1>5, <2>1
  <1>6. ASSUME NEW g \in Groups, Idle(g), \A h \in Groups : h # g => pos'[h] = pos[h] PROVE Owed'
    <2>1. Polling = [Polling EXCEPT !.pc = "poll"] /\ "poll" \in ThreadPcs \ {"handle"}
      BY DEF Polling, ThreadPcs
    <2> QED
      BY <1>5, <1>6, <2>1 DEF Idle
  <1>7. ASSUME UNCHANGED <<thread, pos>> PROVE Owed'
    BY <1>7 DEF Owed, Msg, On
  <1>8. ASSUME NEW g \in Groups, Commit(g) \/ CommitPast(g) \/ SeekBack(g) PROVE Owed'
    BY <1>0, <1>6, <1>8 DEF Commit, CommitPast, PassOn, SeekBack, Inv, TypeOK
  <1>9. ASSUME NEW g \in Groups,
               \/ Reject(g) \/ CommitFails(g) \/ Handled(g) \/ SendToDlq(g) \/ Flush(g) \/ FlushTimesOut(g)
               \/ \E x \in Ids : UpsertFails(g, x)
        PROVE  Owed'
    <2>1. pos' = pos /\ \E pc \in {"except", "commit", "flush", "pass"} : Goto(g, pc)
      BY <1>9 DEF Reject, CommitFails, Handled, SendToDlq, Flush, FlushTimesOut, UpsertFails, Raise
    <2> QED
      BY <1>4, <2>1 DEF ThreadPcs
  <1>10. ASSUME NEW g \in Groups, Crash(g) \/ ThreadEnds(g) PROVE Owed'
    <2>1. CASE Crash(g)
      <3>1. Idle(g) /\ \A h \in Groups : h # g => pos'[h] = pos[h]
        BY <1>0, <2>1 DEF Crash, Idle, TypeOK
      <3> QED
        BY <1>6, <3>1
    <2>2. CASE ThreadEnds(g)
      <3>1. /\ thread' = [thread EXCEPT ![g] = [Polling EXCEPT !.pc = "ended"]] /\ pos' = pos
            /\ "ended" \in ThreadPcs \ {"handle"}
        BY <2>2 DEF ThreadEnds, ThreadPcs
      <3> QED
        BY <1>5, <3>1
    <2> QED
      BY <1>10, <2>1, <2>2
  <1>11. ASSUME \/ \E g \in Groups : \E m \in Messages : Deliver(g, m) \/ DeliveryExpires(g, m)
                \/ \E c \in Calls : FindEligible(c) \/ InsertReview(c) \/ MarkReviewed(c) \/ CallFails(c)
         PROVE  Owed'
    BY <1>7, <1>11 DEF Deliver, DeliveryExpires, FindEligible, InsertReview, MarkReviewed, CallFails, loopVars
  <1> QED
    BY <1>2, <1>3, <1>8, <1>9, <1>10, <1>11 DEF Next, Consume, Background

-----------------------------------------------------------------------------
(* Eligibility and the calls *)

LEMMA VerifiedStep ==
  ASSUME RInv, Next, Inv', Forward
  PROVE  Verified'
  <1> SUFFICES ASSUME NEW x \in Ids, elig'[x] # "none" PROVE Seen(x)'
    BY DEF Verified
  <1>0. TypeOK
    BY DEF RInv, Inv
  <1>1. CASE elig[x] # "none"
    BY <1>1, SeenStays DEF RInv, Verified
  <1>2. CASE elig'[x] = elig[x]
    BY <1>1, <1>2
  <1>3. ASSUME NEW g \in Groups, NEW y \in Ids, Upsert(g, y) \/ UpsertFails(g, y) PROVE Seen(x)'
    <2>1. /\ thread[g].pc = "handle" /\ thread[g].pc \in Busy /\ y \in thread[g].todo
          /\ Msg(g) \notin Malformed
          /\ elig' \in {elig, [elig EXCEPT ![y] = Upserted(elig[y])]}
      BY <1>3 DEF Upsert, UpsertFails, At, Busy
    <2>2. g = "review" /\ y \in Delivers[Msg(g)]
      BY <2>1 DEF RInv, Owed
    <2>3. Msg(g) \in Messages /\ Msg(g)[1] = On(g) /\ Msg(g)[2] = pos[g][On(g)]
          /\ pos[g][On(g)] \in Nat
      BY <2>1, AtMessage DEF RInv
    <2>4. Msg(g)[2] <= pos[g][Msg(g)[1]]
      BY <2>3
    <2>5. Seen(y)
      BY <2>1, <2>2, <2>3, <2>4 DEF Seen
    <2>6. CASE x = y
      BY <2>5, <2>6, SeenStays DEF RInv
    <2>7. CASE x # y
      BY <1>0, <1>2, <2>1, <2>7 DEF TypeOK
    <2> QED
      BY <2>6, <2>7
  <1>4. ASSUME NEW c \in Calls, MarkReviewed(c) \/ CallFails(c) PROVE Seen(x)'
    <2>1. elig' \in {elig, Marked(c)} /\ (elig' # elig => call[c].pc = "mark")
      BY <1>4 DEF MarkReviewed, CallFails
    <2>2. CASE x = IdOf[c] /\ call[c].pc = "mark"
      <3>1. elig[x] # "none"
        BY <2>2 DEF RInv, Passed
      <3> QED
        BY <1>1, <3>1
    <2>3. CASE x # IdOf[c] \/ elig' = elig
      BY <1>0, <1>2, <2>1, <2>3 DEF TypeOK, Marked
    <2> QED
      BY <2>1, <2>2, <2>3
  <1>5. ASSUME UNCHANGED elig PROVE Seen(x)'
    BY <1>2, <1>5
  <1> QED
    BY <1>3, <1>4, <1>5 DEF Next, Consume, Background, Take, Reject, Handled, Commit, CommitPast,
       PassOn, SeekBack, SendToDlq, Flush, FlushTimesOut, CommitFails, ThreadEnds, Crash,
       Deliver, DeliveryExpires, FindEligible, InsertReview

\* No step takes a document away or frees one that is used.
Keeps == \A x \in Ids : /\ elig[x] # "none" => elig'[x] # "none"
                        /\ elig[x] = "used" => elig'[x] = "used"

LEMMA StepKeeps ==
  ASSUME Inv, Next
  PROVE  Keeps
  <1>0. TypeOK
    BY DEF Inv
  <1>1. ASSUME NEW y \in Ids, elig' \in {elig, [elig EXCEPT ![y] = Upserted(elig[y])]} PROVE Keeps
    BY <1>0, <1>1 DEF Keeps, Upserted, TypeOK
  <1>2. ASSUME NEW c \in Calls, elig' \in {elig, Marked(c)} PROVE Keeps
    BY <1>0, <1>2 DEF Keeps, Marked, TypeOK
  <1>3. ASSUME UNCHANGED elig PROVE Keeps
    BY <1>3 DEF Keeps
  <1>4. ASSUME NEW g \in Groups, NEW y \in Ids, Upsert(g, y) \/ UpsertFails(g, y) PROVE Keeps
    BY <1>1, <1>4 DEF Upsert, UpsertFails
  <1>5. ASSUME NEW c \in Calls, MarkReviewed(c) \/ CallFails(c) PROVE Keeps
    BY <1>2, <1>5 DEF MarkReviewed, CallFails
  <1> QED
    BY <1>3, <1>4, <1>5 DEF Next, Consume, Background, Take, Reject, Handled, Commit, CommitPast,
       PassOn, SeekBack, SendToDlq, Flush, FlushTimesOut, CommitFails, ThreadEnds, Crash,
       Deliver, DeliveryExpires, FindEligible, InsertReview

\* What Passed says of one call.
PassedCall(c) ==
  /\ call[c].pc \notin {"idle", "refused"} => elig[IdOf[c]] # "none"
  /\ c \in reviews => call[c].pc \notin {"idle", "refused"}
  /\ call[c].pc = "created" => elig[IdOf[c]] = "used"
  /\ call[c].late => call[c].pc = "refused"

LEMMA PassedStep ==
  ASSUME RInv, Next, Keeps
  PROVE  Passed'
  <1> SUFFICES ASSUME NEW c \in Calls PROVE PassedCall(c)'
    BY DEF Passed, PassedCall
  <1>0. /\ IdOf[c] \in Ids /\ PassedCall(c)
        /\ elig \in [Ids -> {"none", "open", "used"}]
        /\ call \in [Calls -> [pc : {"idle", "insert", "mark", "created", "refused", "failed"},
                               late : BOOLEAN]]
    BY CallsAssumption DEF RInv, Inv, TypeOK, Passed, PassedCall
  <1>1. ASSUME call'[c] = call[c], c \in reviews' => c \in reviews PROVE PassedCall(c)'
    BY <1>0, <1>1 DEF PassedCall, Keeps
  <1>2. ASSUME NEW d \in Calls,
               FindEligible(d) \/ InsertReview(d) \/ MarkReviewed(d) \/ CallFails(d)
        PROVE  PassedCall(c)'
    <2>1. CASE d # c
      <3>1. call'[c] = call[c] /\ (c \in reviews' => c \in reviews)
        BY <1>0, <1>2, <2>1 DEF FindEligible, InsertReview, MarkReviewed, CallFails
      <3> QED
        BY <1>1, <3>1
    <2>2. CASE d = c /\ FindEligible(c)
      <3> DEFINE Later == \E e \in Calls : IdOf[e] = IdOf[c] /\ call[e].pc = "created"
      <3>1. /\ call[c].pc = "idle" /\ reviews' = reviews /\ elig' = elig
            /\ call'[c] = [pc |-> IF elig[IdOf[c]] = "open" THEN "insert" ELSE "refused",
                           late |-> Later]
        BY <1>0, <2>2 DEF FindEligible, Eligible
      <3>2. Later => elig[IdOf[c]] = "used"
        BY DEF RInv, Passed
      <3> HIDE DEF Later
      <3>3. CASE elig[IdOf[c]] = "open"
        BY <1>0, <3>1, <3>2, <3>3 DEF PassedCall
      <3>4. CASE elig[IdOf[c]] # "open"
        BY <1>0, <3>1, <3>4 DEF PassedCall
      <3> QED
        BY <3>3, <3>4
    <2>3. CASE d = c /\ InsertReview(c)
      <3>1. call[c].pc = "insert" /\ call'[c].pc = "mark" /\ call'[c].late = call[c].late
        BY <1>0, <2>3 DEF InsertReview
      <3> QED
        BY <1>0, <3>1 DEF PassedCall, Keeps
    <2>4. CASE d = c /\ MarkReviewed(c)
      <3>1. /\ call[c].pc = "mark" /\ call'[c].pc = "created" /\ call'[c].late = call[c].late
            /\ elig'[IdOf[c]] = "used"
        BY <1>0, <2>4 DEF MarkReviewed, Marked
      <3> QED
        BY <1>0, <3>1 DEF PassedCall, Keeps
    <2>5. CASE d = c /\ CallFails(c)
      <3>1. call[c].pc \in {"insert", "mark"} /\ call'[c].pc = "failed" /\ call'[c].late = call[c].late
        BY <1>0, <2>5 DEF CallFails
      <3> QED
        BY <1>0, <3>1 DEF PassedCall, Keeps
    <2> QED
      BY <1>2, <2>1, <2>2, <2>3, <2>4, <2>5
  <1>3. ASSUME NEW g \in Groups, Crash(g) PROVE PassedCall(c)'
    <2>1. /\ reviews' = reviews /\ call'[c].late = call[c].late
          /\ \/ call'[c].pc = call[c].pc
             \/ call[c].pc \in {"insert", "mark"} /\ call'[c].pc = "failed"
      BY <1>0, <1>3 DEF Crash
    <2> QED
      BY <1>0, <2>1 DEF PassedCall, Keeps
  <1>4. ASSUME UNCHANGED <<call, reviews>> PROVE PassedCall(c)'
    BY <1>1, <1>4
  <1> QED
    BY <1>2, <1>3, <1>4 DEF Next, Consume, Background, Take, Reject, Upsert, UpsertFails, Handled,
       Commit, CommitPast, PassOn, SeekBack, SendToDlq, Flush, FlushTimesOut, CommitFails,
       ThreadEnds, Deliver, DeliveryExpires, reviewVars

-----------------------------------------------------------------------------
(* Theorems *)

LEMMA InitRInv == Init => RInv
  <1> SUFFICES ASSUME Init PROVE RInv
    OBVIOUS
  <1>1. Near
    BY DEF Init, Near
  <1>2. Owed
    BY DEF Init, Owed, Polling
  <1>3. Verified
    BY DEF Init, Verified
  <1>4. Passed
    BY DEF Init, Passed, NewCall
  <1> QED
    BY <1>1, <1>2, <1>3, <1>4, InitInv DEF RInv

LEMMA NextRInv == RInv /\ [Next]_vars => RInv'
  <1> SUFFICES ASSUME RInv, [Next]_vars PROVE RInv'
    OBVIOUS
  <1>1. Inv'
    BY NextInv DEF RInv
  <1>2. CASE Next
    <2>1. Near' /\ Forward /\ Owed' /\ Keeps
      BY <1>2, StepForward, OwedStep, StepKeeps DEF RInv
    <2> QED
      BY <1>1, <1>2, <2>1, VerifiedStep, PassedStep DEF RInv
  <1>3. CASE UNCHANGED vars
    BY <1>1, <1>3 DEF RInv, Near, Owed, Verified, Seen, Passed, vars, loopVars, reviewVars, Msg, On
  <1> QED
    BY <1>2, <1>3

\* The inductive invariant holds in every reachable state.
THEOREM ReviewInvariant == Spec => []RInv
  <1> QED
    BY InitRInv, NextRInv, PTL DEF Spec

\* Only verified purchasers review: a review in the collection is about a
\* product of an order.delivered review-service has been given.
THEOREM PurchasersReview == Spec => []OnlyVerified
  <1>1. RInv => OnlyVerified
    <2> SUFFICES ASSUME RInv, NEW g \in Groups \cap {"review"}, NEW c \in reviews
                 PROVE  \E m \in Messages : /\ IdOf[c] \in Delivers[m] /\ m \notin Malformed
                                            /\ m[2] <= pos[g][m[1]]
      BY DEF OnlyVerified
    <2>1. c \in Calls /\ IdOf[c] \in Ids
      BY CallsAssumption DEF RInv, Inv, TypeOK
    <2>2. elig[IdOf[c]] # "none"
      BY <2>1 DEF RInv, Passed
    <2> QED
      BY <2>1, <2>2 DEF RInv, Verified, Seen
  <1> QED
    BY <1>1, ReviewInvariant, PTL

\* A call that begins after a review of the same product was answered writes
\* none, however often the order is delivered again.
THEOREM ReviewedOnce == Spec => []SecondReviewRefused
  <1>1. RInv => SecondReviewRefused
    <2> SUFFICES ASSUME RInv, NEW c \in reviews PROVE ~call[c].late
      BY DEF SecondReviewRefused
    <2>1. c \in Calls
      BY DEF RInv, Inv, TypeOK
    <2> QED
      BY <2>1 DEF RInv, Passed
  <1> QED
    BY <1>1, ReviewInvariant, PTL
==============================================================================
