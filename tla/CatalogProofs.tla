---------------------------- MODULE CatalogProofs ----------------------------
(***************************************************************************)
(* The row lock makes concurrent reserves and releases look like steps of  *)
(* StockLedger, so stock is never oversold, and a stale cache entry has a  *)
(* known cause: for every set of calls and products, every quantity and    *)
(* every placement of failures.                                            *)
(***************************************************************************)
EXTENDS Catalog, TLAPS

\* Between the statement that locked the row and the end of its transaction a
\* call has the row, and what it read of it is still what is committed.
Locked   == \A c \in Calls : call[c].pc \in {"update", "commit"} =>
  Known(c) /\ lock[ProductOf[c]] = c
Selected == \A c \in Calls : call[c].pc = "update" =>
  OpOf[c] = "reserve" /\ call[c].seen = stock[ProductOf[c]]
Updated  == \A c \in Calls : call[c].pc = "commit" =>
  /\ call[c].remaining = call[c].new
  /\ \/ /\ OpOf[c] = "reserve" /\ stock[ProductOf[c]] >= QtyOf[c]
        /\ call[c].new = stock[ProductOf[c]] - QtyOf[c]
     \/ /\ OpOf[c] = "release"
        /\ call[c].new = stock[ProductOf[c]] + QtyOf[c]
Working  == {"idle", "begin", "update", "commit", "query", "fill"}
NotYet   == \A c \in Calls : call[c].pc \in Working => ~call[c].committed

Inv == TypeOK /\ Locked /\ Selected /\ Updated /\ NotYet /\ RemainingTrue

LEMMA FreshType == Fresh \in CallState
  BY DEF Fresh, CallState, Pcs, Answers

LEMMA InitInv == Init => Inv
<1> SUFFICES ASSUME Init PROVE Inv OBVIOUS
<1>1. TypeOK BY FreshType, StockAssumption DEF Init, TypeOK
<1>2. Locked /\ Selected /\ Updated /\ NotYet /\ RemainingTrue
  BY DEF Init, Fresh, Locked, Selected, Updated, NotYet, RemainingTrue
<1> QED BY <1>1, <1>2 DEF Inv

\* A step of one call that commits nothing and takes no lock from another.
LEMMA CallStep ==
  ASSUME Inv, NEW c \in Calls, NEW s \in CallState, call' = [call EXCEPT ![c] = s],
         UNCHANGED stock,
         lock' \in [Products -> Calls \cup {NoCall}], cache' \in [Entries -> SUBSET Snapshot],
         late' \in [Products -> SUBSET Calls],
         \A p \in Products : lock[p] \notin {NoCall, c} => lock'[p] = lock[p],
         s.pc \in {"update", "commit"} => Known(c) /\ lock'[ProductOf[c]] = c,
         s.pc = "update" => OpOf[c] = "reserve" /\ s.seen = stock[ProductOf[c]],
         s.pc = "commit" =>
           /\ s.remaining = s.new
           /\ \/ /\ OpOf[c] = "reserve" /\ stock[ProductOf[c]] >= QtyOf[c]
                 /\ s.new = stock[ProductOf[c]] - QtyOf[c]
              \/ /\ OpOf[c] = "release"
                 /\ s.new = stock[ProductOf[c]] + QtyOf[c],
         s.pc \in Working => ~s.committed,
         s.committed => s.remaining = s.new
  PROVE  Inv'
<1>1. TypeOK' BY DEF Inv, TypeOK
<1>2. call'[c] = s /\ \A d \in Calls : d # c => call'[d] = call[d] BY DEF Inv, TypeOK
<1>3. \A d \in Calls : d # c /\ call[d].pc \in {"update", "commit"} => lock'[ProductOf[d]] = d
  BY NoneAssumption DEF Inv, Locked, Known
<1>4. Locked' BY <1>2, <1>3 DEF Inv, Locked, Known
<1>5. Selected' BY <1>2 DEF Inv, Selected
<1>6. Updated' BY <1>2 DEF Inv, Updated
<1>7. NotYet' /\ RemainingTrue' BY <1>2 DEF Inv, NotYet, RemainingTrue
<1> QED BY <1>1, <1>4, <1>5, <1>6, <1>7 DEF Inv

\* An answer ends a call and leaves the rest of its locals.
LEMMA RespondStep ==
  ASSUME Inv, NEW c \in Calls, NEW a \in Answers, Respond(c, a), UNCHANGED stock,
         lock' \in [Products -> Calls \cup {NoCall}], cache' \in [Entries -> SUBSET Snapshot],
         late' \in [Products -> SUBSET Calls],
         \A p \in Products : lock[p] \notin {NoCall, c} => lock'[p] = lock[p]
  PROVE  Inv'
<1> DEFINE s == [call[c] EXCEPT !.pc = "done", !.answer = a]
<1>1. call[c] \in CallState BY DEF Inv, TypeOK
<1>2. /\ s \in CallState /\ s.pc = "done" /\ s.committed = call[c].committed
      /\ s.remaining = call[c].remaining /\ s.new = call[c].new
  BY <1>1 DEF CallState, Pcs
<1>3. call' = [call EXCEPT ![c] = s] BY DEF Respond
<1>4. s.committed => s.remaining = s.new BY <1>2 DEF Inv, RemainingTrue
<1> HIDE DEF s
<1> QED BY <1>2, <1>3, <1>4, CallStep DEF Working

LEMMA SelectForUpdateStep == ASSUME Inv, NEW c \in Calls, SelectForUpdate(c) PROVE Inv'
<1> DEFINE p == ProductOf[c]
           s == [call[c] EXCEPT !.pc = "update", !.seen = stock[p]]
<1>1. /\ call[c] \in CallState /\ call[c].pc = "begin" /\ p \in Products /\ OpOf[c] = "reserve"
      /\ stock \in [Products -> Nat] /\ lock \in [Products -> Calls \cup {NoCall}]
      /\ cache \in [Entries -> SUBSET Snapshot] /\ Known(c) /\ late \in [Products -> SUBSET Calls]
  BY DEF Inv, TypeOK, SelectForUpdate, At, Known
<1>2. /\ call' = [call EXCEPT ![c] = s] /\ UNCHANGED <<stock, cache, late>>
      /\ lock[p] \in {NoCall, c} /\ lock' = [lock EXCEPT ![p] = c]
  BY DEF SelectForUpdate, Locks
<1>3. /\ s \in CallState /\ s.pc = "update" /\ s.seen = stock[p] /\ s.committed = call[c].committed
  BY <1>1 DEF CallState, Pcs
<1>4. ~call[c].committed BY <1>1 DEF Inv, NotYet, Working
<1> HIDE DEF s
<1> QED BY <1>1, <1>2, <1>3, <1>4, CallStep

LEMMA RefuseStep == ASSUME Inv, NEW c \in Calls, Refuse(c) PROVE Inv'
<1>1. ProductOf[c] \in Products /\ lock[ProductOf[c]] = c
  BY DEF Refuse, At, Inv, Locked, Known
<1>2. /\ lock' = [lock EXCEPT ![ProductOf[c]] = NoCall] /\ UNCHANGED <<stock, cache, late>>
      /\ Respond(c, "refused")
  BY DEF Refuse, Unlocks
<1> QED BY <1>1, <1>2, RespondStep DEF Inv, TypeOK, Answers

LEMMA UpdateRowStep == ASSUME Inv, NEW c \in Calls, UpdateRow(c) PROVE Inv'
<1> DEFINE p == ProductOf[c]
           new == IF OpOf[c] = "reserve" THEN stock[p] - QtyOf[c] ELSE stock[p] + QtyOf[c]
           left == IF OpOf[c] = "reserve" THEN call[c].seen - QtyOf[c] ELSE new
           s == [call[c] EXCEPT !.pc = "commit", !.new = new, !.remaining = left]
<1>1. /\ call[c] \in CallState /\ call[c].pc \in {"begin", "update"} /\ QtyOf[c] \in Nat
      /\ stock \in [Products -> Nat] /\ lock \in [Products -> Calls \cup {NoCall}]
      /\ cache \in [Entries -> SUBSET Snapshot] /\ late \in [Products -> SUBSET Calls]
  BY QtyAssumption DEF Inv, TypeOK, UpdateRow, At
<1>2. p \in Products /\ stock[p] \in Nat BY <1>1 DEF UpdateRow, At, Known, Inv, Locked
<1>3. /\ call' = [call EXCEPT ![c] = s] /\ UNCHANGED <<stock, cache, late>>
      /\ lock[p] \in {NoCall, c} /\ lock' = [lock EXCEPT ![p] = c]
  BY DEF UpdateRow, Locks
<1>4. /\ new \in Nat /\ left = new
      /\ \/ OpOf[c] = "reserve" /\ stock[p] >= QtyOf[c] /\ new = stock[p] - QtyOf[c]
         \/ OpOf[c] = "release" /\ new = stock[p] + QtyOf[c]
  <2>1. CASE At(c, "update") /\ OpOf[c] = "reserve" /\ call[c].seen >= QtyOf[c]
    <3>1. call[c].seen = stock[p] BY <2>1 DEF At, Inv, Selected
    <3> QED BY <2>1, <3>1, <1>1, <1>2
  <2>2. CASE OpOf[c] = "release" BY <2>2, <1>1, <1>2
  <2> QED BY <2>1, <2>2 DEF UpdateRow
<1> HIDE DEF new, left
<1>5. s \in CallState /\ s.pc = "commit" /\ s.new = new /\ s.remaining = left
      /\ s.committed = call[c].committed
  BY <1>1, <1>4 DEF CallState, Pcs
<1>6. ~call[c].committed BY <1>1 DEF Inv, NotYet, Working
<1> HIDE DEF s
<1> QED BY <1>1, <1>2, <1>3, <1>4, <1>5, <1>6, CallStep DEF Known

LEMMA CommitStep == ASSUME Inv, NEW c \in Calls, Commit(c) PROVE Inv'
<1> DEFINE p == ProductOf[c]
           s == [call[c] EXCEPT !.pc = "invalidate", !.committed = TRUE]
<1>1. /\ call[c] \in CallState /\ call[c].pc = "commit" /\ call[c].new \in Nat
      /\ stock \in [Products -> Nat] /\ lock \in [Products -> Calls \cup {NoCall}]
      /\ call \in [Calls -> CallState] /\ cache \in [Entries -> SUBSET Snapshot]
      /\ p \in Products /\ lock[p] = c /\ call[c].remaining = call[c].new
      /\ late \in [Products -> SUBSET Calls]
  BY DEF Inv, TypeOK, Commit, At, CallState, Locked, Known, Updated
<1>2. /\ call' = [call EXCEPT ![c] = s] /\ stock' = [stock EXCEPT ![p] = call[c].new]
      /\ lock' = [lock EXCEPT ![p] = NoCall] /\ UNCHANGED cache
      /\ late' = [late EXCEPT ![p] = {c} \cup Filling(p)] /\ Filling(p) \subseteq Calls
  BY DEF Commit, Unlocks, Filling
<1>3. /\ s \in CallState /\ s.pc = "invalidate" /\ s.new = call[c].new
      /\ s.remaining = call[c].remaining
  BY <1>1 DEF CallState, Pcs
<1> HIDE DEF s
<1>4. call'[c] = s /\ \A d \in Calls : d # c => call'[d] = call[d] BY <1>1, <1>2
<1>5. TypeOK' BY <1>1, <1>2, <1>3 DEF TypeOK
<1>6. \A d \in Calls : d # c /\ call[d].pc \in {"update", "commit"} =>
        /\ ProductOf[d] \in Products /\ lock'[ProductOf[d]] = d
        /\ stock'[ProductOf[d]] = stock[ProductOf[d]]
  <2> SUFFICES ASSUME NEW d \in Calls, d # c, call[d].pc \in {"update", "commit"}
               PROVE  /\ ProductOf[d] \in Products /\ lock'[ProductOf[d]] = d
                      /\ stock'[ProductOf[d]] = stock[ProductOf[d]]
    OBVIOUS
  <2>1. ProductOf[d] \in Products /\ lock[ProductOf[d]] = d BY DEF Inv, Locked, Known
  <2>2. ProductOf[d] # p BY <2>1, <1>1
  <2> QED BY <1>1, <1>2, <2>1, <2>2
<1>7. Locked' BY <1>3, <1>4, <1>6 DEF Locked, Known
<1>8. Selected' /\ Updated' BY <1>3, <1>4, <1>6 DEF Inv, Selected, Updated
<1>9. NotYet' /\ RemainingTrue' BY <1>1, <1>3, <1>4 DEF Inv, NotYet, RemainingTrue, Working
<1> QED BY <1>5, <1>7, <1>8, <1>9 DEF Inv

LEMMA EntryType == ASSUME Inv, NEW e \in Entries PROVE Current(e) \in Snapshot
<1>1. Covers(e) \subseteq Products BY DEF Covers, Entries
<1>2. \A p \in Covers(e) : stock[p] \in Nat BY <1>1 DEF Inv, TypeOK
<1> QED BY <1>1, <1>2 DEF Current, Snapshot

\* Calls that read, and calls that answer.
LEMMA ReadStep ==
  ASSUME Inv, NEW c \in Calls, Arrive(c) \/ ReadCache(c) \/ Query(c) PROVE Inv'
<1>1. /\ call[c] \in CallState /\ call[c].pc \in {"idle", "begin", "query"}
      /\ UNCHANGED <<stock, lock, cache, late>> /\ ~call[c].committed
      /\ lock \in [Products -> Calls \cup {NoCall}] /\ cache \in [Entries -> SUBSET Snapshot]
      /\ late \in [Products -> SUBSET Calls]
  BY DEF Inv, TypeOK, Arrive, ReadCache, Query, At, NotYet, Working
<1>2. ASSUME NEW s \in CallState, call' = [call EXCEPT ![c] = s], ~s.committed,
             s.pc \in {"begin", "query", "fill", "done"}
      PROVE  Inv'
  BY <1>1, <1>2, CallStep
<1>3. ASSUME NEW pc \in {"begin", "query"}, Goto(c, pc) PROVE Inv'
  <2> DEFINE s == [call[c] EXCEPT !.pc = pc]
  <2>1. s \in CallState /\ s.pc = pc /\ s.committed = call[c].committed
    BY <1>1 DEF CallState, Pcs
  <2>2. call' = [call EXCEPT ![c] = s] BY <1>3 DEF Goto
  <2> HIDE DEF s
  <2> QED BY <1>1, <1>2, <2>1, <2>2
<1>4. CASE Arrive(c) BY <1>3, <1>4 DEF Arrive
<1>5. CASE ReadCache(c)
  <2> DEFINE e == EntryOf(c)
             s == [call[c] EXCEPT !.pc = "done", !.rows = cache[e], !.answer = "ok"]
  <2>1. CASE e \in Entries /\ cache[e] # {}
    <3>1. s \in CallState /\ s.pc = "done" /\ s.committed = call[c].committed
      BY <1>1, <2>1 DEF CallState, Pcs, Answers
    <3>2. call' = [call EXCEPT ![c] = s] BY <1>5, <2>1 DEF ReadCache
    <3> HIDE DEF s
    <3> QED BY <1>1, <1>2, <3>1, <3>2
  <2>2. CASE ~(e \in Entries /\ cache[e] # {}) BY <1>3, <1>5, <2>2 DEF ReadCache
  <2> QED BY <2>1, <2>2
<1>6. CASE Query(c)
  <2> DEFINE rows == {Current(EntryOf(c))}
             s == [call[c] EXCEPT !.pc = "fill", !.rows = rows]
  <2>1. rows \subseteq Snapshot BY <1>6, EntryType DEF Query
  <2>2. call' = [call EXCEPT ![c] = s] BY <1>6 DEF Query
  <2> HIDE DEF rows
  <2>3. s \in CallState /\ s.pc = "fill" /\ s.committed = call[c].committed
    BY <1>1, <2>1 DEF CallState, Pcs
  <2> HIDE DEF s
  <2> QED BY <1>1, <1>2, <2>2, <2>3
<1> QED BY <1>4, <1>5, <1>6

LEMMA AnswerStep ==
  ASSUME Inv, NEW c \in Calls, Invalidate(c) \/ FillCache(c) \/ NotFound(c) \/ RedisFails(c) \/ RollBack(c)
  PROVE  Inv'
<1>1. /\ call[c] \in CallState /\ lock \in [Products -> Calls \cup {NoCall}]
      /\ cache \in [Entries -> SUBSET Snapshot] /\ late \in [Products -> SUBSET Calls]
  BY DEF Inv, TypeOK
<1>2. \E a \in Answers : Respond(c, a)
  BY DEF Invalidate, FillCache, NotFound, RedisFails, RollBack, Answers
<1>3. cache' \in [Entries -> SUBSET Snapshot]
  BY <1>1 DEF Invalidate, FillCache, NotFound, RedisFails, RollBack, CallState
<1>4. /\ UNCHANGED stock /\ lock' \in [Products -> Calls \cup {NoCall}]
      /\ \A p \in Products : lock[p] \notin {NoCall, c} => lock'[p] = lock[p]
  BY <1>1 DEF Invalidate, FillCache, NotFound, RedisFails, RollBack
<1>5. late' \in [Products -> SUBSET Calls]
  BY <1>1 DEF Invalidate, FillCache, NotFound, RedisFails, RollBack, Emptied
<1> QED BY <1>2, <1>3, <1>4, <1>5, RespondStep

LEMMA ExpireStep == ASSUME Inv, NEW e \in Entries, Expire(e) PROVE Inv'
<1>1. TypeOK' BY DEF Inv, TypeOK, Expire, Emptied
<1> QED BY <1>1 DEF Inv, Expire, Locked, Selected, Updated, NotYet, RemainingTrue, Known

LEMMA CrashStep == ASSUME Inv, Crash PROVE Inv'
<1>1. /\ call \in [Calls -> CallState] /\ UNCHANGED <<stock, cache, late>>
      /\ call' = [c \in Calls |-> IF call[c].pc \in {"idle", "done", "dead"} THEN call[c]
                                  ELSE [call[c] EXCEPT !.pc = "dead"]]
      /\ lock' = [p \in Products |-> NoCall]
  BY DEF Inv, TypeOK, Crash
<1>2. \A c \in Calls : /\ call'[c] \in CallState /\ call'[c].pc \in {"idle", "done", "dead"}
                       /\ call'[c].pc = "idle" => call'[c] = call[c]
                       /\ call'[c].committed = call[c].committed
                       /\ call'[c].remaining = call[c].remaining /\ call'[c].new = call[c].new
  BY <1>1 DEF CallState, Pcs
<1>3. TypeOK' BY <1>1, <1>2 DEF Inv, TypeOK
<1>4. Locked' /\ Selected' /\ Updated' BY <1>2 DEF Locked, Selected, Updated
<1>5. NotYet' /\ RemainingTrue' BY <1>2 DEF Inv, NotYet, RemainingTrue, Working
<1> QED BY <1>3, <1>4, <1>5 DEF Inv

LEMMA StepInv == Inv /\ [Next]_vars => Inv'
<1> SUFFICES ASSUME Inv, [Next]_vars PROVE Inv' OBVIOUS
<1>1. ASSUME NEW c \in Calls, Arrive(c) \/ Work(c) \/ RedisFails(c) \/ RollBack(c) PROVE Inv'
  BY <1>1, SelectForUpdateStep, RefuseStep, UpdateRowStep, CommitStep, ReadStep, AnswerStep DEF Work
<1>2. ASSUME NEW e \in Entries, Expire(e) PROVE Inv' BY <1>2, ExpireStep
<1>3. CASE Crash BY <1>3, CrashStep
<1>4. CASE UNCHANGED vars
  BY <1>4 DEF vars, Inv, TypeOK, Locked, Selected, Updated, NotYet, RemainingTrue, Known
<1> QED BY <1>1, <1>2, <1>3, <1>4 DEF Next

LEMMA AlwaysInv == Spec => []Inv
<1>1. Init => Inv BY InitInv
<1>2. Inv /\ [Next]_vars => Inv' BY StepInv
<1> QED BY <1>1, <1>2, PTL DEF Spec

\* The type invariant: no interleaving of reserves takes stock below zero.
THEOREM StockNeverNegative == Spec => []TypeOK
<1>1. Inv => TypeOK BY DEF Inv
<1> QED BY <1>1, AlwaysInv, PTL

\* Every answered remainingStock is the stock the call committed.
THEOREM AnsweredStock == Spec => []RemainingTrue
<1>1. Inv => RemainingTrue BY DEF Inv
<1> QED BY <1>1, AlwaysInv, PTL

\* The service implements the ledger Checkout reserves against.
THEOREM ImplementsLedger == Spec => LedgerSpec
<1>1. Init => Ledger!Init BY DEF Init, Ledger!Init
<1>2. Inv /\ [Next]_vars => [Ledger!Next]_stock
  <2> SUFFICES ASSUME Inv, [Next]_vars PROVE [Ledger!Next]_stock OBVIOUS
  <2>1. ASSUME NEW c \in Calls, Commit(c) PROVE Ledger!Next
    <3> DEFINE p == ProductOf[c]
               q == QtyOf[c]
    <3>1. /\ p \in Products /\ q \in Quantities /\ stock' = [stock EXCEPT ![p] = call[c].new]
          /\ \/ stock[p] >= q /\ call[c].new = stock[p] - q
             \/ call[c].new = stock[p] + q
      BY <2>1 DEF Commit, At, Inv, Locked, Known, Updated, Quantities
    <3>2. Ledger!Reserve(p, q) \/ Ledger!Release(p, q)
      BY <3>1 DEF Ledger!Reserve, Ledger!Release
    <3> QED BY <3>1, <3>2 DEF Ledger!Next
  <2>2. UNCHANGED stock \/ \E c \in Calls : Commit(c)
    BY DEF Next, Arrive, Work, SelectForUpdate, Refuse, UpdateRow, Invalidate, ReadCache, Query,
           FillCache, NotFound, RedisFails, RollBack, Expire, Crash, vars
  <2> QED BY <2>1, <2>2
<1> QED BY <1>1, <1>2, AlwaysInv, PTL DEF Spec, LedgerSpec, Ledger!Spec

\* Nobody is refused while the committed stock would do: the row lock keeps what
\* a refused reserve has selected true until it answers (catalog.py:101-111).
THEOREM RefusalsJustified == Spec => RefusedOnlyWhenShort
<1>1. ASSUME Inv, Next, NEW c \in Calls, call'[c].answer = "refused", call[c].answer # "refused"
      PROVE  stock[ProductOf[c]] < QtyOf[c]
  <2>1. call \in [Calls -> CallState] BY <1>1 DEF Inv, TypeOK
  <2>2. ASSUME NEW d \in Calls, Refuse(d) PROVE stock[ProductOf[c]] < QtyOf[c]
    <3>1. d = c BY <1>1, <2>1, <2>2 DEF Refuse, Respond
    <3>2. call[c].seen < QtyOf[c] /\ call[c].seen = stock[ProductOf[c]]
      BY <1>1, <2>2, <3>1 DEF Refuse, At, Inv, Selected
    <3> QED BY <3>2
  <2>3. ASSUME NEW d \in Calls, Arrive(d) \/ SelectForUpdate(d) \/ UpdateRow(d) \/ Commit(d) \/ ReadCache(d) \/ Query(d)
        PROVE  FALSE
    <3>1. \A e \in Calls \ {d} : call'[e] = call[e]
      BY <2>1, <2>3 DEF Arrive, SelectForUpdate, UpdateRow, Commit, ReadCache, Query, Goto
    <3>2. d = c /\ call[c] \in CallState BY <1>1, <2>1, <3>1
    <3>3. \A pc \in Pcs : [call[c] EXCEPT !.pc = pc].answer = call[c].answer BY <3>2 DEF CallState
    <3>4. CASE Arrive(d) BY <1>1, <2>1, <3>2, <3>3, <3>4 DEF Arrive, Goto, Pcs
    <3>5. CASE SelectForUpdate(d) BY <1>1, <2>1, <3>2, <3>5 DEF SelectForUpdate, CallState
    <3>6. CASE UpdateRow(d) BY <1>1, <2>1, <3>2, <3>6 DEF UpdateRow, CallState
    <3>7. CASE Commit(d) BY <1>1, <2>1, <3>2, <3>7 DEF Commit, CallState
    <3>8. CASE Query(d)
      <4> DEFINE rows == {Current(EntryOf(c))}
      <4>1. call'[c] = [call[c] EXCEPT !.pc = "fill", !.rows = rows] BY <2>1, <3>2, <3>8 DEF Query
      <4> HIDE DEF rows
      <4> QED BY <1>1, <3>2, <4>1 DEF CallState
    <3>9. CASE ReadCache(d)
      <4> DEFINE rows == cache[EntryOf(c)]
      <4>1. \/ call'[c] = [call[c] EXCEPT !.pc = "done", !.rows = rows, !.answer = "ok"]
            \/ call'[c] = [call[c] EXCEPT !.pc = "query"]
        BY <2>1, <3>2, <3>9 DEF ReadCache, Goto
      <4> HIDE DEF rows
      <4> QED BY <1>1, <3>2, <4>1 DEF CallState
    <3> QED BY <2>3, <3>4, <3>5, <3>6, <3>7, <3>8, <3>9
  <2>4. ASSUME NEW d \in Calls, Invalidate(d) \/ FillCache(d) \/ NotFound(d) \/ RedisFails(d) \/ RollBack(d)
        PROVE  FALSE
    BY <1>1, <2>1, <2>4 DEF Invalidate, FillCache, NotFound, RedisFails, RollBack, Respond, CallState
  <2>5. ASSUME NEW e \in Entries, Expire(e) PROVE FALSE BY <1>1, <2>5 DEF Expire
  <2>6. CASE Crash BY <1>1, <2>1, <2>6 DEF Crash, CallState
  <2> QED BY <1>1, <2>2, <2>3, <2>4, <2>5, <2>6 DEF Next, Work
<1>2. Inv /\ [Next]_vars =>
        [\A c \in Calls : call'[c].answer = "refused" /\ call[c].answer # "refused"
                            => stock[ProductOf[c]] < QtyOf[c]]_vars
  BY <1>1
<1> QED BY <1>2, AlwaysInv, PTL DEF Spec, RefusedOnlyWhenShort

-----------------------------------------------------------------------------
(* Stale entries *)

\* Who queries and fills is a reader, who deletes a writer, and only a call that is over
\* has answered.
Roles    == \A c \in Calls : /\ call[c].pc \in {"query", "fill"} => OpOf[c] \notin Writes
                             /\ call[c].pc = "invalidate" => OpOf[c] \in Writes /\ Known(c)
                             /\ call[c].answer = "ok" => call[c].pc = "done"
LateOf   == \A p \in Products : \A c \in late[p] : EntryOf(c) = p

\* A reader about to fill an entry has the rows of the table, or is late.
FillsNew == \A c \in Calls : call[c].pc = "fill" /\ EntryOf(c) \in Products =>
              c \in late[EntryOf(c)] \/ call[c].rows \subseteq {Current(EntryOf(c))}
LateInv  == Roles /\ LateOf /\ FillsNew /\ StaleOnlyIfLate

\* A step of one call beside table, cache and history.
LEMMA LateFrame ==
  ASSUME TypeOK, LateInv, NEW c \in Calls, UNCHANGED <<stock, cache, late>>,
         \A d \in Calls : d # c => call'[d] = call[d],
         call[c].pc # "done",
         call'[c].pc # "invalidate",
         call'[c].answer = "ok" => call'[c].pc = "done" /\ OpOf[c] \notin Writes,
         call'[c].pc \in {"query", "fill"} => OpOf[c] \notin Writes,
         call'[c].pc = "fill" => call'[c].rows = {Current(EntryOf(c))}
  PROVE  LateInv'
<1>1. \A p : Current(p)' = Current(p) BY DEF Current
<1>2. Roles' BY DEF LateInv, Roles
<1>3. LateOf' BY DEF LateInv, LateOf
<1>4. FillsNew' BY <1>1 DEF LateInv, FillsNew
<1>5. StaleOnlyIfLate'
  <2> SUFFICES ASSUME NEW p \in Products, ~(cache[p] \subseteq {Current(p)})
               PROVE  \E d \in late[p] : IF OpOf[d] \in Writes THEN call'[d].answer # "ok"
                                                              ELSE call'[d].answer = "ok"
    BY <1>1 DEF StaleOnlyIfLate
  <2>1. PICK d \in late[p] : IF OpOf[d] \in Writes THEN call[d].answer # "ok" ELSE call[d].answer = "ok"
    BY DEF LateInv, StaleOnlyIfLate
  <2>2. d \in Calls BY DEF TypeOK
  <2>3. CASE d # c BY <2>1, <2>2, <2>3
  <2>4. CASE d = c BY <2>1, <2>2, <2>4 DEF LateInv, Roles
  <2> QED BY <2>3, <2>4
<1> QED BY <1>2, <1>3, <1>4, <1>5 DEF LateInv

LEMMA LateTransaction ==
  ASSUME Inv, LateInv, NEW c \in Calls,
         Arrive(c) \/ SelectForUpdate(c) \/ Refuse(c) \/ UpdateRow(c) \/ NotFound(c) \/ RedisFails(c) \/ RollBack(c)
  PROVE  LateInv'
<1>1. call \in [Calls -> CallState] /\ TypeOK BY DEF Inv, TypeOK
<1>2. UNCHANGED <<stock, cache, late>> /\ call[c].pc # "done" /\ call[c].answer # "ok"
  BY DEF LateInv, Roles, Arrive, SelectForUpdate, Refuse, UpdateRow, NotFound, RedisFails, RollBack, At
<1>3. /\ \A d \in Calls : d # c => call'[d] = call[d]
      /\ call'[c].pc \in {"begin", "update", "commit", "done"} /\ call'[c].answer # "ok"
  <2>1. call[c] \in CallState BY <1>1
  <2>2. CASE Arrive(c) BY <1>1, <1>2, <2>1, <2>2 DEF CallState, Arrive, Goto
  <2>3. CASE SelectForUpdate(c) BY <1>1, <1>2, <2>1, <2>3 DEF CallState, SelectForUpdate
  <2>4. CASE UpdateRow(c) BY <1>1, <1>2, <2>1, <2>4 DEF CallState, UpdateRow
  <2>5. CASE Refuse(c) \/ NotFound(c) \/ RedisFails(c) \/ RollBack(c)
    <3>1. \E a \in {"refused", "not_found", "error"} : Respond(c, a)
      BY <2>5 DEF Refuse, NotFound, RedisFails, RollBack
    <3> QED BY <1>1, <2>1, <3>1 DEF CallState, Respond
  <2> QED BY <2>2, <2>3, <2>4, <2>5
<1> QED BY <1>1, <1>2, <1>3, LateFrame

LEMMA LateRead == ASSUME Inv, LateInv, NEW c \in Calls, ReadCache(c) \/ Query(c) PROVE LateInv'
<1>1. /\ call \in [Calls -> CallState] /\ TypeOK /\ UNCHANGED <<stock, cache, late>>
      /\ call[c].pc # "done" /\ call[c].answer # "ok"
  BY DEF Inv, TypeOK, LateInv, Roles, ReadCache, Query, At
<1>2. CASE ReadCache(c)
  <2> DEFINE rows == cache[EntryOf(c)]
  <2>1. \/ call' = [call EXCEPT ![c] = [@ EXCEPT !.pc = "done", !.rows = rows, !.answer = "ok"]]
        \/ call' = [call EXCEPT ![c].pc = "query"]
    BY <1>2 DEF ReadCache, Goto
  <2>3. OpOf[c] \notin Writes BY <1>2 DEF ReadCache
  <2> HIDE DEF rows
  <2>2. /\ \A d \in Calls : d # c => call'[d] = call[d]
        /\ call'[c].pc \in {"done", "query"} /\ (call'[c].answer = "ok" => call'[c].pc = "done")
    BY <1>1, <2>1 DEF CallState
  <2> QED BY <1>1, <2>2, <2>3, LateFrame
<1>3. CASE Query(c)
  <2> DEFINE rows == {Current(EntryOf(c))}
  <2>1. call' = [call EXCEPT ![c] = [@ EXCEPT !.pc = "fill", !.rows = rows]] BY <1>3 DEF Query
  <2>2. OpOf[c] \notin Writes
    BY <1>3 DEF Query, At, LateInv, Roles
  <2> HIDE DEF rows
  <2>3. /\ \A d \in Calls : d # c => call'[d] = call[d]
        /\ call'[c].pc = "fill" /\ call'[c].answer # "ok" /\ call'[c].rows = rows
    BY <1>1, <2>1 DEF CallState
  <2> QED BY <1>1, <2>2, <2>3, LateFrame DEF rows
<1> QED BY <1>2, <1>3

\* The writer that commits, and the readers that have queried, become late.
LEMMA LateCommit == ASSUME Inv, LateInv, NEW c \in Calls, Commit(c) PROVE LateInv'
<1> DEFINE p == ProductOf[c]
<1>1. /\ call \in [Calls -> CallState] /\ TypeOK /\ stock \in [Products -> Nat]
      /\ late \in [Products -> SUBSET Calls] /\ p \in Products /\ OpOf[c] \in Writes
      /\ call[c].pc = "commit" /\ call[c].answer # "ok" /\ EntryOf(c) = p
  BY DEF Inv, TypeOK, Commit, At, Locked, Known, Updated, Writes, LateInv, Roles, EntryOf
<1>2. /\ late' = [late EXCEPT ![p] = {c} \cup Filling(p)] /\ UNCHANGED cache
      /\ stock' = [stock EXCEPT ![p] = call[c].new]
  BY DEF Commit
<1>3. /\ \A d \in Calls : d # c => call'[d] = call[d]
      /\ call'[c].pc = "invalidate" /\ call'[c].answer = call[c].answer
  BY <1>1 DEF Commit, CallState
<1>4. \A q \in Products : q # p => Current(q)' = Current(q) /\ late'[q] = late[q] /\ c \notin late[q]
  BY <1>1, <1>2, NoneAssumption DEF Current, Covers, LateInv, LateOf
<1>5. late'[p] = {c} \cup Filling(p) BY <1>1, <1>2
<1>6. Roles' BY <1>1, <1>3 DEF LateInv, Roles, Known
<1>7. LateOf'
  <2> SUFFICES ASSUME NEW q \in Products, NEW d \in late'[q] PROVE EntryOf(d) = q BY DEF LateOf, EntryOf
  <2>1. CASE q = p BY <1>1, <1>5, <2>1 DEF Filling
  <2>2. CASE q # p BY <1>4, <2>2 DEF LateInv, LateOf
  <2> QED BY <2>1, <2>2
<1>8. FillsNew'
  <2> SUFFICES ASSUME NEW d \in Calls, call'[d].pc = "fill", EntryOf(d) \in Products
               PROVE  d \in late'[EntryOf(d)] \/ call'[d].rows \subseteq {Current(EntryOf(d))'}
    BY DEF FillsNew, EntryOf
  <2>1. d # c /\ call'[d] = call[d] BY <1>3
  <2>2. CASE EntryOf(d) = p BY <1>5, <2>1, <2>2 DEF Filling, At
  <2>3. CASE EntryOf(d) # p BY <1>4, <2>1, <2>3 DEF LateInv, FillsNew
  <2> QED BY <2>2, <2>3
<1>9. StaleOnlyIfLate'
  <2> SUFFICES ASSUME NEW q \in Products, ~(cache[q] \subseteq {Current(q)'})
               PROVE  \E d \in late'[q] : IF OpOf[d] \in Writes THEN call'[d].answer # "ok"
                                                               ELSE call'[d].answer = "ok"
    BY <1>2 DEF StaleOnlyIfLate
  <2>1. CASE q = p BY <1>1, <1>3, <1>5, <2>1
  <2>2. CASE q # p
    <3>1. PICK d \in late[q] : IF OpOf[d] \in Writes THEN call[d].answer # "ok" ELSE call[d].answer = "ok"
      BY <1>4, <2>2 DEF LateInv, StaleOnlyIfLate
    <3> QED BY <1>1, <1>3, <1>4, <2>2, <3>1
  <2> QED BY <2>1, <2>2
<1> QED BY <1>6, <1>7, <1>8, <1>9 DEF LateInv

\* An entry that is emptied agrees with the table, and a call that answers 200
\* for having emptied it is no longer late.
LEMMA LateEmptied ==
  ASSUME Inv, LateInv, NEW p \in Products, Emptied(p), cache' = [cache EXCEPT ![p] = {}], UNCHANGED stock,
         \A d \in Calls : \/ call'[d] = call[d]
                          \/ EntryOf(d) = p /\ call[d].pc = "invalidate" /\ call'[d].pc = "done"
  PROVE  LateInv'
<1>1. /\ TypeOK /\ late \in [Products -> SUBSET Calls] /\ cache \in [Entries -> SUBSET Snapshot]
      /\ \A q : Current(q)' = Current(q)
  BY DEF Inv, TypeOK, Current
<1>2. \A q \in Products : late'[q] = IF q = p THEN late[q] \cap Filling(p) ELSE late[q]
  BY <1>1 DEF Emptied
<1>3. Roles' BY DEF LateInv, Roles
<1>4. LateOf' BY <1>2 DEF LateInv, LateOf, EntryOf
<1>5. FillsNew'
  <2> SUFFICES ASSUME NEW d \in Calls, call'[d].pc = "fill", EntryOf(d) \in Products
               PROVE  d \in late'[EntryOf(d)] \/ call'[d].rows \subseteq {Current(EntryOf(d))'}
    BY DEF FillsNew, EntryOf
  <2>1. call[d] = call'[d] OBVIOUS
  <2>2. d \in late[EntryOf(d)] => d \in late'[EntryOf(d)] BY <1>2, <2>1 DEF Filling, At
  <2> QED BY <1>1, <2>1, <2>2 DEF LateInv, FillsNew
<1>6. StaleOnlyIfLate'
  <2> SUFFICES ASSUME NEW q \in Products, ~(cache'[q] \subseteq {Current(q)'})
               PROVE  \E d \in late'[q] : IF OpOf[d] \in Writes THEN call'[d].answer # "ok"
                                                               ELSE call'[d].answer = "ok"
    BY DEF StaleOnlyIfLate
  <2>1. q # p /\ cache'[q] = cache[q] BY <1>1 DEF Entries
  <2>2. PICK d \in late[q] : IF OpOf[d] \in Writes THEN call[d].answer # "ok" ELSE call[d].answer = "ok"
    BY <1>1, <2>1 DEF LateInv, StaleOnlyIfLate
  <2>3. d \in Calls /\ EntryOf(d) = q BY <1>1 DEF LateInv, LateOf
  <2> QED BY <1>2, <2>1, <2>2, <2>3
<1> QED BY <1>3, <1>4, <1>5, <1>6 DEF LateInv

LEMMA LateInvalidate == ASSUME Inv, LateInv, NEW c \in Calls, Invalidate(c) PROVE LateInv'
<1>1. call \in [Calls -> CallState] /\ call[c].pc = "invalidate" BY DEF Inv, TypeOK, Invalidate, At
<1>2. EntryOf(c) = ProductOf[c] /\ ProductOf[c] \in Products
  BY <1>1 DEF LateInv, Roles, Known, EntryOf, Writes
<1>3. \A d \in Calls : call'[d] = call[d] \/ (d = c /\ call'[d].pc = "done")
  BY <1>1 DEF Invalidate, Respond, CallState
<1>4. cache' = [cache EXCEPT ![ProductOf[c]] = {}] /\ Emptied(ProductOf[c]) /\ UNCHANGED stock
  BY DEF Invalidate
<1> QED BY <1>1, <1>2, <1>3, <1>4, LateEmptied

LEMMA LateExpire == ASSUME Inv, LateInv, NEW e \in Entries, Expire(e) PROVE LateInv'
<1>1. CASE e \in Products
  <2>1. cache' = [cache EXCEPT ![e] = {}] /\ Emptied(e) /\ UNCHANGED <<call, stock>>
    BY <1>1 DEF Expire
  <2> QED BY <1>1, <2>1, LateEmptied
<1>2. CASE e \notin Products
  <2>1. UNCHANGED <<call, stock, late>> /\ \A p \in Products : cache'[p] = cache[p]
    BY <1>2 DEF Expire, Inv, TypeOK, Entries
  <2> QED BY <2>1 DEF LateInv, Roles, LateOf, FillsNew, StaleOnlyIfLate, Current, EntryOf, Known
<1> QED BY <1>1, <1>2

\* What a reader leaves in the entry is stale only if it is late.
LEMMA LateFill == ASSUME Inv, LateInv, NEW c \in Calls, FillCache(c) PROVE LateInv'
<1>1. /\ call \in [Calls -> CallState] /\ TypeOK /\ cache \in [Entries -> SUBSET Snapshot]
      /\ UNCHANGED <<stock, late>> /\ call[c].pc = "fill" /\ OpOf[c] \notin Writes
      /\ cache' = [cache EXCEPT ![EntryOf(c)] = call[c].rows] /\ \A q : Current(q)' = Current(q)
  BY DEF Inv, TypeOK, FillCache, At, LateInv, Roles, Current
<1>2. /\ \A d \in Calls : d # c => call'[d] = call[d]
      /\ call'[c].pc = "done" /\ call'[c].answer = "ok"
  BY <1>1 DEF FillCache, Respond, CallState
<1>3. Roles' BY <1>2 DEF LateInv, Roles
<1>4. LateOf' BY <1>1 DEF LateInv, LateOf
<1>5. FillsNew' BY <1>1, <1>2 DEF LateInv, FillsNew
<1>6. StaleOnlyIfLate'
  <2> SUFFICES ASSUME NEW q \in Products, ~(cache'[q] \subseteq {Current(q)})
               PROVE  \E d \in late[q] : IF OpOf[d] \in Writes THEN call'[d].answer # "ok"
                                                              ELSE call'[d].answer = "ok"
    BY <1>1 DEF StaleOnlyIfLate
  <2>1. CASE EntryOf(c) = q /\ c \in late[q] BY <1>1, <1>2, <2>1
  <2>2. CASE EntryOf(c) = q /\ c \notin late[q]
    BY <1>1, <2>2 DEF Entries, LateInv, FillsNew
  <2>3. CASE EntryOf(c) # q
    <3>1. cache'[q] = cache[q] BY <1>1, <2>3 DEF Entries
    <3>2. PICK d \in late[q] : IF OpOf[d] \in Writes THEN call[d].answer # "ok" ELSE call[d].answer = "ok"
      BY <3>1 DEF LateInv, StaleOnlyIfLate
    <3>3. d \in Calls /\ EntryOf(d) = q BY <1>1 DEF TypeOK, LateInv, LateOf
    <3> QED BY <1>2, <2>3, <3>2, <3>3
  <2> QED BY <2>1, <2>2, <2>3
<1> QED BY <1>3, <1>4, <1>5, <1>6 DEF LateInv

LEMMA LateCrash == ASSUME Inv, LateInv, Crash PROVE LateInv'
<1>1. /\ call \in [Calls -> CallState] /\ TypeOK /\ UNCHANGED <<stock, cache, late>>
      /\ call' = [c \in Calls |-> IF call[c].pc \in {"idle", "done", "dead"} THEN call[c]
                                  ELSE [call[c] EXCEPT !.pc = "dead"]]
      /\ \A q : Current(q)' = Current(q)
  BY DEF Inv, TypeOK, Crash, Current
<1>2. \A c \in Calls : call'[c] = call[c] \/ (call'[c].pc = "dead" /\ call'[c].answer = call[c].answer
                                             /\ call[c].pc # "done")
  BY <1>1 DEF CallState
<1>3. Roles' BY <1>2 DEF LateInv, Roles
<1>4. LateOf' BY <1>1 DEF LateInv, LateOf
<1>5. FillsNew' BY <1>1, <1>2 DEF LateInv, FillsNew
<1>6. \A c \in Calls : call'[c].answer = call[c].answer BY <1>2
<1>7. StaleOnlyIfLate' BY <1>1, <1>6 DEF LateInv, StaleOnlyIfLate, TypeOK
<1> QED BY <1>3, <1>4, <1>5, <1>7 DEF LateInv

LEMMA LateInit == Init => LateInv
  BY DEF Init, LateInv, Roles, LateOf, FillsNew, StaleOnlyIfLate, Fresh, Entries

LEMMA LateStep == Inv /\ LateInv /\ [Next]_vars => LateInv'
<1> SUFFICES ASSUME Inv, LateInv, [Next]_vars PROVE LateInv' OBVIOUS
<1>1. ASSUME NEW c \in Calls, Arrive(c) \/ Work(c) \/ RedisFails(c) \/ RollBack(c) PROVE LateInv'
  BY <1>1, LateTransaction, LateRead, LateCommit, LateInvalidate, LateFill DEF Work
<1>2. ASSUME NEW e \in Entries, Expire(e) PROVE LateInv' BY <1>2, LateExpire
<1>3. CASE Crash BY <1>3, LateCrash
<1>4. CASE UNCHANGED vars
  BY <1>4 DEF vars, LateInv, Roles, LateOf, FillsNew, StaleOnlyIfLate, Current, EntryOf, Known
<1> QED BY <1>1, <1>2, <1>3, <1>4 DEF Next

\* An entry disagrees with the table only while the write behind it has yet to
\* delete it, after that deletion failed, or by a reader that queried before the
\* commit and filled after the deletion (catalog.py:74-82, 116, 135).
THEOREM StaleHasCause == Spec => []StaleOnlyIfLate
<1>1. Init => Inv /\ LateInv BY InitInv, LateInit
<1>2. Inv /\ LateInv /\ [Next]_vars => (Inv /\ LateInv)' BY StepInv, LateStep
<1>3. LateInv => StaleOnlyIfLate BY DEF LateInv
<1> QED BY <1>1, <1>2, <1>3, PTL DEF Spec
==============================================================================
