--------------------------- MODULE CheckoutProofs ----------------------------
(***************************************************************************)
(* Safety of Checkout for every set of requests, keys and products, every  *)
(* set of lines and every bound.                                           *)
(***************************************************************************)
EXTENDS CheckoutInvariant, TLAPS

\* What the assumptions say of sizes and keys.
LEMMA Constants ==
  /\ MaxLine \in Nat /\ MaxMishaps \in Nat
  /\ \A r \in Requests : KeyOf[r] \in Keys /\ Size(r) \in 1..MaxLine /\ MaxLine > 0
  /\ NoRequest \notin Requests /\ NoKey \notin Keys
  BY KeyOfAssumption, LinesAssumption, FaultsAssumption, NoneAssumption DEF Size, LineNos

\* The item of a line in range is a product and a quantity.
LEMMA ItemType ==
  ASSUME NEW k \in Keys, Ordered(k), NEW l \in 1..Size(orders[k].by)
  PROVE  /\ Item(k, l).prod \in Products
         /\ Item(k, l).qty \in Nat \ {0}
         /\ l \in LineNos
<1> DEFINE r == orders[k].by
           I == [prod : Products, qty : Nat \ {0}]
<1>1. r \in Requests /\ Lines[r] \in Seq(I) /\ Len(Lines[r]) \in 1..MaxLine
  BY LinesAssumption DEF Ordered, LineNos
<1>2. l \in 1..Len(Lines[r]) /\ Item(k, l) = Lines[r][l]
  BY DEF Item, Size
<1>3. Lines[r][l] \in I
  <2> HIDE DEF I, r
  <2> QED BY <1>1, <1>2
<1> QED BY <1>1, <1>2, <1>3, Constants DEF LineNos

LEMMA NoRowType == NoRow \in Row
  BY DEF NoRow, Row, Statuses, Reasons

LEMMA FreshType == /\ Fresh \in RequestState
                   /\ \A a \in Statuses \cup {"error"} :
                        [Fresh EXCEPT !.pc = "done", !.answer = a] \in RequestState
                   /\ [Fresh EXCEPT !.pc = "dead"] \in RequestState
<1>1. Fresh \in RequestState
  <2>1. 0 \in 0..MaxLine BY Constants
  <2> QED BY <2>1, NoRowType DEF Fresh, RequestState, Pcs, FrontPcs, Reasons, Statuses
<1>2. \A a \in Statuses \cup {"error"} : [Fresh EXCEPT !.pc = "done", !.answer = a] \in RequestState
  BY <1>1 DEF RequestState, Pcs, EndPcs
<1>3. [Fresh EXCEPT !.pc = "dead"] \in RequestState
  BY <1>1 DEF RequestState, Pcs, EndPcs
<1> QED BY <1>1, <1>2, <1>3

\* The updates of a request's locals keep their type.
LEMMA FinishType ==
  ASSUME ReqOK, NEW r \in Requests, NEW a \in Statuses \cup {"error"}
  PROVE  Finish(r, a) \in [Requests -> RequestState]
  BY FreshType DEF Finish, ReqOK

LEMMA DieType ==
  ASSUME ReqOK, NEW r \in Requests
  PROVE  Die(r) \in [Requests -> RequestState]
  BY FreshType DEF Die, ReqOK

LEMMA GotoType ==
  ASSUME ReqOK, NEW r \in Requests, NEW pc \in Pcs
  PROVE  Goto(r, pc) \in [Requests -> RequestState]
  BY DEF Goto, ReqOK, RequestState

LEMMA NextLineType ==
  ASSUME ReqOK, NEW r \in Requests, NEW n \in 0..MaxLine, NEW pc \in Pcs, MaxLine > 0
  PROVE  NextLine(r, n, pc) \in [Requests -> RequestState]
<1>1. req[r] \in RequestState BY DEF ReqOK
<1>2. ASSUME req[r].line < n PROVE req[r].line + 1 \in 0..MaxLine
  BY <1>1, <1>2, Constants DEF RequestState
<1>3. 1 \in 0..MaxLine BY Constants
<1> QED BY <1>1, <1>2, <1>3 DEF NextLine, ReqOK, RequestState

LEMMA UndoType ==
  ASSUME ReqOK, NEW r \in Requests, NEW n \in 0..MaxLine, NEW why \in Reasons, MaxLine > 0
  PROVE  Undo(r, n, why) \in [Requests -> RequestState]
<1>1. 1 \in 0..MaxLine BY Constants
<1>2. (IF n = 0 THEN "fail" ELSE "undo") \in Pcs BY DEF Pcs, SagaPcs
<1> QED BY <1>1, <1>2 DEF Undo, ReqOK, RequestState

\* What a call does keeps the type of what it touches.
LEMMA DoReserveType ==
  ASSUME WorldOK, NEW k \in Keys, Ordered(k), NEW l \in 1..Size(orders[k].by), DoReserve(k, l)
  PROVE  WorldOK'
<1>1. Item(k, l).prod \in Products /\ Item(k, l).qty \in Nat \ {0} /\ l \in LineNos
  BY ItemType
<1>2. stock' \in [Products -> Nat]
  BY <1>1 DEF WorldOK, DoReserve, Ledger!Reserve
<1>3. held' \in [Keys -> [LineNos -> Int]]
  BY <1>1 DEF WorldOK, DoReserve
<1> QED BY <1>2, <1>3 DEF WorldOK, DoReserve

LEMMA DoReleaseType ==
  ASSUME WorldOK, NEW k \in Keys, Ordered(k), NEW l \in 1..Size(orders[k].by), DoRelease(k, l)
  PROVE  WorldOK'
<1>1. Item(k, l).prod \in Products /\ Item(k, l).qty \in Nat \ {0} /\ l \in LineNos
  BY ItemType
<1>2. stock' \in [Products -> Nat]
  BY <1>1 DEF WorldOK, DoRelease, Ledger!Release
<1>3. held' \in [Keys -> [LineNos -> Int]]
  BY <1>1 DEF WorldOK, DoRelease
<1> QED BY <1>2, <1>3 DEF WorldOK, DoRelease

LEMMA DoChargeType ==
  ASSUME WorldOK, NEW k \in Keys, NEW o \in Payment!Outcomes, DoCharge(k, o)
  PROVE  WorldOK'
  BY DEF WorldOK, DoCharge, Payment!Charge

LEMMA DoClearType == ASSUME WorldOK, NEW k \in Keys, DoClear(k) PROVE WorldOK'
  BY DEF WorldOK, DoClear

LEMMA CallType ==
  ASSUME TypeOK, NEW op \in {"reserve", "release", "charge", "clear"}, NEW k \in Keys,
         NEW l \in 0..MaxLine, NEW from \in Requests \cup {NoRequest}
  PROVE  Call(op, k, l, from) \in Calls
  BY DEF TypeOK, Call, Calls

LEMMA LoseType ==
  ASSUME WorldOK, LateOK, NEW c \in Calls, Lose(c)
  PROVE  WorldOK' /\ LateOK' /\ late' = late \cup {c}
  BY DEF Lose, WorldOK, LateOK, world

LEMMA ReleaseStockType ==
  ASSUME TypeOK, NEW k \in Keys, Ordered(k), NEW l \in 1..Size(orders[k].by),
         NEW from \in Requests \cup {NoRequest}, ReleaseStock(k, l, from)
  PROVE  /\ WorldOK' /\ LateOK'
         /\ \A c \in late' : c \in late \/ (c.key = k /\ c.line = l /\ c.op = "release")
<1>1. l \in LineNos /\ l \in 0..MaxLine BY ItemType DEF LineNos
<1>2. CASE DoRelease(k, l) /\ UNCHANGED late
  BY <1>2, DoReleaseType DEF TypeOK, LateOK
<1>3. CASE Lose(Call("release", k, l, from))
  <2>1. Call("release", k, l, from) \in Calls BY <1>1, CallType
  <2> QED BY <1>3, <2>1, LoseType DEF TypeOK, Call
<1> QED BY <1>2, <1>3 DEF ReleaseStock

LEMMA ClearCartItemsType ==
  ASSUME TypeOK, NEW k \in Keys, NEW from \in Requests \cup {NoRequest}, ClearCartItems(k, from)
  PROVE  /\ WorldOK' /\ LateOK'
         /\ \A c \in late' : c \in late \/ c.op = "clear"
<1>1. CASE DoClear(k) /\ UNCHANGED late
  BY <1>1, DoClearType DEF TypeOK, LateOK
<1>2. CASE Lose(Call("clear", k, 0, from))
  <2>1. Call("clear", k, 0, from) \in Calls BY Constants, CallType
  <2> QED BY <1>2, <2>1, LoseType DEF TypeOK, Call
<1> QED BY <1>1, <1>2 DEF ClearCartItems

LEMMA PublishType ==
  ASSUME KafkaOK, NEW k \in Keys, NEW e \in Events, Publish(k, e)
  PROVE  KafkaOK'
<1>1. CASE topic' = [topic EXCEPT ![k] = Append(@, e)] /\ UNCHANGED unsent
  BY <1>1 DEF KafkaOK
<1>2. CASE unsent' = [unsent EXCEPT ![k] = @ \cup {e}] /\ UNCHANGED topic
  BY <1>2 DEF KafkaOK
<1> QED BY <1>1, <1>2 DEF Publish

-----------------------------------------------------------------------------
(* Ownership: one lemma per action *)

\* Loading the row into the session keeps the type of the locals.
LEMMA LoadType ==
  ASSUME ReqOK, OrdersOK, NEW r \in Requests, NEW pc \in Pcs
  PROVE  /\ [req[r] EXCEPT !.pc = pc, !.seen = orders[KeyOf[r]]] \in RequestState
         /\ [req[r] EXCEPT !.pc = pc, !.line = 1, !.seen = orders[KeyOf[r]]] \in RequestState
<1>1. req[r] \in RequestState /\ orders[KeyOf[r]] \in Row BY Constants DEF ReqOK, OrdersOK
<1>2. 1 \in 0..MaxLine BY Constants
<1> QED BY <1>1, <1>2 DEF RequestState

LEMMA LookupOwnership == ASSUME Ownership, NEW r \in Requests, Lookup(r) PROVE Ownership'
<1>1. TypeOK'
  <2>1. ReqOK'
    BY Constants, FinishType, GotoType DEF Ownership, TypeOK, ReqOK, Lookup, OrdersOK, Row, Pcs, FrontPcs
  <2> QED BY <2>1 DEF Lookup, Ownership, TypeOK, OrdersOK, LoopOK, WorldOK, LateOK, KafkaOK, world, kafka
<1>2. RowsOwned'
  BY DEF Ownership, RowsOwned, Lookup, Ordered
<1>3. SagaOwnsRow'
  BY DEF Ownership, SagaOwnsRow, Lookup, At, Goto, Finish, Fresh, TypeOK, ReqOK, SagaPcs, TailPcs, RequestState
<1>4. LinesInRange'
  BY DEF Ownership, LinesInRange, Lookup, At, Goto, Finish, Fresh, TypeOK, ReqOK, RequestState
<1>5. LoopOnOrders'
  BY DEF Ownership, LoopOnOrders, Lookup, Ordered
<1>6. LateOnItems'
  BY DEF Ownership, LateOnItems, Lookup, Ordered
<1> QED BY <1>1, <1>2, <1>3, <1>4, <1>5, <1>6 DEF Ownership

LEMMA RejectOwnership == ASSUME Ownership, NEW r \in Requests, Reject(r) PROVE Ownership'
<1>1. TypeOK'
  <2>1. ReqOK'
    BY FinishType DEF Ownership, TypeOK, ReqOK, Reject
  <2> QED BY <2>1 DEF Reject, Ownership, TypeOK, OrdersOK, LoopOK, WorldOK, LateOK, KafkaOK, world, kafka
<1>2. RowsOwned'
  BY DEF Ownership, RowsOwned, Reject, Ordered
<1>3. SagaOwnsRow'
  BY DEF Ownership, SagaOwnsRow, Reject, At, Finish, Fresh, TypeOK, ReqOK, SagaPcs, TailPcs, RequestState
<1>4. LinesInRange'
  BY DEF Ownership, LinesInRange, Reject, At, Finish, Fresh, TypeOK, ReqOK, RequestState
<1>5. LoopOnOrders'
  BY DEF Ownership, LoopOnOrders, Reject, Ordered
<1>6. LateOnItems'
  BY DEF Ownership, LateOnItems, Reject, Ordered
<1> QED BY <1>1, <1>2, <1>3, <1>4, <1>5, <1>6 DEF Ownership

LEMMA AnnounceCreatedOwnership == ASSUME Ownership, NEW r \in Requests, AnnounceCreated(r) PROVE Ownership'
<1>1. TypeOK'
  <2>1. ReqOK'
    BY LoadType DEF Ownership, TypeOK, ReqOK, AnnounceCreated, Pcs, SagaPcs
  <2>2. KafkaOK'
    BY Constants, PublishType DEF Ownership, TypeOK, AnnounceCreated, Events
  <2> QED BY <2>1, <2>2 DEF AnnounceCreated, Ownership, TypeOK, OrdersOK, LoopOK, WorldOK, LateOK, KafkaOK, world, kafka
<1>2. RowsOwned'
  BY DEF Ownership, RowsOwned, AnnounceCreated, Ordered
<1>3. SagaOwnsRow'
  BY DEF Ownership, SagaOwnsRow, AnnounceCreated, At, Fresh, TypeOK, ReqOK, SagaPcs, TailPcs, RequestState
<1>4. LinesInRange'
  BY Constants DEF Ownership, LinesInRange, AnnounceCreated, At, TypeOK, ReqOK, RequestState
<1>5. LoopOnOrders'
  BY DEF Ownership, LoopOnOrders, AnnounceCreated, Ordered
<1>6. LateOnItems'
  BY DEF Ownership, LateOnItems, AnnounceCreated, Ordered
<1> QED BY <1>1, <1>2, <1>3, <1>4, <1>5, <1>6 DEF Ownership

LEMMA ReloadOwnership == ASSUME Ownership, NEW r \in Requests, Reload(r) PROVE Ownership'
<1>1. TypeOK'
  <2>1. ReqOK'
    BY LoadType DEF Ownership, TypeOK, ReqOK, Reload, Pcs, SagaPcs
  <2> QED BY <2>1 DEF Reload, Ownership, TypeOK, OrdersOK, LoopOK, WorldOK, LateOK, KafkaOK, world, kafka
<1>2. RowsOwned'
  BY DEF Ownership, RowsOwned, Reload, Ordered
<1>3. SagaOwnsRow'
  BY DEF Ownership, SagaOwnsRow, Reload, At, Fresh, TypeOK, ReqOK, SagaPcs, TailPcs, RequestState
<1>4. LinesInRange'
  BY DEF Ownership, LinesInRange, Reload, At, Fresh, TypeOK, ReqOK, RequestState
<1>5. LoopOnOrders'
  BY DEF Ownership, LoopOnOrders, Reload, Ordered
<1>6. LateOnItems'
  BY DEF Ownership, LateOnItems, Reload, Ordered
<1> QED BY <1>1, <1>2, <1>3, <1>4, <1>5, <1>6 DEF Ownership

LEMMA AnnounceOutcomeOwnership == ASSUME Ownership, NEW r \in Requests, AnnounceOutcome(r) PROVE Ownership'
<1>1. TypeOK'
  <2>1. ReqOK'
    BY LoadType DEF Ownership, TypeOK, ReqOK, AnnounceOutcome, Pcs, TailPcs
  <2>2. KafkaOK'
    BY Constants, PublishType DEF Ownership, TypeOK, AnnounceOutcome, OutcomeEvent, Events
  <2> QED BY <2>1, <2>2 DEF AnnounceOutcome, Ownership, TypeOK, OrdersOK, LoopOK, WorldOK, LateOK, KafkaOK, world, kafka
<1>2. RowsOwned'
  BY DEF Ownership, RowsOwned, AnnounceOutcome, Ordered
<1>3. SagaOwnsRow'
  BY DEF Ownership, SagaOwnsRow, AnnounceOutcome, At, Fresh, TypeOK, ReqOK, SagaPcs, TailPcs, RequestState
<1>4. LinesInRange'
  BY DEF Ownership, LinesInRange, AnnounceOutcome, At, Fresh, TypeOK, ReqOK, RequestState
<1>5. LoopOnOrders'
  BY DEF Ownership, LoopOnOrders, AnnounceOutcome, Ordered
<1>6. LateOnItems'
  BY DEF Ownership, LateOnItems, AnnounceOutcome, Ordered
<1> QED BY <1>1, <1>2, <1>3, <1>4, <1>5, <1>6 DEF Ownership

LEMMA AbortOwnership == ASSUME Ownership, NEW r \in Requests, Abort(r) PROVE Ownership'
<1>1. TypeOK'
  <2>1. ReqOK'
    BY DieType DEF Ownership, TypeOK, ReqOK, Abort
  <2> QED BY <2>1, Constants DEF Abort, Ownership, TypeOK, OrdersOK, LoopOK, WorldOK, LateOK, KafkaOK, world, kafka
<1>2. RowsOwned'
  BY DEF Ownership, RowsOwned, Abort, Ordered
<1>3. SagaOwnsRow'
  BY DEF Ownership, SagaOwnsRow, Abort, At, Die, Fresh, TypeOK, ReqOK, SagaPcs, TailPcs, RequestState
<1>4. LinesInRange'
  BY DEF Ownership, LinesInRange, Abort, At, Die, Fresh, TypeOK, ReqOK, RequestState
<1>5. LoopOnOrders'
  BY DEF Ownership, LoopOnOrders, Abort, Ordered
<1>6. LateOnItems'
  BY DEF Ownership, LateOnItems, Abort, Ordered
<1> QED BY <1>1, <1>2, <1>3, <1>4, <1>5, <1>6 DEF Ownership

\* What a saga in a given place may rely on.
LEMMA SagaFacts ==
  ASSUME Ownership, NEW r \in Requests, req[r].pc \in SagaPcs \cup TailPcs
  PROVE  /\ KeyOf[r] \in Keys /\ Ordered(KeyOf[r]) /\ orders[KeyOf[r]].by = r
         /\ Size(r) \in 1..MaxLine /\ MaxLine > 0
         /\ req[r] \in RequestState /\ orders[KeyOf[r]] \in Row
         /\ req[r].pc = "reserve" => /\ req[r].line \in 1..Size(r)
                                    /\ req[r].line \in 0..MaxLine
                                    /\ req[r].line - 1 \in 0..MaxLine
         /\ req[r].pc = "undo" => /\ req[r].upto \in 1..Size(r)
                                 /\ req[r].upto \in 0..MaxLine
                                 /\ req[r].line \in 1..req[r].upto
                                 /\ req[r].line \in 1..Size(r)
<1>1. /\ KeyOf[r] \in Keys /\ orders[KeyOf[r]].by = r
      /\ Size(r) \in 1..MaxLine /\ MaxLine \in Nat
      /\ req[r] \in RequestState /\ orders[KeyOf[r]] \in Row
  BY Constants DEF Ownership, TypeOK, ReqOK, OrdersOK, SagaOwnsRow
<1>2. /\ req[r].pc = "reserve" => req[r].line \in 1..Size(r)
      /\ req[r].pc = "undo" => req[r].upto \in 1..Size(r) /\ req[r].line \in 1..req[r].upto
  BY DEF Ownership, LinesInRange
<1> QED BY <1>1, <1>2 DEF Ordered

LEMMA InsertOwnership == ASSUME Ownership, NEW r \in Requests, Insert(r) PROVE Ownership'
<1>k. KeyOf[r] \in Keys /\ req[r].pc = "insert" BY Constants DEF Insert, At
<1>i. \/ /\ req' = Finish(r, orders[KeyOf[r]].status) /\ orders' = orders
         /\ orders[KeyOf[r]].status # "NONE"
      \/ /\ req' = Goto(r, "created")
         /\ orders' = [orders EXCEPT ![KeyOf[r]] = Pending(r)]
         /\ orders[KeyOf[r]].status = "NONE"
  BY DEF Insert, KeyTaken
<1>p. Pending(r) \in Row /\ Pending(r).by = r /\ Pending(r).status = "PENDING"
  BY NoRowType DEF Pending, Row, Statuses, NoRow
<1>o. /\ OrdersOK'
      /\ \A k \in Keys : orders'[k] = orders[k] \/ (orders'[k] = Pending(r) /\ k = KeyOf[r] /\ ~Ordered(k))
  BY <1>k, <1>i, <1>p DEF Ownership, TypeOK, OrdersOK, RowsOwned
<1>u. Ordered(KeyOf[r])' /\ UNCHANGED <<loop, late>>
  BY <1>k, <1>i, <1>p DEF Ownership, TypeOK, OrdersOK, RowsOwned, Ordered, Insert
<1>1. TypeOK'
  <2>1. ReqOK'
    BY <1>k, <1>i, FinishType, GotoType DEF Ownership, TypeOK, ReqOK, OrdersOK, Row, Pcs, SagaPcs
  <2>2. OrdersOK'
    BY <1>o
  <2> QED BY <2>1, <2>2 DEF Insert, Ownership, TypeOK, OrdersOK, LoopOK, WorldOK, LateOK, KafkaOK, world, kafka
<1>2. RowsOwned'
  BY <1>k, <1>o, <1>p DEF Ownership, RowsOwned, Ordered
<1>3. SagaOwnsRow'
  <2> SUFFICES ASSUME NEW s \in Requests, req'[s].pc \in SagaPcs \cup TailPcs
               PROVE  orders'[KeyOf[s]].by = s
    BY DEF SagaOwnsRow
  <2>1. CASE s = r
    <3>1. req' # Finish(r, orders[KeyOf[r]].status)
      BY <2>1 DEF Ownership, TypeOK, ReqOK, Finish, Fresh, SagaPcs, TailPcs
    <3>2. orders' = [orders EXCEPT ![KeyOf[r]] = Pending(r)] BY <1>i, <3>1
    <3> QED BY <1>k, <1>p, <2>1, <3>2 DEF Ownership, TypeOK, OrdersOK
  <2>2. CASE s # r
    <3>1. req'[s] = req[s] BY <1>i, <2>2 DEF Goto, Finish, Ownership, TypeOK, ReqOK
    <3>2. orders[KeyOf[s]].by = s BY <3>1 DEF Ownership, SagaOwnsRow
    <3> QED BY <3>2, <1>o, Constants DEF Ordered
  <2> QED BY <2>1, <2>2
<1>4. LinesInRange'
  BY <1>k, <1>i DEF Ownership, LinesInRange, Goto, Finish, Fresh, TypeOK, ReqOK, RequestState
<1>5. LoopOnOrders'
  BY <1>u, <1>o, <1>p DEF Ownership, TypeOK, LoopOK, LoopState, LoopOnOrders, Ordered
<1>6. LateOnItems'
  BY <1>u, <1>o, <1>p DEF Ownership, TypeOK, LateOK, Calls, LateOnItems, Ordered
<1> QED BY <1>1, <1>2, <1>3, <1>4, <1>5, <1>6 DEF Ownership

LEMMA SetStockReservedOwnership == ASSUME Ownership, NEW r \in Requests, SetStockReserved(r) PROVE Ownership'
<1> USE DEF At
<1>0. req[r].pc = "flag" /\ req[r].pc \in SagaPcs \cup TailPcs
  BY DEF SetStockReserved, SagaPcs, TailPcs
<1>f. /\ KeyOf[r] \in Keys /\ Ordered(KeyOf[r]) /\ orders[KeyOf[r]].by = r
      /\ Size(r) \in 1..MaxLine /\ MaxLine > 0 /\ Size(r) \in 0..MaxLine
  BY <1>0, SagaFacts
<1>i. \/ req' = Die(r) /\ orders' = orders
      \/ /\ req' = Goto(r, "reload")
         /\ orders' = [orders EXCEPT ![KeyOf[r]].flag = TRUE]
  BY DEF SetStockReserved, Conflict
<1>n. orders[KeyOf[r]].status # "NONE" BY <1>f DEF Ownership, RowsOwned
<1>o. /\ OrdersOK'
      /\ \A k \in Keys : /\ orders'[k].by = orders[k].by
                         /\ orders'[k].status = "NONE" <=> orders[k].status = "NONE"
  <2>1. orders[KeyOf[r]] \in Row /\ req[r].why \in Reasons /\ orders \in [Keys -> Row]
    BY <1>0, SagaFacts DEF RequestState, Ownership, TypeOK, OrdersOK
  <2>2. CASE orders' = orders
    BY <2>1, <2>2 DEF OrdersOK
  <2> DEFINE row == [orders[KeyOf[r]] EXCEPT !.flag = TRUE]
  <2>3. row \in Row /\ row.by = orders[KeyOf[r]].by /\ row.status # "NONE"
    BY <2>1, <1>n DEF Row, Statuses
  <2>4. CASE orders' = [orders EXCEPT ![KeyOf[r]].flag = TRUE]
    <3>1. orders' = [orders EXCEPT ![KeyOf[r]] = row] BY <2>4, <2>1, <1>f
    <3> HIDE DEF row
    <3> QED BY <3>1, <2>1, <2>3, <1>f, <1>n DEF OrdersOK
  <2> QED BY <1>i, <2>2, <2>4
<1>u. UNCHANGED <<loop, late>> BY DEF SetStockReserved
<1>1. TypeOK'
  <2>1. ReqOK'
    BY <1>i, DieType, GotoType DEF Ownership, TypeOK, ReqOK, Pcs, SagaPcs, TailPcs
  <2>2. OrdersOK'
    BY <1>o
  <2> QED BY <2>1, <2>2 DEF SetStockReserved, Ownership, TypeOK, OrdersOK, LoopOK, WorldOK, LateOK, KafkaOK, world, kafka
<1>2. RowsOwned'
  BY <1>o DEF Ownership, RowsOwned, Ordered
<1>3. SagaOwnsRow'
  BY Constants, <1>0, <1>f, <1>i, <1>o DEF Ownership, SagaOwnsRow, Die, Goto, Fresh, TypeOK, ReqOK, SagaPcs, TailPcs, RequestState
<1>4. LinesInRange'
  BY <1>0, <1>i DEF Ownership, LinesInRange, Die, Goto, Fresh, TypeOK, ReqOK, RequestState
<1>5. LoopOnOrders'
  BY <1>u, <1>o DEF Ownership, TypeOK, LoopOK, LoopState, LoopOnOrders, Ordered
<1>6. LateOnItems'
  BY <1>u, <1>o DEF Ownership, TypeOK, LateOK, Calls, LateOnItems, Ordered
<1> QED BY <1>1, <1>2, <1>3, <1>4, <1>5, <1>6 DEF Ownership

LEMMA CommitFailedOwnership == ASSUME Ownership, NEW r \in Requests, CommitFailed(r) PROVE Ownership'
<1> USE DEF At
<1>0. req[r].pc = "fail" /\ req[r].pc \in SagaPcs \cup TailPcs
  BY DEF CommitFailed, SagaPcs, TailPcs
<1>f. /\ KeyOf[r] \in Keys /\ Ordered(KeyOf[r]) /\ orders[KeyOf[r]].by = r
      /\ Size(r) \in 1..MaxLine /\ MaxLine > 0 /\ Size(r) \in 0..MaxLine
  BY <1>0, SagaFacts
<1>i. \/ req' = Die(r) /\ orders' = orders
      \/ /\ req' = Goto(r, "tell")
         /\ orders' = [orders EXCEPT ![KeyOf[r]] = [@ EXCEPT !.status = "FAILED", !.reason = req[r].why]]
  BY DEF CommitFailed, Conflict
<1>n. orders[KeyOf[r]].status # "NONE" BY <1>f DEF Ownership, RowsOwned
<1>o. /\ OrdersOK'
      /\ \A k \in Keys : /\ orders'[k].by = orders[k].by
                         /\ orders'[k].status = "NONE" <=> orders[k].status = "NONE"
  <2>1. orders[KeyOf[r]] \in Row /\ req[r].why \in Reasons /\ orders \in [Keys -> Row]
    BY <1>0, SagaFacts DEF RequestState, Ownership, TypeOK, OrdersOK
  <2>2. CASE orders' = orders
    BY <2>1, <2>2 DEF OrdersOK
  <2> DEFINE row == [orders[KeyOf[r]] EXCEPT !.status = "FAILED", !.reason = req[r].why]
  <2>3. row \in Row /\ row.by = orders[KeyOf[r]].by /\ row.status # "NONE"
    BY <2>1, <1>n DEF Row, Statuses
  <2>4. CASE orders' = [orders EXCEPT ![KeyOf[r]] = [@ EXCEPT !.status = "FAILED", !.reason = req[r].why]]
    <3>1. orders' = [orders EXCEPT ![KeyOf[r]] = row] BY <2>4, <2>1, <1>f
    <3> HIDE DEF row
    <3> QED BY <3>1, <2>1, <2>3, <1>f, <1>n DEF OrdersOK
  <2> QED BY <1>i, <2>2, <2>4
<1>u. UNCHANGED <<loop, late>> BY DEF CommitFailed
<1>1. TypeOK'
  <2>1. ReqOK'
    BY <1>i, DieType, GotoType DEF Ownership, TypeOK, ReqOK, Pcs, SagaPcs, TailPcs
  <2>2. OrdersOK'
    BY <1>o
  <2> QED BY <2>1, <2>2 DEF CommitFailed, Ownership, TypeOK, OrdersOK, LoopOK, WorldOK, LateOK, KafkaOK, world, kafka
<1>2. RowsOwned'
  BY <1>o DEF Ownership, RowsOwned, Ordered
<1>3. SagaOwnsRow'
  BY Constants, <1>0, <1>f, <1>i, <1>o DEF Ownership, SagaOwnsRow, Die, Goto, Fresh, TypeOK, ReqOK, SagaPcs, TailPcs, RequestState
<1>4. LinesInRange'
  BY <1>0, <1>i DEF Ownership, LinesInRange, Die, Goto, Fresh, TypeOK, ReqOK, RequestState
<1>5. LoopOnOrders'
  BY <1>u, <1>o DEF Ownership, TypeOK, LoopOK, LoopState, LoopOnOrders, Ordered
<1>6. LateOnItems'
  BY <1>u, <1>o DEF Ownership, TypeOK, LateOK, Calls, LateOnItems, Ordered
<1> QED BY <1>1, <1>2, <1>3, <1>4, <1>5, <1>6 DEF Ownership

LEMMA CommitPaidOwnership == ASSUME Ownership, NEW r \in Requests, CommitPaid(r) PROVE Ownership'
<1> USE DEF At
<1>0. req[r].pc = "pay" /\ req[r].pc \in SagaPcs \cup TailPcs
  BY DEF CommitPaid, SagaPcs, TailPcs
<1>f. /\ KeyOf[r] \in Keys /\ Ordered(KeyOf[r]) /\ orders[KeyOf[r]].by = r
      /\ Size(r) \in 1..MaxLine /\ MaxLine > 0 /\ Size(r) \in 0..MaxLine
  BY <1>0, SagaFacts
<1>i. \/ req' = Die(r) /\ orders' = orders
      \/ /\ req' = Goto(r, "tell")
         /\ orders' = [orders EXCEPT ![KeyOf[r]].status = "PAID"]
  BY DEF CommitPaid, Conflict
<1>n. orders[KeyOf[r]].status # "NONE" BY <1>f DEF Ownership, RowsOwned
<1>o. /\ OrdersOK'
      /\ \A k \in Keys : /\ orders'[k].by = orders[k].by
                         /\ orders'[k].status = "NONE" <=> orders[k].status = "NONE"
  <2>1. orders[KeyOf[r]] \in Row /\ req[r].why \in Reasons /\ orders \in [Keys -> Row]
    BY <1>0, SagaFacts DEF RequestState, Ownership, TypeOK, OrdersOK
  <2>2. CASE orders' = orders
    BY <2>1, <2>2 DEF OrdersOK
  <2> DEFINE row == [orders[KeyOf[r]] EXCEPT !.status = "PAID"]
  <2>3. row \in Row /\ row.by = orders[KeyOf[r]].by /\ row.status # "NONE"
    BY <2>1, <1>n DEF Row, Statuses
  <2>4. CASE orders' = [orders EXCEPT ![KeyOf[r]].status = "PAID"]
    <3>1. orders' = [orders EXCEPT ![KeyOf[r]] = row] BY <2>4, <2>1, <1>f
    <3> HIDE DEF row
    <3> QED BY <3>1, <2>1, <2>3, <1>f, <1>n DEF OrdersOK
  <2> QED BY <1>i, <2>2, <2>4
<1>u. UNCHANGED <<loop, late>> BY DEF CommitPaid
<1>1. TypeOK'
  <2>1. ReqOK'
    BY <1>i, DieType, GotoType DEF Ownership, TypeOK, ReqOK, Pcs, SagaPcs, TailPcs
  <2>2. OrdersOK'
    BY <1>o
  <2> QED BY <2>1, <2>2 DEF CommitPaid, Ownership, TypeOK, OrdersOK, LoopOK, WorldOK, LateOK, KafkaOK, world, kafka
<1>2. RowsOwned'
  BY <1>o DEF Ownership, RowsOwned, Ordered
<1>3. SagaOwnsRow'
  BY Constants, <1>0, <1>f, <1>i, <1>o DEF Ownership, SagaOwnsRow, Die, Goto, Fresh, TypeOK, ReqOK, SagaPcs, TailPcs, RequestState
<1>4. LinesInRange'
  BY <1>0, <1>i DEF Ownership, LinesInRange, Die, Goto, Fresh, TypeOK, ReqOK, RequestState
<1>5. LoopOnOrders'
  BY <1>u, <1>o DEF Ownership, TypeOK, LoopOK, LoopState, LoopOnOrders, Ordered
<1>6. LateOnItems'
  BY <1>u, <1>o DEF Ownership, TypeOK, LateOK, Calls, LateOnItems, Ordered
<1> QED BY <1>1, <1>2, <1>3, <1>4, <1>5, <1>6 DEF Ownership

LEMMA ReserveLineOwnership == ASSUME Ownership, NEW r \in Requests, ReserveLine(r) PROVE Ownership'
<1> USE DEF At
<1>0. req[r].pc = "reserve" /\ req[r].pc \in SagaPcs \cup TailPcs
  BY DEF ReserveLine, SagaPcs, TailPcs
<1>f. /\ KeyOf[r] \in Keys /\ Ordered(KeyOf[r]) /\ orders[KeyOf[r]].by = r
      /\ Size(r) \in 1..MaxLine /\ MaxLine > 0 /\ Size(r) \in 0..MaxLine
  BY <1>0, SagaFacts
<1>1. TypeOK'
  <2>1. ReqOK'
    BY <1>0, <1>f, NextLineType DEF Ownership, TypeOK, ReserveLine, ReqOK, Pcs, SagaPcs
  <2>2. WorldOK'
    BY <1>0, <1>f, SagaFacts, DoReserveType DEF Ownership, TypeOK, ReserveLine
  <2> QED BY <2>1, <2>2 DEF ReserveLine, Ownership, TypeOK, OrdersOK, LoopOK, WorldOK, LateOK, KafkaOK, world, kafka
<1>2. RowsOwned'
  BY DEF Ownership, RowsOwned, ReserveLine, Ordered
<1>3. SagaOwnsRow'
  BY <1>0, <1>f DEF Ownership, SagaOwnsRow, ReserveLine, NextLine, TypeOK, ReqOK, SagaPcs, TailPcs, RequestState
<1>4. LinesInRange'
  BY <1>0, <1>f, SagaFacts DEF Ownership, LinesInRange, ReserveLine, NextLine, TypeOK, ReqOK, RequestState
<1>5. LoopOnOrders'
  BY DEF Ownership, LoopOnOrders, ReserveLine, Ordered
<1>6. LateOnItems'
  BY DEF Ownership, LateOnItems, ReserveLine, Ordered
<1> QED BY <1>1, <1>2, <1>3, <1>4, <1>5, <1>6 DEF Ownership

LEMMA ReserveRefusedOwnership == ASSUME Ownership, NEW r \in Requests, ReserveRefused(r) PROVE Ownership'
<1> USE DEF At
<1>0. req[r].pc = "reserve" /\ req[r].pc \in SagaPcs \cup TailPcs
  BY DEF ReserveRefused, SagaPcs, TailPcs
<1>f. /\ KeyOf[r] \in Keys /\ Ordered(KeyOf[r]) /\ orders[KeyOf[r]].by = r
      /\ Size(r) \in 1..MaxLine /\ MaxLine > 0 /\ Size(r) \in 0..MaxLine
  BY <1>0, SagaFacts
<1>1. TypeOK'
  <2>1. ReqOK'
    BY <1>0, <1>f, SagaFacts, UndoType DEF Ownership, TypeOK, ReserveRefused, ReqOK, Reasons
  <2>2. WorldOK'
    BY DEF Ownership, TypeOK, WorldOK, ReserveRefused, Ledger!Refuse
  <2> QED BY <2>1, <2>2 DEF ReserveRefused, Ownership, TypeOK, OrdersOK, LoopOK, WorldOK, LateOK, KafkaOK, world, kafka
<1>2. RowsOwned'
  BY DEF Ownership, RowsOwned, ReserveRefused, Ordered
<1>3. SagaOwnsRow'
  BY <1>0, <1>f DEF Ownership, SagaOwnsRow, ReserveRefused, Undo, TypeOK, ReqOK, SagaPcs, TailPcs, RequestState
<1>4. LinesInRange'
  BY <1>0, <1>f, SagaFacts DEF Ownership, LinesInRange, ReserveRefused, Undo, TypeOK, ReqOK, RequestState
<1>5. LoopOnOrders'
  BY DEF Ownership, LoopOnOrders, ReserveRefused, Ordered
<1>6. LateOnItems'
  BY DEF Ownership, LateOnItems, ReserveRefused, Ordered
<1> QED BY <1>1, <1>2, <1>3, <1>4, <1>5, <1>6 DEF Ownership

LEMMA ReserveLostOwnership == ASSUME Ownership, NEW r \in Requests, ReserveLost(r) PROVE Ownership'
<1> USE DEF At
<1>0. req[r].pc = "reserve" /\ req[r].pc \in SagaPcs \cup TailPcs
  BY DEF ReserveLost, SagaPcs, TailPcs
<1>f. /\ KeyOf[r] \in Keys /\ Ordered(KeyOf[r]) /\ orders[KeyOf[r]].by = r
      /\ Size(r) \in 1..MaxLine /\ MaxLine > 0 /\ Size(r) \in 0..MaxLine
  BY <1>0, SagaFacts
<1>c. /\ Call("reserve", KeyOf[r], req[r].line, r) \in Calls
      /\ WorldOK' /\ LateOK' /\ late' = late \cup {Call("reserve", KeyOf[r], req[r].line, r)}
  BY <1>0, <1>f, Constants, SagaFacts, CallType, LoseType DEF Ownership, TypeOK, ReserveLost
<1>1. TypeOK'
  <2>1. ReqOK'
    BY <1>0, <1>f, SagaFacts, UndoType DEF Ownership, TypeOK, ReserveLost, ReqOK, Reasons
  <2>2. WorldOK'
    BY <1>c
  <2>3. LateOK'
    BY <1>c
  <2> QED BY <2>1, <2>2, <2>3 DEF ReserveLost, Ownership, TypeOK, OrdersOK, LoopOK, WorldOK, LateOK, KafkaOK, world, kafka
<1>2. RowsOwned'
  BY DEF Ownership, RowsOwned, ReserveLost, Ordered
<1>3. SagaOwnsRow'
  BY <1>0, <1>f DEF Ownership, SagaOwnsRow, ReserveLost, Undo, TypeOK, ReqOK, SagaPcs, TailPcs, RequestState
<1>4. LinesInRange'
  BY <1>0, <1>f, SagaFacts DEF Ownership, LinesInRange, ReserveLost, Undo, TypeOK, ReqOK, RequestState
<1>5. LoopOnOrders'
  BY DEF Ownership, LoopOnOrders, ReserveLost, Ordered
<1>6. LateOnItems'
  BY <1>0, <1>f, <1>c, SagaFacts DEF Ownership, LateOnItems, ReserveLost, Call, Ordered
<1> QED BY <1>1, <1>2, <1>3, <1>4, <1>5, <1>6 DEF Ownership

LEMMA ChargeLostOwnership == ASSUME Ownership, NEW r \in Requests, ChargeLost(r) PROVE Ownership'
<1> USE DEF At
<1>0. req[r].pc = "charge" /\ req[r].pc \in SagaPcs \cup TailPcs
  BY DEF ChargeLost, SagaPcs, TailPcs
<1>f. /\ KeyOf[r] \in Keys /\ Ordered(KeyOf[r]) /\ orders[KeyOf[r]].by = r
      /\ Size(r) \in 1..MaxLine /\ MaxLine > 0 /\ Size(r) \in 0..MaxLine
  BY <1>0, SagaFacts
<1>c. /\ Call("charge", KeyOf[r], 0, r) \in Calls
      /\ WorldOK' /\ LateOK' /\ late' = late \cup {Call("charge", KeyOf[r], 0, r)}
  BY <1>0, <1>f, Constants, SagaFacts, CallType, LoseType DEF Ownership, TypeOK, ChargeLost
<1>1. TypeOK'
  <2>1. ReqOK'
    BY <1>0, <1>f, SagaFacts, UndoType DEF Ownership, TypeOK, ChargeLost, ReqOK, Reasons
  <2>2. WorldOK'
    BY <1>c
  <2>3. LateOK'
    BY <1>c
  <2> QED BY <2>1, <2>2, <2>3 DEF ChargeLost, Ownership, TypeOK, OrdersOK, LoopOK, WorldOK, LateOK, KafkaOK, world, kafka
<1>2. RowsOwned'
  BY DEF Ownership, RowsOwned, ChargeLost, Ordered
<1>3. SagaOwnsRow'
  BY <1>0, <1>f DEF Ownership, SagaOwnsRow, ChargeLost, Undo, TypeOK, ReqOK, SagaPcs, TailPcs, RequestState
<1>4. LinesInRange'
  BY <1>0, <1>f, SagaFacts DEF Ownership, LinesInRange, ChargeLost, Undo, TypeOK, ReqOK, RequestState
<1>5. LoopOnOrders'
  BY DEF Ownership, LoopOnOrders, ChargeLost, Ordered
<1>6. LateOnItems'
  BY <1>0, <1>f, <1>c, SagaFacts DEF Ownership, LateOnItems, ChargeLost, Call, Ordered
<1> QED BY <1>1, <1>2, <1>3, <1>4, <1>5, <1>6 DEF Ownership

LEMMA ChargeOwnership == ASSUME Ownership, NEW r \in Requests, Charge(r) PROVE Ownership'
<1> USE DEF At
<1>0. req[r].pc = "charge" /\ req[r].pc \in SagaPcs \cup TailPcs
  BY DEF Charge, SagaPcs, TailPcs
<1>f. /\ KeyOf[r] \in Keys /\ Ordered(KeyOf[r]) /\ orders[KeyOf[r]].by = r
      /\ Size(r) \in 1..MaxLine /\ MaxLine > 0 /\ Size(r) \in 0..MaxLine
  BY <1>0, SagaFacts
<1>1. TypeOK'
  <2>1. ReqOK'
    BY <1>0, <1>f, GotoType, UndoType DEF Ownership, TypeOK, Charge, AfterCharge, ReqOK, Reasons, Pcs, SagaPcs
  <2>2. WorldOK'
    BY <1>f, DoChargeType DEF Ownership, TypeOK, Charge
  <2> QED BY <2>1, <2>2 DEF Charge, Ownership, TypeOK, OrdersOK, LoopOK, WorldOK, LateOK, KafkaOK, world, kafka
<1>2. RowsOwned'
  BY DEF Ownership, RowsOwned, Charge, Ordered
<1>3. SagaOwnsRow'
  BY <1>0, <1>f DEF Ownership, SagaOwnsRow, Charge, AfterCharge, Goto, Undo, TypeOK, ReqOK, SagaPcs, TailPcs, RequestState
<1>4. LinesInRange'
  BY <1>0, <1>f DEF Ownership, LinesInRange, Charge, AfterCharge, Goto, Undo, TypeOK, ReqOK, RequestState
<1>5. LoopOnOrders'
  BY DEF Ownership, LoopOnOrders, Charge, Ordered
<1>6. LateOnItems'
  BY DEF Ownership, LateOnItems, Charge, Ordered
<1> QED BY <1>1, <1>2, <1>3, <1>4, <1>5, <1>6 DEF Ownership

LEMMA ReleaseLineOwnership == ASSUME Ownership, NEW r \in Requests, ReleaseLine(r) PROVE Ownership'
<1> USE DEF At
<1>0. req[r].pc = "undo" /\ req[r].pc \in SagaPcs \cup TailPcs
  BY DEF ReleaseLine, SagaPcs, TailPcs
<1>f. /\ KeyOf[r] \in Keys /\ Ordered(KeyOf[r]) /\ orders[KeyOf[r]].by = r
      /\ Size(r) \in 1..MaxLine /\ MaxLine > 0 /\ Size(r) \in 0..MaxLine
  BY <1>0, SagaFacts
<1>w. /\ WorldOK' /\ LateOK'
      /\ \A c \in late' : c \in late \/ (c.key = KeyOf[r] /\ c.line = req[r].line)
  BY <1>0, <1>f, SagaFacts, ReleaseStockType DEF Ownership, ReleaseLine
<1>1. TypeOK'
  <2>1. ReqOK'
    BY <1>0, <1>f, SagaFacts, NextLineType DEF Ownership, TypeOK, ReleaseLine, ReqOK, Pcs, SagaPcs
  <2>2. WorldOK'
    BY <1>w
  <2>3. LateOK'
    BY <1>w
  <2> QED BY <2>1, <2>2, <2>3 DEF ReleaseLine, Ownership, TypeOK, OrdersOK, LoopOK, WorldOK, LateOK, KafkaOK, world, kafka
<1>2. RowsOwned'
  BY DEF Ownership, RowsOwned, ReleaseLine, Ordered
<1>3. SagaOwnsRow'
  BY <1>0, <1>f DEF Ownership, SagaOwnsRow, ReleaseLine, NextLine, TypeOK, ReqOK, SagaPcs, TailPcs, RequestState
<1>4. LinesInRange'
  BY <1>0, <1>f, SagaFacts DEF Ownership, LinesInRange, ReleaseLine, NextLine, TypeOK, ReqOK, RequestState
<1>5. LoopOnOrders'
  BY DEF Ownership, LoopOnOrders, ReleaseLine, Ordered
<1>6. LateOnItems'
  BY <1>0, <1>f, <1>w, SagaFacts DEF Ownership, LateOnItems, ReleaseLine, Ordered
<1> QED BY <1>1, <1>2, <1>3, <1>4, <1>5, <1>6 DEF Ownership

LEMMA ClearCartOwnership == ASSUME Ownership, NEW r \in Requests, ClearCart(r) PROVE Ownership'
<1> USE DEF At
<1>0. req[r].pc = "clear" /\ req[r].pc \in SagaPcs \cup TailPcs
  BY DEF ClearCart, SagaPcs, TailPcs
<1>f. /\ KeyOf[r] \in Keys /\ Ordered(KeyOf[r]) /\ orders[KeyOf[r]].by = r
      /\ Size(r) \in 1..MaxLine /\ MaxLine > 0 /\ Size(r) \in 0..MaxLine
  BY <1>0, SagaFacts
<1>w. /\ WorldOK' /\ LateOK'
      /\ \A c \in late' : c \in late \/ c.op = "clear"
  BY <1>f, ClearCartItemsType DEF Ownership, ClearCart
<1>1. TypeOK'
  <2>1. ReqOK'
    BY <1>0, SagaFacts, FinishType DEF Ownership, TypeOK, ReqOK, ClearCart, RequestState, Row
  <2>2. WorldOK'
    BY <1>w
  <2>3. LateOK'
    BY <1>w
  <2> QED BY <2>1, <2>2, <2>3 DEF ClearCart, Ownership, TypeOK, OrdersOK, LoopOK, WorldOK, LateOK, KafkaOK, world, kafka
<1>2. RowsOwned'
  BY DEF Ownership, RowsOwned, ClearCart, Ordered
<1>3. SagaOwnsRow'
  BY DEF Ownership, SagaOwnsRow, ClearCart, At, Finish, Fresh, TypeOK, ReqOK, SagaPcs, TailPcs, RequestState
<1>4. LinesInRange'
  BY DEF Ownership, LinesInRange, ClearCart, At, Finish, Fresh, TypeOK, ReqOK, RequestState
<1>5. LoopOnOrders'
  BY DEF Ownership, LoopOnOrders, ClearCart, Ordered
<1>6. LateOnItems'
  BY <1>w DEF Ownership, LateOnItems, ClearCart, Ordered
<1> QED BY <1>1, <1>2, <1>3, <1>4, <1>5, <1>6 DEF Ownership

LEMMA IdleType == Idle \in LoopState
  BY Constants, NoRowType DEF Idle, LoopState

LEMMA BeginType ==
  ASSUME OrdersOK, NEW k \in Keys, NEW rest \in SUBSET Keys,
         NEW pc \in {"release", "fail", "deliver"}, MaxLine > 0
  PROVE  Begin(k, rest, pc) \in LoopState
<1>1. 1 \in 0..MaxLine BY Constants
<1>2. orders[k] \in Row BY DEF OrdersOK
<1> QED BY <1>1, <1>2 DEF Begin, LoopState

LEMMA LoopGotoType ==
  ASSUME LoopOK, NEW pc \in {"fail", "tell", "clear", "announce"}
  PROVE  LoopGoto(pc) \in LoopState
  BY DEF LoopGoto, LoopOK, LoopState

\* Beginning on an order that exists: there is an item to start with.
LEMMA BeginOwnership ==
  ASSUME Ownership, NEW k \in Keys, Ordered(k), NEW rest \in SUBSET Keys,
         \A j \in rest : Ordered(j), NEW pc \in {"release", "fail", "deliver"},
         loop' = Begin(k, rest, pc), UNCHANGED orders
  PROVE  LoopOK' /\ LoopOnOrders'
<1>1. /\ Size(orders[k].by) \in 1..MaxLine /\ MaxLine > 0 /\ NoKey \notin Keys
      /\ 1 \in 1..Size(orders[k].by)
  BY Constants DEF Ordered
<1>2. LoopOK' BY <1>1, BeginType DEF Ownership, TypeOK, LoopOK
<1>3. LoopOnOrders' BY <1>1 DEF LoopOnOrders, Begin, Ordered
<1> QED BY <1>2, <1>3

\* What a running pass may rely on.
LEMMA LoopFacts ==
  ASSUME Ownership, loop.pc # "idle"
  PROVE  /\ loop \in LoopState /\ loop.cur \in Keys /\ Ordered(loop.cur)
         /\ loop.batch \in SUBSET Keys /\ \A k \in loop.batch : Ordered(k)
         /\ orders[loop.cur] \in Row /\ orders[loop.cur].status # "NONE"
         /\ Size(orders[loop.cur].by) \in 1..MaxLine
         /\ loop.pc = "release" => loop.line \in 1..Size(orders[loop.cur].by)
<1>1. loop \in LoopState /\ loop.batch \in SUBSET Keys /\ loop.cur \in Keys \cup {NoKey}
  BY DEF Ownership, TypeOK, LoopOK, LoopState
<1>2. loop.cur \in Keys /\ Ordered(loop.cur) /\ \A k \in loop.batch : Ordered(k)
  BY <1>1 DEF Ownership, LoopOnOrders
<1>3. orders[loop.cur] \in Row /\ orders[loop.cur].status # "NONE"
  BY <1>2 DEF Ownership, TypeOK, OrdersOK, RowsOwned
<1> QED BY <1>1, <1>2, <1>3, Constants DEF Ordered, Ownership, LoopOnOrders

LEMMA StartReconciliationOwnership == ASSUME Ownership, StartReconciliation PROVE Ownership'
<1>a. PICK k \in Stuck : loop' = BeginRec(k, Stuck \ {k})
  BY DEF StartReconciliation
<1>s. Stuck \in SUBSET Keys /\ \A j \in Stuck : Ordered(j)
  BY DEF Stuck, Ownership, RowsOwned
<1>b. LoopOK' /\ LoopOnOrders'
  BY <1>a, <1>s, BeginOwnership DEF StartReconciliation, BeginRec
<1>1. TypeOK'
  <2>1. LoopOK'
    BY <1>b
  <2> QED BY <2>1, Constants DEF StartReconciliation, Ownership, TypeOK, ReqOK, OrdersOK, WorldOK, LateOK, KafkaOK, world, kafka
<1>2. RowsOwned'
  BY DEF Ownership, RowsOwned, StartReconciliation, Ordered
<1>3. SagaOwnsRow'
  BY DEF Ownership, SagaOwnsRow, StartReconciliation
<1>4. LinesInRange'
  BY DEF Ownership, LinesInRange, StartReconciliation
<1>5. LoopOnOrders'
  BY <1>b
<1>6. LateOnItems'
  BY DEF Ownership, LateOnItems, StartReconciliation, Ordered
<1> QED BY <1>1, <1>2, <1>3, <1>4, <1>5, <1>6 DEF Ownership

LEMMA StartDeliveryOwnership == ASSUME Ownership, StartDelivery PROVE Ownership'
<1>a. PICK k \in Due : loop' = Begin(k, Due \ {k}, "deliver")
  BY DEF StartDelivery
<1>s. Due \in SUBSET Keys /\ \A j \in Due : Ordered(j)
  BY DEF Due, Ownership, RowsOwned
<1>b. LoopOK' /\ LoopOnOrders'
  BY <1>a, <1>s, BeginOwnership DEF StartDelivery, BeginRec
<1>1. TypeOK'
  <2>1. LoopOK'
    BY <1>b
  <2> QED BY <2>1, Constants DEF StartDelivery, Ownership, TypeOK, ReqOK, OrdersOK, WorldOK, LateOK, KafkaOK, world, kafka
<1>2. RowsOwned'
  BY DEF Ownership, RowsOwned, StartDelivery, Ordered
<1>3. SagaOwnsRow'
  BY DEF Ownership, SagaOwnsRow, StartDelivery
<1>4. LinesInRange'
  BY DEF Ownership, LinesInRange, StartDelivery
<1>5. LoopOnOrders'
  BY <1>b
<1>6. LateOnItems'
  BY DEF Ownership, LateOnItems, StartDelivery, Ordered
<1> QED BY <1>1, <1>2, <1>3, <1>4, <1>5, <1>6 DEF Ownership

LEMMA ReconcileReleaseOwnership == ASSUME Ownership, ReconcileRelease PROVE Ownership'
<1>f. /\ loop.pc = "release" /\ loop.cur \in Keys /\ Ordered(loop.cur)
      /\ loop.line \in 1..Size(orders[loop.cur].by) /\ Size(orders[loop.cur].by) \in 1..MaxLine
      /\ loop \in LoopState
  BY LoopFacts DEF ReconcileRelease
<1>w. /\ WorldOK' /\ LateOK'
      /\ \A c \in late' : c \in late \/ (c.key = loop.cur /\ c.line = loop.line)
  BY <1>f, ReleaseStockType DEF Ownership, ReconcileRelease
<1>1. TypeOK'
  <2>1. LoopOK'
    <3>1. CASE loop.line < Size(orders[loop.cur].by)
      <4>1. loop.line + 1 \in 0..MaxLine BY <1>f, <3>1, Constants
      <4>2. loop' = [loop EXCEPT !.line = @ + 1] BY <3>1 DEF ReconcileRelease
      <4> QED BY <1>f, <4>1, <4>2 DEF LoopOK, LoopState
    <3>2. CASE ~(loop.line < Size(orders[loop.cur].by))
      BY <3>2, LoopGotoType DEF Ownership, TypeOK, LoopOK, ReconcileRelease
    <3> QED BY <3>1, <3>2
  <2>2. WorldOK'
    BY <1>w
  <2>3. LateOK'
    BY <1>w
  <2> QED BY <2>1, <2>2, <2>3, Constants DEF ReconcileRelease, Ownership, TypeOK, ReqOK, OrdersOK, WorldOK, LateOK, KafkaOK, world, kafka
<1>2. RowsOwned'
  BY DEF Ownership, RowsOwned, ReconcileRelease, Ordered
<1>3. SagaOwnsRow'
  BY DEF Ownership, SagaOwnsRow, ReconcileRelease
<1>4. LinesInRange'
  BY DEF Ownership, LinesInRange, ReconcileRelease
<1>5. LoopOnOrders'
  BY <1>f, Constants DEF Ownership, TypeOK, LoopOK, LoopState, LoopOnOrders, ReconcileRelease, LoopGoto, Ordered
<1>6. LateOnItems'
  BY <1>f, <1>w DEF Ownership, LateOnItems, ReconcileRelease, Ordered
<1> QED BY <1>1, <1>2, <1>3, <1>4, <1>5, <1>6 DEF Ownership

LEMMA ReconcileCommitOwnership == ASSUME Ownership, ReconcileCommit PROVE Ownership'
<1>f. /\ loop.pc = "fail" /\ loop.cur \in Keys /\ loop \in LoopState
      /\ orders[loop.cur] \in Row /\ orders[loop.cur].status # "NONE"
  BY LoopFacts DEF ReconcileCommit
<1>i. \/ loop' = Idle /\ orders' = orders
      \/ /\ loop' = LoopGoto("tell")
         /\ orders' = [orders EXCEPT ![loop.cur] = [@ EXCEPT !.status = "FAILED",
                                                !.reason = "RECONCILIATION_TIMEOUT"]]
  BY DEF ReconcileCommit, Conflict
<1>o. /\ OrdersOK'
      /\ \A k \in Keys : /\ orders'[k].by = orders[k].by
                         /\ orders'[k].status = "NONE" <=> orders[k].status = "NONE"
  <2> DEFINE row == [orders[loop.cur] EXCEPT !.status = "FAILED", !.reason = "RECONCILIATION_TIMEOUT"]
  <2>1. row \in Row /\ row.by = orders[loop.cur].by /\ row.status # "NONE"
    BY <1>f DEF Row, Statuses, Reasons
  <2>2. CASE orders' = orders
    BY <2>2 DEF Ownership, TypeOK, OrdersOK
  <2>3. CASE orders' # orders
    <3>1. orders' = [orders EXCEPT ![loop.cur] = row]
      BY <1>f, <1>i, <2>3 DEF Ownership, TypeOK, OrdersOK
    <3> HIDE DEF row
    <3> QED BY <3>1, <2>1, <1>f DEF Ownership, TypeOK, OrdersOK
  <2> QED BY <2>2, <2>3
<1>u. UNCHANGED <<req, late>> BY DEF ReconcileCommit
<1>1. TypeOK'
  <2>1. LoopOK'
    BY <1>i, IdleType, LoopGotoType DEF Ownership, TypeOK, LoopOK
  <2>2. OrdersOK'
    BY <1>o
  <2> QED BY <2>1, <2>2, Constants DEF ReconcileCommit, Ownership, TypeOK, ReqOK, OrdersOK, WorldOK, LateOK, KafkaOK, world, kafka
<1>2. RowsOwned'
  BY <1>o DEF Ownership, RowsOwned, Ordered
<1>3. SagaOwnsRow'
  BY <1>o, <1>u, Constants DEF Ownership, SagaOwnsRow
<1>4. LinesInRange'
  BY DEF Ownership, LinesInRange, ReconcileCommit
<1>5. LoopOnOrders'
  BY <1>f, <1>i, <1>o, Constants DEF Ownership, LoopOnOrders, LoopGoto, Idle, LoopState, Ordered
<1>6. LateOnItems'
  BY <1>o, <1>u DEF Ownership, TypeOK, LateOK, Calls, LateOnItems, Ordered
<1> QED BY <1>1, <1>2, <1>3, <1>4, <1>5, <1>6 DEF Ownership

LEMMA DeliverCommitOwnership == ASSUME Ownership, DeliverCommit PROVE Ownership'
<1>f. /\ loop.pc = "deliver" /\ loop.cur \in Keys /\ loop \in LoopState
      /\ orders[loop.cur] \in Row /\ orders[loop.cur].status # "NONE"
  BY LoopFacts DEF DeliverCommit
<1>i. \/ loop' = Idle /\ orders' = orders
      \/ /\ loop' = LoopGoto("announce")
         /\ orders' = [orders EXCEPT ![loop.cur].delivered = TRUE]
  BY DEF DeliverCommit, Conflict
<1>o. /\ OrdersOK'
      /\ \A k \in Keys : /\ orders'[k].by = orders[k].by
                         /\ orders'[k].status = "NONE" <=> orders[k].status = "NONE"
  <2> DEFINE row == [orders[loop.cur] EXCEPT !.delivered = TRUE]
  <2>1. row \in Row /\ row.by = orders[loop.cur].by /\ row.status # "NONE"
    BY <1>f DEF Row, Statuses, Reasons
  <2>2. CASE orders' = orders
    BY <2>2 DEF Ownership, TypeOK, OrdersOK
  <2>3. CASE orders' # orders
    <3>1. orders' = [orders EXCEPT ![loop.cur] = row]
      BY <1>f, <1>i, <2>3 DEF Ownership, TypeOK, OrdersOK
    <3> HIDE DEF row
    <3> QED BY <3>1, <2>1, <1>f DEF Ownership, TypeOK, OrdersOK
  <2> QED BY <2>2, <2>3
<1>u. UNCHANGED <<req, late>> BY DEF DeliverCommit
<1>1. TypeOK'
  <2>1. LoopOK'
    BY <1>i, IdleType, LoopGotoType DEF Ownership, TypeOK, LoopOK
  <2>2. OrdersOK'
    BY <1>o
  <2> QED BY <2>1, <2>2, Constants DEF DeliverCommit, Ownership, TypeOK, ReqOK, OrdersOK, WorldOK, LateOK, KafkaOK, world, kafka
<1>2. RowsOwned'
  BY <1>o DEF Ownership, RowsOwned, Ordered
<1>3. SagaOwnsRow'
  BY <1>o, <1>u, Constants DEF Ownership, SagaOwnsRow
<1>4. LinesInRange'
  BY DEF Ownership, LinesInRange, DeliverCommit
<1>5. LoopOnOrders'
  BY <1>f, <1>i, <1>o, Constants DEF Ownership, LoopOnOrders, LoopGoto, Idle, LoopState, Ordered
<1>6. LateOnItems'
  BY <1>o, <1>u DEF Ownership, TypeOK, LateOK, Calls, LateOnItems, Ordered
<1> QED BY <1>1, <1>2, <1>3, <1>4, <1>5, <1>6 DEF Ownership

LEMMA ReconcileAnnounceOwnership == ASSUME Ownership, ReconcileAnnounce PROVE Ownership'
<1>1. TypeOK'
  <2>1. LoopOK'
    BY LoopGotoType DEF Ownership, TypeOK, LoopOK, ReconcileAnnounce
  <2>2. KafkaOK'
    BY LoopFacts, PublishType DEF Ownership, TypeOK, ReconcileAnnounce, Events
  <2> QED BY <2>1, <2>2, Constants DEF ReconcileAnnounce, Ownership, TypeOK, ReqOK, OrdersOK, WorldOK, LateOK, KafkaOK, world, kafka
<1>2. RowsOwned'
  BY DEF Ownership, RowsOwned, ReconcileAnnounce, Ordered
<1>3. SagaOwnsRow'
  BY DEF Ownership, SagaOwnsRow, ReconcileAnnounce
<1>4. LinesInRange'
  BY DEF Ownership, LinesInRange, ReconcileAnnounce
<1>5. LoopOnOrders'
  BY LoopFacts, Constants DEF Ownership, LoopOnOrders, LoopGoto, LoopState, Ordered, ReconcileAnnounce
<1>6. LateOnItems'
  BY DEF Ownership, LateOnItems, ReconcileAnnounce, Ordered
<1> QED BY <1>1, <1>2, <1>3, <1>4, <1>5, <1>6 DEF Ownership

LEMMA ReconcileClearOwnership == ASSUME Ownership, ReconcileClear PROVE Ownership'
<1>f. /\ loop.cur \in Keys /\ loop.batch \in SUBSET Keys /\ \A k \in loop.batch : Ordered(k)
  BY LoopFacts DEF ReconcileClear
<1>b. LoopOK' /\ LoopOnOrders'
  <2>1. CASE loop' = Idle
    BY <2>1, IdleType DEF LoopOK, LoopOnOrders, Idle
  <2>2. CASE loop' # Idle
    <3>1. PICK k \in loop.batch : loop' = BeginRec(k, loop.batch \ {k})
      BY <2>2 DEF ReconcileClear
    <3> QED BY <1>f, <3>1, BeginOwnership DEF ReconcileClear, BeginRec
  <2> QED BY <2>1, <2>2
<1>w. /\ WorldOK' /\ LateOK'
      /\ \A c \in late' : c \in late \/ c.op = "clear"
  BY <1>f, ClearCartItemsType DEF Ownership, ReconcileClear
<1>1. TypeOK'
  <2>1. LoopOK'
    BY <1>b
  <2>2. WorldOK'
    BY <1>w
  <2>3. LateOK'
    BY <1>w
  <2> QED BY <2>1, <2>2, <2>3, Constants DEF ReconcileClear, Ownership, TypeOK, ReqOK, OrdersOK, WorldOK, LateOK, KafkaOK, world, kafka
<1>2. RowsOwned'
  BY DEF Ownership, RowsOwned, ReconcileClear, Ordered
<1>3. SagaOwnsRow'
  BY DEF Ownership, SagaOwnsRow, ReconcileClear
<1>4. LinesInRange'
  BY DEF Ownership, LinesInRange, ReconcileClear
<1>5. LoopOnOrders'
  BY <1>b
<1>6. LateOnItems'
  BY <1>w DEF Ownership, LateOnItems, ReconcileClear, Ordered
<1> QED BY <1>1, <1>2, <1>3, <1>4, <1>5, <1>6 DEF Ownership

LEMMA AnnounceDeliveredOwnership == ASSUME Ownership, AnnounceDelivered PROVE Ownership'
<1>f. /\ loop.cur \in Keys /\ loop.batch \in SUBSET Keys /\ \A k \in loop.batch : Ordered(k)
  BY LoopFacts DEF AnnounceDelivered
<1>b. LoopOK' /\ LoopOnOrders'
  <2>1. CASE loop' = Idle
    BY <2>1, IdleType DEF LoopOK, LoopOnOrders, Idle
  <2>2. CASE loop' # Idle
    <3>1. PICK k \in loop.batch : loop' = Begin(k, loop.batch \ {k}, "deliver")
      BY <2>2 DEF AnnounceDelivered
    <3> QED BY <1>f, <3>1, BeginOwnership DEF AnnounceDelivered, BeginRec
  <2> QED BY <2>1, <2>2
<1>1. TypeOK'
  <2>1. LoopOK'
    BY <1>b
  <2>2. KafkaOK'
    BY <1>f, PublishType DEF Ownership, TypeOK, AnnounceDelivered, Events
  <2> QED BY <2>1, <2>2, Constants DEF AnnounceDelivered, Ownership, TypeOK, ReqOK, OrdersOK, WorldOK, LateOK, KafkaOK, world, kafka
<1>2. RowsOwned'
  BY DEF Ownership, RowsOwned, AnnounceDelivered, Ordered
<1>3. SagaOwnsRow'
  BY DEF Ownership, SagaOwnsRow, AnnounceDelivered
<1>4. LinesInRange'
  BY DEF Ownership, LinesInRange, AnnounceDelivered
<1>5. LoopOnOrders'
  BY <1>b
<1>6. LateOnItems'
  BY DEF Ownership, LateOnItems, AnnounceDelivered, Ordered
<1> QED BY <1>1, <1>2, <1>3, <1>4, <1>5, <1>6 DEF Ownership

LEMMA AbortPassOwnership == ASSUME Ownership, AbortPass PROVE Ownership'
<1>1. TypeOK'
  <2>1. LoopOK'
    BY IdleType DEF LoopOK, AbortPass
  <2> QED BY <2>1, Constants DEF AbortPass, Ownership, TypeOK, ReqOK, OrdersOK, WorldOK, LateOK, KafkaOK, world, kafka
<1>2. RowsOwned'
  BY DEF Ownership, RowsOwned, AbortPass, Ordered
<1>3. SagaOwnsRow'
  BY DEF Ownership, SagaOwnsRow, AbortPass
<1>4. LinesInRange'
  BY DEF Ownership, LinesInRange, AbortPass
<1>5. LoopOnOrders'
  BY DEF LoopOnOrders, Idle, AbortPass
<1>6. LateOnItems'
  BY DEF Ownership, LateOnItems, AbortPass, Ordered
<1> QED BY <1>1, <1>2, <1>3, <1>4, <1>5, <1>6 DEF Ownership

LEMMA ExecuteLateOwnership == ASSUME Ownership, NEW c \in late, ExecuteLate(c) PROVE Ownership'
<1>c. /\ c.key \in Keys
      /\ c.op \in {"reserve", "release"} => Ordered(c.key) /\ c.line \in 1..Size(orders[c.key].by)
  BY DEF Ownership, TypeOK, LateOK, Calls, LateOnItems
<1>1. TypeOK'
  <2>1. WorldOK'
    BY <1>c, DoReserveType, DoReleaseType, DoChargeType, DoClearType DEF Ownership, TypeOK, ExecuteLate
  <2>2. LateOK'
    BY DEF Ownership, TypeOK, LateOK, ExecuteLate
  <2> QED BY <2>1, <2>2, Constants DEF ExecuteLate, Ownership, TypeOK, ReqOK, OrdersOK, LoopOK, WorldOK, LateOK, KafkaOK, world, kafka
<1>2. RowsOwned'
  BY DEF Ownership, RowsOwned, ExecuteLate, Ordered
<1>3. SagaOwnsRow'
  BY DEF Ownership, SagaOwnsRow, ExecuteLate
<1>4. LinesInRange'
  BY DEF Ownership, LinesInRange, ExecuteLate
<1>5. LoopOnOrders'
  BY DEF Ownership, LoopOnOrders, ExecuteLate, Ordered
<1>6. LateOnItems'
  BY DEF Ownership, LateOnItems, ExecuteLate, Ordered
<1> QED BY <1>1, <1>2, <1>3, <1>4, <1>5, <1>6 DEF Ownership

LEMMA DropLateOwnership == ASSUME Ownership, NEW c \in late, DropLate(c) PROVE Ownership'
<1>1. TypeOK'
  <2>1. LateOK'
    BY DEF Ownership, TypeOK, LateOK, DropLate
  <2> QED BY <2>1, Constants DEF DropLate, Ownership, TypeOK, ReqOK, OrdersOK, LoopOK, WorldOK, LateOK, KafkaOK, world, kafka
<1>2. RowsOwned'
  BY DEF Ownership, RowsOwned, DropLate, Ordered
<1>3. SagaOwnsRow'
  BY DEF Ownership, SagaOwnsRow, DropLate
<1>4. LinesInRange'
  BY DEF Ownership, LinesInRange, DropLate
<1>5. LoopOnOrders'
  BY DEF Ownership, LoopOnOrders, DropLate, Ordered
<1>6. LateOnItems'
  BY DEF Ownership, LateOnItems, DropLate, Ordered
<1> QED BY <1>1, <1>2, <1>3, <1>4, <1>5, <1>6 DEF Ownership

LEMMA FlushUnsentOwnership == ASSUME Ownership, NEW k \in Keys, NEW e \in unsent[k], FlushUnsent(k, e) PROVE Ownership'
<1>1. TypeOK'
  <2>1. KafkaOK'
    BY DEF Ownership, TypeOK, KafkaOK, FlushUnsent
  <2> QED BY <2>1, Constants DEF FlushUnsent, Ownership, TypeOK, ReqOK, OrdersOK, LoopOK, WorldOK, LateOK, KafkaOK, world, kafka
<1>2. RowsOwned'
  BY DEF Ownership, RowsOwned, FlushUnsent, Ordered
<1>3. SagaOwnsRow'
  BY DEF Ownership, SagaOwnsRow, FlushUnsent
<1>4. LinesInRange'
  BY DEF Ownership, LinesInRange, FlushUnsent
<1>5. LoopOnOrders'
  BY DEF Ownership, LoopOnOrders, FlushUnsent, Ordered
<1>6. LateOnItems'
  BY DEF Ownership, LateOnItems, FlushUnsent, Ordered
<1> QED BY <1>1, <1>2, <1>3, <1>4, <1>5, <1>6 DEF Ownership

LEMMA ExpireUnsentOwnership == ASSUME Ownership, NEW k \in Keys, NEW e \in unsent[k], ExpireUnsent(k, e) PROVE Ownership'
<1>1. TypeOK'
  <2>1. KafkaOK'
    BY DEF Ownership, TypeOK, KafkaOK, ExpireUnsent
  <2> QED BY <2>1, Constants DEF ExpireUnsent, Ownership, TypeOK, ReqOK, OrdersOK, LoopOK, WorldOK, LateOK, KafkaOK, world, kafka
<1>2. RowsOwned'
  BY DEF Ownership, RowsOwned, ExpireUnsent, Ordered
<1>3. SagaOwnsRow'
  BY DEF Ownership, SagaOwnsRow, ExpireUnsent
<1>4. LinesInRange'
  BY DEF Ownership, LinesInRange, ExpireUnsent
<1>5. LoopOnOrders'
  BY DEF Ownership, LoopOnOrders, ExpireUnsent, Ordered
<1>6. LateOnItems'
  BY DEF Ownership, LateOnItems, ExpireUnsent, Ordered
<1> QED BY <1>1, <1>2, <1>3, <1>4, <1>5, <1>6 DEF Ownership

\* The calls a crash leaves behind are calls on items of existing orders.
LEMMA InProgressType ==
  ASSUME Ownership
  PROVE  /\ InProgress \subseteq Calls
         /\ \A c \in InProgress : c.op \in {"reserve", "release"} =>
              Ordered(c.key) /\ c.line \in 1..Size(orders[c.key].by)
<1> DEFINE OpAt == [reserve |-> "reserve", undo |-> "release", charge |-> "charge", clear |-> "clear"]
           Own(r) == Call(OpAt[req[r].pc], KeyOf[r],
                          IF req[r].pc \in {"charge", "clear"} THEN 0 ELSE req[r].line, r)
           Rec(op) == Call(op, loop.cur, IF op = "clear" THEN 0 ELSE loop.line, NoRequest)
<1>1. ASSUME NEW r \in Requests, req[r].pc \in {"reserve", "undo", "charge", "clear"}
      PROVE  /\ Own(r) \in Calls
             /\ Own(r).op \in {"reserve", "release"} =>
                  Ordered(Own(r).key) /\ Own(r).line \in 1..Size(orders[Own(r).key].by)
  <2>1. req[r].pc \in SagaPcs \cup TailPcs BY <1>1 DEF SagaPcs, TailPcs
  <2>2. /\ KeyOf[r] \in Keys /\ Ordered(KeyOf[r]) /\ orders[KeyOf[r]].by = r
        /\ req[r].pc \in {"reserve", "undo"} => req[r].line \in 1..Size(r)
        /\ req[r].line \in 0..MaxLine /\ 0 \in 0..MaxLine
    BY <2>1, SagaFacts, Constants DEF RequestState
  <2>3. OpAt[req[r].pc] \in {"reserve", "release", "charge", "clear"}
    BY <1>1
  <2>4. Own(r) \in Calls BY <2>2, <2>3, CallType DEF Ownership
  <2>5. CASE req[r].pc \in {"reserve", "undo"} BY <2>2, <2>4, <2>5 DEF Call
  <2>6. CASE req[r].pc \in {"charge", "clear"} BY <2>4, <2>6 DEF Call
  <2> QED BY <1>1, <2>4, <2>5, <2>6
<1>2. ASSUME NEW op \in {"release", "clear"}, loop.pc = op
      PROVE  /\ Rec(op) \in Calls
             /\ Rec(op).op \in {"reserve", "release"} =>
                  Ordered(Rec(op).key) /\ Rec(op).line \in 1..Size(orders[Rec(op).key].by)
  <2>1. /\ loop.cur \in Keys /\ Ordered(loop.cur)
        /\ op = "release" => loop.line \in 1..Size(orders[loop.cur].by)
        /\ loop.line \in 0..MaxLine /\ 0 \in 0..MaxLine
    BY <1>2, LoopFacts, Constants DEF LoopState
  <2>2. Rec(op) \in Calls BY <2>1, CallType DEF Ownership
  <2> QED BY <2>1, <2>2, <1>2 DEF Call
<1>3. \A c \in InProgress :
        \/ \E r \in Requests : req[r].pc \in {"reserve", "undo", "charge", "clear"} /\ c = Own(r)
        \/ \E op \in {"release", "clear"} : loop.pc = op /\ c = Rec(op)
  <2> HIDE DEF Own, Rec
  <2>1. InProgress = {Own(r) : r \in {r \in Requests : req[r].pc \in DOMAIN OpAt}}
                     \cup {Rec(op) : op \in {"release", "clear"} \cap {loop.pc}}
    BY DEF InProgress, Own, Rec
  <2>2. DOMAIN OpAt = {"reserve", "undo", "charge", "clear"} OBVIOUS
  <2> HIDE DEF OpAt
  <2> QED BY <2>1, <2>2
<1> HIDE DEF Own, Rec
<1> QED BY <1>1, <1>2, <1>3

LEMMA CrashOwnership == ASSUME Ownership, Crash PROVE Ownership'
<1>1. TypeOK'
  <2>1. ReqOK'
    BY FreshType DEF Ownership, TypeOK, ReqOK, Crash
  <2>2. LoopOK'
    BY IdleType DEF LoopOK, Crash
  <2>3. LateOK'
    BY InProgressType DEF Ownership, TypeOK, LateOK, Crash
  <2>4. KafkaOK'
    BY DEF Ownership, TypeOK, KafkaOK, Crash
  <2>5. OrdersOK' /\ WorldOK'
    BY DEF Crash, Ownership, TypeOK, OrdersOK, WorldOK, world
  <2>6. (mishaps \in 0..MaxMishaps)'
    BY Constants DEF Crash, Ownership, TypeOK
  <2> QED BY <2>1, <2>2, <2>3, <2>4, <2>5, <2>6 DEF TypeOK
<1>2. RowsOwned'
  BY DEF Ownership, RowsOwned, Crash, Ordered
<1>3. SagaOwnsRow'
  BY DEF Ownership, SagaOwnsRow, Crash, Fresh, SagaPcs, TailPcs
<1>4. LinesInRange'
  BY DEF Ownership, LinesInRange, Crash, Fresh
<1>5. LoopOnOrders'
  BY DEF LoopOnOrders, Idle, Crash
<1>6. LateOnItems'
  BY InProgressType DEF Ownership, LateOnItems, Crash, Ordered
<1> QED BY <1>1, <1>2, <1>3, <1>4, <1>5, <1>6 DEF Ownership

-----------------------------------------------------------------------------
(* Ownership is inductive, whatever faults can happen *)

LEMMA OwnershipInit == Init => Ownership
<1> SUFFICES ASSUME Init PROVE Ownership
  OBVIOUS
<1>1. ReqOK BY FreshType DEF Init, ReqOK
<1>2. OrdersOK BY NoRowType DEF Init, OrdersOK
<1>3. LoopOK BY IdleType DEF Init, LoopOK
<1>4. WorldOK
  BY StockAssumption DEF Init, WorldOK, Ledger!Init, Payment!Init
<1>5. LateOK /\ KafkaOK /\ mishaps \in 0..MaxMishaps
  BY Constants DEF Init, LateOK, KafkaOK
<1>6. RowsOwned BY Constants DEF Init, RowsOwned, Ordered, NoRow
<1>7. SagaOwnsRow /\ LinesInRange
  BY DEF Init, SagaOwnsRow, LinesInRange, Fresh, SagaPcs, TailPcs
<1>8. LoopOnOrders /\ LateOnItems BY DEF Init, LoopOnOrders, LateOnItems, Idle
<1> QED BY <1>1, <1>2, <1>3, <1>4, <1>5, <1>6, <1>7, <1>8 DEF Ownership, TypeOK

LEMMA OwnershipStutter == Ownership /\ UNCHANGED vars => Ownership'
  BY DEF Ownership, TypeOK, ReqOK, OrdersOK, LoopOK, WorldOK, LateOK, KafkaOK, RowsOwned,
         SagaOwnsRow, LinesInRange, LoopOnOrders, LateOnItems, Ordered, vars, world, kafka

LEMMA OwnershipStep == Ownership /\ [Next]_vars => Ownership'
<1> SUFFICES ASSUME Ownership, [Next]_vars PROVE Ownership'
  OBVIOUS
<1>1. ASSUME NEW r \in Requests, Lookup(r) \/ Work(r) \/ Abort(r) PROVE Ownership'
  BY <1>1, LookupOwnership, RejectOwnership, InsertOwnership, AnnounceCreatedOwnership,
     ReserveLineOwnership, ReserveRefusedOwnership, ReserveLostOwnership,
     SetStockReservedOwnership, ReloadOwnership, ChargeOwnership, ChargeLostOwnership,
     ReleaseLineOwnership, CommitFailedOwnership, CommitPaidOwnership,
     AnnounceOutcomeOwnership, ClearCartOwnership, AbortOwnership DEF Work
<1>2. ASSUME Reconcile \/ Delivery \/ AbortPass PROVE Ownership'
  BY <1>2, StartReconciliationOwnership, ReconcileReleaseOwnership, ReconcileCommitOwnership,
     ReconcileAnnounceOwnership, ReconcileClearOwnership, StartDeliveryOwnership,
     DeliverCommitOwnership, AnnounceDeliveredOwnership, AbortPassOwnership
     DEF Reconcile, Delivery
<1>3. ASSUME NEW c \in late, ExecuteLate(c) \/ DropLate(c) PROVE Ownership'
  BY <1>3, ExecuteLateOwnership, DropLateOwnership
<1>4. ASSUME NEW k \in Keys, NEW e \in unsent[k], FlushUnsent(k, e) \/ ExpireUnsent(k, e)
      PROVE  Ownership'
  BY <1>4, FlushUnsentOwnership, ExpireUnsentOwnership
<1>5. CASE Crash BY <1>5, CrashOwnership
<1>6. CASE UNCHANGED vars BY <1>6, OwnershipStutter
<1> QED BY <1>1, <1>2, <1>3, <1>4, <1>5, <1>6 DEF Next

\* Under every fault the model has, the tables, locals, queues and the stock
\* keep their types: products.stock never goes below zero, and a saga only ever
\* works on the row its own insert made.
THEOREM OwnershipInvariant == Spec => []Ownership
<1>1. Init => Ownership BY OwnershipInit
<1>2. Ownership /\ [Next]_vars => Ownership' BY OwnershipStep
<1> QED BY <1>1, <1>2, PTL DEF Spec

THEOREM TypeCorrect == Spec => []TypeOK
<1>1. Ownership => TypeOK BY DEF Ownership
<1> QED BY <1>1, OwnershipInvariant, PTL

-----------------------------------------------------------------------------
(***************************************************************************)
(* Progress: what holds of PAID orders as long as no request outlives the  *)
(* cutoff of the reconciliation pass.  Calls may time out and arrive late, *)
(* requests and passes may abort, and the process may crash, at any point  *)
(* and in any number.                                                      *)
(***************************************************************************)
LEMMA OneSaga ==
  ASSUME Ownership, NEW r \in Requests, NEW s \in Requests, KeyOf[r] = KeyOf[s],
         req[r].pc \in SagaPcs \cup TailPcs, req[s].pc \in SagaPcs \cup TailPcs
  PROVE  r = s
  BY DEF Ownership, SagaOwnsRow

\* No pass works on the order of a running saga.
LEMMA SagaAlone ==
  ASSUME LoopAlone, NEW r \in Requests, req[r].pc \in SagaPcs \cup TailPcs
  PROVE  KeyOf[r] \notin loop.batch \cup {loop.cur}
  BY Constants DEF LoopAlone, Live

\* A step of a saga that touches its own order only preserves Progress if it
\* leaves that order in a state that suits where the saga is.
LEMMA SagaFrame ==
  ASSUME Ownership, Progress, NEW r \in Requests,
         req[r].pc \in SagaPcs \cup TailPcs,
         \A s \in Requests : s # r => req'[s] = req[s],
         UNCHANGED loop,
         \A j \in Keys : j # KeyOf[r] => orders'[j] = orders[j] /\ held'[j] = held[j] /\ pay'[j] = pay[j],
         orders'[KeyOf[r]].by = orders[KeyOf[r]].by,
         \A c \in late' : c \in late \/ c.key = KeyOf[r] \/ c.op \notin {"reserve", "release"},
         req'[r].pc \in SagaPcs => orders'[KeyOf[r]].status = "PENDING",
         req'[r].pc \in Forward =>
           /\ Quiet(KeyOf[r])'
           /\ \A l \in 1..Size(r) : held'[KeyOf[r]][l] = Reserved(r, l)'
           /\ req'[r].pc = "pay" => pay'[KeyOf[r]] = "charged",
         orders'[KeyOf[r]].status = "PAID" =>
           /\ Quiet(KeyOf[r])' /\ pay'[KeyOf[r]] = "charged"
           /\ \A l \in 1..Size(r) : held'[KeyOf[r]][l] = 1
  PROVE  Progress'
<1> DEFINE k == KeyOf[r]
<1>1. /\ k \in Keys /\ orders[k].by = r /\ Ordered(k)
      /\ k \notin loop.batch \cup {loop.cur}
  BY SagaFacts, SagaAlone DEF Progress
<1>2. ASSUME NEW s \in Requests, s # r, KeyOf[s] = k PROVE req[s].pc \notin SagaPcs \cup TailPcs
  BY <1>2, OneSaga
<1>3. ASSUME NEW j \in Keys, j # k, Quiet(j) PROVE Quiet(j)'
  BY <1>3 DEF Quiet
<1>4. ASSUME NEW j \in Keys, Live(j)' PROVE Live(j)
  BY <1>4 DEF Live
<1>5. SagaPending'
  <2> SUFFICES ASSUME NEW s \in Requests, req'[s].pc \in SagaPcs
               PROVE  orders'[KeyOf[s]].status = "PENDING"
    BY DEF SagaPending
  <2> QED BY <1>1, <1>2, Constants DEF Progress, SagaPending
<1>6. LoopAlone'
  <2>1. \A j \in Keys : ~Live(j) => ~Live(j)' BY <1>4
  <2>2. \A j \in Keys : j \in loop.batch \cup {loop.cur} => orders'[j] = orders[j] BY <1>1
  <2>3. loop.batch \subseteq Keys /\ loop.cur \in Keys \cup {NoKey} /\ (loop.pc # "idle" => loop.cur \in Keys)
    BY LoopFacts DEF Ownership, TypeOK, LoopOK, LoopState
  <2> QED BY <2>1, <2>2, <2>3 DEF Progress, LoopAlone
<1>7. ForwardHolds'
  <2> SUFFICES ASSUME NEW s \in Requests, req'[s].pc \in Forward
               PROVE  /\ Quiet(KeyOf[s])'
                      /\ \A l \in 1..Size(s) : held'[KeyOf[s]][l] = Reserved(s, l)'
                      /\ req'[s].pc = "pay" => pay'[KeyOf[s]] = "charged"
    BY DEF ForwardHolds
  <2>1. CASE s = r BY <2>1
  <2>2. CASE s # r
    <3>1. req'[s] = req[s] /\ KeyOf[s] \in Keys BY <2>2, Constants
    <3>2. KeyOf[s] # k BY <3>1, <2>2, <1>2 DEF Forward, SagaPcs
    <3>3. \A l : Reserved(s, l)' = Reserved(s, l) BY <3>1 DEF Reserved
    <3> QED BY <3>1, <3>2, <3>3, <1>3 DEF Progress, ForwardHolds
  <2> QED BY <2>1, <2>2
<1>8. Untouched'
  <2> SUFFICES ASSUME NEW j \in Keys, ~Ordered(j)' PROVE Quiet(j)' /\ \A l \in LineNos : held'[j][l] = 0
    BY DEF Untouched
  <2>1. j # k BY <1>1 DEF Ordered
  <2>2. orders'[j] = orders[j] BY <2>1
  <2>3. ~Ordered(j) BY <2>2 DEF Ordered
  <2> QED BY <2>1, <2>3, <1>3 DEF Progress, Untouched
<1>9. PaidQuiet' /\ PaidMeansCharged'
  BY <1>3 DEF Progress, PaidQuiet, PaidMeansCharged
<1>10. PaidHoldsStock'
  <2> SUFFICES ASSUME NEW j \in Keys, orders'[j].status = "PAID" PROVE \A l \in Items(j)' : held'[j][l] = 1
    BY DEF PaidHoldsStock
  <2>1. CASE j = k BY <2>1, <1>1, Constants DEF Items
  <2>2. CASE j # k BY <2>2 DEF Items, Progress, PaidHoldsStock
  <2> QED BY <2>1, <2>2
<1> QED BY <1>5, <1>6, <1>7, <1>8, <1>9, <1>10 DEF Progress
-----------------------------------------------------------------------------
(* Progress: the requests *)

\* A request that has no order of its own, before or after the step.
LEMMA BystanderFrame ==
  ASSUME Progress, NEW r \in Requests,
         \A s \in Requests : s # r => req'[s] = req[s],
         req'[r].pc \notin SagaPcs \cup TailPcs,
         UNCHANGED <<orders, loop, world, late>>
  PROVE  Progress'
<1>1. \A s \in Requests : req'[s].pc \in SagaPcs \cup TailPcs => req'[s] = req[s]
  OBVIOUS
<1>2. ASSUME NEW j \in Keys, Live(j)' PROVE Live(j)
  BY <1>1, <1>2 DEF Live
<1>3. \A j : Quiet(j)' = Quiet(j) BY DEF Quiet
<1>4. SagaPending' BY <1>1 DEF Progress, SagaPending
<1>5. LoopAlone' BY <1>2 DEF Progress, LoopAlone
<1>6. ForwardHolds'
  BY <1>1, <1>3 DEF Progress, ForwardHolds, Reserved, Forward, SagaPcs, world
<1>7. Untouched' /\ PaidQuiet' BY <1>3 DEF Progress, Untouched, PaidQuiet, Ordered, world
<1>8. PaidMeansCharged' /\ PaidHoldsStock'
  BY DEF Progress, PaidMeansCharged, PaidHoldsStock, Items, world
<1> QED BY <1>4, <1>5, <1>6, <1>7, <1>8 DEF Progress

LEMMA LookupProgress == ASSUME IInv, NEW r \in Requests, Lookup(r) PROVE Progress'
  BY BystanderFrame DEF IInv, Ownership, TypeOK, ReqOK, RequestState, Lookup, Finish, Goto, Fresh, SagaPcs, TailPcs

LEMMA RejectProgress == ASSUME IInv, NEW r \in Requests, Reject(r) PROVE Progress'
  BY BystanderFrame DEF IInv, Ownership, TypeOK, ReqOK, Reject, Finish, Fresh, SagaPcs, TailPcs

LEMMA AbortProgress == ASSUME IInv, NEW r \in Requests, Abort(r) PROVE Progress'
  BY BystanderFrame DEF IInv, Ownership, TypeOK, ReqOK, Abort, Die, Fresh, SagaPcs, TailPcs

LEMMA InsertProgress == ASSUME IInv, NEW r \in Requests, Insert(r) PROVE Progress'
<1> DEFINE k == KeyOf[r]
<1>1. /\ Ownership /\ Progress /\ k \in Keys /\ req[r].pc = "insert"
      /\ req \in [Requests -> RequestState] /\ orders \in [Keys -> Row]
      /\ UNCHANGED <<loop, world, late>>
  BY Constants DEF IInv, Ownership, TypeOK, ReqOK, OrdersOK, Insert, At
<1>2. CASE KeyTaken(k)
  <2>1. req' = Finish(r, orders[k].status) /\ UNCHANGED orders
    BY <1>2 DEF Insert, KeyTaken
  <2>2. req'[r].pc \notin SagaPcs \cup TailPcs /\ \A s \in Requests : s # r => req'[s] = req[s]
    BY <1>1, <2>1 DEF Finish, Fresh, SagaPcs, TailPcs
  <2> QED BY <1>1, <2>1, <2>2, BystanderFrame
<1>3. CASE ~KeyTaken(k)
  <2>1. /\ orders' = [orders EXCEPT ![k] = Pending(r)]
        /\ req' = [req EXCEPT ![r].pc = "created"]
        /\ ~Ordered(k)
    BY <1>1, <1>3 DEF Insert, Goto, KeyTaken, Ownership, RowsOwned
  <2>2. /\ orders'[k].status = "PENDING" /\ orders'[k].by = r
        /\ \A j \in Keys : j # k => orders'[j] = orders[j]
    BY <1>1, <2>1 DEF Pending, NoRow
  <2>3. req'[r].pc = "created" /\ \A s \in Requests : s # r => req'[s] = req[s]
    BY <1>1, <2>1 DEF RequestState
  <2>4. \A s \in Requests : req[s].pc \in SagaPcs \cup TailPcs => KeyOf[s] # k
    BY <1>1, <2>1, SagaFacts
  <2>5. k \notin loop.batch \cup {loop.cur}
    BY <1>1, <2>1, LoopFacts, Constants DEF Ownership, LoopOnOrders
  <2>6. \A j : Quiet(j)' = Quiet(j) BY <1>1 DEF Quiet
  <2>7. SagaPending'
    BY <1>1, <2>2, <2>3, <2>4, Constants DEF Progress, SagaPending
  <2>8. LoopAlone'
    <3>1. \A j \in Keys : j # k /\ ~Live(j) => ~Live(j)' BY <2>3 DEF Live
    <3>2. loop.batch \subseteq Keys /\ loop.cur \in Keys \cup {NoKey} /\ (loop.pc # "idle" => loop.cur \in Keys)
      BY <1>1, LoopFacts DEF Ownership, TypeOK, LoopOK, LoopState
    <3> QED BY <1>1, <2>2, <2>5, <3>1, <3>2 DEF Progress, LoopAlone
  <2>9. ForwardHolds'
    <3> SUFFICES ASSUME NEW s \in Requests, req'[s].pc \in Forward
                 PROVE  /\ Quiet(KeyOf[s])'
                        /\ \A l \in 1..Size(s) : held'[KeyOf[s]][l] = Reserved(s, l)'
                        /\ req'[s].pc = "pay" => pay'[KeyOf[s]] = "charged"
      BY DEF ForwardHolds
    <3>1. CASE s = r
      <4>1. 1..Size(r) \subseteq LineNos BY Constants DEF LineNos
      <4>2. Quiet(k) /\ \A l \in LineNos : held[k][l] = 0
        BY <1>1, <2>1 DEF Progress, Untouched
      <4> QED BY <1>1, <2>3, <2>6, <3>1, <4>1, <4>2 DEF Reserved, world
    <3>2. CASE s # r
      BY <1>1, <2>3, <2>6, <3>2 DEF Progress, ForwardHolds, Reserved, world
    <3> QED BY <3>1, <3>2
  <2>10. Untouched'
    BY <1>1, <2>2, <2>6 DEF Progress, Untouched, Ordered, world
  <2>11. PaidQuiet' /\ PaidMeansCharged'
    BY <1>1, <2>2, <2>6 DEF Progress, PaidQuiet, PaidMeansCharged, world
  <2>12. PaidHoldsStock'
    BY <1>1, <2>2 DEF Progress, PaidHoldsStock, Items, world
  <2> QED BY <2>7, <2>8, <2>9, <2>10, <2>11, <2>12 DEF Progress
<1> QED BY <1>2, <1>3

LEMMA AnnounceCreatedProgress == ASSUME IInv, NEW r \in Requests, AnnounceCreated(r) PROVE Progress'
<1>1. /\ Ownership /\ Progress /\ req[r].pc = "created" /\ req[r].pc \in SagaPcs \cup TailPcs
      /\ req \in [Requests -> RequestState] /\ req[r] \in RequestState
      /\ orders \in [Keys -> Row] /\ pay \in [Keys -> {"none"} \cup Payment!Outcomes]
      /\ held \in [Keys -> [LineNos -> Int]]
  BY DEF IInv, Ownership, TypeOK, ReqOK, OrdersOK, WorldOK, AnnounceCreated, At, SagaPcs, TailPcs
<1>2. /\ KeyOf[r] \in Keys /\ orders[KeyOf[r]].by = r /\ Size(r) \in 1..MaxLine
      /\ req[r].pc \in SagaPcs => orders[KeyOf[r]].status = "PENDING"
      /\ req[r].pc \in TailPcs => UNCHANGED orders
  BY <1>1, SagaFacts DEF Progress, SagaPending, AnnounceCreated, TailPcs
<1>3. /\ \A s \in Requests : s # r => req'[s] = req[s]
      /\ req'[r].pc = "reserve" /\ req'[r].line = 1
  BY <1>1 DEF AnnounceCreated, RequestState
<1>4. /\ UNCHANGED loop
      /\ \A j \in Keys : j # KeyOf[r] => orders'[j] = orders[j] /\ held'[j] = held[j] /\ pay'[j] = pay[j]
      /\ orders'[KeyOf[r]].by = orders[KeyOf[r]].by
  BY DEF AnnounceCreated, world
<1>5. \A c \in late' : c \in late \/ c.key = KeyOf[r] \/ c.op \notin {"reserve", "release"}
  BY DEF AnnounceCreated
<1>6. /\ req'[r].pc \in SagaPcs => orders'[KeyOf[r]].status = "PENDING"
      /\ req'[r].pc \in Forward =>
           /\ Quiet(KeyOf[r])'
           /\ \A l \in 1..Size(r) : held'[KeyOf[r]][l] = Reserved(r, l)'
           /\ req'[r].pc = "pay" => pay'[KeyOf[r]] = "charged"
  BY <1>1, <1>2, <1>3 DEF AnnounceCreated, Progress, ForwardHolds, Forward, Reserved, Quiet, world, SagaPcs
<1>7. orders'[KeyOf[r]].status = "PAID" =>
        /\ Quiet(KeyOf[r])' /\ pay'[KeyOf[r]] = "charged"
        /\ \A l \in 1..Size(r) : held'[KeyOf[r]][l] = 1
  BY <1>1, <1>2 DEF AnnounceCreated, SagaPcs
<1> QED BY <1>1, <1>3, <1>4, <1>5, <1>6, <1>7, SagaFrame

LEMMA ReloadProgress == ASSUME IInv, NEW r \in Requests, Reload(r) PROVE Progress'
<1>1. /\ Ownership /\ Progress /\ req[r].pc = "reload" /\ req[r].pc \in SagaPcs \cup TailPcs
      /\ req \in [Requests -> RequestState] /\ req[r] \in RequestState
      /\ orders \in [Keys -> Row] /\ pay \in [Keys -> {"none"} \cup Payment!Outcomes]
      /\ held \in [Keys -> [LineNos -> Int]]
  BY DEF IInv, Ownership, TypeOK, ReqOK, OrdersOK, WorldOK, Reload, At, SagaPcs, TailPcs
<1>2. /\ KeyOf[r] \in Keys /\ orders[KeyOf[r]].by = r /\ Size(r) \in 1..MaxLine
      /\ req[r].pc \in SagaPcs => orders[KeyOf[r]].status = "PENDING"
      /\ req[r].pc \in TailPcs => UNCHANGED orders
  BY <1>1, SagaFacts DEF Progress, SagaPending, Reload, TailPcs
<1>3. /\ \A s \in Requests : s # r => req'[s] = req[s]
      /\ req'[r].pc = "charge"
  BY <1>1 DEF Reload, RequestState
<1>4. /\ UNCHANGED loop
      /\ \A j \in Keys : j # KeyOf[r] => orders'[j] = orders[j] /\ held'[j] = held[j] /\ pay'[j] = pay[j]
      /\ orders'[KeyOf[r]].by = orders[KeyOf[r]].by
  BY DEF Reload, world
<1>5. \A c \in late' : c \in late \/ c.key = KeyOf[r] \/ c.op \notin {"reserve", "release"}
  BY DEF Reload
<1>6. /\ req'[r].pc \in SagaPcs => orders'[KeyOf[r]].status = "PENDING"
      /\ req'[r].pc \in Forward =>
           /\ Quiet(KeyOf[r])'
           /\ \A l \in 1..Size(r) : held'[KeyOf[r]][l] = Reserved(r, l)'
           /\ req'[r].pc = "pay" => pay'[KeyOf[r]] = "charged"
  BY <1>1, <1>2, <1>3 DEF Reload, Progress, ForwardHolds, Forward, Reserved, Quiet, world, SagaPcs
<1>7. orders'[KeyOf[r]].status = "PAID" =>
        /\ Quiet(KeyOf[r])' /\ pay'[KeyOf[r]] = "charged"
        /\ \A l \in 1..Size(r) : held'[KeyOf[r]][l] = 1
  BY <1>1, <1>2 DEF Reload, SagaPcs
<1> QED BY <1>1, <1>3, <1>4, <1>5, <1>6, <1>7, SagaFrame

LEMMA AnnounceOutcomeProgress == ASSUME IInv, NEW r \in Requests, AnnounceOutcome(r) PROVE Progress'
<1>1. /\ Ownership /\ Progress /\ req[r].pc = "tell" /\ req[r].pc \in SagaPcs \cup TailPcs
      /\ req \in [Requests -> RequestState] /\ req[r] \in RequestState
      /\ orders \in [Keys -> Row] /\ pay \in [Keys -> {"none"} \cup Payment!Outcomes]
      /\ held \in [Keys -> [LineNos -> Int]]
  BY DEF IInv, Ownership, TypeOK, ReqOK, OrdersOK, WorldOK, AnnounceOutcome, At, SagaPcs, TailPcs
<1>2. /\ KeyOf[r] \in Keys /\ orders[KeyOf[r]].by = r /\ Size(r) \in 1..MaxLine
      /\ req[r].pc \in SagaPcs => orders[KeyOf[r]].status = "PENDING"
      /\ req[r].pc \in TailPcs => UNCHANGED orders
  BY <1>1, SagaFacts DEF Progress, SagaPending, AnnounceOutcome, TailPcs
<1>3. /\ \A s \in Requests : s # r => req'[s] = req[s]
      /\ req'[r].pc = "clear"
  BY <1>1 DEF AnnounceOutcome, RequestState
<1>4. /\ UNCHANGED loop
      /\ \A j \in Keys : j # KeyOf[r] => orders'[j] = orders[j] /\ held'[j] = held[j] /\ pay'[j] = pay[j]
      /\ orders'[KeyOf[r]].by = orders[KeyOf[r]].by
  BY DEF AnnounceOutcome, world
<1>5. \A c \in late' : c \in late \/ c.key = KeyOf[r] \/ c.op \notin {"reserve", "release"}
  BY DEF AnnounceOutcome
<1>6. /\ req'[r].pc \in SagaPcs => orders'[KeyOf[r]].status = "PENDING"
      /\ req'[r].pc \in Forward =>
           /\ Quiet(KeyOf[r])'
           /\ \A l \in 1..Size(r) : held'[KeyOf[r]][l] = Reserved(r, l)'
           /\ req'[r].pc = "pay" => pay'[KeyOf[r]] = "charged"
  BY <1>3 DEF SagaPcs, Forward
<1>7. orders'[KeyOf[r]].status = "PAID" =>
        /\ Quiet(KeyOf[r])' /\ pay'[KeyOf[r]] = "charged"
        /\ \A l \in 1..Size(r) : held'[KeyOf[r]][l] = 1
  BY <1>1, <1>2, Constants DEF AnnounceOutcome, Progress, PaidQuiet, PaidMeansCharged, PaidHoldsStock, Items, Quiet, world
<1> QED BY <1>1, <1>3, <1>4, <1>5, <1>6, <1>7, SagaFrame

LEMMA ClearCartProgress == ASSUME IInv, NEW r \in Requests, ClearCart(r) PROVE Progress'
<1>1. /\ Ownership /\ Progress /\ req[r].pc = "clear" /\ req[r].pc \in SagaPcs \cup TailPcs
      /\ req \in [Requests -> RequestState] /\ req[r] \in RequestState
      /\ orders \in [Keys -> Row] /\ pay \in [Keys -> {"none"} \cup Payment!Outcomes]
      /\ held \in [Keys -> [LineNos -> Int]]
  BY DEF IInv, Ownership, TypeOK, ReqOK, OrdersOK, WorldOK, ClearCart, At, SagaPcs, TailPcs
<1>2. /\ KeyOf[r] \in Keys /\ orders[KeyOf[r]].by = r /\ Size(r) \in 1..MaxLine
      /\ req[r].pc \in SagaPcs => orders[KeyOf[r]].status = "PENDING"
      /\ req[r].pc \in TailPcs => UNCHANGED orders
  BY <1>1, SagaFacts DEF Progress, SagaPending, ClearCart, TailPcs
<1>w. /\ UNCHANGED <<held, pay>>
      /\ \A c \in late' : c \in late \/ c.op = "clear"
  BY <1>1, <1>2, ClearCartItemsType DEF ClearCart, ClearCartItems, DoClear, Lose, world, Ownership
<1>3. /\ \A s \in Requests : s # r => req'[s] = req[s]
      /\ req'[r].pc = "done"
  BY <1>1 DEF ClearCart, Finish, Fresh
<1>4. /\ UNCHANGED loop
      /\ \A j \in Keys : j # KeyOf[r] => orders'[j] = orders[j] /\ held'[j] = held[j] /\ pay'[j] = pay[j]
      /\ orders'[KeyOf[r]].by = orders[KeyOf[r]].by
  BY <1>w DEF ClearCart
<1>5. \A c \in late' : c \in late \/ c.key = KeyOf[r] \/ c.op \notin {"reserve", "release"}
  BY <1>w
<1>6. /\ req'[r].pc \in SagaPcs => orders'[KeyOf[r]].status = "PENDING"
      /\ req'[r].pc \in Forward =>
           /\ Quiet(KeyOf[r])'
           /\ \A l \in 1..Size(r) : held'[KeyOf[r]][l] = Reserved(r, l)'
           /\ req'[r].pc = "pay" => pay'[KeyOf[r]] = "charged"
  BY <1>3 DEF SagaPcs, Forward
<1>7. orders'[KeyOf[r]].status = "PAID" =>
        /\ Quiet(KeyOf[r])' /\ pay'[KeyOf[r]] = "charged"
        /\ \A l \in 1..Size(r) : held'[KeyOf[r]][l] = 1
  BY <1>1, <1>2, <1>w, Constants DEF ClearCart, Progress, PaidQuiet, PaidMeansCharged, PaidHoldsStock, Items, Quiet
<1> QED BY <1>1, <1>3, <1>4, <1>5, <1>6, <1>7, SagaFrame

LEMMA SetStockReservedProgress == ASSUME IInv, NEW r \in Requests, SetStockReserved(r) PROVE Progress'
<1>1. /\ Ownership /\ Progress /\ req[r].pc = "flag" /\ req[r].pc \in SagaPcs \cup TailPcs
      /\ req \in [Requests -> RequestState] /\ req[r] \in RequestState
      /\ orders \in [Keys -> Row] /\ pay \in [Keys -> {"none"} \cup Payment!Outcomes]
      /\ held \in [Keys -> [LineNos -> Int]]
  BY DEF IInv, Ownership, TypeOK, ReqOK, OrdersOK, WorldOK, SetStockReserved, At, SagaPcs, TailPcs
<1>2. /\ KeyOf[r] \in Keys /\ orders[KeyOf[r]].by = r /\ Size(r) \in 1..MaxLine
      /\ req[r].pc \in SagaPcs => orders[KeyOf[r]].status = "PENDING"
      /\ req[r].pc \in TailPcs => UNCHANGED orders
  BY <1>1, SagaFacts DEF Progress, SagaPending, SetStockReserved, TailPcs
<1>i. /\ \/ req' = Die(r) /\ orders' = orders
         \/ /\ req' = Goto(r, "reload")
            /\ orders' = [orders EXCEPT ![KeyOf[r]].flag = TRUE]
      /\ UNCHANGED <<loop, held, pay, late>>
  BY DEF SetStockReserved, Conflict, world
<1>o. /\ \A j \in Keys : j # KeyOf[r] => orders'[j] = orders[j]
      /\ orders'[KeyOf[r]].by = orders[KeyOf[r]].by
      /\ orders'[KeyOf[r]].status \in {"PENDING", "PENDING"}
  <2>1. orders[KeyOf[r]] \in Row /\ orders[KeyOf[r]].status = "PENDING" BY <1>1, <1>2 DEF SagaPcs
  <2> QED BY <2>1, <1>1, <1>2, <1>i DEF Row
<1>3. /\ \A s \in Requests : s # r => req'[s] = req[s]
      /\ req'[r].pc \in {"reload", "dead"}
  BY <1>1, <1>i DEF Die, Goto, Fresh, RequestState
<1>4. /\ UNCHANGED loop
      /\ \A j \in Keys : j # KeyOf[r] => orders'[j] = orders[j] /\ held'[j] = held[j] /\ pay'[j] = pay[j]
      /\ orders'[KeyOf[r]].by = orders[KeyOf[r]].by
  BY <1>i, <1>o
<1>5. \A c \in late' : c \in late \/ c.key = KeyOf[r] \/ c.op \notin {"reserve", "release"}
  BY <1>i
<1>6. /\ req'[r].pc \in SagaPcs => orders'[KeyOf[r]].status = "PENDING"
      /\ req'[r].pc \in Forward =>
           /\ Quiet(KeyOf[r])'
           /\ \A l \in 1..Size(r) : held'[KeyOf[r]][l] = Reserved(r, l)'
           /\ req'[r].pc = "pay" => pay'[KeyOf[r]] = "charged"
  BY <1>1, <1>2, <1>3, <1>i, <1>o DEF Progress, ForwardHolds, Forward, Reserved, Quiet, world, SagaPcs
<1>7. orders'[KeyOf[r]].status = "PAID" =>
        /\ Quiet(KeyOf[r])' /\ pay'[KeyOf[r]] = "charged"
        /\ \A l \in 1..Size(r) : held'[KeyOf[r]][l] = 1
  BY <1>1, <1>2, <1>i, <1>o DEF SagaPcs
<1> QED BY <1>1, <1>3, <1>4, <1>5, <1>6, <1>7, SagaFrame

LEMMA CommitFailedProgress == ASSUME IInv, NEW r \in Requests, CommitFailed(r) PROVE Progress'
<1>1. /\ Ownership /\ Progress /\ req[r].pc = "fail" /\ req[r].pc \in SagaPcs \cup TailPcs
      /\ req \in [Requests -> RequestState] /\ req[r] \in RequestState
      /\ orders \in [Keys -> Row] /\ pay \in [Keys -> {"none"} \cup Payment!Outcomes]
      /\ held \in [Keys -> [LineNos -> Int]]
  BY DEF IInv, Ownership, TypeOK, ReqOK, OrdersOK, WorldOK, CommitFailed, At, SagaPcs, TailPcs
<1>2. /\ KeyOf[r] \in Keys /\ orders[KeyOf[r]].by = r /\ Size(r) \in 1..MaxLine
      /\ req[r].pc \in SagaPcs => orders[KeyOf[r]].status = "PENDING"
      /\ req[r].pc \in TailPcs => UNCHANGED orders
  BY <1>1, SagaFacts DEF Progress, SagaPending, CommitFailed, TailPcs
<1>i. /\ \/ req' = Die(r) /\ orders' = orders
         \/ /\ req' = Goto(r, "tell")
            /\ orders' = [orders EXCEPT ![KeyOf[r]] = [@ EXCEPT !.status = "FAILED", !.reason = req[r].why]]
      /\ UNCHANGED <<loop, held, pay, late>>
  BY DEF CommitFailed, Conflict, world
<1>o. /\ \A j \in Keys : j # KeyOf[r] => orders'[j] = orders[j]
      /\ orders'[KeyOf[r]].by = orders[KeyOf[r]].by
      /\ orders'[KeyOf[r]].status \in {"PENDING", "FAILED"}
  <2>1. orders[KeyOf[r]] \in Row /\ orders[KeyOf[r]].status = "PENDING" BY <1>1, <1>2 DEF SagaPcs
  <2> DEFINE row == [orders[KeyOf[r]] EXCEPT !.status = "FAILED", !.reason = req[r].why]
  <2>2. row.by = orders[KeyOf[r]].by /\ row.status = "FAILED" BY <2>1 DEF Row
  <2>3. orders' = orders \/ orders' = [orders EXCEPT ![KeyOf[r]] = row] BY <1>i
  <2> HIDE DEF row
  <2> QED BY <2>1, <2>2, <2>3, <1>1, <1>2
<1>3. /\ \A s \in Requests : s # r => req'[s] = req[s]
      /\ req'[r].pc \in {"tell", "dead"}
  BY <1>1, <1>i DEF Die, Goto, Fresh, RequestState
<1>4. /\ UNCHANGED loop
      /\ \A j \in Keys : j # KeyOf[r] => orders'[j] = orders[j] /\ held'[j] = held[j] /\ pay'[j] = pay[j]
      /\ orders'[KeyOf[r]].by = orders[KeyOf[r]].by
  BY <1>i, <1>o
<1>5. \A c \in late' : c \in late \/ c.key = KeyOf[r] \/ c.op \notin {"reserve", "release"}
  BY <1>i
<1>6. /\ req'[r].pc \in SagaPcs => orders'[KeyOf[r]].status = "PENDING"
      /\ req'[r].pc \in Forward =>
           /\ Quiet(KeyOf[r])'
           /\ \A l \in 1..Size(r) : held'[KeyOf[r]][l] = Reserved(r, l)'
           /\ req'[r].pc = "pay" => pay'[KeyOf[r]] = "charged"
  BY <1>1, <1>2, <1>3, <1>i, <1>o DEF Progress, ForwardHolds, Forward, Reserved, Quiet, world, SagaPcs
<1>7. orders'[KeyOf[r]].status = "PAID" =>
        /\ Quiet(KeyOf[r])' /\ pay'[KeyOf[r]] = "charged"
        /\ \A l \in 1..Size(r) : held'[KeyOf[r]][l] = 1
  BY <1>1, <1>2, <1>i, <1>o DEF SagaPcs
<1> QED BY <1>1, <1>3, <1>4, <1>5, <1>6, <1>7, SagaFrame

LEMMA CommitPaidProgress == ASSUME IInv, NEW r \in Requests, CommitPaid(r) PROVE Progress'
<1>1. /\ Ownership /\ Progress /\ req[r].pc = "pay" /\ req[r].pc \in SagaPcs \cup TailPcs
      /\ req \in [Requests -> RequestState] /\ req[r] \in RequestState
      /\ orders \in [Keys -> Row] /\ pay \in [Keys -> {"none"} \cup Payment!Outcomes]
      /\ held \in [Keys -> [LineNos -> Int]]
  BY DEF IInv, Ownership, TypeOK, ReqOK, OrdersOK, WorldOK, CommitPaid, At, SagaPcs, TailPcs
<1>2. /\ KeyOf[r] \in Keys /\ orders[KeyOf[r]].by = r /\ Size(r) \in 1..MaxLine
      /\ req[r].pc \in SagaPcs => orders[KeyOf[r]].status = "PENDING"
      /\ req[r].pc \in TailPcs => UNCHANGED orders
  BY <1>1, SagaFacts DEF Progress, SagaPending, CommitPaid, TailPcs
<1>i. /\ \/ req' = Die(r) /\ orders' = orders
         \/ /\ req' = Goto(r, "tell")
            /\ orders' = [orders EXCEPT ![KeyOf[r]].status = "PAID"]
      /\ UNCHANGED <<loop, held, pay, late>>
  BY DEF CommitPaid, Conflict, world
<1>o. /\ \A j \in Keys : j # KeyOf[r] => orders'[j] = orders[j]
      /\ orders'[KeyOf[r]].by = orders[KeyOf[r]].by
      /\ orders'[KeyOf[r]].status \in {"PENDING", "PAID"}
  <2>1. orders[KeyOf[r]] \in Row /\ orders[KeyOf[r]].status = "PENDING" BY <1>1, <1>2 DEF SagaPcs
  <2> QED BY <2>1, <1>1, <1>2, <1>i DEF Row
<1>3. /\ \A s \in Requests : s # r => req'[s] = req[s]
      /\ req'[r].pc \in {"tell", "dead"}
  BY <1>1, <1>i DEF Die, Goto, Fresh, RequestState
<1>4. /\ UNCHANGED loop
      /\ \A j \in Keys : j # KeyOf[r] => orders'[j] = orders[j] /\ held'[j] = held[j] /\ pay'[j] = pay[j]
      /\ orders'[KeyOf[r]].by = orders[KeyOf[r]].by
  BY <1>i, <1>o
<1>5. \A c \in late' : c \in late \/ c.key = KeyOf[r] \/ c.op \notin {"reserve", "release"}
  BY <1>i
<1>6. /\ req'[r].pc \in SagaPcs => orders'[KeyOf[r]].status = "PENDING"
      /\ req'[r].pc \in Forward =>
           /\ Quiet(KeyOf[r])'
           /\ \A l \in 1..Size(r) : held'[KeyOf[r]][l] = Reserved(r, l)'
           /\ req'[r].pc = "pay" => pay'[KeyOf[r]] = "charged"
  BY <1>1, <1>2, <1>3, <1>i, <1>o DEF Progress, ForwardHolds, Forward, Reserved, Quiet, world, SagaPcs
<1>7. orders'[KeyOf[r]].status = "PAID" =>
        /\ Quiet(KeyOf[r])' /\ pay'[KeyOf[r]] = "charged"
        /\ \A l \in 1..Size(r) : held'[KeyOf[r]][l] = 1
  BY <1>1, <1>2, <1>i, <1>o DEF Progress, ForwardHolds, Forward, Reserved, Quiet, SagaPcs, world
<1> QED BY <1>1, <1>3, <1>4, <1>5, <1>6, <1>7, SagaFrame

LEMMA ReserveRefusedProgress == ASSUME IInv, NEW r \in Requests, ReserveRefused(r) PROVE Progress'
<1>1. /\ Ownership /\ Progress /\ req[r].pc = "reserve" /\ req[r].pc \in SagaPcs \cup TailPcs
      /\ req \in [Requests -> RequestState] /\ req[r] \in RequestState
      /\ orders \in [Keys -> Row] /\ pay \in [Keys -> {"none"} \cup Payment!Outcomes]
      /\ held \in [Keys -> [LineNos -> Int]]
  BY DEF IInv, Ownership, TypeOK, ReqOK, OrdersOK, WorldOK, ReserveRefused, At, SagaPcs, TailPcs
<1>2. /\ KeyOf[r] \in Keys /\ orders[KeyOf[r]].by = r /\ Size(r) \in 1..MaxLine
      /\ req[r].pc \in SagaPcs => orders[KeyOf[r]].status = "PENDING"
      /\ req[r].pc \in TailPcs => UNCHANGED orders
  BY <1>1, SagaFacts DEF Progress, SagaPending, ReserveRefused, TailPcs
<1>3. /\ \A s \in Requests : s # r => req'[s] = req[s]
      /\ req'[r].pc \in {"fail", "undo"}
  BY <1>1 DEF ReserveRefused, Undo, RequestState
<1>4. /\ UNCHANGED loop
      /\ \A j \in Keys : j # KeyOf[r] => orders'[j] = orders[j] /\ held'[j] = held[j] /\ pay'[j] = pay[j]
      /\ orders'[KeyOf[r]].by = orders[KeyOf[r]].by
  BY DEF ReserveRefused
<1>5. \A c \in late' : c \in late \/ c.key = KeyOf[r] \/ c.op \notin {"reserve", "release"}
  BY DEF ReserveRefused
<1>6. /\ req'[r].pc \in SagaPcs => orders'[KeyOf[r]].status = "PENDING"
      /\ req'[r].pc \in Forward =>
           /\ Quiet(KeyOf[r])'
           /\ \A l \in 1..Size(r) : held'[KeyOf[r]][l] = Reserved(r, l)'
           /\ req'[r].pc = "pay" => pay'[KeyOf[r]] = "charged"
  BY <1>1, <1>2, <1>3 DEF ReserveRefused, Forward, SagaPcs
<1>7. orders'[KeyOf[r]].status = "PAID" =>
        /\ Quiet(KeyOf[r])' /\ pay'[KeyOf[r]] = "charged"
        /\ \A l \in 1..Size(r) : held'[KeyOf[r]][l] = 1
  BY <1>1, <1>2 DEF ReserveRefused, SagaPcs
<1> QED BY <1>1, <1>3, <1>4, <1>5, <1>6, <1>7, SagaFrame

LEMMA ReserveLostProgress == ASSUME IInv, NEW r \in Requests, ReserveLost(r) PROVE Progress'
<1>1. /\ Ownership /\ Progress /\ req[r].pc = "reserve" /\ req[r].pc \in SagaPcs \cup TailPcs
      /\ req \in [Requests -> RequestState] /\ req[r] \in RequestState
      /\ orders \in [Keys -> Row] /\ pay \in [Keys -> {"none"} \cup Payment!Outcomes]
      /\ held \in [Keys -> [LineNos -> Int]]
  BY DEF IInv, Ownership, TypeOK, ReqOK, OrdersOK, WorldOK, ReserveLost, At, SagaPcs, TailPcs
<1>2. /\ KeyOf[r] \in Keys /\ orders[KeyOf[r]].by = r /\ Size(r) \in 1..MaxLine
      /\ req[r].pc \in SagaPcs => orders[KeyOf[r]].status = "PENDING"
      /\ req[r].pc \in TailPcs => UNCHANGED orders
  BY <1>1, SagaFacts DEF Progress, SagaPending, ReserveLost, TailPcs
<1>3. /\ \A s \in Requests : s # r => req'[s] = req[s]
      /\ req'[r].pc \in {"fail", "undo"}
  BY <1>1 DEF ReserveLost, Undo, RequestState
<1>4. /\ UNCHANGED loop
      /\ \A j \in Keys : j # KeyOf[r] => orders'[j] = orders[j] /\ held'[j] = held[j] /\ pay'[j] = pay[j]
      /\ orders'[KeyOf[r]].by = orders[KeyOf[r]].by
  BY DEF ReserveLost, Lose, world
<1>5. \A c \in late' : c \in late \/ c.key = KeyOf[r] \/ c.op \notin {"reserve", "release"}
  BY DEF ReserveLost, Lose, Call
<1>6. /\ req'[r].pc \in SagaPcs => orders'[KeyOf[r]].status = "PENDING"
      /\ req'[r].pc \in Forward =>
           /\ Quiet(KeyOf[r])'
           /\ \A l \in 1..Size(r) : held'[KeyOf[r]][l] = Reserved(r, l)'
           /\ req'[r].pc = "pay" => pay'[KeyOf[r]] = "charged"
  BY <1>1, <1>2, <1>3 DEF ReserveLost, Forward, SagaPcs
<1>7. orders'[KeyOf[r]].status = "PAID" =>
        /\ Quiet(KeyOf[r])' /\ pay'[KeyOf[r]] = "charged"
        /\ \A l \in 1..Size(r) : held'[KeyOf[r]][l] = 1
  BY <1>1, <1>2 DEF ReserveLost, SagaPcs
<1> QED BY <1>1, <1>3, <1>4, <1>5, <1>6, <1>7, SagaFrame

LEMMA ChargeLostProgress == ASSUME IInv, NEW r \in Requests, ChargeLost(r) PROVE Progress'
<1>1. /\ Ownership /\ Progress /\ req[r].pc = "charge" /\ req[r].pc \in SagaPcs \cup TailPcs
      /\ req \in [Requests -> RequestState] /\ req[r] \in RequestState
      /\ orders \in [Keys -> Row] /\ pay \in [Keys -> {"none"} \cup Payment!Outcomes]
      /\ held \in [Keys -> [LineNos -> Int]]
  BY DEF IInv, Ownership, TypeOK, ReqOK, OrdersOK, WorldOK, ChargeLost, At, SagaPcs, TailPcs
<1>2. /\ KeyOf[r] \in Keys /\ orders[KeyOf[r]].by = r /\ Size(r) \in 1..MaxLine
      /\ req[r].pc \in SagaPcs => orders[KeyOf[r]].status = "PENDING"
      /\ req[r].pc \in TailPcs => UNCHANGED orders
  BY <1>1, SagaFacts DEF Progress, SagaPending, ChargeLost, TailPcs
<1>3. /\ \A s \in Requests : s # r => req'[s] = req[s]
      /\ req'[r].pc \in {"fail", "undo"}
  BY <1>1 DEF ChargeLost, Undo, RequestState
<1>4. /\ UNCHANGED loop
      /\ \A j \in Keys : j # KeyOf[r] => orders'[j] = orders[j] /\ held'[j] = held[j] /\ pay'[j] = pay[j]
      /\ orders'[KeyOf[r]].by = orders[KeyOf[r]].by
  BY DEF ChargeLost, Lose, world
<1>5. \A c \in late' : c \in late \/ c.key = KeyOf[r] \/ c.op \notin {"reserve", "release"}
  BY DEF ChargeLost, Lose, Call
<1>6. /\ req'[r].pc \in SagaPcs => orders'[KeyOf[r]].status = "PENDING"
      /\ req'[r].pc \in Forward =>
           /\ Quiet(KeyOf[r])'
           /\ \A l \in 1..Size(r) : held'[KeyOf[r]][l] = Reserved(r, l)'
           /\ req'[r].pc = "pay" => pay'[KeyOf[r]] = "charged"
  BY <1>1, <1>2, <1>3 DEF ChargeLost, Forward, SagaPcs
<1>7. orders'[KeyOf[r]].status = "PAID" =>
        /\ Quiet(KeyOf[r])' /\ pay'[KeyOf[r]] = "charged"
        /\ \A l \in 1..Size(r) : held'[KeyOf[r]][l] = 1
  BY <1>1, <1>2 DEF ChargeLost, SagaPcs
<1> QED BY <1>1, <1>3, <1>4, <1>5, <1>6, <1>7, SagaFrame

LEMMA ReleaseLineProgress == ASSUME IInv, NEW r \in Requests, ReleaseLine(r) PROVE Progress'
<1>1. /\ Ownership /\ Progress /\ req[r].pc = "undo" /\ req[r].pc \in SagaPcs \cup TailPcs
      /\ req \in [Requests -> RequestState] /\ req[r] \in RequestState
      /\ orders \in [Keys -> Row] /\ pay \in [Keys -> {"none"} \cup Payment!Outcomes]
      /\ held \in [Keys -> [LineNos -> Int]]
  BY DEF IInv, Ownership, TypeOK, ReqOK, OrdersOK, WorldOK, ReleaseLine, At, SagaPcs, TailPcs
<1>2. /\ KeyOf[r] \in Keys /\ orders[KeyOf[r]].by = r /\ Size(r) \in 1..MaxLine
      /\ req[r].pc \in SagaPcs => orders[KeyOf[r]].status = "PENDING"
      /\ req[r].pc \in TailPcs => UNCHANGED orders
  BY <1>1, SagaFacts DEF Progress, SagaPending, ReleaseLine, TailPcs
<1>w. /\ UNCHANGED pay
      /\ \A j \in Keys : j # KeyOf[r] => held'[j] = held[j]
      /\ \A c \in late' : c \in late \/ c.key = KeyOf[r]
  BY <1>1, <1>2 DEF ReleaseLine, ReleaseStock, DoRelease, Lose, Call, world
<1>3. /\ \A s \in Requests : s # r => req'[s] = req[s]
      /\ req'[r].pc \in {"undo", "fail"}
  BY <1>1 DEF ReleaseLine, NextLine, RequestState
<1>4. /\ UNCHANGED loop
      /\ \A j \in Keys : j # KeyOf[r] => orders'[j] = orders[j] /\ held'[j] = held[j] /\ pay'[j] = pay[j]
      /\ orders'[KeyOf[r]].by = orders[KeyOf[r]].by
  BY <1>1, <1>2, <1>w DEF ReleaseLine
<1>5. \A c \in late' : c \in late \/ c.key = KeyOf[r] \/ c.op \notin {"reserve", "release"}
  BY <1>w
<1>6. /\ req'[r].pc \in SagaPcs => orders'[KeyOf[r]].status = "PENDING"
      /\ req'[r].pc \in Forward =>
           /\ Quiet(KeyOf[r])'
           /\ \A l \in 1..Size(r) : held'[KeyOf[r]][l] = Reserved(r, l)'
           /\ req'[r].pc = "pay" => pay'[KeyOf[r]] = "charged"
  BY <1>1, <1>2, <1>3 DEF ReleaseLine, Forward, SagaPcs
<1>7. orders'[KeyOf[r]].status = "PAID" =>
        /\ Quiet(KeyOf[r])' /\ pay'[KeyOf[r]] = "charged"
        /\ \A l \in 1..Size(r) : held'[KeyOf[r]][l] = 1
  BY <1>1, <1>2 DEF ReleaseLine, SagaPcs
<1> QED BY <1>1, <1>3, <1>4, <1>5, <1>6, <1>7, SagaFrame

LEMMA ReserveLineProgress == ASSUME IInv, NEW r \in Requests, ReserveLine(r) PROVE Progress'
<1>1. /\ Ownership /\ Progress /\ req[r].pc = "reserve" /\ req[r].pc \in SagaPcs \cup TailPcs
      /\ req \in [Requests -> RequestState] /\ req[r] \in RequestState
      /\ orders \in [Keys -> Row] /\ pay \in [Keys -> {"none"} \cup Payment!Outcomes]
      /\ held \in [Keys -> [LineNos -> Int]]
  BY DEF IInv, Ownership, TypeOK, ReqOK, OrdersOK, WorldOK, ReserveLine, At, SagaPcs, TailPcs
<1>2. /\ KeyOf[r] \in Keys /\ orders[KeyOf[r]].by = r /\ Size(r) \in 1..MaxLine
      /\ req[r].pc \in SagaPcs => orders[KeyOf[r]].status = "PENDING"
      /\ req[r].pc \in TailPcs => UNCHANGED orders
  BY <1>1, SagaFacts DEF Progress, SagaPending, ReserveLine, TailPcs
<1>w. /\ req[r].line \in 1..Size(r) /\ Size(r) \in 1..MaxLine /\ UNCHANGED pay
      /\ \A j \in Keys : j # KeyOf[r] => held'[j] = held[j]
      /\ \A l \in 1..Size(r) : held'[KeyOf[r]][l] =
           IF l = req[r].line THEN held[KeyOf[r]][l] + 1 ELSE held[KeyOf[r]][l]
  <2>1. req[r].line \in 1..Size(r) BY <1>1, SagaFacts
  <2>2. 1..Size(r) \subseteq LineNos BY <1>2, Constants DEF LineNos
  <2>3. held' = [held EXCEPT ![KeyOf[r]][req[r].line] = @ + 1] /\ UNCHANGED pay
    BY DEF ReserveLine, DoReserve
  <2> QED BY <1>1, <1>2, <2>1, <2>2, <2>3
<1>3. /\ \A s \in Requests : s # r => req'[s] = req[s]
      /\ \/ /\ req[r].line < Size(r) /\ req'[r].pc = "reserve"
            /\ req'[r].line = req[r].line + 1
         \/ req[r].line >= Size(r) /\ req'[r].pc = "flag"
  BY <1>1, <1>w DEF ReserveLine, NextLine, RequestState
<1>4. /\ UNCHANGED loop
      /\ \A j \in Keys : j # KeyOf[r] => orders'[j] = orders[j] /\ held'[j] = held[j] /\ pay'[j] = pay[j]
      /\ orders'[KeyOf[r]].by = orders[KeyOf[r]].by
  BY <1>1, <1>2, <1>w DEF ReserveLine
<1>5. \A c \in late' : c \in late \/ c.key = KeyOf[r] \/ c.op \notin {"reserve", "release"}
  BY DEF ReserveLine
<1>6. /\ req'[r].pc \in SagaPcs => orders'[KeyOf[r]].status = "PENDING"
      /\ req'[r].pc \in Forward =>
           /\ Quiet(KeyOf[r])'
           /\ \A l \in 1..Size(r) : held'[KeyOf[r]][l] = Reserved(r, l)'
           /\ req'[r].pc = "pay" => pay'[KeyOf[r]] = "charged"
  <2>1. \A l \in 1..Size(r) : held[KeyOf[r]][l] = IF l < req[r].line THEN 1 ELSE 0
    BY <1>1 DEF Progress, ForwardHolds, Forward, Reserved
  <2>2. Quiet(KeyOf[r])' BY <1>1 DEF ReserveLine, Progress, ForwardHolds, Forward, Quiet
  <2>3. \A l \in 1..Size(r) : held'[KeyOf[r]][l] = Reserved(r, l)'
    BY <2>1, <1>w, <1>2, <1>3 DEF Reserved
  <2> QED BY <1>1, <1>2, <1>3, <2>2, <2>3 DEF ReserveLine, SagaPcs
<1>7. orders'[KeyOf[r]].status = "PAID" =>
        /\ Quiet(KeyOf[r])' /\ pay'[KeyOf[r]] = "charged"
        /\ \A l \in 1..Size(r) : held'[KeyOf[r]][l] = 1
  BY <1>1, <1>2 DEF ReserveLine, SagaPcs
<1> QED BY <1>1, <1>3, <1>4, <1>5, <1>6, <1>7, SagaFrame

LEMMA ChargeProgress == ASSUME IInv, NEW r \in Requests, Charge(r) PROVE Progress'
<1>1. /\ Ownership /\ Progress /\ req[r].pc = "charge" /\ req[r].pc \in SagaPcs \cup TailPcs
      /\ req \in [Requests -> RequestState] /\ req[r] \in RequestState
      /\ orders \in [Keys -> Row] /\ pay \in [Keys -> {"none"} \cup Payment!Outcomes]
      /\ held \in [Keys -> [LineNos -> Int]]
  BY DEF IInv, Ownership, TypeOK, ReqOK, OrdersOK, WorldOK, Charge, At, SagaPcs, TailPcs
<1>2. /\ KeyOf[r] \in Keys /\ orders[KeyOf[r]].by = r /\ Size(r) \in 1..MaxLine
      /\ req[r].pc \in SagaPcs => orders[KeyOf[r]].status = "PENDING"
      /\ req[r].pc \in TailPcs => UNCHANGED orders
  BY <1>1, SagaFacts DEF Progress, SagaPending, Charge, TailPcs
<1>o. /\ UNCHANGED held
      /\ \A j \in Keys : j # KeyOf[r] => pay'[j] = pay[j]
      /\ \/ pay'[KeyOf[r]] = "charged" /\ req' = Goto(r, "pay")
         \/ req' = Undo(r, Size(r), "PAYMENT_DECLINED")
  BY <1>1, <1>2 DEF Charge, DoCharge, AfterCharge, Payment!Charge
<1>3. /\ \A s \in Requests : s # r => req'[s] = req[s]
      /\ \/ req'[r].pc = "pay" /\ pay'[KeyOf[r]] = "charged"
         \/ req'[r].pc \in {"fail", "undo"}
  <2>1. CASE req' = Goto(r, "pay") /\ pay'[KeyOf[r]] = "charged"
    BY <1>1, <2>1 DEF Goto, RequestState
  <2>2. CASE req' = Undo(r, Size(r), "PAYMENT_DECLINED")
    BY <1>1, <2>2 DEF Undo, RequestState
  <2> QED BY <1>o, <2>1, <2>2
<1>4. /\ UNCHANGED loop
      /\ \A j \in Keys : j # KeyOf[r] => orders'[j] = orders[j] /\ held'[j] = held[j] /\ pay'[j] = pay[j]
      /\ orders'[KeyOf[r]].by = orders[KeyOf[r]].by
  BY <1>1, <1>2, <1>o DEF Charge
<1>5. \A c \in late' : c \in late \/ c.key = KeyOf[r] \/ c.op \notin {"reserve", "release"}
  BY DEF Charge
<1>6. /\ req'[r].pc \in SagaPcs => orders'[KeyOf[r]].status = "PENDING"
      /\ req'[r].pc \in Forward =>
           /\ Quiet(KeyOf[r])'
           /\ \A l \in 1..Size(r) : held'[KeyOf[r]][l] = Reserved(r, l)'
           /\ req'[r].pc = "pay" => pay'[KeyOf[r]] = "charged"
  <2>1. CASE req'[r].pc = "pay"
    <3>1. pay'[KeyOf[r]] = "charged" BY <1>3, <2>1
    <3>2. Quiet(KeyOf[r])' BY <1>1 DEF Charge, Progress, ForwardHolds, Forward, Quiet
    <3>3. \A l \in 1..Size(r) : held'[KeyOf[r]][l] = Reserved(r, l)'
      BY <1>1, <1>o, <2>1 DEF Progress, ForwardHolds, Forward, Reserved
    <3> QED BY <1>1, <1>2, <2>1, <3>1, <3>2, <3>3 DEF Charge, SagaPcs
  <2>2. CASE req'[r].pc # "pay"
    BY <1>1, <1>2, <1>3, <2>2 DEF Charge, Forward, SagaPcs
  <2> QED BY <2>1, <2>2
<1>7. orders'[KeyOf[r]].status = "PAID" =>
        /\ Quiet(KeyOf[r])' /\ pay'[KeyOf[r]] = "charged"
        /\ \A l \in 1..Size(r) : held'[KeyOf[r]][l] = 1
  BY <1>1, <1>2 DEF Charge, SagaPcs
<1> QED BY <1>1, <1>3, <1>4, <1>5, <1>6, <1>7, SagaFrame
-----------------------------------------------------------------------------
(* Progress: everything but the sagas *)

\* A step that starts or moves no saga preserves Progress if the orders whose
\* stock it touches (the keys in T) have neither a saga going forward nor been
\* paid, and a charge stays a charge.
LEMMA EnvFrame ==
  ASSUME Progress, NEW T \in SUBSET Keys,
         \A s \in Requests : req'[s].pc \in SagaPcs \cup TailPcs => req'[s] = req[s],
         \A j \in Keys : orders'[j].by = orders[j].by,
         \A j \in Keys : orders'[j].status # orders[j].status =>
                           ~Live(j) /\ orders'[j].status # "PAID",
         LoopAlone',
         \A j \in Keys : j \notin T => held'[j] = held[j],
         \A j \in Keys : pay[j] = "charged" => pay'[j] = "charged",
         \A c \in late' : c \in late \/ c.key \in T \/ c.op \notin {"reserve", "release"},
         \A j \in T : /\ Ordered(j) /\ orders'[j].status # "PAID"
                      /\ \A s \in Requests : KeyOf[s] = j => req'[s].pc \notin Forward
  PROVE  Progress'
<1>1. ASSUME NEW j \in Keys, j \notin T, Quiet(j) PROVE Quiet(j)'
  BY <1>1 DEF Quiet
<1>2. ASSUME NEW j \in Keys, orders'[j].status = "PAID" PROVE orders[j].status = "PAID" /\ j \notin T
  BY <1>2
<1>3. SagaPending'
  <2> SUFFICES ASSUME NEW s \in Requests, req'[s].pc \in SagaPcs
               PROVE  orders'[KeyOf[s]].status = "PENDING"
    BY DEF SagaPending
  <2>1. req'[s] = req[s] /\ KeyOf[s] \in Keys BY Constants
  <2>2. Live(KeyOf[s]) BY <2>1 DEF Live
  <2> QED BY <2>1, <2>2 DEF Progress, SagaPending
<1>4. ForwardHolds'
  <2> SUFFICES ASSUME NEW s \in Requests, req'[s].pc \in Forward
               PROVE  /\ Quiet(KeyOf[s])'
                      /\ \A l \in 1..Size(s) : held'[KeyOf[s]][l] = Reserved(s, l)'
                      /\ req'[s].pc = "pay" => pay'[KeyOf[s]] = "charged"
    BY DEF ForwardHolds
  <2>1. req'[s] = req[s] /\ KeyOf[s] \in Keys BY Constants DEF Forward, SagaPcs
  <2>2. KeyOf[s] \notin T BY <2>1
  <2>3. \A l : Reserved(s, l)' = Reserved(s, l) BY <2>1 DEF Reserved
  <2> QED BY <1>1, <2>1, <2>2, <2>3 DEF Progress, ForwardHolds
<1>5. Untouched'
  <2> SUFFICES ASSUME NEW j \in Keys, ~Ordered(j)' PROVE Quiet(j)' /\ \A l \in LineNos : held'[j][l] = 0
    BY DEF Untouched
  <2>1. ~Ordered(j) BY DEF Ordered
  <2> QED BY <2>1, <1>1 DEF Progress, Untouched
<1>6. PaidQuiet' /\ PaidMeansCharged' BY <1>1, <1>2 DEF Progress, PaidQuiet, PaidMeansCharged
<1>7. PaidHoldsStock' BY <1>2 DEF Progress, PaidHoldsStock, Items
<1> QED BY <1>3, <1>4, <1>5, <1>6, <1>7 DEF Progress

\* A step of a pass that changes no order and calls for no stock.
LEMMA PassFrame ==
  ASSUME Progress, UNCHANGED <<req, orders, held, pay>>, LoopAlone',
         \A c \in late' : c \in late \/ c.op \notin {"reserve", "release"}
  PROVE  Progress'
<1>1. \A s \in Requests : req'[s].pc \in SagaPcs \cup TailPcs => req'[s] = req[s] OBVIOUS
<1> QED BY <1>1, EnvFrame, {} \in SUBSET Keys

\* A step that leaves the orders and the passes alone.
LEMMA AloneFrame ==
  ASSUME LoopAlone, UNCHANGED <<orders, loop>>,
         \A s \in Requests : req'[s].pc \in SagaPcs \cup TailPcs => req'[s] = req[s]
  PROVE  LoopAlone'
<1>1. \A j : Live(j)' => Live(j) BY DEF Live
<1> QED BY <1>1 DEF LoopAlone

LEMMA StartReconciliationProgress ==
  ASSUME IInv, "slow" \notin Faults, StartReconciliation PROVE Progress'
<1>1. PICK k \in Stuck : loop' = BeginRec(k, Stuck \ {k})
  BY DEF StartReconciliation
<1>2. /\ loop'.cur = k /\ loop'.batch = Stuck \ {k} /\ loop'.pc \in {"release", "fail"}
  BY <1>1 DEF BeginRec, Begin
<1>3. \A j \in Stuck : j \in Keys /\ orders[j].status = "PENDING" /\ ~Live(j)
  BY DEF Stuck, Overdue
<1>4. UNCHANGED <<req, orders, held, pay, late>> BY DEF StartReconciliation, world
<1>5. \A j : Live(j)' = Live(j) BY <1>4 DEF Live
<1>6. LoopAlone' BY <1>2, <1>3, <1>4, <1>5 DEF LoopAlone
<1> QED BY <1>4, <1>6, PassFrame DEF IInv

LEMMA StartDeliveryProgress ==
  ASSUME IInv, "slow" \notin Faults, StartDelivery PROVE Progress'
<1>1. PICK k \in Due : loop' = Begin(k, Due \ {k}, "deliver")
  BY DEF StartDelivery
<1>2. /\ loop'.cur = k /\ loop'.batch = Due \ {k} /\ loop'.pc = "deliver"
  BY <1>1 DEF Begin
<1>3. \A j \in Due : j \in Keys /\ orders[j].status = "PAID" /\ ~Live(j)
  BY DEF Due, Overdue
<1>4. UNCHANGED <<req, orders, held, pay, late>> BY DEF StartDelivery, world
<1>5. \A j : Live(j)' = Live(j) BY <1>4 DEF Live
<1>6. LoopAlone' BY <1>2, <1>3, <1>4, <1>5 DEF LoopAlone
<1> QED BY <1>4, <1>6, PassFrame DEF IInv

LEMMA ReconcileAnnounceProgress == ASSUME IInv, ReconcileAnnounce PROVE Progress'
<1>1. /\ LoopAlone /\ loop.pc = "tell" /\ loop \in LoopState
      /\ UNCHANGED <<req, orders, held, pay, late>>
  BY DEF IInv, Progress, Ownership, TypeOK, LoopOK, ReconcileAnnounce, world
<1>2. loop'.pc = "clear" /\ loop'.cur = loop.cur /\ loop'.batch = loop.batch
  BY <1>1 DEF ReconcileAnnounce, LoopGoto, LoopState
<1>3. \A j : Live(j)' = Live(j) BY <1>1 DEF Live
<1>4. LoopAlone' BY <1>1, <1>2, <1>3 DEF LoopAlone
<1> QED BY <1>1, <1>4, PassFrame DEF IInv

LEMMA IdleAlone == ASSUME loop' = Idle PROVE LoopAlone'
  BY Constants DEF Idle, LoopAlone

LEMMA ReconcileClearProgress == ASSUME IInv, ReconcileClear PROVE Progress'
<1>1. /\ LoopAlone /\ loop.pc = "clear" /\ loop \in LoopState
      /\ UNCHANGED <<req, orders, held, pay>>
      /\ \A c \in late' : c \in late \/ c.op \notin {"reserve", "release"}
  BY DEF IInv, Progress, Ownership, TypeOK, LoopOK, ReconcileClear, ClearCartItems, DoClear,
         Lose, Call, world
<1>2. \A j : Live(j)' = Live(j) BY <1>1 DEF Live
<1>3. LoopAlone'
  <2>1. CASE loop' = Idle BY <2>1, IdleAlone
  <2>2. ASSUME NEW k \in loop.batch, loop' = BeginRec(k, loop.batch \ {k}) PROVE LoopAlone'
    <3>1. /\ loop'.cur = k /\ loop'.batch = loop.batch \ {k}
          /\ loop'.pc \in {"release", "fail"}
      BY <2>2 DEF BeginRec, Begin
    <3> QED BY <1>1, <1>2, <2>2, <3>1 DEF LoopAlone
  <2> QED BY <2>1, <2>2 DEF ReconcileClear
<1> QED BY <1>1, <1>3, PassFrame DEF IInv

LEMMA AnnounceDeliveredProgress == ASSUME IInv, AnnounceDelivered PROVE Progress'
<1>1. /\ LoopAlone /\ loop.pc = "announce" /\ loop \in LoopState
      /\ UNCHANGED <<req, orders, held, pay, late>>
  BY DEF IInv, Progress, Ownership, TypeOK, LoopOK, AnnounceDelivered, world
<1>2. \A j : Live(j)' = Live(j) BY <1>1 DEF Live
<1>3. LoopAlone'
  <2>1. CASE loop' = Idle BY <2>1, IdleAlone
  <2>2. ASSUME NEW k \in loop.batch, loop' = Begin(k, loop.batch \ {k}, "deliver") PROVE LoopAlone'
    <3>1. /\ loop'.cur = k /\ loop'.batch = loop.batch \ {k} /\ loop'.pc = "deliver"
      BY <2>2 DEF Begin
    <3> QED BY <1>1, <1>2, <2>2, <3>1 DEF LoopAlone
  <2> QED BY <2>1, <2>2 DEF AnnounceDelivered
<1> QED BY <1>1, <1>3, PassFrame DEF IInv

LEMMA AbortPassProgress == ASSUME IInv, AbortPass PROVE Progress'
  BY IdleAlone, PassFrame DEF IInv, AbortPass, world

LEMMA ReconcileReleaseProgress == ASSUME IInv, ReconcileRelease PROVE Progress'
<1> DEFINE k == loop.cur
<1>1. /\ Progress /\ LoopAlone /\ loop.pc = "release" /\ loop \in LoopState
      /\ k \in Keys /\ Ordered(k) /\ orders[k].status = "PENDING" /\ ~Live(k)
      /\ held \in [Keys -> [LineNos -> Int]]
      /\ UNCHANGED <<req, orders>>
  BY LoopFacts DEF IInv, Progress, Ownership, TypeOK, LoopOK, WorldOK, ReconcileRelease, LoopAlone
<1>2. /\ UNCHANGED pay
      /\ \A j \in Keys : j # k => held'[j] = held[j]
      /\ \A c \in late' : c \in late \/ c.key = k
  BY <1>1 DEF ReconcileRelease, ReleaseStock, DoRelease, Lose, Call, world
<1>3. loop'.pc \in {"release", "fail"} /\ loop'.cur = loop.cur /\ loop'.batch = loop.batch
  BY <1>1 DEF ReconcileRelease, LoopGoto, LoopState
<1>4. \A j : Live(j)' = Live(j) BY <1>1 DEF Live
<1>5. LoopAlone' BY <1>1, <1>3, <1>4 DEF LoopAlone
<1>6. \A s \in Requests : KeyOf[s] = k => req'[s].pc \notin Forward
  BY <1>1 DEF Live, Forward, SagaPcs
<1>7. {k} \in SUBSET Keys BY <1>1
<1> QED BY <1>1, <1>2, <1>5, <1>6, <1>7, EnvFrame

LEMMA ReconcileCommitProgress == ASSUME IInv, ReconcileCommit PROVE Progress'
<1> DEFINE k == loop.cur
           row == [orders[k] EXCEPT !.status = "FAILED", !.reason = "RECONCILIATION_TIMEOUT"]
<1>1. /\ Progress /\ LoopAlone /\ loop.pc = "fail" /\ loop \in LoopState /\ orders \in [Keys -> Row]
      /\ k \in Keys /\ Ordered(k) /\ orders[k].status = "PENDING" /\ ~Live(k)
      /\ UNCHANGED <<req, held, pay, late>>
  BY LoopFacts DEF IInv, Progress, Ownership, TypeOK, LoopOK, OrdersOK, ReconcileCommit, LoopAlone, world
<1>2. \/ loop' = Idle /\ orders' = orders
      \/ loop' = LoopGoto("tell") /\ orders' = [orders EXCEPT ![k] = row]
  BY DEF ReconcileCommit, Conflict
<1>3. row.status = "FAILED" /\ row.by = orders[k].by
  BY <1>1 DEF Row
<1> HIDE DEF row
<1>4. /\ \A j \in Keys : j # k => orders'[j] = orders[j]
      /\ \A j \in Keys : orders'[j].by = orders[j].by
      /\ orders'[k].status \in {"PENDING", "FAILED"}
  BY <1>1, <1>2, <1>3
<1>5. \A j : Live(j)' = Live(j) BY <1>1 DEF Live
<1>6. LoopAlone'
  <2>1. CASE loop' = Idle BY <2>1, IdleAlone
  <2>2. CASE loop' = LoopGoto("tell")
    <3>1. loop'.pc = "tell" /\ loop'.cur = loop.cur /\ loop'.batch = loop.batch /\ loop.batch \subseteq Keys
      BY <1>1, <2>2 DEF LoopGoto, LoopState
    <3> QED BY <1>1, <1>4, <1>5, <3>1 DEF LoopAlone
  <2> QED BY <1>2, <2>1, <2>2
<1>7. \A s \in Requests : req'[s].pc \in SagaPcs \cup TailPcs => req'[s] = req[s] BY <1>1
<1> QED BY <1>1, <1>4, <1>6, <1>7, EnvFrame, {} \in SUBSET Keys

LEMMA DeliverCommitProgress == ASSUME IInv, DeliverCommit PROVE Progress'
<1> DEFINE k == loop.cur
<1>1. /\ Progress /\ LoopAlone /\ loop.pc = "deliver" /\ loop \in LoopState /\ orders \in [Keys -> Row]
      /\ k \in Keys /\ Ordered(k) /\ orders[k].status = "PAID" /\ ~Live(k)
      /\ UNCHANGED <<req, held, pay, late>>
  BY LoopFacts DEF IInv, Progress, Ownership, TypeOK, LoopOK, OrdersOK, DeliverCommit, LoopAlone, world
<1>2. \/ loop' = Idle /\ orders' = orders
      \/ loop' = LoopGoto("announce") /\ orders' = [orders EXCEPT ![k].delivered = TRUE]
  BY DEF DeliverCommit, Conflict
<1>3. \A j \in Keys : orders'[j].by = orders[j].by /\ orders'[j].status = orders[j].status
  BY <1>1, <1>2 DEF Row
<1>4. \A j : Live(j)' = Live(j) BY <1>1 DEF Live
<1>5. LoopAlone'
  <2>1. CASE loop' = Idle BY <2>1, IdleAlone
  <2>2. CASE loop' = LoopGoto("announce")
    <3>1. /\ loop'.pc = "announce" /\ loop'.cur = loop.cur /\ loop'.batch = loop.batch
          /\ loop.batch \subseteq Keys
      BY <1>1, <2>2 DEF LoopGoto, LoopState
    <3> QED BY <1>1, <1>3, <1>4, <3>1 DEF LoopAlone
  <2> QED BY <1>2, <2>1, <2>2
<1>6. \A s \in Requests : req'[s].pc \in SagaPcs \cup TailPcs => req'[s] = req[s] BY <1>1
<1> QED BY <1>1, <1>3, <1>5, <1>6, EnvFrame, {} \in SUBSET Keys

\* A late reserve or release belongs to an order whose saga has given up or
\* whose reconciliation has begun, never to one that is paid.
LEMMA ExecuteLateProgress == ASSUME IInv, NEW c \in late, ExecuteLate(c) PROVE Progress'
<1>1. /\ Progress /\ c \in Calls /\ UNCHANGED <<req, orders, loop>>
      /\ late' = late \ {c}
      /\ held \in [Keys -> [LineNos -> Int]] /\ pay \in [Keys -> {"none"} \cup Payment!Outcomes]
  BY DEF IInv, Ownership, TypeOK, LateOK, WorldOK, ExecuteLate
<1>2. c.key \in Keys BY <1>1 DEF Calls
<1>3. LoopAlone' BY <1>1, AloneFrame DEF Progress
<1>4. CASE UNCHANGED held
  <2>1. \A j \in Keys : pay[j] = "charged" => pay'[j] = "charged"
    BY <1>1, <1>2 DEF ExecuteLate, DoReserve, DoRelease, DoCharge, DoClear, Payment!Charge
  <2> QED BY <1>1, <1>3, <1>4, <2>1, EnvFrame, {} \in SUBSET Keys
<1>5. CASE c.op \in {"reserve", "release"} /\ UNCHANGED pay /\ \A j \in Keys : j # c.key => held'[j] = held[j]
  <2>1. ~Quiet(c.key) BY <1>5 DEF Quiet
  <2>2. /\ Ordered(c.key) /\ orders[c.key].status # "PAID"
        /\ \A s \in Requests : KeyOf[s] = c.key => req[s].pc \notin Forward
    BY <1>1, <1>2, <2>1 DEF Progress, Untouched, PaidQuiet, ForwardHolds
  <2>3. {c.key} \in SUBSET Keys BY <1>2
  <2> QED BY <1>1, <1>3, <1>5, <2>2, <2>3, EnvFrame
<1>6. UNCHANGED held
      \/ (c.op \in {"reserve", "release"} /\ UNCHANGED pay /\ \A j \in Keys : j # c.key => held'[j] = held[j])
  BY <1>1, <1>2 DEF ExecuteLate, DoReserve, DoRelease, DoCharge, DoClear
<1> QED BY <1>4, <1>5, <1>6

LEMMA DropLateProgress == ASSUME IInv, NEW c \in late, DropLate(c) PROVE Progress'
  BY AloneFrame, PassFrame DEF IInv, Progress, DropLate, world

LEMMA FlushUnsentProgress ==
  ASSUME IInv, NEW k \in Keys, NEW e \in unsent[k], FlushUnsent(k, e) PROVE Progress'
  BY AloneFrame, PassFrame DEF IInv, Progress, FlushUnsent, world

LEMMA ExpireUnsentProgress ==
  ASSUME IInv, NEW k \in Keys, NEW e \in unsent[k], ExpireUnsent(k, e) PROVE Progress'
  BY AloneFrame, PassFrame DEF IInv, Progress, ExpireUnsent, world

\* Whoever has a reserve or a release in progress works on a PENDING order.
LEMMA InProgressPending ==
  ASSUME IInv, NEW c \in InProgress, c.op \in {"reserve", "release"}
  PROVE  c.key \in Keys /\ Ordered(c.key) /\ orders[c.key].status = "PENDING"
<1>1. CASE \E r \in Requests : req[r].pc \in SagaPcs /\ c.key = KeyOf[r]
  BY <1>1, SagaFacts DEF IInv, Progress, SagaPending
<1>2. CASE loop.pc = "release" /\ c.key = loop.cur
  BY <1>2, LoopFacts DEF IInv, Progress, LoopAlone
<1>3. \/ \E r \in Requests : req[r].pc \in SagaPcs /\ c.key = KeyOf[r]
      \/ loop.pc = "release" /\ c.key = loop.cur
  BY DEF InProgress, Call, SagaPcs
<1> QED BY <1>1, <1>2, <1>3

LEMMA CrashProgress == ASSUME IInv, Crash PROVE Progress'
<1> DEFINE T == {k \in Keys : Ordered(k) /\ orders[k].status = "PENDING"}
<1>1. /\ Progress /\ UNCHANGED <<orders, held, pay>> /\ loop' = Idle /\ late' = late \cup InProgress
  BY DEF IInv, Crash, world
<1>2. \A s \in Requests : req'[s].pc \notin SagaPcs \cup TailPcs
  BY DEF Crash, Fresh, SagaPcs, TailPcs
<1>3. LoopAlone' BY <1>1, IdleAlone
<1>4. \A c \in late' : c \in late \/ c.key \in T \/ c.op \notin {"reserve", "release"}
  BY <1>1, InProgressPending
<1>5. T \in SUBSET Keys OBVIOUS
<1>6. \A j \in T : /\ Ordered(j) /\ orders'[j].status # "PAID"
                   /\ \A s \in Requests : KeyOf[s] = j => req'[s].pc \notin Forward
  BY <1>1, <1>2 DEF Forward, SagaPcs
<1> HIDE DEF T
<1> QED BY <1>1, <1>2, <1>3, <1>4, <1>5, <1>6, EnvFrame
-----------------------------------------------------------------------------
(* The theorems *)

LEMMA ProgressInit == Init => Progress
<1> SUFFICES ASSUME Init PROVE Progress OBVIOUS
<1>1. /\ \A r \in Requests : req[r].pc = "idle"
      /\ loop.pc = "idle" /\ loop.cur = NoKey /\ loop.batch = {}
      /\ \A k \in Keys : orders[k].status = "NONE" /\ \A l \in LineNos : held[k][l] = 0
      /\ late = {}
  BY DEF Init, Fresh, Idle, NoRow
<1>2. SagaPending /\ ForwardHolds BY <1>1 DEF SagaPending, ForwardHolds, SagaPcs, Forward
<1>3. LoopAlone BY <1>1, Constants DEF LoopAlone
<1>4. Untouched /\ PaidQuiet BY <1>1 DEF Untouched, PaidQuiet, Quiet
<1>5. PaidMeansCharged /\ PaidHoldsStock BY <1>1 DEF PaidMeansCharged, PaidHoldsStock
<1> QED BY <1>2, <1>3, <1>4, <1>5 DEF Progress

LEMMA ProgressStutter == ASSUME Progress, UNCHANGED vars PROVE Progress'
<1>1. UNCHANGED <<req, orders, loop, held, pay, late>> BY DEF vars, world
<1>2. LoopAlone' BY <1>1, AloneFrame DEF Progress
<1> QED BY <1>1, <1>2, PassFrame

LEMMA ProgressStep == ASSUME "slow" \notin Faults, IInv, [Next]_vars PROVE Progress'
<1>1. ASSUME NEW r \in Requests, Lookup(r) \/ Work(r) \/ Abort(r) PROVE Progress'
  BY <1>1, LookupProgress, RejectProgress, AbortProgress, InsertProgress, AnnounceCreatedProgress,
     ReserveLineProgress, ReserveRefusedProgress, ReserveLostProgress, SetStockReservedProgress,
     ReloadProgress, ChargeProgress, ChargeLostProgress, ReleaseLineProgress,
     CommitFailedProgress, CommitPaidProgress, AnnounceOutcomeProgress, ClearCartProgress
  DEF Work
<1>2. CASE Reconcile \/ Delivery \/ AbortPass
  BY <1>2, StartReconciliationProgress, ReconcileReleaseProgress, ReconcileCommitProgress,
     ReconcileAnnounceProgress, ReconcileClearProgress, StartDeliveryProgress,
     DeliverCommitProgress, AnnounceDeliveredProgress, AbortPassProgress
  DEF Reconcile, Delivery
<1>3. ASSUME NEW c \in late, ExecuteLate(c) \/ DropLate(c) PROVE Progress'
  BY <1>3, ExecuteLateProgress, DropLateProgress
<1>4. ASSUME NEW k \in Keys, NEW e \in unsent[k], FlushUnsent(k, e) \/ ExpireUnsent(k, e) PROVE Progress'
  BY <1>4, FlushUnsentProgress, ExpireUnsentProgress
<1>5. CASE Crash BY <1>5, CrashProgress
<1>6. CASE UNCHANGED vars BY <1>6, ProgressStutter DEF IInv
<1> QED BY <1>1, <1>2, <1>3, <1>4, <1>5, <1>6 DEF Next

\* Unless a request outlives the cutoff, IInv holds in every reachable state.
THEOREM InductiveInvariant == ASSUME "slow" \notin Faults PROVE Spec => []IInv
<1>1. Init => IInv BY OwnershipInit, ProgressInit DEF IInv
<1>2. IInv /\ [Next]_vars => IInv' BY OwnershipStep, ProgressStep DEF IInv
<1> QED BY <1>1, <1>2, PTL DEF Spec

\* A PAID order was charged: no retry, timeout, crash or pass makes an order
\* PAID without an answer of payment-service that says so (orders.py:158-189).
THEOREM PaidOrdersAreCharged == ASSUME "slow" \notin Faults PROVE Spec => []PaidMeansCharged
<1>1. IInv => PaidMeansCharged BY DEF IInv, Progress
<1> QED BY <1>1, InductiveInvariant, PTL

\* A PAID order holds each of its lines exactly once, whatever arrives late.
THEOREM PaidOrdersHoldStock == ASSUME "slow" \notin Faults PROVE Spec => []PaidHoldsStock
<1>1. IInv => PaidHoldsStock BY DEF IInv, Progress
<1> QED BY <1>1, InductiveInvariant, PTL
==============================================================================
