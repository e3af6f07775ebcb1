------------------------------- MODULE Catalog -------------------------------
(***************************************************************************)
(* catalog-service: POST /stock/reserve and /stock/release, and the        *)
(* cache-aside reads GET /products and GET /products/{id}                  *)
(* (routers/catalog.py, cache.py), over the products table and Redis.      *)
(*                                                                         *)
(* A call is a thread of the server's pool; each of its actions is one     *)
(* statement of its transaction or one Redis command.  A row lock is held  *)
(* from the statement that takes it to the commit or rollback, and what a  *)
(* transaction wrote is visible to others from its commit on.              *)
(***************************************************************************)
EXTENDS Integers

CONSTANTS
  Calls,      \* HTTP calls that pass the internal-token check
  Products,   \* rows of the products table
  Page,       \* the cache entry of the one page of the list that is read
  OpOf,       \* what each call asks for
  ProductOf,  \* the product it names, which may be none of Products
  QtyOf,      \* its quantity (Field(gt=0))
  InitStock,
  Faults,     \* which of "crash", "redis", "database" can happen
  NoCall

Ops    == {"reserve", "release", "get", "list"}
Writes == {"reserve", "release"}

ASSUME OpsAssumption    == OpOf \in [Calls -> Ops]
ASSUME QtyAssumption    == QtyOf \in [Calls -> Nat \ {0}]
ASSUME StockAssumption  == InitStock \in [Products -> Nat]
ASSUME FaultsAssumption == Faults \subseteq {"crash", "redis", "database"}
ASSUME NoneAssumption   == Page \notin Products /\ NoCall \notin Calls
                           /\ \A c \in Calls : ProductOf[c] # Page

VARIABLES
  call,   \* program counter and locals of each call
  stock,  \* committed products.stock
  lock,   \* the call whose transaction holds the row lock of each product
  cache,  \* Redis: each entry is empty or holds one snapshot of the rows it covers
  late    \* history, per product: who can leave its entry behind the last commit, the
          \* writer until it deletes the entry, and readers that had queried before

vars == <<call, stock, lock, cache, late>>

Entries    == Products \cup {Page}
Covers(e)  == IF e = Page THEN Products ELSE {e}
Current(e) == {<<p, stock[p]>> : p \in Covers(e)}

Snapshot  == SUBSET (Products \X Nat)

\* "seen" is what the call read of its product, "new" what it wrote,
\* "remaining" what it answers, "rows" the snapshot a reader took, if any.
Pcs       == {"idle", "begin", "update", "commit", "invalidate", "query", "fill", "done", "dead"}
Answers   == {"none", "ok", "refused", "not_found", "error"}
CallState == [pc : Pcs, seen : Nat, new : Nat, remaining : Nat, rows : SUBSET Snapshot,
              committed : BOOLEAN, answer : Answers]
Fresh == [pc |-> "idle", seen |-> 0, new |-> 0, remaining |-> 0, rows |-> {}, committed |-> FALSE,
          answer |-> "none"]

Init ==
  /\ call = [c \in Calls |-> Fresh]
  /\ stock = InitStock
  /\ lock = [p \in Products |-> NoCall]
  /\ cache = [e \in Entries |-> {}]
  /\ late = [p \in Products |-> {}]

At(c, pc)      == call[c].pc = pc
Goto(c, pc)    == call' = [call EXCEPT ![c].pc = pc]
Respond(c, a)  == call' = [call EXCEPT ![c] = [@ EXCEPT !.pc = "done", !.answer = a]]
Locks(c, p)    == lock[p] \in {NoCall, c} /\ lock' = [lock EXCEPT ![p] = c]
Unlocks(p)     == lock' = [lock EXCEPT ![p] = NoCall]
Known(c)       == ProductOf[c] \in Products
EntryOf(c)     == IF OpOf[c] = "list" THEN Page ELSE ProductOf[c]
Filling(p)     == {c \in Calls : At(c, "fill") /\ EntryOf(c) = p}
Emptied(p)     == late' = [late EXCEPT ![p] = @ \cap Filling(p)]

Arrive(c) ==
  /\ At(c, "idle")
  /\ Goto(c, "begin")
  /\ UNCHANGED <<stock, lock, cache, late>>

-----------------------------------------------------------------------------
(* POST /stock/reserve and /stock/release *)

\* Mutant: a SELECT without FOR UPDATE.
SelectPlain(c) ==
  LET p == ProductOf[c] IN
  /\ At(c, "begin") /\ OpOf[c] = "reserve" /\ Known(c)
  /\ call' = [call EXCEPT ![c] = [@ EXCEPT !.pc = "update", !.seen = stock[p]]]
  /\ UNCHANGED <<stock, lock, cache, late>>

SelectForUpdate(c) ==
  LET p == ProductOf[c] IN
  /\ At(c, "begin") /\ OpOf[c] = "reserve" /\ Known(c)
  /\ Locks(c, p)
  /\ call' = [call EXCEPT ![c] = [@ EXCEPT !.pc = "update", !.seen = stock[p]]]
  /\ UNCHANGED <<stock, cache, late>>

\* Mutant: the refusal leaves the transaction open.
RefuseOpen(c) ==
  /\ At(c, "update") /\ OpOf[c] = "reserve" /\ call[c].seen < QtyOf[c]
  /\ Respond(c, "refused")
  /\ UNCHANGED <<stock, lock, cache, late>>

\* 409: the exception leaves engine.begin(), which rolls back.
Refuse(c) ==
  /\ At(c, "update") /\ OpOf[c] = "reserve" /\ call[c].seen < QtyOf[c]
  /\ Unlocks(ProductOf[c])
  /\ Respond(c, "refused")
  /\ UNCHANGED <<stock, cache, late>>

\* The UPDATE of either call; a release has no row lock yet.  A reserve
\* answers from the stock it selected, a release selects again.
UpdateRow(c) ==
  LET p == ProductOf[c]
      new == IF OpOf[c] = "reserve" THEN stock[p] - QtyOf[c] ELSE stock[p] + QtyOf[c] IN
  /\ \/ At(c, "update") /\ OpOf[c] = "reserve" /\ call[c].seen >= QtyOf[c]
     \/ At(c, "begin") /\ OpOf[c] = "release" /\ Known(c)
  /\ Locks(c, p)
  /\ call' = [call EXCEPT ![c] =
       [@ EXCEPT !.pc = "commit", !.new = new,
                 !.remaining = IF OpOf[c] = "reserve" THEN call[c].seen - QtyOf[c] ELSE new]]
  /\ UNCHANGED <<stock, cache, late>>

Commit(c) ==
  LET p == ProductOf[c] IN
  /\ At(c, "commit")
  /\ stock' = [stock EXCEPT ![p] = call[c].new]
  /\ Unlocks(p)
  /\ call' = [call EXCEPT ![c] = [@ EXCEPT !.pc = "invalidate", !.committed = TRUE]]
  /\ late' = [late EXCEPT ![p] = {c} \cup Filling(p)]
  /\ UNCHANGED cache

\* Mutant: the wrong key is deleted.
InvalidatePage(c) ==
  /\ At(c, "invalidate")
  /\ cache' = [cache EXCEPT ![Page] = {}]
  /\ Emptied(ProductOf[c])
  /\ Respond(c, "ok")
  /\ UNCHANGED <<stock, lock>>

\* The cache entry of the product is deleted after the commit; pages of the
\* list are not.
Invalidate(c) ==
  /\ At(c, "invalidate")
  /\ cache' = [cache EXCEPT ![ProductOf[c]] = {}]
  /\ Emptied(ProductOf[c])
  /\ Respond(c, "ok")
  /\ UNCHANGED <<stock, lock>>

-----------------------------------------------------------------------------
(* GET /products/{id} and GET /products *)

ReadCache(c) ==
  LET e == EntryOf(c) IN
  /\ At(c, "begin") /\ OpOf[c] \notin Writes
  /\ IF e \in Entries /\ cache[e] # {}
       THEN call' = [call EXCEPT ![c] = [@ EXCEPT !.pc = "done", !.rows = cache[e], !.answer = "ok"]]
       ELSE Goto(c, "query")
  /\ UNCHANGED <<stock, lock, cache, late>>

\* A consistent read: it sees what is committed and waits for no lock.
Query(c) ==
  LET e == EntryOf(c) IN
  /\ At(c, "query") /\ e \in Entries
  /\ call' = [call EXCEPT ![c] = [@ EXCEPT !.pc = "fill", !.rows = {Current(e)}]]
  /\ UNCHANGED <<stock, lock, cache, late>>

FillCache(c) ==
  /\ At(c, "fill")
  /\ cache' = [cache EXCEPT ![EntryOf(c)] = call[c].rows]
  /\ Respond(c, "ok")
  /\ UNCHANGED <<stock, lock, late>>

\* 404: no row with that id.
NotFound(c) ==
  /\ OpOf[c] # "list" /\ ~Known(c)
  /\ At(c, IF OpOf[c] = "get" THEN "query" ELSE "begin")
  /\ Respond(c, "not_found")
  /\ UNCHANGED <<stock, lock, cache, late>>

-----------------------------------------------------------------------------
(* MariaDB, Redis and the process *)

\* A Redis command fails and the client gets a 500, whatever was committed.
RedisFails(c) ==
  /\ "redis" \in Faults
  /\ At(c, "invalidate") \/ At(c, "fill") \/ (At(c, "begin") /\ OpOf[c] \notin Writes)
  /\ Respond(c, "error")
  /\ UNCHANGED <<stock, lock, cache, late>>

\* A statement or the commit fails (a lock wait that lasts too long, a lost
\* connection): the transaction is rolled back.
RollBack(c) ==
  /\ "database" \in Faults
  /\ OpOf[c] \in Writes /\ Known(c)
  /\ call[c].pc \in {"begin", "update", "commit"}
  /\ lock' = [p \in Products |-> IF lock[p] = c THEN NoCall ELSE lock[p]]
  /\ Respond(c, "error")
  /\ UNCHANGED <<stock, cache, late>>

\* The 60 s of product_cache_ttl_seconds are over.
Expire(e) ==
  /\ cache[e] # {}
  /\ cache' = [cache EXCEPT ![e] = {}]
  /\ IF e \in Products THEN Emptied(e) ELSE UNCHANGED late
  /\ UNCHANGED <<call, stock, lock>>

\* The process dies and is started again: the database rolls back, Redis stays.
Crash ==
  /\ "crash" \in Faults
  /\ \E c \in Calls : call[c].pc \notin {"idle", "done", "dead"}
  /\ call' = [c \in Calls |-> IF call[c].pc \in {"idle", "done", "dead"} THEN call[c]
                              ELSE [call[c] EXCEPT !.pc = "dead"]]
  /\ lock' = [p \in Products |-> NoCall]
  /\ UNCHANGED <<stock, cache, late>>

Work(c) ==
  \/ SelectForUpdate(c) \/ Refuse(c) \/ UpdateRow(c) \/ Commit(c) \/ Invalidate(c)
  \/ ReadCache(c) \/ Query(c) \/ FillCache(c) \/ NotFound(c)

Next ==
  \/ \E c \in Calls : Arrive(c) \/ Work(c) \/ RedisFails(c) \/ RollBack(c)
  \/ \E e \in Entries : Expire(e)
  \/ Crash

Spec == Init /\ [][Next]_vars

\* A thread that arrived keeps running once it gets its lock; nobody has to call.
FairSpec == Spec /\ \A c \in Calls : WF_vars(Work(c))

-----------------------------------------------------------------------------
(* Properties *)

\* Every variable keeps its shape; stock, above all, never goes below zero.
TypeOK ==
  /\ call \in [Calls -> CallState]
  /\ stock \in [Products -> Nat]
  /\ lock \in [Products -> Calls \cup {NoCall}]
  /\ cache \in [Entries -> SUBSET Snapshot]
  /\ late \in [Products -> SUBSET Calls]

\* Transactions of concurrent calls look like the one-step reserve, refuse and
\* release of the ledger Checkout is written against: no overselling.
Quantities == {QtyOf[c] : c \in Calls}
Ledger     == INSTANCE StockLedger
LedgerSpec == Ledger!Spec

\* The remainingStock of an answer is the stock the call committed, although a
\* reserve computes it from an earlier read (catalog.py:114).
RemainingTrue == \A c \in Calls : call[c].committed => call[c].remaining = call[c].new

\* A call is refused only if the stock is too short when it is refused.
RefusedOnlyWhenShort ==
  [][\A c \in Calls : call'[c].answer = "refused" /\ call[c].answer # "refused"
                        => stock[ProductOf[c]] < QtyOf[c]]_vars

\* Every call that arrives ends: whoever holds a row gives it back.
EveryCallEnds == \A c \in Calls : At(c, "begin") ~> call[c].pc \in {"done", "dead"}

\* The entry of a product disagrees with the table only while the writer has
\* not deleted it, or for good failed to, after its commit, or because a reader
\* that had queried before the commit filled it after the deletion.  Nothing
\* outlives that: not a second write, a failure or an expiry in between.
StaleOnlyIfLate ==
  \A p \in Products : ~(cache[p] \subseteq {Current(p)}) =>
    \E c \in late[p] : IF OpOf[c] \in Writes THEN call[c].answer # "ok" ELSE call[c].answer = "ok"

\* "From Redis until TTL or a stock-affecting write invalidates it"
\* (API_REFERENCE.md:124-126, of the list): what a write leaves of the page in
\* Redis agrees with the table.
ListInvalidated ==
  [][\A c \in Calls : OpOf[c] \in Writes /\ call[c].answer # "ok" /\ call'[c].answer = "ok"
                         => cache'[Page] \subseteq {Current(Page)'}]_vars

\* To invalidate after the commit "avoids the class of bugs where cache and DB
\* drift apart under concurrent writes" (cache.py:3-5): when no call is under
\* way, the entries of products agree with the table.
NoDrift == (\A c \in Calls : call[c].pc \in {"idle", "done", "dead"})
             => \A p \in Products : cache[p] \subseteq {Current(p)}
==============================================================================
