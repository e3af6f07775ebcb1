--------------------------------- MODULE Cart ---------------------------------
(***************************************************************************)
(* cart-service: one user's cart, the hash cart:{userId} in Redis          *)
(* (routers/cart.py, redis_client.py, catalog_client.py), and the          *)
(* abandonment scan that reads and flags it (abandonment.py).              *)
(*                                                                         *)
(* A call is a thread of the server's pool and each of its actions is one  *)
(* Redis command or one request to catalog-service; the scan runs on the   *)
(* event loop, beside the calls.  Redis deletes a hash, and its time to    *)
(* live, with its last field.                                              *)
(***************************************************************************)
EXTENDS Integers

CONSTANTS
  Calls, Products,
  OpOf,     \* what each call asks for
  ItemsOf,  \* the product, or the products of a batch removal, it names
  QtyOf,    \* the quantity an add asks for (Field(gt=0))
  Stocks,   \* what catalog-service may answer
  Faults    \* which of "redis", "crash" can happen

ASSUME CallsAssumption == /\ OpOf \in [Calls -> {"add", "remove", "batch"}]
                          /\ ItemsOf \in [Calls -> SUBSET Products]
                          /\ QtyOf \in [Calls -> Nat \ {0}]
                          /\ \A c \in Calls : OpOf[c] # "batch" => \E p \in Products : ItemsOf[c] = {p}
                          /\ Stocks \subseteq Nat
ASSUME FaultsAssumption == Faults \subseteq {"redis", "crash"}

VARIABLES
  call,  \* program counter and locals of each call
  cart,  \* the hash: quantities, _updated_at, _abandonment_counted, and its time to live:
         \* "set" with the last timestamp, perhaps "ending", or "due"
  scan,  \* the abandonment job: asleep, in a pass, or about to flag the cart it counted
  idle,  \* history: how often the cart was counted since its last timestamp, whether
         \* a pass then failed to flag it, whether a flag came, or was left, after that
         \* timestamp ("misflagged"), and whether a write never got its timestamp
         \* ("unstamped") or its time to live ("untimed")
  added  \* history, per product: what adds wrote since it was last deleted, and
         \* whether one of them had read the quantity before that

vars == <<call, cart, scan, idle, added>>

NoItems == [p \in Products |-> 0]
NoHash  == [qty |-> NoItems, at |-> "none", flag |-> FALSE, ttl |-> "none"]
NotIdle == [counted |-> 0, missed |-> FALSE, misflagged |-> FALSE, unstamped |-> FALSE,
            untimed |-> FALSE]
NoAdds  == [sum |-> 0, stale |-> FALSE]

Fresh == [pc |-> "idle", limit |-> 0, base |-> 0, fresh |-> FALSE, present |-> {}]

Init == /\ call = [c \in Calls |-> Fresh]
        /\ cart = NoHash
        /\ scan = "sleep"
        /\ idle = NotIdle
        /\ added = [p \in Products |-> NoAdds]

At(c, op, pc) == call[c].pc = pc /\ OpOf[c] = op
Goto(c, pc)   == call' = [call EXCEPT ![c] = [Fresh EXCEPT !.pc = pc]]
HasItems      == cart.qty # NoItems
Product(c)    == CHOOSE p \in ItemsOf[c] : TRUE

\* Mutants: a removal takes one unit; the flag, its HDEL, or EXPIRE is not sent.
OneLess(q)    == q - 1
AsIs(h)       == h
Removed(q)    == 0
Stored(h)     == IF h.qty = NoItems /\ h.at = "none" /\ ~h.flag THEN NoHash ELSE h
WithFlag(h)   == [h EXCEPT !.flag = TRUE]
NoFlag(h)     == [h EXCEPT !.flag = FALSE]
WithExpiry(h) == IF h = NoHash THEN h ELSE [h EXCEPT !.ttl = "set"]

\* HDEL of products ps by call c.
Delete(c, ps, pc) ==
  /\ cart' = Stored([cart EXCEPT !.qty = [p \in Products |-> IF p \in ps THEN Removed(@[p]) ELSE @[p]]])
  /\ added' = [p \in Products |-> IF p \in ps THEN NoAdds ELSE added[p]]
  /\ call' = [d \in Calls |-> IF d = c THEN [Fresh EXCEPT !.pc = pc]
                              ELSE [call[d] EXCEPT !.fresh = @ /\ ItemsOf[d] \cap ps = {}]]
  /\ UNCHANGED <<scan, idle>>

-----------------------------------------------------------------------------
(* POST /cart/items: ask catalog-service, HGET, compare, HSET *)

\* The stock of the product, or no answer, or no such product.
AskCatalog(c) ==
  /\ At(c, "add", "idle")
  /\ \/ \E s \in Stocks : call' = [call EXCEPT ![c] = [@ EXCEPT !.pc = "read", !.limit = s]]
     \/ Goto(c, "done")
  /\ UNCHANGED <<cart, scan, idle, added>>

ReadQuantity(c) ==
  LET q == cart.qty[Product(c)] IN
  /\ At(c, "add", "read")
  /\ IF q + QtyOf[c] > call[c].limit THEN Goto(c, "done")
     ELSE call' = [call EXCEPT ![c] = [Fresh EXCEPT !.pc = "write", !.base = q, !.fresh = TRUE]]
  /\ UNCHANGED <<cart, scan, idle, added>>

WriteQuantity(c) ==
  LET p == Product(c) IN
  /\ At(c, "add", "write")
  /\ cart' = [cart EXCEPT !.qty[p] = call[c].base + QtyOf[c]]
  /\ added' = [added EXCEPT ![p] = [sum |-> @.sum + QtyOf[c], stale |-> @.stale \/ ~call[c].fresh]]
  /\ Goto(c, "stamp")
  /\ UNCHANGED <<scan, idle>>

-----------------------------------------------------------------------------
(* DELETE /cart/items/{id}: HDEL, HKEYS.  DELETE /cart/items:batch: HMGET, HDEL *)

RemoveField(c) == At(c, "remove", "idle") /\ Delete(c, ItemsOf[c], "keys")

\* A cart without items is not touched.
LookForItems(c) == /\ At(c, "remove", "keys")
                   /\ Goto(c, IF HasItems THEN "stamp" ELSE "done")
                   /\ UNCHANGED <<cart, scan, idle, added>>

\* An empty list, or one of which nothing is in the cart, changes nothing.
ReadPresent(c) ==
  LET ps == {p \in ItemsOf[c] : cart.qty[p] > 0} IN
  /\ At(c, "batch", "idle")
  /\ IF ps = {} THEN Goto(c, "done")
     ELSE call' = [call EXCEPT ![c] = [@ EXCEPT !.pc = "delete", !.present = ps]]
  /\ UNCHANGED <<cart, scan, idle, added>>

DeletePresent(c) == At(c, "batch", "delete") /\ Delete(c, call[c].present, "stamp")

-----------------------------------------------------------------------------
(* touch_cart, the three commands that end every write *)

\* A time to live that was set before this timestamp may end at any time.
Stamp(c) == /\ call[c].pc = "stamp" /\ Goto(c, "unflag")
            /\ cart' = [cart EXCEPT !.at = "recent", !.ttl = IF @ = "set" THEN "ending" ELSE @]
            /\ idle' = [NotIdle EXCEPT !.misflagged = idle.misflagged, !.untimed = idle.untimed]
            /\ UNCHANGED <<scan, added>>

Unflag(c) == /\ call[c].pc = "unflag" /\ Goto(c, "expire")
             /\ cart' = Stored(NoFlag(cart))
             /\ idle' = [idle EXCEPT !.misflagged = FALSE]
             /\ UNCHANGED <<scan, added>>

\* EXPIRE does nothing if there is no such key.
SetExpiry(c) == /\ call[c].pc = "expire" /\ Goto(c, "done")
                /\ cart' = WithExpiry(cart)
                /\ idle' = [idle EXCEPT !.untimed = FALSE]
                /\ UNCHANGED <<scan, added>>

Arrive(c) == AskCatalog(c) \/ RemoveField(c) \/ ReadPresent(c)
Work(c)   == \/ ReadQuantity(c) \/ WriteQuantity(c) \/ LookForItems(c) \/ DeletePresent(c)
             \/ Stamp(c) \/ Unflag(c) \/ SetExpiry(c)

\* Calls take much less than the minutes and hours that time is told in.
Touching(c) == call[c].pc \in {"stamp", "unflag", "expire"}
Quiet       == \A c \in Calls : ~Touching(c) /\ call[c].pc \notin {"write", "keys", "delete"}

-----------------------------------------------------------------------------
(* The abandonment scan *)

\* No write for 30 minutes; no timestamp counts as old.
Unmodified(h) == h.at # "recent"

\* The 5 minutes between two passes are over.
Wake == scan = "sleep" /\ Quiet /\ scan' = "pass" /\ UNCHANGED <<call, cart, idle, added>>

\* A cart with items, old and without the flag is counted.
Counts(h) == h.qty # NoItems /\ ~h.flag /\ Unmodified(h)

\* The 24 hours of a time to live outlast the 30 minutes of the threshold by
\* hundreds of passes: it ends after one has read the old cart.
Later(h) == [h EXCEPT !.ttl = IF @ = "set" /\ h.at # "recent" THEN "ending" ELSE @]

\* The pass reads the cart, and increments the counter or goes on.
CountCart == /\ scan = "pass" /\ Counts(cart)
             /\ scan' = "flag"
             /\ idle' = [idle EXCEPT !.counted = IF @ = 2 THEN 2 ELSE @ + 1]
             /\ cart' = Later(cart)
             /\ UNCHANGED <<call, added>>
SkipCart  == /\ scan = "pass" /\ ~Counts(cart)
             /\ scan' = "sleep"
             /\ cart' = Later(cart)
             /\ UNCHANGED <<call, idle, added>>

\* HSET of the flag, on whatever is there by now: it creates the key if need be.
FlagCart == /\ scan = "flag" /\ scan' = "sleep"
            /\ cart' = WithFlag(cart)
            /\ idle' = [idle EXCEPT !.misflagged = @ \/ idle.counted = 0]
            /\ UNCHANGED <<call, added>>

-----------------------------------------------------------------------------
(* Time, Redis and the process *)

\* 30 minutes after the last timestamp, and 24 hours after the last EXPIRE.
GrowOld == /\ Quiet /\ cart.at = "recent" /\ cart' = [cart EXCEPT !.at = "old"]
           /\ UNCHANGED <<call, scan, idle, added>>
RunOut  == /\ Quiet /\ cart.ttl = "ending" /\ cart' = [cart EXCEPT !.ttl = "due"]
           /\ UNCHANGED <<call, scan, idle, added>>

\* Redis drops the key, perhaps between two commands of a call.
Expire ==
  /\ cart.ttl = "due"
  /\ cart' = NoHash /\ idle' = NotIdle
  /\ added' = [p \in Products |-> NoAdds]
  /\ call' = [c \in Calls |-> [call[c] EXCEPT !.fresh = FALSE]]
  /\ UNCHANGED scan

\* What is left undone when the calls cs end early.
Unfinished(cs) == [idle EXCEPT !.misflagged = @ \/ \E c \in cs : call[c].pc = "unflag",
                               !.unstamped = @ \/ \E c \in cs : call[c].pc = "stamp",
                               !.untimed = @ \/ \E c \in cs : Touching(c)]

\* A command fails: the call answers 500, and what it wrote before stays.
RedisFails(c) ==
  /\ "redis" \in Faults /\ call[c].pc # "done" /\ ~At(c, "add", "idle")
  /\ Goto(c, "done")
  /\ idle' = Unfinished({c})
  /\ UNCHANGED <<cart, scan, added>>

\* The pass ends with an exception, which the loop logs: its HGETALL, or that
\* of another cart, or the HSET of the flag fails.
ScanFails == /\ "redis" \in Faults /\ scan # "sleep" /\ scan' = "sleep"
             /\ idle' = [idle EXCEPT !.missed = @ \/ scan = "flag"]
             /\ UNCHANGED <<call, cart, added>>

\* The process dies and is started again; Redis stays.
Crash ==
  LET running == {c \in Calls : call[c].pc \notin {"idle", "done"}} IN
  /\ "crash" \in Faults /\ running # {}
  /\ call' = [c \in Calls |-> IF c \in running THEN [Fresh EXCEPT !.pc = "done"] ELSE call[c]]
  /\ scan' = "sleep"
  /\ idle' = [Unfinished(running) EXCEPT !.missed = @ \/ scan = "flag"]
  /\ UNCHANGED <<cart, added>>

Next == \/ \E c \in Calls : Arrive(c) \/ Work(c) \/ RedisFails(c)
        \/ Wake \/ CountCart \/ SkipCart \/ FlagCart \/ ScanFails
        \/ GrowOld \/ RunOut \/ Expire \/ Crash

Spec == Init /\ [][Next]_vars

\* A call that arrived keeps running, the pass runs on its interval, and time
\* passes; nobody has to call.  Not every pass fails before it reads the cart.
FairSpec == /\ Spec
            /\ \A c \in Calls : WF_vars(Work(c))
            /\ WF_vars(Wake) /\ SF_vars(CountCart \/ SkipCart) /\ WF_vars(FlagCart)
            /\ WF_vars(GrowOld) /\ WF_vars(RunOut) /\ WF_vars(Expire)

-----------------------------------------------------------------------------
(* Properties *)

\* A cart left alone is counted once, by however many passes (abandonment.py:
\* 7-9), unless a pass counted it and could not flag it, or a write died before
\* its timestamp while another call's touch took the flag away.
CountedOnce == idle.counted = 2 => idle.missed \/ idle.unstamped

\* A quantity is never more than the adds since the product was last removed,
\* ordered or expired asked for, unless an add had read the old quantity before
\* that: only such an overlap brings removed items back.
NothingComesBack ==
  \A p \in Products : ~added[p].stale => cart.qty[p] <= added[p].sum

\* What "repeated adds of the same product increment the existing quantity"
\* (API_REFERENCE.md:187-188) says: a quantity is what adds asked for since the
\* product was last deleted.
AddsIncrement == \A p \in Products : ~added[p].stale => cart.qty[p] = added[p].sum

\* A cart with items that nobody touches for 30 minutes is counted, each time
\* anew, unless the flag on it is wrong: a pass wrote it after the touch, or the
\* touch died before it took it away.  To expire is no way out: what Redis drops
\* was counted, unless a write died before its EXPIRE, or has yet to send it.
WronglyFlagged == cart.flag /\ idle.misflagged
Abandoned      == HasItems /\ cart.at # "recent" /\ ~WronglyFlagged
AbandonedIsCounted ==
  /\ Abandoned ~> (idle.counted > 0 \/ ~Abandoned)
  /\ [][Expire /\ Abandoned => idle.counted > 0 \/ idle.untimed \/ \E c \in Calls : Touching(c)]_vars

\* When nobody calls any more, no items stay in Redis, except for ever if a
\* call was cut short.
LeftoversVanish == <>[](HasItems => idle.untimed /\ cart.ttl = "none")
==============================================================================
