------------------------------ MODULE CartProofs ------------------------------
(***************************************************************************)
(* Two properties of Cart, for every set of calls and products and every   *)
(* placement of failures and expiries: what was removed does not come      *)
(* back, and an abandoned cart is counted once.                            *)
(***************************************************************************)
EXTENDS Cart, TLAPS

CallOK  == call \in [Calls -> [pc : {"idle", "read", "write", "keys", "delete", "stamp", "unflag",
                                     "expire", "done"},
                               limit : Nat, base : Nat, fresh : BOOLEAN, present : SUBSET Products]]
CartOK  == cart \in [qty : [Products -> Nat], at : {"none", "recent", "old"}, flag : BOOLEAN,
                     ttl : {"none", "set", "ending", "due"}]
IdleOK  == idle \in [counted : 0..2, missed : BOOLEAN, misflagged : BOOLEAN, unstamped : BOOLEAN,
                     untimed : BOOLEAN]
AddedOK == added \in [Products -> [sum : Nat, stale : BOOLEAN]]
Shapes  == CallOK /\ CartOK /\ IdleOK /\ AddedOK /\ scan \in {"sleep", "pass", "flag"}

\* An add that read the quantity since the product was last removed read no
\* more than the adds since then had asked for.
ReadCovered(c) == call[c].pc = "write" /\ OpOf[c] = "add" /\ call[c].fresh /\ ~added[Product(c)].stale
                    => call[c].base <= added[Product(c)].sum
ReadsCovered   == \A c \in Calls : ReadCovered(c)

\* A count is taken back by the timestamp that makes the cart recent again.
RecentUncounted == cart.at = "recent" => idle.counted = 0

\* Only an expiry can take the timestamp from under a call about to unflag.
UnflagsRecent == \A c \in Calls : call[c].pc = "unflag" => cart.at # "old"

\* A cart that has items, or was counted, without a timestamp is about to get
\* one, and until then no pass starts.
Pending(c) == call[c].pc = "stamp"
Unstamped  == cart.at = "none" /\ ~idle.unstamped
StampComes == Unstamped /\ (HasItems \/ idle.counted > 0) => \E c \in Calls : Pending(c)
NoPass     == Unstamped /\ idle.counted > 0 => scan # "pass"

\* Otherwise a counted cart is flagged, or about to be.
Flagged == idle.counted > 0 /\ ~idle.missed /\ ~idle.unstamped =>
             cart.flag \/ scan = "flag" \/ cart.at = "none"

CountInv == RecentUncounted /\ UnflagsRecent /\ StampComes /\ NoPass /\ Flagged /\ CountedOnce
AddInv   == ReadsCovered /\ NothingComesBack
CInv     == Shapes /\ CountInv /\ AddInv

-----------------------------------------------------------------------------
(* Frames *)

LEMMA OneItem ==
  ASSUME NEW c \in Calls, OpOf[c] # "batch"
  PROVE  Product(c) \in Products /\ ItemsOf[c] = {Product(c)}
<1>1. PICK p \in Products : ItemsOf[c] = {p} BY CallsAssumption
<1> QED BY <1>1 DEF Product

LEMMA CInvInit == Init => CInv
<1> SUFFICES ASSUME Init PROVE CInv OBVIOUS
<1>1. Shapes
  BY DEF Init, Shapes, CallOK, CartOK, IdleOK, AddedOK, Fresh, NoHash, NoItems, NotIdle, NoAdds
<1>2. CountInv
  BY DEF Init, CountInv, RecentUncounted, UnflagsRecent, StampComes, NoPass, Flagged, CountedOnce,
     Fresh, NoHash, NotIdle, Unstamped, HasItems
<1>3. AddInv
  BY DEF Init, AddInv, ReadsCovered, ReadCovered, NothingComesBack, Fresh, NoHash, NoItems, NoAdds
<1> QED BY <1>1, <1>2, <1>3 DEF CInv

\* Nothing is written to a quantity, and nobody reads one.
LEMMA AddFrame ==
  ASSUME AddInv, cart'.qty = cart.qty, UNCHANGED added,
         \A c \in Calls : call'[c].pc = "write" /\ call'[c].fresh => call'[c] = call[c]
  PROVE  AddInv'
<1>1. ASSUME NEW c \in Calls PROVE ReadCovered(c)'
  BY <1>1 DEF AddInv, ReadsCovered, ReadCovered
<1> QED BY <1>1 DEF AddInv, ReadsCovered, NothingComesBack

\* Timestamp, flag, scan and history stay, no items come, and whoever is about
\* to set the timestamp still is.
LEMMA CountFrame ==
  ASSUME CountInv, cart'.at = cart.at, cart'.flag = cart.flag, UNCHANGED <<scan, idle>>,
         HasItems' => HasItems \/ \E c \in Calls : call'[c].pc = "stamp",
         \A c \in Calls : /\ call[c].pc = "stamp" => call'[c].pc = "stamp"
                          /\ call'[c].pc = "unflag" => call[c].pc = "unflag"
  PROVE  CountInv'
<1>1. StampComes'
  <2> SUFFICES ASSUME Unstamped', HasItems' \/ idle'.counted > 0
               PROVE  \E c \in Calls : call'[c].pc = "stamp"
    BY DEF StampComes, Pending
  <2> QED BY DEF CountInv, StampComes, Pending, Unstamped
<1> QED BY <1>1 DEF CountInv, RecentUncounted, UnflagsRecent, NoPass, Flagged, CountedOnce, Unstamped

LEMMA GotoFacts ==
  ASSUME CallOK, NEW c \in Calls, NEW pc, Goto(c, pc)
  PROVE  /\ call'[c].pc = pc /\ ~call'[c].fresh
         /\ \A d \in Calls : d # c => call'[d] = call[d]
         /\ pc \in {"idle", "read", "write", "keys", "delete", "stamp", "unflag", "expire", "done"}
              => CallOK'
  BY DEF CallOK, Goto, Fresh

\* Stored and WithExpiry keep the quantities, and whatever is still there.
LEMMA StoredFacts ==
  ASSUME NEW h \in [qty : [Products -> Nat], at : {"none", "recent", "old"}, flag : BOOLEAN,
                    ttl : {"none", "set", "ending", "due"}]
  PROVE  /\ Stored(h) \in [qty : [Products -> Nat], at : {"none", "recent", "old"}, flag : BOOLEAN,
                           ttl : {"none", "set", "ending", "due"}]
         /\ Stored(h).qty = h.qty /\ Stored(h).at = h.at /\ Stored(h).flag = h.flag
<1>1. NoHash \in [qty : [Products -> Nat], at : {"none", "recent", "old"}, flag : BOOLEAN,
                  ttl : {"none", "set", "ending", "due"}]
  BY DEF NoHash, NoItems
<1>2. CASE h.qty = NoItems /\ h.at = "none" /\ ~h.flag
  <2>1. Stored(h) = NoHash BY <1>2 DEF Stored
  <2>2. NoHash.qty = NoItems /\ NoHash.at = "none" /\ NoHash.flag = FALSE BY DEF NoHash
  <2>3. h.flag = FALSE BY <1>2
  <2> QED BY <1>1, <1>2, <2>1, <2>2, <2>3
<1>3. CASE ~(h.qty = NoItems /\ h.at = "none" /\ ~h.flag)
  BY <1>3 DEF Stored
<1> QED BY <1>2, <1>3

-----------------------------------------------------------------------------
(* POST /cart/items *)

LEMMA AskCatalogStep ==
  ASSUME CInv, NEW c \in Calls, AskCatalog(c)
  PROVE  CInv'
<1>1. CallOK /\ AddInv /\ CountInv /\ UNCHANGED <<cart, scan, idle, added>>
  BY DEF CInv, Shapes, AskCatalog
<1>2. /\ CallOK' /\ call'[c].pc \in {"read", "done"}
      /\ \A d \in Calls : d # c => call'[d] = call[d]
  <2>1. CASE \E s \in Stocks : call' = [call EXCEPT ![c] = [@ EXCEPT !.pc = "read", !.limit = s]]
    <3>1. PICK s \in Stocks : call' = [call EXCEPT ![c] = [@ EXCEPT !.pc = "read", !.limit = s]]
      BY <2>1
    <3>2. s \in Nat BY CallsAssumption
    <3> QED BY <1>1, <3>1, <3>2 DEF CallOK
  <2>2. CASE Goto(c, "done") BY <1>1, <2>2, GotoFacts
  <2> QED BY <2>1, <2>2 DEF AskCatalog
<1>3. Shapes' BY <1>1, <1>2 DEF CInv, Shapes, CartOK, IdleOK, AddedOK
<1>4. AddInv' BY <1>1, <1>2, AddFrame
<1>5. \A d \in Calls : /\ call[d].pc = "stamp" => call'[d].pc = "stamp"
                       /\ call'[d].pc = "unflag" => call[d].pc = "unflag"
  BY <1>2 DEF AskCatalog, At
<1>6. CountInv' BY <1>1, <1>5, CountFrame DEF HasItems
<1> QED BY <1>3, <1>4, <1>6 DEF CInv

LEMMA ReadQuantityStep ==
  ASSUME CInv, NEW c \in Calls, ReadQuantity(c)
  PROVE  CInv'
<1> DEFINE q == cart.qty[Product(c)]
           s == [Fresh EXCEPT !.pc = "write", !.base = q, !.fresh = TRUE]
<1>1. /\ CallOK /\ CartOK /\ AddInv /\ CountInv /\ UNCHANGED <<cart, scan, idle, added>>
      /\ OpOf[c] = "add" /\ call[c].pc = "read" /\ Product(c) \in Products
  BY OneItem DEF CInv, Shapes, ReadQuantity, At
<1>2. q \in Nat BY <1>1 DEF CartOK
<1>3. CASE Goto(c, "done")
  <2>1. CallOK' BY <1>1, <1>3, GotoFacts
  <2>2. AddInv' BY <1>1, <1>3, GotoFacts, AddFrame
  <2>3. CountInv' BY <1>1, <1>3, GotoFacts, CountFrame DEF HasItems
  <2> QED BY <1>1, <2>1, <2>2, <2>3 DEF CInv, Shapes, CartOK, IdleOK, AddedOK
<1>4. CASE call' = [call EXCEPT ![c] = s]
  <2>1. s.pc = "write" /\ s.base = q /\ s \in [pc : {"write"}, limit : Nat, base : Nat,
                                               fresh : BOOLEAN, present : SUBSET Products]
    BY <1>2 DEF Fresh
  <2> HIDE DEF s
  <2>2. CallOK' /\ call'[c] = s /\ \A d \in Calls : d # c => call'[d] = call[d]
    BY <1>1, <1>4, <2>1 DEF CallOK
  <2>3. ASSUME NEW d \in Calls PROVE ReadCovered(d)'
    <3>1. CASE d = c BY <1>1, <2>1, <2>2, <3>1 DEF ReadCovered, AddInv, NothingComesBack
    <3>2. CASE d # c BY <1>1, <2>2, <3>2 DEF ReadCovered, AddInv, ReadsCovered
    <3> QED BY <3>1, <3>2
  <2>4. AddInv' BY <1>1, <2>3 DEF AddInv, ReadsCovered, NothingComesBack
  <2>5. \A d \in Calls : /\ call[d].pc = "stamp" => call'[d].pc = "stamp"
                         /\ call'[d].pc = "unflag" => call[d].pc = "unflag"
    BY <1>1, <2>1, <2>2
  <2>6. CountInv' BY <1>1, <2>5, CountFrame DEF HasItems
  <2> QED BY <1>1, <2>2, <2>4, <2>6 DEF CInv, Shapes, CartOK, IdleOK, AddedOK
<1> QED BY <1>3, <1>4 DEF ReadQuantity

\* The sum covers what is written, if what it was computed from was covered.
LEMMA WriteQuantityStep ==
  ASSUME CInv, NEW c \in Calls, WriteQuantity(c)
  PROVE  CInv'
<1> DEFINE p == Product(c)
           n == call[c].base + QtyOf[c]
           a == [sum |-> added[p].sum + QtyOf[c], stale |-> added[p].stale \/ ~call[c].fresh]
<1>1. /\ Shapes /\ AddInv /\ CountInv /\ UNCHANGED <<scan, idle>>
      /\ call[c].pc = "write" /\ OpOf[c] = "add" /\ p \in Products /\ Goto(c, "stamp")
      /\ cart' = [cart EXCEPT !.qty[p] = n] /\ added' = [added EXCEPT ![p] = a]
  BY OneItem DEF CInv, WriteQuantity, At
<1>2. /\ QtyOf[c] \in Nat /\ call[c].base \in Nat /\ call[c].fresh \in BOOLEAN
      /\ added[p].sum \in Nat /\ added[p].stale \in BOOLEAN
  BY <1>1, CallsAssumption DEF Shapes, CallOK, AddedOK
<1>3. n \in Nat /\ a \in [sum : Nat, stale : BOOLEAN] BY <1>2
<1>4. /\ CallOK' /\ call'[c].pc = "stamp" /\ \A d \in Calls : d # c => call'[d] = call[d]
  BY <1>1, GotoFacts DEF Shapes
<1>5. ~a.stale => n <= a.sum
  <2> SUFFICES ASSUME ~a.stale PROVE n <= a.sum OBVIOUS
  <2>1. ~added[p].stale /\ call[c].fresh OBVIOUS
  <2>2. call[c].base <= added[p].sum BY <1>1, <2>1 DEF AddInv, ReadsCovered, ReadCovered
  <2>3. a.sum = added[p].sum + QtyOf[c] OBVIOUS
  <2> QED BY <1>2, <2>2, <2>3
<1>6. added[p].sum <= a.sum /\ (~a.stale => ~added[p].stale) BY <1>2
<1>7. a.sum \in Nat BY <1>3
<1> HIDE DEF n, a
<1>8. Shapes' BY <1>1, <1>3, <1>4 DEF Shapes, CartOK, IdleOK, AddedOK
<1>9. /\ added'[p] = a /\ cart'.qty[p] = n /\ cart'.at = cart.at /\ cart'.flag = cart.flag
      /\ \A x \in Products : x # p => added'[x] = added[x] /\ cart'.qty[x] = cart.qty[x]
  BY <1>1 DEF Shapes, CartOK, AddedOK
<1>10. \A x \in Products : ~added'[x].stale => cart'.qty[x] <= added'[x].sum
  BY <1>1, <1>5, <1>9 DEF AddInv, NothingComesBack
<1>11. ASSUME NEW d \in Calls PROVE ReadCovered(d)'
  <2>1. CASE d = c BY <1>4, <2>1 DEF ReadCovered
  <2>2. CASE d # c /\ OpOf[d] = "add" /\ call[d].pc = "write" /\ call[d].fresh
    <3>1. ReadCovered(d) /\ Product(d) \in Products /\ call[d].base \in Nat
      BY <1>1, <2>2, OneItem DEF AddInv, ReadsCovered, Shapes, CallOK
    <3>2. CASE Product(d) = p
      BY <1>2, <1>4, <1>6, <1>7, <1>9, <2>2, <3>1, <3>2 DEF ReadCovered
    <3>3. CASE Product(d) # p BY <1>4, <1>9, <2>2, <3>1, <3>3 DEF ReadCovered
    <3> QED BY <3>2, <3>3
  <2>3. CASE d # c /\ ~(OpOf[d] = "add" /\ call[d].pc = "write" /\ call[d].fresh)
    BY <1>4, <2>3 DEF ReadCovered
  <2> QED BY <2>1, <2>2, <2>3
<1>12. AddInv' BY <1>10, <1>11 DEF AddInv, ReadsCovered, NothingComesBack
<1>13. \A d \in Calls : /\ call[d].pc = "stamp" => call'[d].pc = "stamp"
                        /\ call'[d].pc = "unflag" => call[d].pc = "unflag"
  BY <1>4
<1>14. CountInv' BY <1>1, <1>4, <1>9, <1>13, CountFrame
<1> QED BY <1>8, <1>12, <1>14 DEF CInv

-----------------------------------------------------------------------------
(* DELETE, and touch_cart *)

\* HDEL: nothing is left of the products, and whoever has read one of them has
\* read it too early.
LEMMA DeleteStep ==
  ASSUME CInv, NEW c \in Calls, NEW ps \in SUBSET Products, NEW pc \in {"keys", "stamp"},
         call[c].pc \notin {"stamp", "unflag"}, Delete(c, ps, pc)
  PROVE  CInv'
<1> DEFINE qty == [p \in Products |-> IF p \in ps THEN Removed(cart.qty[p]) ELSE cart.qty[p]]
           h == [cart EXCEPT !.qty = qty]
<1>1. /\ Shapes /\ AddInv /\ CountInv /\ UNCHANGED <<scan, idle>>
      /\ cart' = Stored(h)
      /\ added' = [p \in Products |-> IF p \in ps THEN NoAdds ELSE added[p]]
  BY DEF CInv, Delete
<1>2. h \in [qty : [Products -> Nat], at : {"none", "recent", "old"}, flag : BOOLEAN,
             ttl : {"none", "set", "ending", "due"}]
  BY <1>1 DEF Shapes, CartOK, Removed
<1>3. h.qty = qty /\ h.at = cart.at /\ h.flag = cart.flag BY <1>1 DEF Shapes, CartOK
<1>4. /\ \A p \in Products : qty[p] = IF p \in ps THEN 0 ELSE cart.qty[p]
      /\ HasItems \/ qty = NoItems
  BY <1>1 DEF Removed, HasItems, NoItems, Shapes, CartOK
<1> HIDE DEF qty, h
<1>5. CartOK' /\ cart'.qty = qty /\ cart'.at = cart.at /\ cart'.flag = cart.flag
  BY <1>1, <1>2, <1>3, StoredFacts DEF CartOK
<1>6. /\ call'[c].pc = pc /\ ~call'[c].fresh /\ CallOK'
      /\ \A d \in Calls : d # c => /\ call'[d].pc = call[d].pc /\ call'[d].base = call[d].base
                                   /\ call'[d].fresh => call[d].fresh /\ ItemsOf[d] \cap ps = {}
  <2> DEFINE new(d) == IF d = c THEN [Fresh EXCEPT !.pc = pc]
                       ELSE [call[d] EXCEPT !.fresh = @ /\ ItemsOf[d] \cap ps = {}]
  <2>1. call' = [d \in Calls |-> new(d)] BY DEF Delete
  <2>2. new(c).pc = pc /\ new(c).fresh = FALSE /\ new(c) \in
          [pc : {"keys", "stamp"}, limit : Nat, base : Nat, fresh : BOOLEAN, present : SUBSET Products]
    BY DEF Fresh
  <2>3. ASSUME NEW d \in Calls, d # c
        PROVE  /\ new(d).pc = call[d].pc /\ new(d).base = call[d].base
               /\ new(d).fresh = (call[d].fresh /\ ItemsOf[d] \cap ps = {})
               /\ new(d).limit = call[d].limit /\ new(d).present = call[d].present
    BY <1>1, <2>3 DEF Shapes, CallOK
  <2>4. ASSUME NEW d \in Calls PROVE new(d) \in
          [pc : {"idle", "read", "write", "keys", "delete", "stamp", "unflag", "expire", "done"},
           limit : Nat, base : Nat, fresh : BOOLEAN, present : SUBSET Products]
    BY <1>1, <2>2 DEF Shapes, CallOK
  <2>5. CallOK' BY <2>1, <2>4 DEF CallOK
  <2>6. call'[c].pc = pc /\ ~call'[c].fresh BY <2>1, <2>2
  <2>7. ASSUME NEW d \in Calls, d # c
        PROVE  /\ call'[d].pc = call[d].pc /\ call'[d].base = call[d].base
               /\ call'[d].fresh => call[d].fresh /\ ItemsOf[d] \cap ps = {}
    BY <2>1, <2>3, <2>7
  <2> QED BY <2>5, <2>6, <2>7
<1>7. AddedOK' BY <1>1 DEF Shapes, AddedOK, NoAdds
<1>8. \A p \in Products : ~added'[p].stale => cart'.qty[p] <= added'[p].sum
  <2> SUFFICES ASSUME NEW p \in Products, ~added'[p].stale PROVE cart'.qty[p] <= added'[p].sum OBVIOUS
  <2>1. CASE p \in ps BY <1>1, <1>4, <1>5, <2>1 DEF NoAdds
  <2>2. CASE p \notin ps BY <1>1, <1>4, <1>5, <2>2 DEF AddInv, NothingComesBack
  <2> QED BY <2>1, <2>2
<1>9. ASSUME NEW d \in Calls PROVE ReadCovered(d)'
  <2>1. CASE d = c BY <1>6, <2>1 DEF ReadCovered
  <2>2. CASE d # c /\ call'[d].fresh /\ OpOf[d] = "add"
    <3>1. Product(d) \in Products /\ Product(d) \notin ps /\ call[d].fresh
      BY <1>6, <2>2, OneItem
    <3>2. added'[Product(d)] = added[Product(d)] BY <1>1, <3>1
    <3> QED BY <1>1, <1>6, <2>2, <3>1, <3>2 DEF AddInv, ReadsCovered, ReadCovered
  <2>3. CASE ~(call'[d].fresh /\ OpOf[d] = "add") BY <2>3 DEF ReadCovered
  <2> QED BY <2>1, <2>2, <2>3
<1>10. HasItems' => HasItems BY <1>4, <1>5 DEF HasItems, NoItems
<1>11. \A d \in Calls : /\ call[d].pc = "stamp" => call'[d].pc = "stamp"
                        /\ call'[d].pc = "unflag" => call[d].pc = "unflag"
  BY <1>6
<1>12. CountInv' BY <1>1, <1>5, <1>10, <1>11, CountFrame
<1> QED BY <1>1, <1>5, <1>6, <1>7, <1>8, <1>9, <1>12
        DEF CInv, Shapes, IdleOK, AddInv, ReadsCovered, NothingComesBack

LEMMA RemoveFieldStep == ASSUME CInv, NEW c \in Calls, RemoveField(c) PROVE CInv'
<1>1. ItemsOf[c] \in SUBSET Products BY CallsAssumption
<1> QED BY <1>1, DeleteStep DEF RemoveField, At

LEMMA DeletePresentStep == ASSUME CInv, NEW c \in Calls, DeletePresent(c) PROVE CInv'
<1>1. call[c].present \in SUBSET Products BY DEF CInv, Shapes, CallOK
<1> QED BY <1>1, DeleteStep DEF DeletePresent, At

\* A call goes on, and that is all.
LEMMA QuietStep ==
  ASSUME CInv, NEW c \in Calls, NEW pc \in {"stamp", "done"}, UNCHANGED <<cart, scan, idle, added>>,
         call[c].pc # "stamp", call'[c].pc = pc, ~call'[c].fresh, CallOK',
         \A d \in Calls : d # c => call'[d] = call[d]
  PROVE  CInv'
<1>1. AddInv' BY AddFrame DEF CInv
<1>2. CountInv' BY CountFrame DEF CInv, HasItems
<1> QED BY <1>1, <1>2 DEF CInv, Shapes, CartOK, IdleOK, AddedOK

LEMMA LookForItemsStep == ASSUME CInv, NEW c \in Calls, LookForItems(c) PROVE CInv'
  BY GotoFacts, QuietStep DEF LookForItems, At, CInv, Shapes

LEMMA ReadPresentStep == ASSUME CInv, NEW c \in Calls, ReadPresent(c) PROVE CInv'
<1> DEFINE ps == {p \in ItemsOf[c] : cart.qty[p] > 0}
<1>1. CallOK /\ call[c].pc = "idle" /\ UNCHANGED <<cart, scan, idle, added>>
  BY DEF CInv, Shapes, ReadPresent, At
<1>2. CASE Goto(c, "done") BY <1>1, <1>2, GotoFacts, QuietStep
<1>3. CASE call' = [call EXCEPT ![c] = [@ EXCEPT !.pc = "delete", !.present = ps]]
  <2>1. ps \in SUBSET Products BY CallsAssumption
  <2> HIDE DEF ps
  <2>2. CallOK' /\ \A d \in Calls : d # c => call'[d] = call[d] BY <1>1, <1>3, <2>1 DEF CallOK
  <2>3. call'[c].pc = "delete" BY <1>1, <1>3 DEF CallOK
  <2>4. AddInv' BY <1>1, <2>2, <2>3, AddFrame DEF CInv
  <2>5. CountInv' BY <1>1, <2>2, <2>3, CountFrame DEF CInv, HasItems
  <2> QED BY <1>1, <2>2, <2>4, <2>5 DEF CInv, Shapes, CartOK, IdleOK, AddedOK
<1> QED BY <1>2, <1>3 DEF ReadPresent

\* The timestamp takes back whatever was counted.
LEMMA StampStep == ASSUME CInv, NEW c \in Calls, Stamp(c) PROVE CInv'
<1>1. /\ Shapes /\ AddInv /\ CountInv /\ UNCHANGED <<scan, added>> /\ Goto(c, "unflag")
      /\ cart' = [cart EXCEPT !.at = "recent", !.ttl = IF @ = "set" THEN "ending" ELSE @]
      /\ idle' = [NotIdle EXCEPT !.misflagged = idle.misflagged, !.untimed = idle.untimed]
  BY DEF CInv, Stamp
<1>2. /\ CallOK' /\ call'[c].pc = "unflag" /\ ~call'[c].fresh
      /\ \A d \in Calls : d # c => call'[d] = call[d]
  BY <1>1, GotoFacts DEF Shapes
<1>3. CartOK' /\ cart'.at = "recent" /\ cart'.qty = cart.qty BY <1>1 DEF Shapes, CartOK
<1>4. IdleOK' /\ idle'.counted = 0
  <2>1. idle.untimed \in BOOLEAN /\ idle.misflagged \in BOOLEAN BY <1>1 DEF Shapes, IdleOK
  <2>2. idle' = [counted |-> 0, missed |-> FALSE, misflagged |-> idle.misflagged,
                 unstamped |-> FALSE, untimed |-> idle.untimed]
    BY <1>1 DEF NotIdle
  <2> QED BY <2>1, <2>2 DEF IdleOK
<1>5. AddInv' BY <1>1, <1>2, <1>3, AddFrame
<1>6. CountInv'
  BY <1>3, <1>4 DEF CountInv, RecentUncounted, UnflagsRecent, StampComes, NoPass, Flagged,
     CountedOnce, Unstamped
<1> QED BY <1>1, <1>2, <1>3, <1>4, <1>5, <1>6 DEF CInv, Shapes, AddedOK

\* The flag goes from a cart that is recent, so not counted, or that expired.
LEMMA UnflagStep == ASSUME CInv, NEW c \in Calls, Unflag(c) PROVE CInv'
<1> DEFINE h == [cart EXCEPT !.flag = FALSE]
<1>1. /\ Shapes /\ AddInv /\ CountInv /\ UNCHANGED <<scan, added>> /\ Goto(c, "expire")
      /\ cart' = Stored(h) /\ call[c].pc = "unflag" /\ idle' = [idle EXCEPT !.misflagged = FALSE]
  BY DEF CInv, Unflag, NoFlag
<1>2. /\ h \in [qty : [Products -> Nat], at : {"none", "recent", "old"}, flag : BOOLEAN,
                ttl : {"none", "set", "ending", "due"}]
      /\ h.qty = cart.qty /\ h.at = cart.at
  BY <1>1 DEF Shapes, CartOK
<1> HIDE DEF h
<1>3. CartOK' /\ cart'.qty = cart.qty /\ cart'.at = cart.at BY <1>1, <1>2, StoredFacts DEF CartOK
<1>10. /\ IdleOK' /\ idle'.counted = idle.counted /\ idle'.missed = idle.missed
       /\ idle'.unstamped = idle.unstamped
  BY <1>1 DEF Shapes, IdleOK
<1>4. /\ CallOK' /\ call'[c].pc = "expire" /\ ~call'[c].fresh
      /\ \A d \in Calls : d # c => call'[d] = call[d]
  BY <1>1, GotoFacts DEF Shapes
<1>5. AddInv' BY <1>1, <1>3, <1>4, AddFrame
<1>6. StampComes'
  BY <1>1, <1>3, <1>4, <1>10 DEF CountInv, StampComes, Unstamped, HasItems, Pending
<1>7. cart.at \in {"recent", "none"} BY <1>1 DEF CountInv, UnflagsRecent, Shapes, CartOK
<1>8. idle.counted > 0 => cart.at = "none" BY <1>1, <1>7 DEF CountInv, RecentUncounted
<1>9. CountInv'
  BY <1>1, <1>3, <1>4, <1>6, <1>8, <1>10
  DEF CountInv, RecentUncounted, UnflagsRecent, NoPass, Flagged, CountedOnce, Unstamped
<1> QED BY <1>1, <1>3, <1>4, <1>5, <1>9, <1>10 DEF CInv, Shapes, AddedOK

LEMMA SetExpiryStep == ASSUME CInv, NEW c \in Calls, SetExpiry(c) PROVE CInv'
<1>1. /\ Shapes /\ AddInv /\ CountInv /\ UNCHANGED <<scan, added>> /\ Goto(c, "done")
      /\ cart' = WithExpiry(cart) /\ idle' = [idle EXCEPT !.untimed = FALSE] /\ call[c].pc = "expire"
  BY DEF CInv, SetExpiry
<1>2. CartOK' /\ cart'.qty = cart.qty /\ cart'.at = cart.at /\ cart'.flag = cart.flag
  BY <1>1 DEF Shapes, CartOK, WithExpiry
<1>3. /\ CallOK' /\ call'[c].pc = "done" /\ ~call'[c].fresh
      /\ \A d \in Calls : d # c => call'[d] = call[d]
  BY <1>1, GotoFacts DEF Shapes
<1>4. /\ IdleOK' /\ idle'.counted = idle.counted /\ idle'.missed = idle.missed
      /\ idle'.unstamped = idle.unstamped
  BY <1>1 DEF Shapes, IdleOK
<1>5. AddInv' BY <1>1, <1>2, <1>3, AddFrame
<1>6. StampComes'
  BY <1>1, <1>2, <1>3, <1>4 DEF CountInv, StampComes, Unstamped, HasItems, Pending
<1>7. CountInv'
  BY <1>1, <1>2, <1>3, <1>4, <1>6
  DEF CountInv, RecentUncounted, UnflagsRecent, NoPass, Flagged, CountedOnce, Unstamped
<1> QED BY <1>1, <1>2, <1>3, <1>4, <1>5, <1>7 DEF CInv, Shapes, AddedOK

-----------------------------------------------------------------------------
(* The scan, and time *)

\* Calls, quantities and adds stay.
LEMMA Undisturbed ==
  ASSUME CInv, UNCHANGED <<call, added>>, cart'.qty = cart.qty
  PROVE  /\ CallOK' /\ AddedOK' /\ AddInv' /\ (HasItems' <=> HasItems)
         /\ \A c \in Calls : call'[c] = call[c]
<1>1. AddInv' BY AddFrame DEF CInv
<1> QED BY <1>1 DEF CInv, Shapes, CallOK, AddedOK, HasItems

\* A pass starts when no call is about to set a timestamp.
LEMMA WakeStep == ASSUME CInv, Wake PROVE CInv'
<1>1. /\ Shapes /\ CountInv /\ UNCHANGED <<call, cart, idle, added>> /\ scan' = "pass" /\ scan = "sleep"
      /\ \A c \in Calls : call[c].pc # "stamp"
  BY DEF CInv, Wake, Quiet, Touching
<1>2. ~(Unstamped /\ idle.counted > 0) BY <1>1 DEF CountInv, StampComes, Pending
<1>3. CountInv'
  BY <1>1, <1>2 DEF CountInv, RecentUncounted, UnflagsRecent, StampComes, NoPass, Flagged, CountedOnce,
     Unstamped, HasItems, Pending
<1> QED BY <1>1, <1>3, Undisturbed DEF CInv, Shapes, CartOK, IdleOK

\* To read the cart changes how long it may live, and nothing else.
LEMMA LaterFacts ==
  ASSUME CartOK, cart' = Later(cart)
  PROVE  CartOK' /\ cart'.qty = cart.qty /\ cart'.at = cart.at /\ cart'.flag = cart.flag
  BY DEF CartOK, Later

\* Nothing lets a pass count a cart that was counted and has not been touched.
LEMMA CountCartStep == ASSUME CInv, CountCart PROVE CInv'
<1>1. /\ Shapes /\ CountInv /\ UNCHANGED <<call, added>> /\ scan' = "flag" /\ scan = "pass"
      /\ HasItems /\ ~cart.flag /\ cart.at # "recent" /\ cart' = Later(cart)
      /\ idle' = [idle EXCEPT !.counted = IF @ = 2 THEN 2 ELSE @ + 1]
  BY DEF CInv, CountCart, Counts, Unmodified, HasItems
<1>0. CartOK' /\ cart'.qty = cart.qty /\ cart'.at = cart.at /\ cart'.flag = cart.flag
  BY <1>1, LaterFacts DEF Shapes
<1>2. /\ IdleOK' /\ idle'.missed = idle.missed /\ idle'.unstamped = idle.unstamped
      /\ idle'.counted > 0 /\ (idle.counted = 0 => idle'.counted = 1)
  BY <1>1 DEF Shapes, IdleOK
<1>3. idle.counted > 0 => idle.missed \/ idle.unstamped
  BY <1>1 DEF CountInv, NoPass, Flagged, Unstamped
<1>4. idle.counted \in 0..2 BY <1>1 DEF Shapes, IdleOK
<1>5. CountedOnce' BY <1>2, <1>3, <1>4 DEF CountedOnce
<1>6. StampComes' BY <1>0, <1>1, <1>2 DEF CountInv, StampComes, Unstamped, HasItems, Pending
<1>7. CountInv'
  BY <1>0, <1>1, <1>2, <1>5, <1>6
  DEF CountInv, RecentUncounted, UnflagsRecent, NoPass, Flagged, Unstamped
<1> QED BY <1>0, <1>1, <1>2, <1>7, Undisturbed DEF CInv, Shapes

LEMMA SkipCartStep == ASSUME CInv, SkipCart PROVE CInv'
<1>1. /\ Shapes /\ CountInv /\ UNCHANGED <<call, idle, added>> /\ scan' = "sleep" /\ scan = "pass"
      /\ cart' = Later(cart)
  BY DEF CInv, SkipCart
<1>2. CartOK' /\ cart'.qty = cart.qty /\ cart'.at = cart.at /\ cart'.flag = cart.flag
  BY <1>1, LaterFacts DEF Shapes
<1>3. CountInv'
  BY <1>1, <1>2 DEF CountInv, RecentUncounted, UnflagsRecent, StampComes, NoPass, Flagged, CountedOnce,
     Unstamped, HasItems, Pending
<1> QED BY <1>1, <1>2, <1>3, Undisturbed DEF CInv, Shapes, IdleOK

LEMMA FlagCartStep == ASSUME CInv, FlagCart PROVE CInv'
<1>1. /\ Shapes /\ CountInv /\ UNCHANGED <<call, added>> /\ scan' = "sleep"
      /\ cart' = [cart EXCEPT !.flag = TRUE]
      /\ idle' = [idle EXCEPT !.misflagged = @ \/ idle.counted = 0]
  BY DEF CInv, FlagCart, WithFlag
<1>4. /\ IdleOK' /\ idle'.missed = idle.missed /\ idle'.unstamped = idle.unstamped
      /\ idle'.counted = idle.counted
  BY <1>1 DEF Shapes, IdleOK
<1>2. CartOK' /\ cart'.qty = cart.qty /\ cart'.at = cart.at /\ cart'.flag
  BY <1>1 DEF Shapes, CartOK
<1>3. CountInv'
  BY <1>1, <1>2, <1>4 DEF CountInv, RecentUncounted, UnflagsRecent, StampComes, NoPass, Flagged,
     CountedOnce, Unstamped, HasItems, Pending
<1> QED BY <1>1, <1>2, <1>3, <1>4, Undisturbed DEF CInv, Shapes

LEMMA ScanFailsStep == ASSUME CInv, ScanFails PROVE CInv'
<1>1. /\ Shapes /\ CountInv /\ UNCHANGED <<call, cart, added>> /\ scan' = "sleep"
      /\ idle' = [idle EXCEPT !.missed = @ \/ scan = "flag"]
  BY DEF CInv, ScanFails
<1>2. /\ IdleOK' /\ idle'.unstamped = idle.unstamped /\ idle'.counted = idle.counted
      /\ idle'.missed <=> idle.missed \/ scan = "flag"
  BY <1>1 DEF Shapes, IdleOK
<1>3. CountInv'
  BY <1>1, <1>2 DEF CountInv, RecentUncounted, UnflagsRecent, StampComes, NoPass, Flagged, CountedOnce,
     Unstamped, HasItems, Pending
<1> QED BY <1>1, <1>2, <1>3, Undisturbed DEF CInv, Shapes, CartOK

LEMMA GrowOldStep == ASSUME CInv, GrowOld PROVE CInv'
<1>1. /\ Shapes /\ CountInv /\ UNCHANGED <<call, scan, idle, added>> /\ cart.at = "recent"
      /\ cart' = [cart EXCEPT !.at = "old"] /\ \A c \in Calls : call[c].pc # "unflag"
  BY DEF CInv, GrowOld, Quiet, Touching
<1>2. CartOK' /\ cart'.qty = cart.qty /\ cart'.at = "old" BY <1>1 DEF Shapes, CartOK
<1>3. idle.counted = 0 BY <1>1 DEF CountInv, RecentUncounted
<1>4. CountInv'
  BY <1>1, <1>2, <1>3 DEF CountInv, RecentUncounted, UnflagsRecent, StampComes, NoPass, Flagged,
     CountedOnce, Unstamped
<1> QED BY <1>1, <1>2, <1>4, Undisturbed DEF CInv, Shapes, IdleOK

LEMMA RunOutStep == ASSUME CInv, RunOut PROVE CInv'
<1>1. /\ Shapes /\ CountInv /\ UNCHANGED <<call, scan, idle, added>>
      /\ cart' = [cart EXCEPT !.ttl = "due"]
  BY DEF CInv, RunOut
<1>2. CartOK' /\ cart'.qty = cart.qty /\ cart'.at = cart.at /\ cart'.flag = cart.flag
  BY <1>1 DEF Shapes, CartOK
<1>3. CountInv' BY <1>1, <1>2, CountFrame DEF HasItems
<1> QED BY <1>1, <1>2, <1>3, Undisturbed DEF CInv, Shapes, IdleOK

LEMMA ExpireStep == ASSUME CInv, Expire PROVE CInv'
<1>1. /\ Shapes /\ CountInv /\ UNCHANGED scan /\ cart' = NoHash /\ idle' = NotIdle
      /\ added' = [p \in Products |-> NoAdds]
      /\ call' = [c \in Calls |-> [call[c] EXCEPT !.fresh = FALSE]]
  BY DEF CInv, Expire
<1>2. CartOK' /\ IdleOK' /\ AddedOK'
  BY <1>1 DEF Shapes, CartOK, IdleOK, AddedOK, NoHash, NoItems, NotIdle, NoAdds
<1>3. CallOK' /\ \A c \in Calls : ~call'[c].fresh BY <1>1 DEF Shapes, CallOK
<1>4. ~HasItems' /\ cart'.at = "none" /\ idle'.counted = 0
  BY <1>1 DEF HasItems, NoHash, NotIdle
<1>5. CountInv'
  BY <1>4 DEF CountInv, RecentUncounted, UnflagsRecent, StampComes, NoPass, Flagged, CountedOnce
<1>6. \A p \in Products : cart'.qty[p] <= added'[p].sum
  BY <1>1 DEF NoHash, NoItems, NoAdds
<1>7. AddInv' BY <1>3, <1>6 DEF AddInv, ReadsCovered, ReadCovered, NothingComesBack
<1> QED BY <1>1, <1>2, <1>3, <1>5, <1>7 DEF CInv, Shapes

-----------------------------------------------------------------------------
(* Failures *)

\* The calls cs end where they are; the scan may end with them.
LEMMA HaltStep ==
  ASSUME CInv, NEW cs \in SUBSET Calls, UNCHANGED <<cart, added>>, CallOK', IdleOK',
         \A c \in cs : call'[c].pc = "done" /\ ~call'[c].fresh,
         \A c \in Calls : c \notin cs => call'[c] = call[c],
         idle'.counted = idle.counted,
         idle.missed => idle'.missed,
         idle'.unstamped <=> idle.unstamped \/ \E c \in cs : call[c].pc = "stamp",
         scan' = scan \/ (scan' = "sleep" /\ (scan = "flag" => idle'.missed))
  PROVE  CInv'
<1>1. Shapes /\ AddInv /\ CountInv BY DEF CInv
<1>2. AddInv' BY <1>1, AddFrame
<1>3. StampComes'
  <2> SUFFICES ASSUME Unstamped', HasItems' \/ idle'.counted > 0
               PROVE  \E c \in Calls : call'[c].pc = "stamp"
    BY DEF StampComes, Pending
  <2>1. PICK c \in Calls : call[c].pc = "stamp"
    BY <1>1 DEF CountInv, StampComes, Pending, Unstamped, HasItems
  <2>2. c \notin cs BY <2>1 DEF Unstamped
  <2> QED BY <2>1, <2>2
<1>4. UnflagsRecent' BY <1>1 DEF CountInv, UnflagsRecent
<1>5. NoPass' BY <1>1 DEF CountInv, NoPass, Unstamped
<1>6. Flagged' BY <1>1 DEF CountInv, Flagged
<1>7. RecentUncounted' /\ CountedOnce' BY <1>1 DEF CountInv, RecentUncounted, CountedOnce
<1> QED BY <1>1, <1>2, <1>3, <1>4, <1>5, <1>6, <1>7 DEF CInv, CountInv, Shapes, CartOK, AddedOK

LEMMA RedisFailsStep == ASSUME CInv, NEW c \in Calls, RedisFails(c) PROVE CInv'
<1>1. /\ Shapes /\ UNCHANGED <<cart, scan, added>> /\ Goto(c, "done") /\ idle' = Unfinished({c})
  BY DEF CInv, RedisFails
<1>2. /\ IdleOK' /\ idle'.counted = idle.counted /\ idle'.missed = idle.missed
      /\ idle'.unstamped <=> idle.unstamped \/ \E d \in {c} : call[d].pc = "stamp"
  BY <1>1 DEF Shapes, IdleOK, Unfinished
<1>3. /\ CallOK' /\ \A d \in {c} : call'[d].pc = "done" /\ ~call'[d].fresh
      /\ \A d \in Calls : d \notin {c} => call'[d] = call[d]
  BY <1>1, GotoFacts DEF Shapes
<1> QED BY <1>1, <1>2, <1>3, HaltStep

LEMMA CrashStep == ASSUME CInv, Crash PROVE CInv'
<1> DEFINE running == {c \in Calls : call[c].pc \notin {"idle", "done"}}
<1>1. /\ Shapes /\ UNCHANGED <<cart, added>> /\ scan' = "sleep"
      /\ call' = [c \in Calls |-> IF c \in running THEN [Fresh EXCEPT !.pc = "done"] ELSE call[c]]
      /\ idle' = [Unfinished(running) EXCEPT !.missed = @ \/ scan = "flag"]
      /\ running \in SUBSET Calls
  BY DEF CInv, Crash
<1> HIDE DEF running
<1>2. /\ IdleOK' /\ idle'.counted = idle.counted
      /\ idle'.missed <=> idle.missed \/ scan = "flag"
      /\ idle'.unstamped <=> idle.unstamped \/ \E d \in running : call[d].pc = "stamp"
  BY <1>1 DEF Shapes, IdleOK, Unfinished
<1>3. /\ CallOK' /\ \A c \in running : call'[c].pc = "done" /\ ~call'[c].fresh
      /\ \A c \in Calls : c \notin running => call'[c] = call[c]
  BY <1>1 DEF Shapes, CallOK, Fresh
<1> QED BY <1>1, <1>2, <1>3, HaltStep

LEMMA StutterStep == ASSUME CInv, UNCHANGED vars PROVE CInv'
<1>1. UNCHANGED <<call, cart, scan, idle, added>> BY DEF vars
<1>2. CountInv' BY <1>1, CountFrame DEF CInv, HasItems
<1> QED BY <1>1, <1>2, Undisturbed DEF CInv, Shapes, CartOK, IdleOK

-----------------------------------------------------------------------------
(* The theorems *)

LEMMA CInvStep == CInv /\ [Next]_vars => CInv'
<1> SUFFICES ASSUME CInv, [Next]_vars PROVE CInv' OBVIOUS
<1>1. ASSUME NEW c \in Calls, Arrive(c) \/ Work(c) \/ RedisFails(c) PROVE CInv'
  BY <1>1, AskCatalogStep, RemoveFieldStep, ReadPresentStep, ReadQuantityStep, WriteQuantityStep,
     LookForItemsStep, DeletePresentStep, StampStep, UnflagStep, SetExpiryStep, RedisFailsStep
  DEF Arrive, Work
<1>2. CASE Wake \/ CountCart \/ SkipCart \/ FlagCart \/ ScanFails
  BY <1>2, WakeStep, CountCartStep, SkipCartStep, FlagCartStep, ScanFailsStep
<1>3. CASE GrowOld \/ RunOut \/ Expire \/ Crash
  BY <1>3, GrowOldStep, RunOutStep, ExpireStep, CrashStep
<1> QED BY <1>1, <1>2, <1>3, StutterStep DEF Next

\* CInv holds in every reachable state.
THEOREM CartInvariant == Spec => []CInv
<1> QED BY CInvInit, CInvStep, PTL DEF Spec

\* However adds, removals, expiries and failures interleave, a quantity is never
\* more than what adds asked for since the product was last deleted, unless one
\* of them had read the old quantity before that (cart.py:45-50, 59, 96-99).
THEOREM RemovedStaysRemoved == Spec => []NothingComesBack
<1>1. CInv => NothingComesBack BY DEF CInv, AddInv
<1> QED BY <1>1, CartInvariant, PTL

\* A cart left alone is counted as abandoned once, by however many passes,
\* unless a failure kept the flag or a timestamp from being written
\* (abandonment.py:29-44, redis_client.py:21-27).
THEOREM AbandonedOnce == Spec => []CountedOnce
<1>1. CInv => CountedOnce BY DEF CInv, CountInv
<1> QED BY <1>1, CartInvariant, PTL
==============================================================================
