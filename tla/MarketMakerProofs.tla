-------------------------- MODULE MarketMakerProofs --------------------------
(***************************************************************************)
(* Theorems about MarketMaker, for any markets, windows, caps, time to     *)
(* live and any number of crashes, lost ticks and failing persists.        *)
(*                                                                         *)
(* OneQuotePerSide is not inductive.  While a tick is dispatched the book  *)
(* lags behind the ledger, so MakerInv says what each pending action still *)
(* owes: a resting order is tracked or about to be removed                 *)
(* (TrackedOrLeaving), and a quote about to be placed is tracked and has   *)
(* an id nothing has used (PendingFresh), because ids carry the instant of *)
(* the tick and nothing in the book or the tables is later than the        *)
(* market's latest tick (Stamped).                                         *)
(***************************************************************************)
EXTENDS MarketMaker, TLAPS

\* Every id in use is from a tick already seen.
Stamped ==
    /\ \A m \in Markets : seen[m] <= now
    /\ \A q \in book \cup fills : q.ts <= seen[q.market]
    /\ \A c \in DOMAIN orders : c[2] <= seen[c[1]]

\* A resting order is tracked, or the action of its side will remove it.
TrackedOrLeaving ==
    \A o \in book : \/ o \in live
                    \/ /\ todo[o.side].kind \in {"cancel", "withdraw", "replace"}
                       /\ todo[o.side].old = o

Places(a) == a.kind \in {"post", "replace"}
Removes(a) == a.kind \in {"cancel", "withdraw", "replace"}

\* What the pending action of a side refers to.
PendingFresh ==
    /\ pc # "dispatch" => \A s \in Sides : todo[s] = Nothing
    /\ \A s \in Sides :
          /\ Removes(todo[s]) => todo[s].old \in Quotes
          /\ Places(todo[s]) =>
                LET new == todo[s].new IN
                /\ new \in live /\ new \in Quotes /\ new.side = s
                /\ new.ts <= seen[new.market]
                /\ Coid(new) \notin DOMAIN orders
                /\ \A q \in book \cup fills : Coid(q) # Coid(new)

\* Matched and filled orders have left the book; what rests is not cancelled.
FillsGone ==
    /\ pc # "fills" => hits = {}
    /\ \A q \in hits \cup fills, o \in book : Coid(q) # Coid(o)
    /\ \A o \in book : Coid(o) \in DOMAIN orders => orders[Coid(o)] = "NEW"

MakerInv ==
    /\ TypeOK /\ Stamped /\ OneQuotePerSide /\ TrackedOrLeaving
    /\ PendingFresh /\ FillsGone /\ CancelledNeverFills

-----------------------------------------------------------------------------
\* The client order id tells market, tick and side apart.
LEMMA CoidInjective ==
  ASSUME NEW p \in Quotes, NEW q \in Quotes
  PROVE  /\ Coid(p) = Coid(q) <=> p.market = q.market /\ p.ts = q.ts /\ p.side = q.side
         /\ Coid(p)[1] = p.market /\ Coid(p)[2] = p.ts
         /\ Coid(p) \in Markets \X Nat \X Sides
  BY DEF Coid, Quotes

\* CHOOSE finds an element.
LEMMA AnyOfMember ==
  ASSUME NEW S, S # {}
  PROVE  AnyOf(S) \in S
  BY DEF AnyOf

\* Two quotes of the book or of the ledger with one id are the same quote.
LEMMA SameId ==
  ASSUME NEW S, S \subseteq Quotes, OnePerSide(S), NEW p \in S, NEW q \in S,
         Coid(p) = Coid(q)
  PROVE  p = q
  BY CoidInjective DEF OnePerSide

\* The initial state.
LEMMA InitInv == Init => MakerInv
  <1> SUFFICES ASSUME Init PROVE MakerInv
    OBVIOUS
  <1> USE MakerAssumption DEF Init
  <1>1. DOMAIN orders = {}
    OBVIOUS
  <1>2. \A s \in Sides : todo[s] = Nothing
    BY DEF Idle
  <1>3. TypeOK
    <2>1. Nothing \in Actions
      BY DEF Nothing, Act, Actions, ActionKinds
    <2>2. todo \in [Sides -> Actions]
      BY <2>1 DEF Idle
    <2>3. tick \in [market : Markets \cup {"none"}, mid : Int]
      BY DEF NoTick
    <2>4. orders \in [DOMAIN orders -> Statuses]
      <3>1. [c \in {} |-> "NEW"] \in [{} -> Statuses]
        OBVIOUS
      <3> QED
        BY <3>1, <1>1
    <2>5. /\ seen \in [Markets -> Int] /\ inv \in [Markets -> Int]
          /\ now \in Nat /\ crashes \in Nat /\ dbErrs \in Nat /\ drops \in Nat
      OBVIOUS
    <2>6. kill \in BOOLEAN /\ paused \in BOOLEAN
      OBVIOUS
    <2> QED
      BY <1>1, <2>2, <2>3, <2>4, <2>5, <2>6 DEF TypeOK
  <1>4. Stamped
    BY <1>1 DEF Stamped
  <1>5. PendingFresh
    BY <1>2 DEF PendingFresh, Nothing, Act, Removes, Places
  <1> QED
    BY <1>1, <1>3, <1>4, <1>5
       DEF MakerInv, OneQuotePerSide, OnePerSide, TrackedOrLeaving, FillsGone, CancelledNeverFills

-----------------------------------------------------------------------------
\* What _post_or_replace_side returns: it names only this side's quote, and
\* posts without a cancel only where the ledger has none.
LEMMA SideActionFacts ==
  ASSUME TypeOK, NEW m \in Markets, NEW new \in Quotes, NEW mid
  PROVE  LET a == SideAction(m, new, mid) IN
         /\ a \in Actions
         /\ Removes(a) => a.old \in Existing(m, new.side)
         /\ Places(a) => a.new = new
         /\ a.kind = "post" => Existing(m, new.side) = {}
         /\ a.kind # "withdraw"
  <1> DEFINE old == Existing(m, new.side)
  <1> DEFINE a == SideAction(m, new, mid)
  <1>1. old # {} => AnyOf(old) \in old
    BY AnyOfMember
  <1>2. old \subseteq Quotes
    BY DEF Existing, TypeOK
  <1>3. \/ a = Nothing
        \/ a = Act("cancel", AnyOf(old), NoQuote) /\ old # {}
        \/ a = Act("post", NoQuote, new) /\ old = {}
        \/ a = Act("replace", AnyOf(old), new) /\ old # {}
    BY DEF SideAction
  <1> HIDE DEF old, a
  <1>4. /\ a \in Actions
        /\ Removes(a) => a.old \in old
        /\ Places(a) => a.new = new
        /\ a.kind = "post" => old = {}
        /\ a.kind # "withdraw"
    <2>1. CASE a = Nothing
      BY <2>1 DEF Nothing, Act, Actions, ActionKinds, Removes, Places
    <2>2. CASE a = Act("cancel", AnyOf(old), NoQuote) /\ old # {}
      BY <2>2, <1>1, <1>2 DEF Act, Actions, ActionKinds, Removes, Places
    <2>3. CASE a = Act("post", NoQuote, new) /\ old = {}
      BY <2>3 DEF Act, Actions, ActionKinds, Removes, Places
    <2>4. CASE a = Act("replace", AnyOf(old), new) /\ old # {}
      BY <2>4, <1>1, <1>2 DEF Act, Actions, ActionKinds, Removes, Places
    <2> QED
      BY <1>3, <2>1, <2>2, <2>3, <2>4
  <1> QED
    BY <1>4 DEF old, a

\* A step that leaves ledger, book and rows alone and only moves time on.
LEMMA FrameInv ==
  ASSUME MakerInv, TypeOK', UNCHANGED <<live, book, todo, hits, orders, fills>>,
         pc' = pc \/ (pc' = "idle" /\ hits = {} /\ \A s \in Sides : todo[s] = Nothing),
         \A m \in Markets : seen[m] <= seen'[m] /\ seen'[m] <= now'
  PROVE  MakerInv'
  <1> USE DEF MakerInv
  <1>1. Stamped'
    <2>1. \A q \in book \cup fills : q.market \in Markets /\ q.ts \in Nat
      BY DEF TypeOK, Quotes
    <2>2. \A c \in DOMAIN orders : c[1] \in Markets /\ c[2] \in Nat
      BY DEF TypeOK
    <2>3. \A m \in Markets : seen[m] \in Int /\ seen'[m] \in Int
      BY DEF TypeOK
    <2> QED
      BY <2>1, <2>2, <2>3 DEF Stamped
  <1>2. OneQuotePerSide' /\ TrackedOrLeaving' /\ CancelledNeverFills'
    BY DEF OneQuotePerSide, OnePerSide, TrackedOrLeaving, CancelledNeverFills
  <1>3. PendingFresh'
    <2>1. \A s \in Sides : Places(todo[s]) => /\ todo[s].new.market \in Markets
                                              /\ todo[s].new.ts \in Nat
      BY DEF PendingFresh, Quotes
    <2>2. \A m \in Markets : seen[m] \in Int /\ seen'[m] \in Int
      BY DEF TypeOK
    <2> QED
      BY <2>1, <2>2 DEF PendingFresh
  <1>4. FillsGone'
    BY DEF FillsGone
  <1> QED
    BY <1>1, <1>2, <1>3, <1>4

-----------------------------------------------------------------------------
(* Ticks.                                                                  *)

\* The quote a tick builds.
LEMMA NewQuoteType ==
  ASSUME TypeOK, NEW m \in Markets, NEW s \in Sides, NEW price \in Nat,
         NEW qty \in Nat
  PROVE  /\ NewQuote(m, s, price, qty) \in Quotes
         /\ NewQuote(m, s, price, qty).market = m
         /\ NewQuote(m, s, price, qty).side = s
         /\ NewQuote(m, s, price, qty).ts = now
  BY DEF NewQuote, Quotes, TypeOK

\* A tick leaves every earlier id behind: the ids of its own instant are new.
LEMMA ReceiveFresh ==
  ASSUME MakerInv, NEW m \in Markets, Receive(m), UNCHANGED now
  PROVE  /\ seen' \in [Markets -> Int]
         /\ \A k \in Markets : seen[k] <= seen'[k] /\ seen'[k] <= now
         /\ seen'[m] = now
         /\ \A q \in Quotes : q.market = m /\ q.ts = now =>
               /\ Coid(q) \notin DOMAIN orders
               /\ \A x \in book \cup fills : Coid(x) # Coid(q)
  <1> USE DEF MakerInv
  <1>1. seen' = [seen EXCEPT ![m] = now] /\ seen[m] < now
    BY DEF Receive, Due
  <1>2. now \in Nat /\ seen \in [Markets -> Int]
    BY DEF TypeOK
  <1>3. ASSUME NEW q \in Quotes, q.market = m, q.ts = now
        PROVE  /\ Coid(q) \notin DOMAIN orders
               /\ \A x \in book \cup fills : Coid(x) # Coid(q)
    <2>1. Coid(q)[1] = m /\ Coid(q)[2] = now
      BY <1>3, CoidInjective
    <2>2. Coid(q) \notin DOMAIN orders
      BY <1>1, <1>2, <2>1 DEF Stamped
    <2>3. ASSUME NEW x \in book \cup fills PROVE Coid(x) # Coid(q)
      <3>1. x \in Quotes /\ x.ts <= seen[x.market]
        BY DEF TypeOK, Stamped
      <3>2. Coid(x) = Coid(q) => x.market = m /\ x.ts = now
        BY <3>1, <1>3, CoidInjective
      <3> QED
        BY <3>1, <3>2, <1>1, <1>2
    <2> QED
      BY <2>2, <2>3
  <1> QED
    BY <1>1, <1>2, <1>3 DEF Stamped

\* The part of the invariant a tick leaves as it is.
LEMMA ReceiveStamped ==
  ASSUME MakerInv, NEW m \in Markets, Receive(m),
         UNCHANGED <<now, book, hits, orders, fills>>,
         pc' = "dispatch"
  PROVE  Stamped' /\ FillsGone' /\ CancelledNeverFills' /\ OnePerSide(book)'
  <1> USE DEF MakerInv
  <1>1. \A k \in Markets : seen[k] <= seen'[k] /\ seen'[k] <= now
    BY ReceiveFresh
  <1>2. \A k \in Markets : seen[k] \in Int /\ seen'[k] \in Int
    BY ReceiveFresh DEF TypeOK
  <1>3. \A q \in book \cup fills : q.market \in Markets /\ q.ts \in Nat
    BY DEF TypeOK, Quotes
  <1>4. \A c \in DOMAIN orders : c[1] \in Markets /\ c[2] \in Nat
    BY DEF TypeOK
  <1>5. Stamped'
    BY <1>1, <1>2, <1>3, <1>4 DEF Stamped
  <1>6. hits = {}
    BY DEF FillsGone, Receive
  <1>7. FillsGone'
    BY <1>6 DEF FillsGone
  <1>8. CancelledNeverFills' /\ OnePerSide(book)'
    BY DEF CancelledNeverFills, OnePerSide, OneQuotePerSide
  <1> QED
    BY <1>5, <1>7, <1>8

\* Withdrawing every quote of a market.
LEMMA TickWithdrawInv ==
  ASSUME MakerInv, NEW m \in Markets, NEW mid \in 0 .. One, TickWithdraw(m, mid)
  PROVE  MakerInv'
  <1> USE DEF MakerInv
  <1> DEFINE act == [s \in Sides |->
                       IF Existing(m, s) = {} THEN Nothing
                       ELSE Act("withdraw", AnyOf(Existing(m, s)), NoQuote)]
  <1>1. /\ Receive(m) /\ todo' = act
        /\ live' = {q \in live : q.market # m}
        /\ tick' = [market |-> m, mid |-> mid] /\ pc' = "dispatch"
        /\ UNCHANGED <<now, kill, paused, inv, book, hits, orders, fills,
                       crashes, dbErrs, drops>>
    BY DEF TickWithdraw, dbVars, faultVars
  <1>2. \A s \in Sides : /\ act[s] \in Actions /\ ~Places(act[s])
                         /\ Existing(m, s) # {} => /\ act[s].kind = "withdraw"
                                                   /\ act[s].old \in Existing(m, s)
                         /\ Removes(act[s]) => act[s].old \in Quotes
    <2> TAKE s \in Sides
    <2>1. Existing(m, s) \subseteq Quotes
      BY DEF Existing, TypeOK
    <2>2. CASE Existing(m, s) = {}
      BY <2>2 DEF Nothing, Act, Actions, ActionKinds, Places, Removes
    <2>3. CASE Existing(m, s) # {}
      <3>1. AnyOf(Existing(m, s)) \in Existing(m, s)
        BY <2>3, AnyOfMember
      <3> QED
        BY <2>1, <2>3, <3>1 DEF Act, Actions, ActionKinds, Places, Removes
    <2> QED
      BY <2>2, <2>3
  <1>3. act \in [Sides -> Actions]
    <2>1. act = [s \in Sides |-> act[s]]
      OBVIOUS
    <2> HIDE DEF act
    <2> QED
      BY <1>2, <2>1
  <1> HIDE DEF act
  <1>4. TypeOK'
    <2>2. tick' \in [market : Markets \cup {"none"}, mid : Int] /\ tick'.market = m
      BY <1>1, MakerAssumption
    <2>3. seen' \in [Markets -> Int]
      BY <1>1, ReceiveFresh
    <2>4. live' \subseteq Quotes
      BY <1>1 DEF TypeOK
    <2> QED
      BY <1>1, <1>3, <2>2, <2>3, <2>4 DEF TypeOK
  <1>5. Stamped' /\ FillsGone' /\ CancelledNeverFills' /\ OnePerSide(book)'
    BY <1>1, ReceiveStamped
  <1>6. OnePerSide(live)'
    BY <1>1 DEF OneQuotePerSide, OnePerSide
  <1>7. TrackedOrLeaving'
    <2> SUFFICES ASSUME NEW o \in book, o \notin live'
                 PROVE  Removes(todo'[o.side]) /\ todo'[o.side].old = o
      BY <1>1 DEF TrackedOrLeaving, Removes
    <2>1. o \in live
      <3>1. o.side \in Sides
        BY DEF TypeOK, Quotes
      <3>2. todo[o.side] = Nothing
        BY <1>1, <3>1 DEF Receive, PendingFresh
      <3> QED
        BY <3>2 DEF TrackedOrLeaving, Nothing, Act
    <2>2. o.market = m /\ o.side \in Sides
      BY <2>1, <1>1 DEF TypeOK, Quotes
    <2>3. o \in Existing(m, o.side)
      BY <2>1, <2>2 DEF Existing
    <2>4. act[o.side].kind = "withdraw" /\ act[o.side].old \in Existing(m, o.side)
      BY <1>2, <2>2, <2>3
    <2>5. act[o.side].old = o
      BY <2>4, <2>3, <2>1 DEF Existing, OneQuotePerSide, OnePerSide
    <2> QED
      BY <2>4, <2>5, <1>1 DEF Removes
  <1>8. PendingFresh'
    <2>1. ASSUME NEW s \in Sides
          PROVE  ~Places(todo'[s]) /\ (Removes(todo'[s]) => todo'[s].old \in Quotes)
      BY <1>1, <1>2
    <2> QED
      BY <1>1, <2>1 DEF PendingFresh
  <1> QED
    BY <1>4, <1>5, <1>6, <1>7, <1>8 DEF OneQuotePerSide

\* Quoting: post, replace or cancel on each side.
LEMMA TickQuoteInv ==
  ASSUME MakerInv, NEW m \in Markets, NEW mid \in Zone,
         NEW bid \in 1 .. One - 1, NEW ask \in 1 .. One - 1,
         TickQuote(m, mid, bid, ask)
  PROVE  MakerInv'
  <1> USE DEF MakerInv
  <1> DEFINE qty == Stake \div bid
             new == [s \in Sides |-> NewQuote(m, s, IF s = "BUY" THEN bid ELSE ask, qty)]
             act == [s \in Sides |-> SideAction(m, new[s], mid)]
  <1>1. /\ Receive(m) /\ todo' = act
        /\ live' = (live \ UNION {Untracked(act[s]) : s \in Sides})
                     \cup UNION {Tracked(act[s]) : s \in Sides}
        /\ tick' = [market |-> m, mid |-> mid] /\ pc' = "dispatch"
        /\ UNCHANGED <<now, kill, paused, inv, book, hits, orders, fills,
                       crashes, dbErrs, drops>>
    BY DEF TickQuote, dbVars, faultVars
  <1>2. \A s \in Sides : /\ new[s] \in Quotes /\ new[s].market = m
                         /\ new[s].side = s /\ new[s].ts = now
    <2>1. One \in Nat /\ Stake \in Nat
      BY MakerAssumption
    <2>2. qty \in Nat /\ bid \in Nat /\ ask \in Nat
      BY <2>1
    <2> HIDE DEF qty
    <2> QED
      BY <2>2, NewQuoteType
  <1> HIDE DEF new
  <1>3. \A s \in Sides : /\ act[s] \in Actions
                         /\ Removes(act[s]) => act[s].old \in Existing(m, s)
                         /\ Places(act[s]) => act[s].new = new[s]
                         /\ act[s].kind = "post" => Existing(m, s) = {}
                         /\ act[s].kind # "withdraw"
    <2> TAKE s \in Sides
    <2>1. act[s] = SideAction(m, new[s], mid)
      OBVIOUS
    <2> QED
      BY <1>2, <2>1, SideActionFacts
  <1>4. act \in [Sides -> Actions]
    <2>1. act = [s \in Sides |-> act[s]]
      OBVIOUS
    <2> HIDE DEF act
    <2> QED
      BY <1>3, <2>1
  <1> HIDE DEF act
  <1>5. \A q \in live' : \/ q \in live /\ \A s \in Sides : Removes(act[s]) => q # act[s].old
                         \/ \E s \in Sides : Places(act[s]) /\ q = new[s]
    <2> TAKE q \in live'
    <2>1. CASE \E s \in Sides : q \in Tracked(act[s])
      BY <2>1, <1>3 DEF Tracked, Places
    <2>2. CASE q \in live /\ \A s \in Sides : q \notin Untracked(act[s])
      <3>1. \A s \in Sides : Removes(act[s]) => q # act[s].old
        BY <2>2, <1>3 DEF Removes, Untracked
      <3> QED
        BY <3>1, <2>2
    <2> QED
      BY <2>1, <2>2, <1>1
  <1>6. \A s \in Sides : Places(act[s]) => new[s] \in live'
    BY <1>1, <1>3 DEF Tracked, Places
  <1>7. \A q \in live : q \notin live' => /\ q.side \in Sides
                                          /\ Removes(act[q.side]) /\ act[q.side].old = q
    <2> TAKE q \in live
    <2> SUFFICES ASSUME q \notin live'
                 PROVE  /\ q.side \in Sides
                        /\ Removes(act[q.side]) /\ act[q.side].old = q
      OBVIOUS
    <2>1. PICK s \in Sides : q \in Untracked(act[s])
      BY <1>1
    <2>2. Removes(act[s]) /\ act[s].old = q
      BY <2>1 DEF Untracked, Removes
    <2>3. q.side = s
      BY <2>2, <1>3 DEF Existing
    <2> QED
      BY <2>2, <2>3
  <1>8. TypeOK'
    <2>1. tick' \in [market : Markets \cup {"none"}, mid : Int] /\ tick'.market = m
      BY <1>1, MakerAssumption
    <2>2. seen' \in [Markets -> Int]
      BY <1>1, ReceiveFresh
    <2>3. live' \subseteq Quotes
      BY <1>2, <1>5 DEF TypeOK
    <2> QED
      BY <1>1, <1>4, <2>1, <2>2, <2>3 DEF TypeOK
  <1>9. Stamped' /\ FillsGone' /\ CancelledNeverFills' /\ OnePerSide(book)'
    BY <1>1, ReceiveStamped
  <1>10. OnePerSide(live)'
    <2> SUFFICES ASSUME NEW p \in live', NEW q \in live', p.market = q.market,
                        p.side = q.side
                 PROVE  p = q
      BY DEF OnePerSide
    <2>1. ASSUME NEW x \in live, NEW s \in Sides, Places(act[s]), x.market = m,
                 x.side = s
          PROVE  Removes(act[s]) /\ x = act[s].old
      <3>1. x \in Existing(m, s)
        BY <2>1 DEF Existing
      <3>2. Removes(act[s])
        BY <2>1, <3>1, <1>3 DEF Places, Removes
      <3>3. act[s].old \in live /\ act[s].old.market = m /\ act[s].old.side = s
        BY <3>2, <1>3 DEF Existing
      <3> QED
        BY <3>2, <3>3, <2>1 DEF OneQuotePerSide, OnePerSide
    <2>2. CASE p \in live /\ q \in live
      BY <2>2 DEF OneQuotePerSide, OnePerSide
    <2>3. \A x, y \in live' : x.market = y.market /\ x.side = y.side /\ x \in live =>
             ~\E s \in Sides : Places(act[s]) /\ y = new[s] /\ x # y
      <3> SUFFICES ASSUME NEW x \in live', NEW y \in live', x.market = y.market,
                          x.side = y.side, x \in live, NEW s \in Sides,
                          Places(act[s]), y = new[s], x # y
                   PROVE  FALSE
        OBVIOUS
      <3>1. Removes(act[s]) /\ x = act[s].old
        BY <2>1, <1>2
      <3>2. ~ \E t \in Sides : Places(act[t]) /\ x = new[t]
        BY <1>2
      <3> QED
        BY <3>1, <3>2, <1>5
    <2>4. CASE p \notin live /\ q \notin live
      BY <2>4, <1>5, <1>2
    <2> QED
      BY <2>2, <2>3, <2>4, <1>5
  <1>11. TrackedOrLeaving'
    <2> SUFFICES ASSUME NEW o \in book, o \notin live'
                 PROVE  Removes(todo'[o.side]) /\ todo'[o.side].old = o
      BY <1>1 DEF TrackedOrLeaving, Removes
    <2>1. o \in live
      <3>1. o.side \in Sides
        BY DEF TypeOK, Quotes
      <3>2. todo[o.side] = Nothing
        BY <1>1, <3>1 DEF Receive, PendingFresh
      <3> QED
        BY <3>2 DEF TrackedOrLeaving, Nothing, Act
    <2> QED
      BY <2>1, <1>7, <1>1
  <1>12. PendingFresh'
    <2>1. ASSUME NEW s \in Sides, Removes(act[s]) PROVE act[s].old \in Quotes
      BY <2>1, <1>3 DEF Existing, TypeOK
    <2>2. ASSUME NEW s \in Sides, Places(act[s])
          PROVE  /\ act[s].new = new[s]
                 /\ new[s] \in live' /\ new[s] \in Quotes /\ new[s].side = s
                 /\ new[s].ts <= seen'[new[s].market]
                 /\ Coid(new[s]) \notin DOMAIN orders
                 /\ \A q \in book \cup fills : Coid(q) # Coid(new[s])
      <3>1. new[s].ts = now /\ new[s].market = m /\ new[s] \in Quotes
        BY <1>2
      <3>2. seen'[m] = now /\ now \in Nat
        BY <1>1, ReceiveFresh DEF TypeOK
      <3>3. /\ Coid(new[s]) \notin DOMAIN orders
            /\ \A q \in book \cup fills : Coid(q) # Coid(new[s])
        BY <1>1, <3>1, ReceiveFresh
      <3> QED
        BY <2>2, <3>1, <3>2, <3>3, <1>2, <1>3, <1>6
    <2> QED
      BY <1>1, <2>1, <2>2 DEF PendingFresh
  <1> QED
    BY <1>8, <1>9, <1>10, <1>11, <1>12 DEF OneQuotePerSide

-----------------------------------------------------------------------------
(* Dispatching the action of a side.                                       *)

\* What _dispatch_action may do: remove the old quote of the action, add its
\* new one, and touch the rows of these two only.
Handled(s) ==
    /\ pc = "dispatch" /\ Done(s)
    /\ UNCHANGED <<now, kill, paused, seen, live, inv, pc, tick, hits, fills,
                   crashes, drops>>
    /\ dbErrs' \in Nat
    /\ \A o \in book' : o \in book \/ (Places(todo[s]) /\ o = todo[s].new)
    /\ Removes(todo[s]) => \A o \in book' : Coid(o) # Coid(todo[s].old)
    /\ orders' \in [DOMAIN orders' -> Statuses]
    /\ \A c \in DOMAIN orders' :
          \/ c \in DOMAIN orders /\ orders'[c] = orders[c]
          \/ Places(todo[s]) /\ c = Coid(todo[s].new) /\ orders'[c] = "NEW"
          \/ /\ Removes(todo[s]) /\ c = Coid(todo[s].old)
             /\ c \in Ids(book) /\ c \in DOMAIN orders

\* Handling an action of any kind keeps the invariant.
LEMMA HandledInv ==
  ASSUME MakerInv, NEW s \in Sides, Handled(s)
  PROVE  MakerInv'
  <1> USE DEF MakerInv
  <1>1. /\ todo'[s] = Nothing
        /\ \A t \in Sides : t # s => todo'[t] = todo[t]
        /\ todo' \in [Sides -> Actions]
    <2>1. Nothing \in Actions
      BY DEF Nothing, Act, Actions, ActionKinds
    <2>2. todo' = [todo EXCEPT ![s] = Nothing]
      BY DEF Handled, Done
    <2> QED
      BY <2>1, <2>2 DEF TypeOK
  <1>2. /\ UNCHANGED <<now, seen, live, pc, hits, fills>>
        /\ pc = "dispatch" /\ hits = {}
    BY DEF Handled, FillsGone
  <1>3. Places(todo[s]) =>
           /\ todo[s].new \in live /\ todo[s].new \in Quotes /\ todo[s].new.side = s
           /\ todo[s].new.ts <= seen[todo[s].new.market]
           /\ Coid(todo[s].new) \notin DOMAIN orders
           /\ \A q \in book \cup fills : Coid(q) # Coid(todo[s].new)
    BY DEF PendingFresh
  <1>4. /\ \A o \in book' : o \in book \/ (Places(todo[s]) /\ o = todo[s].new)
        /\ Removes(todo[s]) => \A o \in book' : Coid(o) # Coid(todo[s].old)
    BY DEF Handled
  <1>5. \A c \in DOMAIN orders' :
          \/ c \in DOMAIN orders /\ orders'[c] = orders[c]
          \/ Places(todo[s]) /\ c = Coid(todo[s].new) /\ orders'[c] = "NEW"
          \/ /\ Removes(todo[s]) /\ c = Coid(todo[s].old)
             /\ c \in Ids(book) /\ c \in DOMAIN orders
    BY DEF Handled
  <1>6. TypeOK'
    <2>1. book' \subseteq Quotes
      BY <1>3, <1>4 DEF TypeOK
    <2>2. DOMAIN orders' \subseteq Markets \X Nat \X Sides
      <3>1. Places(todo[s]) => Coid(todo[s].new) \in Markets \X Nat \X Sides
        BY <1>3, CoidInjective
      <3> QED
        BY <3>1, <1>5 DEF TypeOK
    <2> QED
      BY <1>1, <2>1, <2>2 DEF TypeOK, Handled
  <1>7. Stamped'
    <2>1. \A q \in book' \cup fills' : q.ts <= seen'[q.market]
      BY <1>2, <1>3, <1>4 DEF Stamped
    <2>2. \A c \in DOMAIN orders' : c[2] <= seen'[c[1]]
      <3>1. Places(todo[s]) => /\ Coid(todo[s].new)[1] = todo[s].new.market
                               /\ Coid(todo[s].new)[2] = todo[s].new.ts
        BY <1>3, CoidInjective
      <3> QED
        BY <3>1, <1>2, <1>3, <1>5 DEF Stamped
    <2> QED
      BY <2>1, <2>2, <1>2 DEF Stamped
  <1>8. OneQuotePerSide'
    <2>1. ASSUME NEW q \in book, q \in book', Places(todo[s]), q.side = s,
                 q.market = todo[s].new.market
          PROVE  q = todo[s].new
      <3>1. q \in live
        BY <2>1, <1>4 DEF TrackedOrLeaving, Removes
      <3> QED
        BY <2>1, <3>1, <1>3 DEF OneQuotePerSide, OnePerSide
    <2>2. OnePerSide(book)'
      <3> SUFFICES ASSUME NEW p \in book', NEW q \in book', p.market = q.market,
                          p.side = q.side
                   PROVE  p = q
        BY DEF OnePerSide
      <3>1. CASE p \in book /\ q \in book
        BY <3>1 DEF OneQuotePerSide, OnePerSide
      <3>2. CASE Places(todo[s]) /\ p = todo[s].new
        BY <3>2, <2>1, <1>3, <1>4
      <3>3. CASE Places(todo[s]) /\ q = todo[s].new
        BY <3>3, <2>1, <1>3, <1>4
      <3> QED
        BY <3>1, <3>2, <3>3, <1>4
    <2> QED
      BY <2>2, <1>2 DEF OneQuotePerSide, OnePerSide
  <1>9. TrackedOrLeaving'
    <2> SUFFICES ASSUME NEW o \in book', o \notin live'
                 PROVE  Removes(todo'[o.side]) /\ todo'[o.side].old = o
      BY DEF TrackedOrLeaving, Removes
    <2>1. o \in book
      BY <1>2, <1>3, <1>4
    <2>2. Removes(todo[o.side]) /\ todo[o.side].old = o
      BY <2>1, <1>2 DEF TrackedOrLeaving, Removes
    <2>3. o.side # s
      BY <2>2, <1>4
    <2>4. o.side \in Sides
      BY <2>1 DEF TypeOK, Quotes
    <2> QED
      BY <2>2, <2>3, <2>4, <1>1
  <1>10. PendingFresh'
    <2>1. ~Places(Nothing) /\ ~Removes(Nothing)
      BY DEF Nothing, Act, Places, Removes
    <2>2. ASSUME NEW t \in Sides, t # s
          PROVE  /\ Removes(todo'[t]) => todo'[t].old \in Quotes
                 /\ Places(todo'[t]) =>
                      /\ todo'[t].new \in live' /\ todo'[t].new \in Quotes
                      /\ todo'[t].new.side = t
                      /\ todo'[t].new.ts <= seen'[todo'[t].new.market]
                      /\ Coid(todo'[t].new) \notin DOMAIN orders'
                      /\ \A q \in book' \cup fills' : Coid(q) # Coid(todo'[t].new)
      <3>1. todo'[t] = todo[t]
        BY <2>2, <1>1
      <3>2. Removes(todo[t]) => todo[t].old \in Quotes
        BY DEF PendingFresh
      <3>3. Places(todo[t]) =>
              /\ todo[t].new \in live /\ todo[t].new \in Quotes
              /\ todo[t].new.side = t
              /\ todo[t].new.ts <= seen[todo[t].new.market]
              /\ Coid(todo[t].new) \notin DOMAIN orders
              /\ \A q \in book \cup fills : Coid(q) # Coid(todo[t].new)
        BY DEF PendingFresh
      <3>4. Places(todo[t]) /\ Places(todo[s]) => Coid(todo[t].new) # Coid(todo[s].new)
        BY <2>2, <3>3, <1>3, CoidInjective
      <3>5. Places(todo[t]) => Coid(todo[t].new) \notin DOMAIN orders'
        BY <3>3, <3>4, <1>5
      <3>6. Places(todo[t]) => \A q \in book' \cup fills' : Coid(q) # Coid(todo[t].new)
        BY <3>3, <3>4, <1>2, <1>4
      <3> QED
        BY <3>1, <3>2, <3>3, <3>5, <3>6, <1>2
    <2> QED
      BY <2>1, <2>2, <1>1, <1>2 DEF PendingFresh
  <1>11. FillsGone'
    <2>1. \A q \in hits' \cup fills', o \in book' : Coid(q) # Coid(o)
      BY <1>2, <1>3, <1>4 DEF FillsGone
    <2>2. ASSUME NEW o \in book', Coid(o) \in DOMAIN orders'
          PROVE  orders'[Coid(o)] = "NEW"
      <3>1. ~(Removes(todo[s]) /\ Coid(o) = Coid(todo[s].old))
        BY <1>4
      <3>2. CASE o \in book
        BY <2>2, <3>1, <3>2, <1>5 DEF FillsGone
      <3>3. CASE Places(todo[s]) /\ o = todo[s].new
        BY <2>2, <3>1, <3>3, <1>3, <1>5
      <3> QED
        BY <3>2, <3>3, <1>4
    <2> QED
      BY <2>1, <2>2, <1>2 DEF FillsGone
  <1>12. CancelledNeverFills'
    <2> SUFFICES ASSUME NEW q \in fills, Coid(q) \in DOMAIN orders'
                 PROVE  orders'[Coid(q)] # "CANCELLED"
      BY <1>2 DEF CancelledNeverFills
    <2>1. Coid(q) \notin Ids(book)
      BY DEF FillsGone, Ids
    <2> QED
      BY <2>1, <1>5 DEF CancelledNeverFills
  <1> QED
    BY <1>6, <1>7, <1>8, <1>9, <1>10, <1>11, <1>12

\* A cancel, an expiry and a fill touch the rows of the orders concerned.
LEMMA SetStatusFacts ==
  ASSUME NEW rows, NEW ids, NEW status \in Statuses
  PROVE  /\ DOMAIN SetStatus(rows, ids, status) = DOMAIN rows
         /\ \A c \in DOMAIN rows :
               SetStatus(rows, ids, status)[c] = IF c \in ids THEN status ELSE rows[c]
         /\ rows \in [DOMAIN rows -> Statuses] =>
               SetStatus(rows, ids, status)
                  \in [DOMAIN SetStatus(rows, ids, status) -> Statuses]
  BY DEF SetStatus

\* A dropped quote, one that may not rest, and a replacement whose old quote
\* is no longer in the book leave everything but the pending action alone.
LEMMA SkippedInv ==
  ASSUME MakerInv, NEW s \in Sides, DropPost(s) \/ ReplaceMissing(s)
  PROVE  MakerInv'
  <1>1. /\ pc = "dispatch" /\ Done(s)
        /\ UNCHANGED <<now, kill, paused, seen, live, inv, book, pc, tick, hits,
                       orders, fills, crashes, dbErrs, drops>>
    BY DEF DropPost, ReplaceMissing, Ready, dbVars, faultVars
  <1>2. Removes(todo[s]) => \A o \in book' : Coid(o) # Coid(todo[s].old)
    BY <1>1 DEF DropPost, ReplaceMissing, Removes, Ids
  <1>3. dbErrs \in Nat /\ orders \in [DOMAIN orders -> Statuses]
    BY DEF MakerInv, TypeOK
  <1>4. Handled(s)
    BY <1>1, <1>2, <1>3 DEF Handled
  <1> QED
    BY <1>4, HandledInv

\* PostQuote.
LEMMA PostInv ==
  ASSUME MakerInv, NEW s \in Sides, Post(s)
  PROVE  MakerInv'
  <1> DEFINE new == todo[s].new
  <1>1. /\ pc = "dispatch" /\ Done(s) /\ todo[s].kind = "post"
        /\ book' = Placed(book, new)
        /\ orders' = orders \/ orders' = NewRow(orders, new)
        /\ dbErrs' = dbErrs \/ dbErrs' = dbErrs + 1
        /\ UNCHANGED <<now, kill, paused, seen, live, inv, pc, tick, hits, fills,
                       crashes, drops>>
    BY DEF Post, Ready, DbErrors
  <1>2. dbErrs \in Nat /\ orders \in [DOMAIN orders -> Statuses]
    BY DEF MakerInv, TypeOK
  <1>3. Places(todo[s]) /\ ~Removes(todo[s])
    BY <1>1 DEF Places, Removes
  <1>4. \A o \in book' : o \in book \/ o = new
    BY <1>1 DEF Placed
  <1>5. orders' \in [DOMAIN orders' -> Statuses]
    BY <1>1, <1>2 DEF NewRow, Statuses
  <1>6. \A c \in DOMAIN orders' :
           \/ c \in DOMAIN orders /\ orders'[c] = orders[c]
           \/ c = Coid(new) /\ orders'[c] = "NEW"
    BY <1>1 DEF NewRow
  <1>7. Handled(s)
    BY <1>1, <1>2, <1>3, <1>4, <1>5, <1>6 DEF Handled
  <1> QED
    BY <1>7, HandledInv

\* CancelQuote.
LEMMA CancelInv ==
  ASSUME MakerInv, NEW s \in Sides, Cancel(s)
  PROVE  MakerInv'
  <1> DEFINE old == todo[s].old
             cancelled == SetStatus(orders, {Coid(old)}, "CANCELLED")
  <1>1. /\ pc = "dispatch" /\ Done(s) /\ todo[s].kind \in {"cancel", "withdraw"}
        /\ book' = Removed(book, old)
        /\ orders' = orders \/ (Coid(old) \in Ids(book) /\ orders' = cancelled)
        /\ dbErrs' = dbErrs \/ dbErrs' = dbErrs + 1
        /\ UNCHANGED <<now, kill, paused, seen, live, inv, pc, tick, hits, fills,
                       crashes, drops>>
    BY DEF Cancel, Ready, DbErrors
  <1>2. dbErrs \in Nat /\ orders \in [DOMAIN orders -> Statuses]
    BY DEF MakerInv, TypeOK
  <1>3. Removes(todo[s])
    BY <1>1 DEF Removes
  <1>4. \A o \in book' : o \in book /\ Coid(o) # Coid(old)
    BY <1>1 DEF Removed
  <1>5. orders' \in [DOMAIN orders' -> Statuses]
    BY <1>1, <1>2, SetStatusFacts DEF Statuses
  <1>6. \A c \in DOMAIN orders' :
           \/ c \in DOMAIN orders /\ orders'[c] = orders[c]
           \/ c = Coid(old) /\ c \in Ids(book) /\ c \in DOMAIN orders
    BY <1>1, SetStatusFacts DEF Statuses
  <1>7. Handled(s)
    BY <1>1, <1>2, <1>3, <1>4, <1>5, <1>6 DEF Handled
  <1> QED
    BY <1>7, HandledInv

\* ReplaceQuote: the old order leaves the book before the new one enters.
LEMMA ReplaceInv ==
  ASSUME MakerInv, NEW s \in Sides, Replace(s)
  PROVE  MakerInv'
  <1> DEFINE old == todo[s].old
             new == todo[s].new
             cancelled == SetStatus(orders, {Coid(old)}, "CANCELLED")
  <1>1. /\ pc = "dispatch" /\ Done(s) /\ todo[s].kind = "replace"
        /\ Coid(old) \in Ids(book)
        /\ book' = Placed(Removed(book, old), new)
        /\ \/ orders' = NewRow(cancelled, new) \/ orders' = NewRow(orders, new)
           \/ orders' = cancelled \/ orders' = orders
        /\ dbErrs' = dbErrs \/ dbErrs' = dbErrs + 1 \/ dbErrs' = dbErrs + 2
        /\ UNCHANGED <<now, kill, paused, seen, live, inv, pc, tick, hits, fills,
                       crashes, drops>>
    BY DEF Replace, Ready, DbErrors
  <1>2. dbErrs \in Nat /\ orders \in [DOMAIN orders -> Statuses]
    BY DEF MakerInv, TypeOK
  <1>3. Places(todo[s]) /\ Removes(todo[s])
    BY <1>1 DEF Places, Removes
  <1>4. \A o \in book' : (o \in book /\ Coid(o) # Coid(old)) \/ o = new
    BY <1>1 DEF Placed, Removed
  <1>5. Coid(new) # Coid(old)
    BY <1>1, <1>3 DEF MakerInv, PendingFresh, Ids
  <1>6. cancelled \in [DOMAIN cancelled -> Statuses]
    BY <1>2, SetStatusFacts DEF Statuses
  <1>7. /\ DOMAIN cancelled = DOMAIN orders
        /\ \A c \in DOMAIN orders : c # Coid(old) => cancelled[c] = orders[c]
    BY SetStatusFacts DEF Statuses
  <1> HIDE DEF cancelled
  <1>8. orders' \in [DOMAIN orders' -> Statuses]
    BY <1>1, <1>2, <1>6 DEF NewRow, Statuses
  <1>9. \A c \in DOMAIN orders' :
           \/ c \in DOMAIN orders /\ orders'[c] = orders[c]
           \/ c = Coid(new) /\ orders'[c] = "NEW"
           \/ c = Coid(old) /\ c \in Ids(book) /\ c \in DOMAIN orders
    <2>1. CASE orders' = NewRow(cancelled, new)
      BY <2>1, <1>1, <1>7 DEF NewRow
    <2>2. CASE orders' = NewRow(orders, new)
      BY <2>2 DEF NewRow
    <2>3. CASE orders' = cancelled \/ orders' = orders
      BY <2>3, <1>1, <1>7
    <2> QED
      BY <1>1, <2>1, <2>2, <2>3
  <1>10. Handled(s)
    BY <1>1, <1>2, <1>3, <1>4, <1>5, <1>8, <1>9 DEF Handled
  <1> QED
    BY <1>10, HandledInv

-----------------------------------------------------------------------------
(* Matching and fills.                                                     *)

\* LimitBookSim.on_tick: expired and crossed orders leave the book, and the
\* rows of the two groups are not confused, whichever statement raises.
LEMMA MatchInv ==
  ASSUME MakerInv, Match
  PROVE  MakerInv'
  <1> USE DEF MakerInv
  <1> DEFINE gone == Expired(tick.market)
             hit  == Crossed(tick.market, tick.mid)
  <1>1. PICK some \in SUBSET gone, rows \in {{}, hit}, marked \in SUBSET hit :
           MatchRows(gone, hit, Ids(some), rows, marked)
    BY DEF Match
  <1>2. /\ pc = "dispatch" /\ todo = Idle
        /\ book' = book \ (gone \cup hit) /\ hits' = hit
        /\ UNCHANGED <<now, kill, paused, seen, live, inv, todo, crashes, drops>>
    BY DEF Match
  <1>3. \/ hit = {} /\ pc' = "idle" /\ tick' = NoTick
        \/ hit # {} /\ pc' = "fills" /\ tick' = tick
    BY DEF Match, Finish
  <1>4. gone \subseteq book /\ hit \subseteq book /\ gone \cap hit = {}
    BY DEF Expired, Crossed, InBook
  <1> DEFINE cancelled == SetStatus(orders, Ids(some), "CANCELLED")
  <1>5. /\ orders' = SetStatus(cancelled, Ids(marked), "FILLED")
        /\ fills' = fills \cup rows
        /\ dbErrs' = dbErrs \/ dbErrs' = dbErrs + 1
    BY <1>1 DEF MatchRows, DbErrors
  <1>6. /\ DOMAIN cancelled = DOMAIN orders
        /\ \A c \in DOMAIN orders : cancelled[c] = IF c \in Ids(some) THEN "CANCELLED"
                                                   ELSE orders[c]
        /\ cancelled \in [DOMAIN cancelled -> Statuses]
    <2>1. orders \in [DOMAIN orders -> Statuses]
      BY DEF TypeOK
    <2> QED
      BY <2>1, SetStatusFacts DEF Statuses
  <1> HIDE DEF gone, hit, cancelled
  <1>7. /\ DOMAIN orders' = DOMAIN orders
        /\ \A c \in DOMAIN orders : orders'[c] = IF c \in Ids(marked) THEN "FILLED"
                                                 ELSE cancelled[c]
        /\ orders' \in [DOMAIN orders' -> Statuses]
    BY <1>5, <1>6, SetStatusFacts DEF Statuses
  <1>8. /\ book \subseteq Quotes /\ OnePerSide(book)
        /\ \A s \in Sides : todo[s] = Nothing
    BY <1>2 DEF TypeOK, OneQuotePerSide, Idle
  <1>9. \A p, q \in book : Coid(p) = Coid(q) => p = q
    BY <1>8, SameId
  <1>10. rows \subseteq hit /\ marked \subseteq hit /\ some \subseteq gone
    OBVIOUS
  <1>11. TypeOK'
    <2>1. tick' \in [market : Markets \cup {"none"}, mid : Int]
      BY <1>3, MakerAssumption DEF TypeOK, NoTick
    <2>2. pc' \in {"dispatch", "fills"} => tick'.market \in Markets
      BY <1>2, <1>3 DEF TypeOK
    <2>3. book' \subseteq Quotes /\ hits' \subseteq Quotes /\ fills' \subseteq Quotes
      BY <1>2, <1>4, <1>5, <1>8, <1>10 DEF TypeOK
    <2>4. dbErrs' \in Nat /\ pc' \in {"idle", "dispatch", "fills", "down"}
      BY <1>3, <1>5 DEF TypeOK
    <2> QED
      BY <1>2, <1>7, <2>1, <2>2, <2>3, <2>4 DEF TypeOK
  <1>12. Stamped'
    BY <1>2, <1>4, <1>5, <1>7, <1>10 DEF Stamped
  <1>13. OneQuotePerSide' /\ TrackedOrLeaving'
    BY <1>2 DEF OneQuotePerSide, OnePerSide, TrackedOrLeaving
  <1>14. PendingFresh'
    BY <1>2, <1>8 DEF PendingFresh, Nothing, Act, Removes, Places
  <1>15. \A q \in fills : Coid(q) \notin Ids(book)
    BY DEF FillsGone, Ids
  <1>16. FillsGone'
    <2>1. \A q \in hits' \cup fills', o \in book' : Coid(q) # Coid(o)
      <3>1. \A q \in hit, o \in book' : Coid(q) # Coid(o)
        BY <1>2, <1>4, <1>9
      <3>2. \A q \in fills, o \in book' : Coid(q) # Coid(o)
        BY <1>2 DEF FillsGone
      <3> QED
        BY <3>1, <3>2, <1>2, <1>5, <1>10
    <2>2. ASSUME NEW o \in book', Coid(o) \in DOMAIN orders'
          PROVE  orders'[Coid(o)] = "NEW"
      <3>1. Coid(o) \notin Ids(some) /\ Coid(o) \notin Ids(marked)
        BY <1>2, <1>4, <1>9, <1>10 DEF Ids
      <3>2. orders'[Coid(o)] = orders[Coid(o)]
        BY <2>2, <3>1, <1>6, <1>7
      <3> QED
        BY <2>2, <3>2, <1>2, <1>7 DEF FillsGone
    <2> QED
      BY <2>1, <2>2, <1>2, <1>3 DEF FillsGone
  <1>17. CancelledNeverFills'
    <2> SUFFICES ASSUME NEW q \in fills', Coid(q) \in DOMAIN orders'
                 PROVE  orders'[Coid(q)] # "CANCELLED"
      BY DEF CancelledNeverFills
    <2>1. CASE q \in fills
      <3>1. Coid(q) \notin Ids(some) /\ Coid(q) \notin Ids(marked)
        BY <2>1, <1>4, <1>10, <1>15 DEF Ids
      <3>2. orders'[Coid(q)] = orders[Coid(q)]
        BY <3>1, <1>6, <1>7
      <3> QED
        BY <2>1, <3>2, <1>7 DEF CancelledNeverFills
    <2>2. CASE q \in hit
      <3>1. Coid(q) \notin Ids(some)
        BY <2>2, <1>4, <1>9, <1>10 DEF Ids
      <3>2. orders[Coid(q)] = "NEW"
        BY <2>2, <1>4, <1>7 DEF FillsGone
      <3> QED
        BY <3>1, <3>2, <1>6, <1>7
    <2> QED
      BY <2>1, <2>2, <1>5, <1>10
  <1> QED
    BY <1>11, <1>12, <1>13, <1>14, <1>16, <1>17

\* on_fill: only quotes that have left the book leave the ledger.
LEMMA OnFillInv ==
  ASSUME MakerInv, OnFill
  PROVE  MakerInv'
  <1> USE DEF MakerInv
  <1>1. PICK o \in hits :
           /\ inv' = [inv EXCEPT ![o.market] = @ + Sign(o.side) * o.qty]
           /\ live' = Removed(live, o)
           /\ hits' = hits \ {o}
           /\ IF hits = {o} THEN Finish ELSE UNCHANGED <<pc, tick>>
    BY DEF OnFill
  <1>2. /\ pc = "fills"
        /\ UNCHANGED <<now, kill, paused, seen, book, todo, orders, fills,
                       crashes, dbErrs, drops>>
    BY DEF OnFill, dbVars, faultVars
  <1>3. \/ pc' = "idle" /\ tick' = NoTick /\ hits' = {}
        \/ pc' = pc /\ tick' = tick
    BY <1>1 DEF Finish
  <1>4. o \in Quotes /\ live' \subseteq live /\ hits' \subseteq hits
    BY <1>1 DEF TypeOK, Removed
  <1>5. \A s \in Sides : todo[s] = Nothing
    BY <1>2 DEF PendingFresh
  <1>6. TypeOK'
    <2>1. inv' \in [Markets -> Int]
      <3>1. o.qty \in Nat /\ inv \in [Markets -> Int]
        BY <1>4 DEF Quotes, TypeOK
      <3> DEFINE delta == Sign(o.side) * o.qty
      <3>2. delta \in Int
        <4>1. Sign(o.side) = 1 \/ Sign(o.side) = -1
          BY DEF Sign
        <4>2. 1 * o.qty \in Int /\ (-1) * o.qty \in Int
          BY <3>1
        <4> QED
          BY <4>1, <4>2
      <3>3. inv' = [inv EXCEPT ![o.market] = inv[o.market] + delta]
        BY <1>1
      <3>4. o.market \in Markets
        BY <1>4 DEF Quotes
      <3> HIDE DEF delta
      <3> QED
        BY <3>1, <3>2, <3>3, <3>4
    <2>2. tick' \in [market : Markets \cup {"none"}, mid : Int]
      BY <1>3 DEF TypeOK, NoTick
    <2>3. /\ pc' \in {"idle", "dispatch", "fills", "down"}
          /\ pc' \in {"dispatch", "fills"} => tick'.market \in Markets
      BY <1>2, <1>3 DEF TypeOK
    <2> QED
      BY <1>2, <1>4, <2>1, <2>2, <2>3 DEF TypeOK
  <1>7. Stamped' /\ CancelledNeverFills'
    BY <1>2 DEF Stamped, CancelledNeverFills
  <1>8. OneQuotePerSide'
    BY <1>2, <1>4 DEF OneQuotePerSide, OnePerSide
  <1>9. TrackedOrLeaving'
    <2> SUFFICES ASSUME NEW x \in book PROVE x \in live'
      BY <1>2 DEF TrackedOrLeaving
    <2>1. x.side \in Sides
      BY DEF TypeOK, Quotes
    <2>2. x \in live
      BY <2>1, <1>5 DEF TrackedOrLeaving, Nothing, Act
    <2>3. Coid(x) # Coid(o)
      BY DEF FillsGone
    <2> QED
      BY <2>2, <2>3, <1>1 DEF Removed
  <1>10. PendingFresh'
    BY <1>2, <1>5 DEF PendingFresh, Nothing, Act, Removes, Places
  <1>11. FillsGone'
    BY <1>2, <1>3, <1>4 DEF FillsGone
  <1> QED
    BY <1>6, <1>7, <1>8, <1>9, <1>10, <1>11

\* The process dies: the rows alone remain.
LEMMA CrashInv ==
  ASSUME MakerInv, Crash
  PROVE  MakerInv'
  <1> USE DEF MakerInv
  <1>1. /\ live' = {} /\ book' = {} /\ hits' = {} /\ todo' = Idle
        /\ pc' = "down" /\ tick' = NoTick /\ inv' = [m \in Markets |-> 0]
        /\ crashes' = crashes + 1
        /\ UNCHANGED <<now, kill, paused, seen, orders, fills, dbErrs, drops>>
    BY DEF Crash, dbVars
  <1>2. /\ todo' \in [Sides -> Actions]
        /\ \A s \in Sides : todo'[s] = Nothing
    BY <1>1 DEF Idle, Nothing, Act, Actions, ActionKinds
  <1>3. TypeOK'
    BY <1>1, <1>2 DEF TypeOK, NoTick
  <1>4. Stamped' /\ CancelledNeverFills' /\ FillsGone'
    BY <1>1 DEF Stamped, CancelledNeverFills, FillsGone
  <1>5. OneQuotePerSide' /\ TrackedOrLeaving'
    BY <1>1 DEF OneQuotePerSide, OnePerSide, TrackedOrLeaving
  <1>6. PendingFresh'
    BY <1>1, <1>2 DEF PendingFresh, Nothing, Act, Removes, Places
  <1> QED
    BY <1>3, <1>4, <1>5, <1>6

-----------------------------------------------------------------------------
\* Every step keeps the invariant.
LEMMA NextInv ==
  ASSUME MakerInv, [Next]_vars
  PROVE  MakerInv'
  <1> USE DEF MakerInv
  <1>1. CASE Clock \/ ToggleKill \/ HandleControl
    <2>1. /\ UNCHANGED <<live, book, todo, hits, orders, fills, pc, seen>>
          /\ now' = now \/ now' = now + 1
      BY <1>1 DEF Clock, ToggleKill, HandleControl, memVars, dbVars
    <2>2. kill' \in BOOLEAN /\ paused' \in BOOLEAN
      BY <1>1, MakerAssumption DEF Clock, ToggleKill, HandleControl, TypeOK
    <2>3. UNCHANGED <<inv, tick, crashes, dbErrs, drops>>
      BY <1>1 DEF Clock, ToggleKill, HandleControl, memVars, faultVars
    <2>4. now' \in Nat
      BY <2>1 DEF TypeOK
    <2>5. TypeOK'
      BY <2>1, <2>2, <2>3, <2>4 DEF TypeOK
    <2>6. \A m \in Markets : seen[m] <= seen'[m] /\ seen'[m] <= now'
      BY <2>1 DEF TypeOK, Stamped
    <2> QED
      BY <2>1, <2>5, <2>6, FrameInv
  <1>2. CASE Crash
    BY <1>2, CrashInv
  <1>3. CASE Start
    <2>1. /\ pc = "down" /\ pc' = "idle"
          /\ seen' = [m \in Markets |-> IF Due(m) THEN now ELSE seen[m]]
          /\ UNCHANGED <<now, kill, paused, live, inv, book, tick, todo, hits,
                         orders, fills, crashes, dbErrs, drops>>
      BY <1>3 DEF Start, dbVars, faultVars
    <2>2. /\ seen' \in [Markets -> Int]
          /\ \A m \in Markets : seen[m] <= seen'[m] /\ seen'[m] <= now'
      BY <2>1 DEF Due, TypeOK, Stamped
    <2>3. TypeOK'
      BY <2>1, <2>2 DEF TypeOK
    <2>4. hits = {} /\ \A s \in Sides : todo[s] = Nothing
      BY <2>1 DEF FillsGone, PendingFresh
    <2> QED
      BY <2>1, <2>2, <2>3, <2>4, FrameInv
  <1>4. ASSUME NEW m \in Markets, LoseTick(m) \/ TickPaused(m)
        PROVE  MakerInv'
    <2>1. /\ Due(m) /\ seen' = [seen EXCEPT ![m] = now]
          /\ drops' = drops \/ drops' = drops + 1
          /\ UNCHANGED <<now, kill, paused, live, inv, book, pc, tick, todo, hits,
                         orders, fills, crashes, dbErrs>>
      BY <1>4 DEF LoseTick, TickPaused, Receive, memVars, dbVars, faultVars
    <2>2. /\ seen' \in [Markets -> Int]
          /\ \A k \in Markets : seen[k] <= seen'[k] /\ seen'[k] <= now'
      BY <2>1 DEF Due, TypeOK, Stamped
    <2>3. TypeOK'
      BY <2>1, <2>2 DEF TypeOK
    <2> QED
      BY <2>1, <2>2, <2>3, FrameInv
  <1>5. ASSUME NEW m \in Markets, Tick(m)
        PROVE  MakerInv'
    BY <1>4, <1>5, TickWithdrawInv, TickQuoteInv DEF Tick
  <1>6. ASSUME NEW s \in Sides, Dispatch(s)
        PROVE  MakerInv'
    BY <1>6, SkippedInv, PostInv, CancelInv, ReplaceInv DEF Dispatch
  <1>7. CASE Match
    BY <1>7, MatchInv
  <1>8. CASE SkipMatch
    <2>1. /\ pc = "dispatch" /\ todo = Idle /\ pc' = "idle" /\ tick' = NoTick
          /\ UNCHANGED <<now, kill, paused, seen, live, inv, book, todo, hits,
                         orders, fills, crashes, dbErrs, drops>>
      BY <1>8 DEF SkipMatch, Finish, dbVars, faultVars
    <2>2. hits = {} /\ \A s \in Sides : todo[s] = Nothing
      BY <2>1 DEF FillsGone, Idle
    <2>3. TypeOK'
      BY <2>1 DEF TypeOK, NoTick
    <2>4. \A m \in Markets : seen[m] <= seen'[m] /\ seen'[m] <= now'
      BY <2>1 DEF TypeOK, Stamped
    <2> QED
      BY <2>1, <2>2, <2>3, <2>4, FrameInv
  <1>9. CASE OnFill
    BY <1>9, OnFillInv
  <1>10. CASE UNCHANGED vars
    <2>1. /\ UNCHANGED <<now, kill, paused, seen, live, inv, book, pc, tick, todo, hits,
                         orders, fills, crashes, dbErrs, drops>>
      BY <1>10 DEF vars, memVars, dbVars, faultVars
    <2>2. TypeOK'
      BY <2>1 DEF TypeOK
    <2>3. \A m \in Markets : seen[m] <= seen'[m] /\ seen'[m] <= now'
      BY <2>1 DEF TypeOK, Stamped
    <2> QED
      BY <2>1, <2>2, <2>3, FrameInv
  <1> QED
    BY <1>1, <1>2, <1>3, <1>4, <1>5, <1>6, <1>7, <1>8, <1>9, <1>10 DEF Next

\* The inductive invariant holds in every reachable state.
THEOREM MakerCorrect == Spec => []MakerInv
  <1>1. MakerInv /\ [Next]_vars => MakerInv'
    BY NextInv
  <1> QED
    BY InitInv, <1>1, PTL DEF Spec

\* Ledger, book, pending actions and rows keep their types.
THEOREM MakerTypes == Spec => []TypeOK
  BY MakerCorrect, PTL DEF MakerInv

\* At no await of mm_driver.py do two orders rest on one side of a market.
THEOREM MakerOnePerSide == Spec => []OneQuotePerSide
  BY MakerCorrect, PTL DEF MakerInv

\* Between ticks no order can fill behind the strategy's back, whatever
\* persist raised, quote expired or replacement was skipped.
THEOREM MakerBookTracked == Spec => []BookTracked
  <1>1. MakerInv => BookTracked
    <2> SUFFICES ASSUME MakerInv, pc = "idle", NEW o \in book PROVE o \in live
      BY DEF BookTracked
    <2>1. o.side \in Sides
      BY DEF MakerInv, TypeOK, Quotes
    <2>2. todo[o.side] = Nothing
      BY <2>1 DEF MakerInv, PendingFresh
    <2> QED
      BY <2>2 DEF MakerInv, TrackedOrLeaving, Nothing, Act
  <1> QED
    BY <1>1, MakerCorrect, PTL

\* trading.orders never shows a filled order as cancelled.
THEOREM MakerCancelledNeverFills == Spec => []CancelledNeverFills
  BY MakerCorrect, PTL DEF MakerInv
=============================================================================
