-------------------------- MODULE MakerLedgerProofs --------------------------
(***************************************************************************)
(* What the two records of a market maker's quotes, the strategy's ledger  *)
(* and the book, have to do with each other, with trading.orders and with  *)
(* the market's window, for any markets, prices and schedule.  Builds on   *)
(* MakerInv of MarketMakerProofs.                                          *)
(***************************************************************************)
EXTENDS MarketMakerProofs, FiniteSetTheorems

\* No persist failed and the process never died.
Unfailed == crashes = 0 /\ dbErrs = 0

-----------------------------------------------------------------------------
(* The rows in status NEW are the book, at every await. *)

Standing == {c \in DOMAIN orders : orders[c] = "NEW"}

LEMMA NewRowStands ==
    ASSUME NEW rows, NEW q
    PROVE  {c \in DOMAIN NewRow(rows, q) : NewRow(rows, q)[c] = "NEW"}
             = {c \in DOMAIN rows : rows[c] = "NEW"} \cup {Coid(q)}
BY DEF NewRow

LEMMA SetStatusStands ==
    ASSUME NEW rows, NEW ids, NEW status \in Statuses \ {"NEW"}
    PROVE  {c \in DOMAIN SetStatus(rows, ids, status) : SetStatus(rows, ids, status)[c] = "NEW"}
             = {c \in DOMAIN rows : rows[c] = "NEW"} \ ids
BY DEF SetStatus

LEMMA BookIds ==
    ASSUME NEW b, NEW q
    PROVE  /\ Ids(Removed(b, q)) = Ids(b) \ {Coid(q)}
           /\ Ids(Placed(b, q)) = Ids(b) \cup {Coid(q)}
BY DEF Ids, Removed, Placed

LEMMA RowsDispatch ==
    ASSUME MakerInv, NEW s \in Sides, Dispatch(s), Standing = Ids(book), dbErrs' = dbErrs
    PROVE  (Standing = Ids(book))'
<1>1. dbErrs \in Nat /\ ~DbErrors(1) /\ ~DbErrors(2)
  BY DEF MakerInv, TypeOK, DbErrors
<1>2. CASE DropPost(s) \/ ReplaceMissing(s)
  BY <1>2 DEF DropPost, ReplaceMissing, dbVars, Standing, Ids
<1>3. CASE Post(s)
  <2>. DEFINE new == todo[s].new
  <2>1. /\ book' = Placed(book, new) /\ todo[s].kind = "post"
        /\ orders' = IF Coid(new) \in Ids(book) THEN orders ELSE NewRow(orders, new)
    BY <1>1, <1>3 DEF Post
  <2>. HIDE DEF new
  <2>2. CASE Coid(new) \in Ids(book)
    <3>1. book' = book /\ orders' = orders
      BY <2>1, <2>2 DEF Placed
    <3>. QED
      BY <3>1 DEF Standing, Ids
  <2>3. CASE Coid(new) \notin Ids(book)
    <3>1. orders' = NewRow(orders, new)
      BY <2>1, <2>3
    <3>2. Standing' = Standing \cup {Coid(new)}
      BY <3>1, NewRowStands DEF Standing
    <3>3. Ids(book)' = Ids(book) \cup {Coid(new)}
      BY <2>1, BookIds DEF Ids
    <3>. QED
      BY <3>2, <3>3
  <2>. QED
    BY <2>2, <2>3
<1>4. CASE Cancel(s)
  <2>. DEFINE old == todo[s].old
  <2>1. /\ book' = Removed(book, old)
        /\ orders' = IF Coid(old) \in Ids(book) THEN SetStatus(orders, {Coid(old)}, "CANCELLED")
                     ELSE orders
    BY <1>1, <1>4 DEF Cancel
  <2>. HIDE DEF old
  <2>2. Standing' = Standing \ {Coid(old)}
    <3>1. CASE Coid(old) \in Ids(book)
      BY <2>1, <3>1, SetStatusStands DEF Standing, Statuses
    <3>2. CASE Coid(old) \notin Ids(book)
      BY <2>1, <3>2 DEF Standing
    <3>. QED
      BY <3>1, <3>2
  <2>3. Ids(book)' = Ids(book) \ {Coid(old)}
    BY <2>1, BookIds DEF Ids
  <2>. QED
    BY <2>2, <2>3
<1>5. CASE Replace(s)
  <2>. DEFINE old == todo[s].old
              new == todo[s].new
              cancelled == SetStatus(orders, {Coid(old)}, "CANCELLED")
  <2>1. book' = Placed(Removed(book, old), new) /\ orders' = NewRow(cancelled, new)
    BY <1>1, <1>5 DEF Replace
  <2>2. {c \in DOMAIN cancelled : cancelled[c] = "NEW"} = Standing \ {Coid(old)}
    BY SetStatusStands DEF Standing, Statuses
  <2>. HIDE DEF old, new, cancelled
  <2>3. Standing' = (Standing \ {Coid(old)}) \cup {Coid(new)}
    BY <2>1, <2>2, NewRowStands DEF Standing
  <2>4. Ids(Placed(Removed(book, old), new)) = (Ids(book) \ {Coid(old)}) \cup {Coid(new)}
    BY BookIds
  <2>. QED
    BY <2>1, <2>3, <2>4 DEF Ids
<1>. QED
  BY <1>2, <1>3, <1>4, <1>5 DEF Dispatch

LEMMA RowsMatch ==
    ASSUME MakerInv, Match, Standing = Ids(book), dbErrs' = dbErrs
    PROVE  (Standing = Ids(book))'
<1>. DEFINE gone == Expired(tick.market)
            hit  == Crossed(tick.market, tick.mid)
<1>1. PICK some \in SUBSET gone, rows \in {{}, hit}, marked \in SUBSET hit :
         MatchRows(gone, hit, Ids(some), rows, marked)
  BY DEF Match
<1>2. book' = book \ (gone \cup hit)
  BY DEF Match
<1>3. gone \subseteq book /\ hit \subseteq book
  BY DEF Expired, Crossed, InBook
<1>4. \A p, q \in book : Coid(p) = Coid(q) => p = q
  BY SameId DEF MakerInv, TypeOK, OneQuotePerSide
<1>. DEFINE cancelled == SetStatus(orders, Ids(some), "CANCELLED")
<1>5. /\ orders' = SetStatus(cancelled, Ids(marked), "FILLED")
      /\ Ids(some) = Ids(gone) /\ marked = hit
  <2>1. dbErrs \in Nat /\ ~DbErrors(1)
    BY DEF MakerInv, TypeOK, DbErrors
  <2>. QED
    BY <1>1, <2>1 DEF MatchRows
<1>6. {c \in DOMAIN cancelled : cancelled[c] = "NEW"} = Standing \ Ids(gone)
  BY <1>5, SetStatusStands DEF Standing, Statuses
<1>. HIDE DEF gone, hit, cancelled
<1>7. Standing' = (Standing \ Ids(gone)) \ Ids(hit)
  BY <1>5, <1>6, SetStatusStands DEF Standing, Statuses
<1>8. Ids(book)' = Ids(book) \ (Ids(gone) \cup Ids(hit))
  BY <1>2, <1>3, <1>4 DEF Ids
<1>. QED
  BY <1>7, <1>8

\* While nothing fails, the orders trading.orders shows as NEW are those that
\* rest in the book, whatever is dropped, expires, is replaced or filled.
THEOREM RowsFollowBookHolds == Spec => [](Unfailed => RowsFollowBook)
<1>. DEFINE RowsInv == Unfailed => Standing = Ids(book)
<1>1. Init => RowsInv
  BY DEF Init, Standing, Ids
<1>2. MakerInv /\ RowsInv /\ [Next]_vars => RowsInv'
  <2>1. SUFFICES ASSUME MakerInv, RowsInv, [Next]_vars, Unfailed'
                 PROVE  (Standing = Ids(book))'
    OBVIOUS
  <2>2. /\ crashes \in Nat /\ dbErrs \in Nat
    BY <2>1 DEF MakerInv, TypeOK
  <2>3. ASSUME UNCHANGED <<orders, book, crashes, dbErrs>> PROVE (Standing = Ids(book))'
    BY <2>1, <2>3 DEF Unfailed, Standing, Ids
  <2>4. ~Crash
    BY <2>1, <2>2 DEF Crash, Unfailed
  <2>5. ASSUME NEW s \in Sides, Dispatch(s) PROVE (Standing = Ids(book))'
    <3>1. crashes' = crashes /\ (dbErrs' = dbErrs \/ dbErrs' = dbErrs + 1 \/ dbErrs' = dbErrs + 2)
      BY <2>5 DEF Dispatch, DropPost, Post, Cancel, ReplaceMissing, Replace, DbErrors, faultVars
    <3>2. dbErrs' = dbErrs /\ Unfailed
      BY <2>1, <2>2, <3>1 DEF Unfailed
    <3>. QED
      BY <2>1, <2>5, <3>2, RowsDispatch
  <2>6. CASE Match
    <3>1. crashes' = crashes /\ (dbErrs' = dbErrs \/ dbErrs' = dbErrs + 1)
      BY <2>6 DEF Match, MatchRows, DbErrors
    <3>2. dbErrs' = dbErrs /\ Unfailed
      BY <2>1, <2>2, <3>1 DEF Unfailed
    <3>. QED
      BY <2>1, <2>6, <3>2, RowsMatch
  <2>7. ASSUME NEW m \in Markets, LoseTick(m) \/ Tick(m) PROVE (Standing = Ids(book))'
    BY <2>3, <2>7 DEF LoseTick, Tick, TickPaused, TickWithdraw, TickQuote, memVars, dbVars, faultVars
  <2>8. CASE Clock \/ ToggleKill \/ HandleControl \/ Start \/ SkipMatch \/ OnFill \/ UNCHANGED vars
    BY <2>3, <2>8 DEF Clock, ToggleKill, HandleControl, Start, SkipMatch, OnFill, vars, memVars,
                      dbVars, faultVars
  <2>. QED
    BY <2>1, <2>4, <2>5, <2>6, <2>7, <2>8 DEF Next
<1>3. RowsInv => (Unfailed => RowsFollowBook)
  BY DEF RowsFollowBook, Standing
<1>. HIDE DEF RowsInv
<1>. QED
  BY <1>1, <1>2, <1>3, MakerCorrect, PTL DEF Spec

-----------------------------------------------------------------------------
(* The ledger holds what rests in the book. *)

\* A quote by itself is within the aggregate cap.
QuotesFit ==
    \A bid, price \in 1 .. One - 1 : (Stake \div bid) * price <= GlobalCap

\* A tracked quote rests, was just filled, or is about to be placed.
Resting ==
    \A q \in live : \/ q \in book
                    \/ pc = "fills" /\ q \in hits
                    \/ Places(todo[q.side]) /\ todo[q.side].new = q

\* What a pending action removes still rests, and is tracked no longer.
LeavingRests ==
    \A s \in Sides : Removes(todo[s]) => /\ todo[s].old \in book /\ todo[s].old \notin live
                                         /\ todo[s].old.side = s

PendingFits == \A s \in Sides : Places(todo[s]) => ~GlobalBlocks(todo[s].new)

RestInv == Resting /\ LeavingRests /\ PendingFits

LEMMA IdleRests ==
    ASSUME MakerInv, Resting, pc = "idle"
    PROVE  live \subseteq book
<1>1. SUFFICES ASSUME NEW q \in live PROVE q \in book
  OBVIOUS
<1>2. todo[q.side] = Nothing
  BY DEF MakerInv, PendingFresh, TypeOK, Quotes
<1>. QED
  BY <1>2 DEF Resting, Places, Nothing, Act

\* The quotes of a tick: what the ledger loses, the actions remove.
LEMMA QuoteFlow ==
    ASSUME MakerInv, NEW m \in Markets, NEW mid \in Zone,
           NEW bid \in 1 .. One - 1, NEW ask \in 1 .. One - 1,
           TickQuote(m, mid, bid, ask)
    PROVE  /\ \A q \in live' : \/ q \in live
                               \/ /\ q \in Quotes /\ q.market = m /\ q.ts = now
                                  /\ Places(todo'[q.side]) /\ todo'[q.side].new = q
           /\ \A s \in Sides :
                /\ Removes(todo'[s]) => /\ todo'[s].old \in live /\ todo'[s].old.side = s
                                        /\ todo'[s].old \notin live' \/ todo'[s].old.ts = now
                /\ Places(todo'[s]) => /\ todo'[s].new.qty = Stake \div bid
                                       /\ todo'[s].new.price \in {bid, ask}
<1>. DEFINE qty == Stake \div bid
            new == [s \in Sides |-> NewQuote(m, s, IF s = "BUY" THEN bid ELSE ask, qty)]
            act == [s \in Sides |-> SideAction(m, new[s], mid)]
<1>. USE DEF MakerInv
<1>1. /\ todo' = act
      /\ live' = (live \ UNION {Untracked(act[s]) : s \in Sides})
                   \cup UNION {Tracked(act[s]) : s \in Sides}
  BY DEF TickQuote
<1>2. \A s \in Sides : /\ new[s] \in Quotes /\ new[s].market = m /\ new[s].side = s
                       /\ new[s].ts = now
  <2>1. One \in Nat /\ Stake \in Nat
    BY MakerAssumption
  <2>2. qty \in Nat /\ bid \in Nat /\ ask \in Nat
    BY <2>1
  <2>. HIDE DEF qty
  <2>. QED
    BY <2>2, NewQuoteType
<1>3. \A s \in Sides : new[s].qty = Stake \div bid /\ new[s].price \in {bid, ask}
  BY DEF NewQuote
<1>. HIDE DEF new
<1>4. \A s \in Sides : /\ Removes(act[s]) => act[s].old \in Existing(m, s)
                       /\ Places(act[s]) => act[s].new = new[s]
                       /\ act[s].kind # "withdraw"
  <2>. TAKE s \in Sides
  <2>1. act[s] = SideAction(m, new[s], mid)
    OBVIOUS
  <2>. QED
    BY <1>2, <2>1, SideActionFacts
<1>. HIDE DEF act
<1>5. ASSUME NEW q \in live', q \notin live
      PROVE  /\ q \in Quotes /\ q.market = m /\ q.ts = now
             /\ Places(act[q.side]) /\ act[q.side].new = q
  <2>1. PICK s \in Sides : q \in Tracked(act[s])
    BY <1>1, <1>5
  <2>2. Places(act[s]) /\ act[s].new = q
    BY <2>1 DEF Tracked, Places
  <2>. QED
    BY <1>2, <1>4, <2>2
<1>6. ASSUME NEW s \in Sides, Removes(act[s])
      PROVE  /\ act[s].old \in live /\ act[s].old.side = s
             /\ act[s].old \notin live' \/ act[s].old.ts = now
  <2>1. act[s].old \in live /\ act[s].old.side = s
    BY <1>4, <1>6 DEF Existing
  <2>2. act[s].old \in Untracked(act[s])
    BY <1>4, <1>6 DEF Removes, Untracked
  <2>3. ASSUME act[s].old \in live' PROVE act[s].old.ts = now
    <3>1. PICK t \in Sides : act[s].old \in Tracked(act[t])
      BY <1>1, <2>2, <2>3
    <3>2. act[s].old = new[t]
      BY <1>4, <3>1 DEF Tracked, Places
    <3>. QED
      BY <1>2, <3>2
  <2>. QED
    BY <2>1, <2>3
<1>. QED
  BY <1>1, <1>3, <1>4, <1>5, <1>6

LEMMA RestTick ==
    ASSUME MakerInv, RestInv, QuotesFit, NEW m \in Markets, Tick(m)
    PROVE  RestInv'
<1>. USE DEF MakerInv
<1>1. /\ pc = "idle" /\ Receive(m) /\ UNCHANGED <<now, book, hits>>
  BY DEF Tick, TickPaused, TickWithdraw, TickQuote, Receive, memVars
<1>2. live \subseteq book
  BY <1>1, IdleRests DEF RestInv
<1>3. CASE TickPaused(m)
  <2>1. UNCHANGED <<live, book, todo, hits, pc>>
    BY <1>3 DEF TickPaused, memVars
  <2>. QED
    BY <2>1 DEF RestInv, Resting, LeavingRests, PendingFits, GlobalBlocks
<1>4. ASSUME NEW mid \in 0 .. One, TickWithdraw(m, mid) PROVE RestInv'
  <2>1. /\ live' = {q \in live : q.market # m}
        /\ todo' = [s \in Sides |->
                      IF Existing(m, s) = {} THEN Nothing
                      ELSE Act("withdraw", AnyOf(Existing(m, s)), NoQuote)]
    BY <1>4 DEF TickWithdraw
  <2>2. \A s \in Sides : /\ ~Places(todo'[s])
                         /\ Removes(todo'[s]) => todo'[s].old \in Existing(m, s)
    <3>. TAKE s \in Sides
    <3>1. CASE Existing(m, s) = {}
      BY <2>1, <3>1 DEF Nothing, Act, Places, Removes
    <3>2. CASE Existing(m, s) # {}
      <4>1. todo'[s] = Act("withdraw", AnyOf(Existing(m, s)), NoQuote)
        BY <2>1, <3>2
      <4>. QED
        BY <3>2, <4>1, AnyOfMember DEF Act, Places, Removes
    <3>. QED
      BY <3>1, <3>2
  <2>. QED
    BY <1>1, <1>2, <2>1, <2>2 DEF RestInv, Resting, LeavingRests, PendingFits, Existing
<1>5. ASSUME NEW mid \in Zone, NEW bid \in 1 .. One - 1, NEW ask \in 1 .. One - 1,
             TickQuote(m, mid, bid, ask)
      PROVE  RestInv'
  <2>1. \A q \in live' : \/ q \in live
                         \/ Places(todo'[q.side]) /\ todo'[q.side].new = q
    BY <1>5, QuoteFlow
  <2>2. Resting'
    BY <1>1, <1>2, <2>1 DEF Resting
  <2>3. \A q \in live : q.ts # now \/ q.market # m
    <3>1. SUFFICES ASSUME NEW q \in live, q.market = m PROVE q.ts # now
      OBVIOUS
    <3>2. q \in book /\ q.ts <= seen[m] /\ q.ts \in Nat
      BY <1>2, <3>1 DEF Stamped, TypeOK, Quotes
    <3>3. seen[m] < now /\ seen[m] \in Int /\ now \in Nat
      BY <1>1 DEF Receive, Due, TypeOK
    <3>. QED
      BY <3>2, <3>3
  <2>4. LeavingRests'
    <3>1. ASSUME NEW s \in Sides, Removes(todo'[s])
          PROVE  /\ todo'[s].old \in live /\ todo'[s].old.side = s /\ todo'[s].old \notin live'
      <4>1. /\ todo'[s].old \in live /\ todo'[s].old.side = s
            /\ todo'[s].old \notin live' \/ todo'[s].old.ts = now
        BY <1>5, <3>1, QuoteFlow
      <4>2. todo'[s].old \in book /\ todo'[s].old \in live
        BY <1>2, <4>1
      <4>3. todo'[s].old.market = m
        <5>1. todo'[s] = SideAction(m, NewQuote(m, s, IF s = "BUY" THEN bid ELSE ask,
                                                Stake \div bid), mid)
          BY <1>5 DEF TickQuote
        <5>2. NewQuote(m, s, IF s = "BUY" THEN bid ELSE ask, Stake \div bid) \in Quotes
          <6>1. One \in Nat /\ Stake \in Nat
            BY MakerAssumption
          <6>2. bid \in Nat /\ ask \in Nat /\ Stake \div bid \in Nat
            BY <6>1
          <6>. QED
            BY <6>2, NewQuoteType
        <5>. QED
          BY <3>1, <5>1, <5>2, SideActionFacts DEF Existing
      <4>. QED
        BY <2>3, <4>1, <4>3
    <3>. QED
      BY <1>1, <1>2, <3>1 DEF LeavingRests
  <2>5. PendingFits'
    <3>1. SUFFICES ASSUME NEW s \in Sides, Places(todo'[s]) PROVE ~GlobalBlocks(todo'[s].new)
      BY DEF PendingFits, GlobalBlocks
    <3>2. /\ todo'[s].new.qty = Stake \div bid
          /\ todo'[s].new.price \in {bid, ask}
      BY <1>5, <3>1, QuoteFlow
    <3>3. /\ (Stake \div bid) * bid <= GlobalCap /\ (Stake \div bid) * ask <= GlobalCap
      BY DEF QuotesFit
    <3>4. \A p \in 1 .. One - 1 : (Stake \div bid) * p \in Int
      BY MakerAssumption
    <3>5. GlobalCap \in Nat
      BY MakerAssumption
    <3>6. todo'[s].new.qty * todo'[s].new.price <= GlobalCap
          /\ todo'[s].new.qty * todo'[s].new.price \in Int
      BY <3>2, <3>3, <3>4
    <3>. QED
      BY <3>5, <3>6 DEF GlobalBlocks
  <2>. QED
    BY <2>2, <2>4, <2>5 DEF RestInv
<1>. QED
  BY <1>3, <1>4, <1>5 DEF Tick

\* The action of a side is dispatched; no quote is dropped or skipped.
LEMMA RestDispatch ==
    ASSUME MakerInv, RestInv, NEW s \in Sides, Dispatch(s)
    PROVE  RestInv'
<1>. USE DEF MakerInv, RestInv
<1>. DEFINE old == todo[s].old
            new == todo[s].new
<1>1. /\ UNCHANGED <<live, pc, hits>> /\ pc = "dispatch"
      /\ todo' = [todo EXCEPT ![s] = Nothing]
  BY DEF Dispatch, DropPost, Post, Cancel, ReplaceMissing, Replace, Ready, Done
<1>2. /\ todo'[s] = Nothing /\ ~Removes(todo'[s]) /\ ~Places(todo'[s])
      /\ \A t \in Sides : t # s => todo'[t] = todo[t]
  BY <1>1 DEF TypeOK, Nothing, Act, Removes, Places
<1>3. ~DropPost(s) /\ ~ReplaceMissing(s)
  BY DEF DropPost, ReplaceMissing, PendingFits, LeavingRests, Places, Removes, Ids
<1>4. PendingFits'
  BY <1>2 DEF PendingFits, GlobalBlocks
<1>5. Places(todo[s]) => \A q \in book : Coid(q) # Coid(new)
  BY DEF PendingFresh
<1>6. /\ Removes(todo[s]) => \A o \in book : Coid(o) # Coid(old) => o \in book'
      /\ ~Removes(todo[s]) => book \subseteq book'
      /\ Places(todo[s]) => new \in book'
  <2>. HIDE DEF old, new
  <2>1. CASE Post(s)
    <3>1. book' = Placed(book, new) /\ ~Removes(todo[s]) /\ Places(todo[s])
      BY <2>1 DEF Post, Removes, Places, new
    <3>. QED
      BY <1>5, <3>1 DEF Placed, Ids
  <2>2. CASE Cancel(s)
    <3>1. book' = Removed(book, old) /\ Removes(todo[s]) /\ ~Places(todo[s])
      BY <2>2 DEF Cancel, Removes, Places, old
    <3>. QED
      BY <3>1 DEF Removed
  <2>3. CASE Replace(s)
    <3>1. book' = Placed(Removed(book, old), new) /\ Removes(todo[s]) /\ Places(todo[s])
      BY <2>3 DEF Replace, Removes, Places, old, new
    <3>. QED
      BY <1>5, <3>1 DEF Placed, Removed, Ids
  <2>. QED
    BY <1>3, <2>1, <2>2, <2>3 DEF Dispatch
<1>7. ASSUME NEW o \in book, o \in live \/ o.side # s PROVE o \in book'
  <2>1. CASE ~Removes(todo[s])
    BY <1>6, <2>1
  <2>2. CASE Removes(todo[s])
    <3>1. old \in book /\ old \notin live /\ old.side = s
      BY <2>2 DEF LeavingRests
    <3>2. Coid(o) # Coid(old)
      BY <1>7, <3>1, SameId DEF TypeOK, OneQuotePerSide
    <3>. QED
      BY <1>6, <2>2, <3>2
  <2>. QED
    BY <2>1, <2>2
<1>8. Resting'
  <2>1. SUFFICES ASSUME NEW q \in live
                 PROVE  q \in book' \/ (Places(todo'[q.side]) /\ todo'[q.side].new = q)
    BY <1>1 DEF Resting
  <2>2. q.side \in Sides
    BY DEF TypeOK, Quotes
  <2>3. q \in book \/ (Places(todo[q.side]) /\ todo[q.side].new = q)
    BY <1>1 DEF Resting
  <2>. QED
    BY <1>2, <1>6, <1>7, <2>2, <2>3
<1>9. LeavingRests'
  <2>1. SUFFICES ASSUME NEW t \in Sides, Removes(todo'[t])
                 PROVE  /\ todo'[t].old \in book' /\ todo'[t].old \notin live'
                        /\ todo'[t].old.side = t
    BY DEF LeavingRests
  <2>2. t # s /\ todo'[t] = todo[t]
    BY <1>2, <2>1
  <2>3. todo[t].old \in book /\ todo[t].old \notin live /\ todo[t].old.side = t
    BY <2>1, <2>2 DEF LeavingRests
  <2>. QED
    BY <1>1, <1>7, <2>2, <2>3
<1>. QED
  BY <1>4, <1>8, <1>9

LEMMA RestMatch ==
    ASSUME MakerInv, RestInv, Ttl = 0, Match
    PROVE  RestInv'
<1>. USE DEF MakerInv, RestInv
<1>. DEFINE hit == Crossed(tick.market, tick.mid)
<1>1. Expired(tick.market) = {}
  BY DEF Expired, ExpiredAt
<1>2. /\ book' = book \ hit /\ hits' = hit /\ UNCHANGED <<live, todo>>
      /\ pc = "dispatch" /\ todo = Idle
      /\ hit # {} => pc' = "fills"
  BY <1>1 DEF Match
<1>3. \A s \in Sides : ~Removes(todo[s]) /\ ~Places(todo[s])
  BY <1>2 DEF Idle, Nothing, Act, Removes, Places
<1>. HIDE DEF hit
<1>4. \A q \in live : q \in book
  BY <1>2, <1>3 DEF Resting, TypeOK, Quotes
<1>5. Resting'
  BY <1>2, <1>4 DEF Resting
<1>. QED
  BY <1>2, <1>3, <1>5 DEF LeavingRests, PendingFits

LEMMA RestOnFill ==
    ASSUME MakerInv, RestInv, OnFill
    PROVE  RestInv'
<1>. USE DEF MakerInv, RestInv
<1>1. PICK o \in hits : /\ live' = Removed(live, o) /\ hits' = hits \ {o}
                        /\ IF hits = {o} THEN Finish ELSE UNCHANGED <<pc, tick>>
  BY DEF OnFill
<1>2. UNCHANGED <<book, todo>> /\ pc = "fills"
  BY DEF OnFill
<1>3. \A s \in Sides : ~Removes(todo[s]) /\ ~Places(todo[s])
  BY <1>2 DEF PendingFresh, Nothing, Act, Removes, Places
<1>4. \A q \in live' : q \in live /\ q # o
  BY <1>1 DEF Removed
<1>5. \A q \in live : q \in book \/ q \in hits
  BY <1>3 DEF Resting, TypeOK, Quotes
<1>6. Resting'
  BY <1>1, <1>2, <1>4, <1>5 DEF Resting
<1>. QED
  BY <1>2, <1>3, <1>6 DEF LeavingRests, PendingFits

\* Between ticks the ledger holds only resting quotes, if no quote expires and
\* a single one fits the aggregate cap, through crashes, pauses, lost ticks and
\* failing persists: the two ways in which the code lets a quote leave the book
\* unseen are the ones excluded.
THEOREM LedgerRestsHolds ==
    ASSUME Ttl = 0, QuotesFit
    PROVE  Spec => []LedgerRests
<1>1. Init => RestInv
  BY DEF Init, RestInv, Resting, LeavingRests, PendingFits, Idle, Nothing, Act, Removes, Places
<1>2. MakerInv /\ RestInv /\ [Next]_vars => RestInv'
  <2>1. SUFFICES ASSUME MakerInv, RestInv, [Next]_vars PROVE RestInv'
    OBVIOUS
  <2>2. ASSUME UNCHANGED <<live, book, todo, hits>>, pc = "fills" => pc' = "fills"
        PROVE  RestInv'
    BY <2>1, <2>2 DEF RestInv, Resting, LeavingRests, PendingFits, GlobalBlocks
  <2>3. CASE Crash
    BY <2>3 DEF Crash, RestInv, Resting, LeavingRests, PendingFits, Idle, Nothing, Act,
                Removes, Places
  <2>4. ASSUME NEW m \in Markets, LoseTick(m) PROVE RestInv'
    BY <2>2, <2>4 DEF LoseTick, memVars
  <2>5. CASE Clock \/ ToggleKill \/ HandleControl \/ Start \/ SkipMatch \/ UNCHANGED vars
    BY <2>2, <2>5 DEF Clock, ToggleKill, HandleControl, Start, SkipMatch, vars, memVars
  <2>. QED
    BY <2>1, <2>3, <2>4, <2>5, RestTick, RestDispatch, RestMatch, RestOnFill DEF Next
<1>3. MakerInv /\ RestInv => LedgerRests
  BY IdleRests DEF LedgerRests, RestInv
<1>. QED
  BY <1>1, <1>2, <1>3, MakerCorrect, PTL DEF Spec

-----------------------------------------------------------------------------
(* Nothing rests after the close. *)

\* A tracked quote was last looked at before the terminal phase of its market.
InTime ==
    \A q \in live :
       /\ WindowOpen[q.market] - Lead <= now /\ now < WindowClose[q.market]
       /\ seen[q.market] + TauTerminal <= WindowClose[q.market]

Asleep == pc = "down" => live = {} /\ book = {}

CloseInv == ~paused /\ drops = 0 /\ Asleep /\ InTime /\ WithdrawnAtClose

\* The clock moves when every open market has had its tick: a quote in the
\* ledger then has more than one tick left.
LEMMA CloseClock ==
    ASSUME MakerInv, CloseInv, TauTerminal > 1, Clock
    PROVE  CloseInv'
<1>. USE DEF MakerInv, CloseInv
<1>1. /\ now' = now + 1 /\ UNCHANGED <<paused, drops, pc, live, book, seen>>
      /\ pc = "down" \/ (pc = "idle" /\ \A m \in Markets : ~Due(m))
  BY DEF Clock, memVars, faultVars
<1>2. CASE pc = "down"
  BY <1>1, <1>2 DEF Asleep, InTime, WithdrawnAtClose
<1>3. CASE pc = "idle" /\ \A m \in Markets : ~Due(m)
  <2>1. ASSUME NEW q \in live
        PROVE  /\ WindowOpen[q.market] - Lead <= now + 1 /\ now + 1 < WindowClose[q.market]
    <3>1. q.market \in Markets
      BY DEF TypeOK, Quotes
    <3>2. /\ WindowOpen[q.market] \in Nat /\ WindowClose[q.market] \in Nat
          /\ Lead \in Nat /\ TauTerminal \in Nat /\ now \in Nat /\ seen[q.market] \in Int
      BY <3>1, MakerAssumption DEF TypeOK
    <3>3. /\ WindowOpen[q.market] - Lead <= now /\ now < WindowClose[q.market]
          /\ seen[q.market] + TauTerminal <= WindowClose[q.market]
      BY DEF InTime
    <3>4. ~(seen[q.market] < now)
      BY <1>3, <3>1, <3>3 DEF Due, Open
    <3>. QED
      BY <3>2, <3>3, <3>4
  <2>2. book \subseteq live
    <3>1. SUFFICES ASSUME NEW o \in book PROVE o \in live
      OBVIOUS
    <3>2. todo[o.side] = Nothing
      BY <1>3 DEF TypeOK, Quotes, PendingFresh
    <3>. QED
      BY <3>2 DEF TrackedOrLeaving, Nothing, Act
  <2>3. InTime'
    BY <1>1, <2>1 DEF InTime
  <2>4. WithdrawnAtClose'
    BY <1>1, <2>1, <2>2 DEF WithdrawnAtClose
  <2>. QED
    BY <1>1, <2>3, <2>4 DEF Asleep
<1>. QED
  BY <1>1, <1>2, <1>3

LEMMA CloseTick ==
    ASSUME MakerInv, CloseInv, NEW m \in Markets, Tick(m)
    PROVE  CloseInv'
<1>. USE DEF MakerInv, CloseInv
<1>1. /\ Receive(m) /\ ~TickPaused(m) /\ UNCHANGED <<now, paused, book, drops>>
      /\ pc' = "dispatch"
  BY DEF Tick, TickPaused, TickWithdraw, TickQuote, faultVars
<1>2. /\ seen' = [seen EXCEPT ![m] = now] /\ Open(m)
  BY <1>1 DEF Receive, Due
<1>3. \A k \in Markets : seen'[k] = IF k = m THEN now ELSE seen[k]
  BY <1>2 DEF TypeOK
<1>4. ASSUME NEW q \in live, q.market # m
      PROVE  /\ WindowOpen[q.market] - Lead <= now /\ now < WindowClose[q.market]
             /\ seen'[q.market] + TauTerminal <= WindowClose[q.market]
  BY <1>3, <1>4 DEF InTime, TypeOK, Quotes
<1>5. InTime'
  <2>1. ASSUME NEW mid \in 0 .. One, TickWithdraw(m, mid) PROVE InTime'
    <3>1. live' = {q \in live : q.market # m}
      BY <2>1 DEF TickWithdraw
    <3>. QED
      BY <1>1, <1>4, <3>1 DEF InTime
  <2>2. ASSUME NEW mid \in Zone, NEW bid \in 1 .. One - 1, NEW ask \in 1 .. One - 1,
               TickQuote(m, mid, bid, ask)
        PROVE  InTime'
    <3>1. \A q \in live' : q \in live \/ q.market = m
      BY <2>2, QuoteFlow
    <3>2. InQuotingWindow(m)
      BY <2>2 DEF TickQuote
    <3>3. /\ WindowOpen[m] \in Nat /\ WindowClose[m] \in Nat /\ TauTerminal \in Nat /\ now \in Nat
      BY MakerAssumption DEF TypeOK
    <3>4. /\ WindowOpen[m] - Lead <= now /\ now < WindowClose[m]
          /\ seen'[m] + TauTerminal <= WindowClose[m]
      BY <1>2, <1>3, <3>2, <3>3 DEF InQuotingWindow, TInWindow, Open
    <3>. QED
      BY <1>1, <1>4, <3>1, <3>4 DEF InTime
  <2>. QED
    BY <1>1, <2>1, <2>2 DEF Tick
<1>. QED
  BY <1>1, <1>5 DEF Asleep, WithdrawnAtClose

\* With ticks that all arrive and no pause, nothing rests in the book once the
\* window has closed: the last tick lies in the terminal phase, which lasts
\* more than one tick, and withdraws everything.  Crashes, failing persists,
\* expiries and dropped quotes do not matter.
THEOREM WithdrawnAtCloseHolds ==
    ASSUME TauTerminal > 1, MaxDrops = 0, PauseStates \subseteq {FALSE}
    PROVE  Spec => []WithdrawnAtClose
<1>1. Init => CloseInv
  BY DEF Init, CloseInv, Asleep, InTime, WithdrawnAtClose
<1>2. MakerInv /\ CloseInv /\ [Next]_vars => CloseInv'
  <2>1. SUFFICES ASSUME MakerInv, CloseInv, [Next]_vars PROVE CloseInv'
    OBVIOUS
  <2>2. ASSUME UNCHANGED <<now, paused, drops, seen>>, live' \subseteq live, pc' # "down",
               \A o \in book' : o \in book \/ o \in live
        PROVE  CloseInv'
    BY <2>1, <2>2 DEF CloseInv, Asleep, InTime, WithdrawnAtClose
  <2>3. CASE Clock
    BY <2>1, <2>3, CloseClock
  <2>4. CASE ToggleKill \/ HandleControl \/ UNCHANGED vars
    <3>1. UNCHANGED <<now, drops, seen, live, book, pc>>
      BY <2>4 DEF ToggleKill, HandleControl, vars, memVars, faultVars
    <3>2. ~paused'
      <4>1. paused' \in PauseStates \/ paused' = paused
        BY <2>4 DEF ToggleKill, HandleControl, vars
      <4>. QED
        BY <2>1, <4>1, Zenon DEF CloseInv
    <3>. QED
      BY <2>1, <3>1, <3>2 DEF CloseInv, Asleep, InTime, WithdrawnAtClose
  <2>5. CASE Crash
    BY <2>1, <2>5 DEF Crash, CloseInv, Asleep, InTime, WithdrawnAtClose
  <2>6. CASE Start
    BY <2>1, <2>6 DEF Start, CloseInv, Asleep, InTime, WithdrawnAtClose, faultVars
  <2>7. ASSUME NEW m \in Markets, LoseTick(m) PROVE CloseInv'
    <3>1. drops < 0 /\ drops \in Nat
      BY <2>1, <2>7 DEF LoseTick, MakerInv, TypeOK
    <3>. QED
      BY <3>1
  <2>8. ASSUME NEW s \in Sides, Dispatch(s) PROVE CloseInv'
    <3>1. UNCHANGED <<now, paused, drops, seen, live, pc>> /\ pc = "dispatch"
      BY <2>8 DEF Dispatch, DropPost, Post, Cancel, ReplaceMissing, Replace, Ready, faultVars
    <3>2. \A o \in book' : o \in book \/ (Places(todo[s]) /\ o = todo[s].new)
      BY <2>8 DEF Dispatch, DropPost, Post, Cancel, ReplaceMissing, Replace, Placed, Removed,
                  Places
    <3>3. Places(todo[s]) => todo[s].new \in live
      BY <2>1 DEF MakerInv, PendingFresh
    <3>. QED
      BY <2>2, <3>1, <3>2, <3>3
  <2>9. CASE Match \/ SkipMatch \/ OnFill
    <3>1. /\ UNCHANGED <<now, paused, drops, seen>> /\ live' \subseteq live
          /\ book' \subseteq book
      BY <2>9 DEF Match, SkipMatch, OnFill, Removed, faultVars
    <3>2. pc' # "down"
      BY <2>9 DEF Match, SkipMatch, OnFill, Finish
    <3>. QED
      BY <2>2, <3>1, <3>2
  <2>. QED
    BY <2>1, <2>3, <2>4, <2>5, <2>6, <2>7, <2>8, <2>9, CloseTick DEF Next
<1>3. CloseInv => WithdrawnAtClose
  BY DEF CloseInv
<1>. QED
  BY <1>1, <1>2, <1>3, MakerCorrect, PTL DEF Spec

-----------------------------------------------------------------------------
(* The inventory is the sum of the fills the strategy has been told of. *)

Units(quotes) == UNION {{q} \X (1 .. q.qty) : q \in quotes}

\* A quote adds its quantity to a sum.
LEMMA SharesAdd ==
    ASSUME NEW S, NEW o \in Quotes, o \notin S, IsFiniteSet(Units(S))
    PROVE  /\ IsFiniteSet(Units(S \cup {o})) /\ Shares(S) \in Nat
           /\ Shares(S \cup {o}) = Shares(S) + o.qty
<1>. DEFINE N == 1 .. o.qty
            U == {o} \X N
<1>1. o.qty \in Nat
  BY DEF Quotes
<1>2. IsFiniteSet(N) /\ Cardinality(N) = o.qty /\ IsFiniteSet({o}) /\ Cardinality({o}) = 1
  <2>1. ASSUME NEW n \in Nat PROVE IsFiniteSet(1 .. n) /\ Cardinality(1 .. n) = n
    <3>1. 1 \in Int /\ n \in Int
      OBVIOUS
    <3>2. IsFiniteSet(1 .. n) /\ Cardinality(1 .. n) = IF 1 > n THEN 0 ELSE n - 1 + 1
      BY <3>1, FS_Interval
    <3>. QED
      BY <3>2
  <2>2. IsFiniteSet({o}) /\ Cardinality({o}) = 1
    BY FS_Singleton
  <2>. QED
    BY <1>1, <2>1, <2>2
<1>3. IsFiniteSet(U) /\ Cardinality(U) = Cardinality({o}) * Cardinality(N)
  <2>. HIDE DEF N
  <2>. QED
    BY <1>2, FS_Product
<1>4. Cardinality(U) = o.qty
  BY <1>1, <1>2, <1>3
<1>5. Units(S \cup {o}) = Units(S) \cup U
  BY DEF Units
<1>6. Units(S) \cap U = {}
  BY DEF Units
<1>. HIDE DEF U
<1>7. /\ IsFiniteSet(Units(S) \cup U)
      /\ Cardinality(Units(S) \cup U)
           = Cardinality(Units(S)) + Cardinality(U) - Cardinality(Units(S) \cap U)
  BY <1>3, FS_Union
<1>8. Cardinality(Units(S)) \in Nat /\ Cardinality({}) = 0
  BY FS_CardinalityType, FS_EmptySet
<1>9. Shares(S) = Cardinality(Units(S)) /\ Shares(S \cup {o}) = Cardinality(Units(S \cup {o}))
  BY DEF Shares, Units
<1>10. Cardinality(Units(S) \cup U) = Shares(S) + o.qty - 0
  BY <1>4, <1>6, <1>7, <1>8, <1>9
<1>11. Shares(S) + o.qty - 0 = Shares(S) + o.qty
  BY <1>1, <1>8, <1>9
<1>. QED
  BY <1>5, <1>7, <1>8, <1>9, <1>10, <1>11

\* The fills the strategy has been told of.
Heard(m, s) == {q \in fills \ hits : q.market = m /\ q.side = s}

Inventory ==
    /\ hits \subseteq fills
    /\ \A m \in Markets : /\ \A s \in Sides : IsFiniteSet(Units(Heard(m, s)))
                          /\ inv[m] = Shares(Heard(m, "BUY")) - Shares(Heard(m, "SELL"))

\* While nothing fails, the inventory the guard compares with its cap is the
\* sum of trading.fills, bought less sold, whatever order fills come in.
THEOREM InventoryMatchesFillsHolds == Spec => [](Unfailed => InventoryMatchesFills)
<1>. DEFINE InvInv == Unfailed => Inventory
<1>1. Init => InvInv
  <2>1. SUFFICES ASSUME Init PROVE Inventory
    OBVIOUS
  <2>2. \A m, s : Heard(m, s) = {}
    BY <2>1 DEF Init, Heard
  <2>3. Units({}) = {} /\ Shares({}) = 0 /\ IsFiniteSet({})
    BY FS_EmptySet DEF Units, Shares
  <2>4. \A m \in Markets : inv[m] = 0
    BY <2>1 DEF Init
  <2>5. hits \subseteq fills
    BY <2>1 DEF Init
  <2>6. \A m \in Markets : /\ \A s \in Sides : IsFiniteSet(Units(Heard(m, s)))
                           /\ Shares(Heard(m, "BUY")) = 0 /\ Shares(Heard(m, "SELL")) = 0
    BY <2>2, <2>3
  <2>. QED
    BY <2>4, <2>5, <2>6 DEF Inventory
<1>2. MakerInv /\ InvInv /\ [Next]_vars => InvInv'
  <2>1. SUFFICES ASSUME MakerInv, InvInv, [Next]_vars, Unfailed' PROVE Inventory'
    OBVIOUS
  <2>2. /\ crashes \in Nat /\ dbErrs \in Nat
    BY <2>1 DEF MakerInv, TypeOK
  <2>3. ASSUME UNCHANGED <<inv, fills, hits, crashes>>, dbErrs' \in {dbErrs, dbErrs + 1, dbErrs + 2}
        PROVE  Inventory'
    <3>1. Unfailed
      BY <2>1, <2>2, <2>3 DEF Unfailed
    <3>. QED
      BY <2>1, <2>3, <3>1 DEF Inventory, Heard
  <2>4. ~Crash
    BY <2>1, <2>2 DEF Crash, Unfailed
  <2>5. ASSUME NEW s \in Sides, Dispatch(s) PROVE Inventory'
    BY <2>3, <2>5 DEF Dispatch, DropPost, Post, Cancel, ReplaceMissing, Replace, DbErrors, dbVars,
                      faultVars
  <2>6. CASE Match
    <3>. DEFINE gone == Expired(tick.market)
                hit  == Crossed(tick.market, tick.mid)
    <3>1. PICK some \in SUBSET gone, rows \in {{}, hit}, marked \in SUBSET hit :
             marked \subseteq rows /\ MatchRows(gone, hit, Ids(some), rows, marked)
      BY <2>6 DEF Match
    <3>2. hits' = hit /\ inv' = inv /\ crashes' = crashes /\ pc = "dispatch"
      BY <2>6 DEF Match
    <3>3. hit \subseteq book
      BY DEF Crossed, InBook
    <3>. HIDE DEF gone, hit
    <3>4. dbErrs' = dbErrs /\ Unfailed
      BY <2>1, <2>2, <3>1, <3>2 DEF MatchRows, DbErrors, Unfailed
    <3>5. marked = hit /\ fills' = fills \cup rows
      BY <2>2, <3>1, <3>4 DEF MatchRows, DbErrors
    <3>6. fills' = fills \cup hit
      BY <3>1, <3>5
    <3>7. hits = {} /\ fills \cap hit = {}
      BY <2>1, <3>2, <3>3 DEF MakerInv, FillsGone
    <3>8. fills' \ hits' = fills \ hits
      BY <3>2, <3>6, <3>7
    <3>. QED
      BY <2>1, <3>2, <3>4, <3>6, <3>8 DEF Inventory, Heard
  <2>7. CASE OnFill
    <3>1. PICK o \in hits : /\ inv' = [inv EXCEPT ![o.market] = @ + Sign(o.side) * o.qty]
                            /\ hits' = hits \ {o}
      BY <2>7 DEF OnFill
    <3>2. fills' = fills /\ Inventory
      BY <2>1, <2>7 DEF OnFill, dbVars, faultVars, Unfailed
    <3>3. /\ o \in Quotes /\ o.market \in Markets /\ o.side \in Sides /\ o.qty \in Nat
          /\ inv \in [Markets -> Int] /\ o \in fills
      BY <2>1, <3>2 DEF MakerInv, TypeOK, Quotes, Inventory
    <3>4. \A m \in Markets, s \in Sides :
             Heard(m, s)' = IF o.market = m /\ o.side = s THEN Heard(m, s) \cup {o} ELSE Heard(m, s)
      BY <3>1, <3>2, <3>3 DEF Heard
    <3>5. \A m, s : o \notin Heard(m, s)
      BY <3>1 DEF Heard
    <3>6. \A m \in Markets, s \in Sides :
             /\ IsFiniteSet(Units(Heard(m, s)))
             /\ IsFiniteSet(Units(Heard(m, s) \cup {o})) /\ Shares(Heard(m, s)) \in Nat
             /\ Shares(Heard(m, s) \cup {o}) = Shares(Heard(m, s)) + o.qty
      BY <3>2, <3>3, <3>5, SharesAdd DEF Inventory
    <3>7. hits' \subseteq fills'
      BY <3>1, <3>2 DEF Inventory
    <3>8. ASSUME NEW m \in Markets
          PROVE  /\ \A s \in Sides : IsFiniteSet(Units(Heard(m, s)'))
                 /\ inv'[m] = Shares(Heard(m, "BUY")') - Shares(Heard(m, "SELL")')
      <4>1. \A s \in Sides : IsFiniteSet(Units(Heard(m, s)'))
        BY <3>4, <3>6
      <4>2. /\ inv[m] = Shares(Heard(m, "BUY")) - Shares(Heard(m, "SELL"))
            /\ "BUY" \in Sides /\ "SELL" \in Sides
        BY <3>2 DEF Inventory, Sides
      <4>3. CASE o.market # m
        <5>1. inv'[m] = inv[m]
          BY <3>1, <3>3, <4>3
        <5>. QED
          BY <3>4, <4>1, <4>2, <4>3, <5>1
      <4>4. CASE o.market = m /\ o.side = "BUY"
        <5>1. inv'[m] = inv[m] + o.qty
          BY <3>1, <3>3, <4>4 DEF Sign
        <5>2. Heard(m, "BUY")' = Heard(m, "BUY") \cup {o} /\ Heard(m, "SELL")' = Heard(m, "SELL")
          BY <3>4, <4>2, <4>4
        <5>3. /\ Shares(Heard(m, "BUY")') = Shares(Heard(m, "BUY")) + o.qty
              /\ Shares(Heard(m, "SELL")') = Shares(Heard(m, "SELL"))
              /\ Shares(Heard(m, "BUY")) \in Nat /\ Shares(Heard(m, "SELL")) \in Nat
          BY <3>6, <4>2, <5>2
        <5>. QED
          BY <3>3, <4>1, <4>2, <5>1, <5>3
      <4>5. CASE o.market = m /\ o.side = "SELL"
        <5>1. inv'[m] = inv[m] - o.qty
          BY <3>1, <3>3, <4>5 DEF Sign
        <5>2. Heard(m, "SELL")' = Heard(m, "SELL") \cup {o} /\ Heard(m, "BUY")' = Heard(m, "BUY")
          BY <3>4, <4>2, <4>5
        <5>3. /\ Shares(Heard(m, "SELL")') = Shares(Heard(m, "SELL")) + o.qty
              /\ Shares(Heard(m, "BUY")') = Shares(Heard(m, "BUY"))
              /\ Shares(Heard(m, "SELL")) \in Nat /\ Shares(Heard(m, "BUY")) \in Nat
          BY <3>6, <4>2, <5>2
        <5>. QED
          BY <3>3, <4>1, <4>2, <5>1, <5>3
      <4>. QED
        BY <3>3, <4>3, <4>4, <4>5 DEF Sides
    <3>. QED
      BY <3>7, <3>8 DEF Inventory, Units, Shares
  <2>8. ASSUME NEW m \in Markets, LoseTick(m) \/ Tick(m) PROVE Inventory'
    BY <2>3, <2>8 DEF LoseTick, Tick, TickPaused, TickWithdraw, TickQuote, memVars, dbVars, faultVars
  <2>9. CASE Clock \/ ToggleKill \/ HandleControl \/ Start \/ SkipMatch \/ UNCHANGED vars
    BY <2>3, <2>9 DEF Clock, ToggleKill, HandleControl, Start, SkipMatch, vars, memVars,
                      dbVars, faultVars
  <2>. QED
    BY <2>1, <2>4, <2>5, <2>6, <2>7, <2>8, <2>9 DEF Next
<1>3. MakerInv /\ InvInv => (Unfailed => InventoryMatchesFills)
  <2>1. SUFFICES ASSUME MakerInv, Inventory, pc = "idle" PROVE InventoryMatchesFills
    BY DEF InventoryMatchesFills
  <2>2. hits = {}
    BY <2>1 DEF MakerInv, FillsGone
  <2>3. \A m, s : Heard(m, s) = FillsOf(m, s)
    BY <2>2 DEF Heard, FillsOf
  <2>. QED
    BY <2>1, <2>3 DEF Inventory, InventoryMatchesFills
<1>. HIDE DEF InvInv
<1>. QED
  BY <1>1, <1>2, <1>3, MakerCorrect, PTL DEF Spec
=============================================================================
