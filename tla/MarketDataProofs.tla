--------------------------- MODULE MarketDataProofs ---------------------------
(***************************************************************************)
(* Theorems about the parts that bring market data in, for any markets,    *)
(* windows, page sizes and any number of failures, and their composition   *)
(* in MCMarketData.                                                        *)
(***************************************************************************)
EXTENDS MCMarketData, FiniteSetTheorems, SequenceTheorems, WellFoundedInduction, TLAPS

-----------------------------------------------------------------------------
(* The live feeds: one open price per market. *)

Records == [open : Nat, captured : BOOLEAN]

\* A record without a capture has no price, a captured one is from the first
\* seconds of the window.
Plausible(m, r) == /\ r \in Records /\ (~r.captured => r.open = 0)
                   /\ r.open = 0 \/ r.open <= Opening(m) + CaptureTime

FeedsTyped ==
    /\ fnow \in Nat /\ spot \in Nat /\ spot <= fnow /\ rnow \in Nat /\ rspot \in Nat
    /\ rspot <= rnow
    /\ Known \subseteq FMarkets /\ DOMAIN held \subseteq FMarkets
    /\ todoTicks \subseteq DOMAIN held
    /\ registry = [m \in Known |-> registry[m]] /\ held = [m \in DOMAIN held |-> held[m]]
    /\ \A m \in Known : Plausible(m, registry[m])
    /\ \A m \in DOMAIN held : Plausible(m, held[m])
    /\ opens \in [FMarkets -> SUBSET Nat]
    /\ \A m \in FMarkets : \A p \in opens[m] : p # 0 /\ p <= Opening(m) + CaptureTime

\* The record the recorder holds is the one in the state, or a copy of it,
\* unless its market was forgotten or captured on a detached record.
HeldCurrent ==
    /\ \A m \in DOMAIN held \ detached : m \in Known
    /\ \A m \in (DOMAIN held \cap Known) \ raced : held[m] = registry[m]

\* A market that is forgotten is past its close, so it is not found again.
ForgottenClosed ==
    \A m \in FMarkets \ Known : opens[m] # {} \/ m \in DOMAIN held => Closes[m] <= fnow

OneOpenPrice ==
    \A m \in FMarkets \ raced :
       /\ m \in Known => opens[m] \subseteq {registry[m].open}
       /\ m \in DOMAIN held => opens[m] \subseteq {held[m].open}
       /\ \E v : opens[m] \subseteq {v}

FeedsInv == FeedsTyped /\ HeldCurrent /\ ForgottenClosed /\ OneOpenPrice /\ BooksOfKnownMarkets

LEMMA FeedsTypes ==
    /\ Closes \in [FMarkets -> Nat] /\ Window \in [FMarkets -> Nat] /\ CaptureTime \in Nat
    /\ GraceTime \in Nat /\ Series1 \subseteq FMarkets /\ Series2 \subseteq FMarkets
    /\ \A m \in FMarkets : Opening(m) \in Int
BY FeedsAssumption DEF Opening

LEMMA FeedsStart == FeedsInit => FeedsInv
<1>1. SUFFICES ASSUME FeedsInit PROVE FeedsInv
  OBVIOUS
<1>2. Known = {} /\ DOMAIN held = {}
  BY <1>1 DEF FeedsInit, Known
<1>3. FeedsTyped
  BY <1>1, <1>2 DEF FeedsInit, FeedsTyped
<1>. QED
  BY <1>1, <1>2, <1>3 DEF FeedsInit, FeedsInv, HeldCurrent, ForgottenClosed, OneOpenPrice,
                          BooksOfKnownMarkets

\* Steps that touch neither a record nor a published price.
LEMMA FeedsFrame ==
    ASSUME FeedsInv, UNCHANGED <<registry, held, detached, raced, opens, rnow, rspot, todoTicks>>,
           fnow' \in Nat, fnow <= fnow', spot' \in Nat, spot' <= fnow', books' \subseteq Known
    PROVE  FeedsInv'
<1>1. Known' = Known
  BY DEF Known
<1>2. \A m \in FMarkets : Opening(m)' = Opening(m)
  BY DEF Opening
<1>3. FeedsTyped'
  BY <1>1, <1>2 DEF FeedsInv, FeedsTyped, Plausible
<1>4. ForgottenClosed'
  BY <1>1, FeedsTypes DEF FeedsInv, ForgottenClosed, FeedsTyped
<1>5. HeldCurrent' /\ OneOpenPrice' /\ BooksOfKnownMarkets'
  BY <1>1 DEF FeedsInv, HeldCurrent, OneOpenPrice, BooksOfKnownMarkets
<1>. QED
  BY <1>3, <1>4, <1>5 DEF FeedsInv

\* The refresher copies records, adds new ones and forgets old markets.
LEMMA FeedsRefresh ==
    ASSUME FeedsInv, NEW found, found \subseteq Upcoming(FMarkets),
           NEW kept, kept \subseteq Known \cup found,
           \A m \in Known \ kept : Closes[m] <= fnow,
           registry' = [m \in kept |-> IF m \in Known THEN registry[m] ELSE NewRecord],
           \A m \in DOMAIN held \ detached' : m \notin detached /\ (m \in Known => m \in kept),
           books' \subseteq kept,
           UNCHANGED <<fnow, spot, held, raced, opens, rnow, rspot, todoTicks>>
    PROVE  FeedsInv'
<1>. USE DEF FeedsInv
<1>1. Known' = kept /\ kept \subseteq FMarkets
  BY DEF Known, Upcoming, FeedsTyped
<1>2. \A m \in kept : /\ m \in Known => registry'[m] = registry[m]
                      /\ m \notin Known => registry'[m] = NewRecord
  OBVIOUS
<1>3. \A m \in FMarkets : Plausible(m, NewRecord)
  BY DEF Plausible, NewRecord, Records
<1>4. FeedsTyped'
  BY <1>1, <1>2, <1>3 DEF FeedsTyped, Plausible, Opening
<1>5. \A m \in kept \ Known : m \in FMarkets /\ opens[m] = {} /\ m \notin DOMAIN held
  <2>1. SUFFICES ASSUME NEW m \in kept \ Known PROVE opens[m] = {} /\ m \notin DOMAIN held
    BY <1>1
  <2>2. m \in FMarkets /\ Closes[m] > fnow
    BY <2>1 DEF Upcoming
  <2>3. Closes[m] \in Nat /\ fnow \in Nat
    BY <2>2, FeedsTypes DEF FeedsTyped
  <2>. QED
    BY <2>1, <2>2, <2>3 DEF ForgottenClosed
<1>6. HeldCurrent'
  BY <1>1, <1>2, <1>5 DEF HeldCurrent
<1>7. ForgottenClosed'
  BY <1>1 DEF ForgottenClosed
<1>8. OneOpenPrice'
  BY <1>1, <1>2, <1>5 DEF OneOpenPrice
<1>. QED
  BY <1>1, <1>4, <1>6, <1>7, <1>8 DEF BooksOfKnownMarkets

LEMMA FeedsSeries ==
    ASSUME FeedsInv, NEW S, S \subseteq FMarkets, RefreshSeries(S),
           UNCHANGED <<fnow, spot, held, raced, opens, rnow, rspot, todoTicks>>
    PROVE  FeedsInv'
<1>. DEFINE found == Upcoming(S)
            records == WithRecords(found)
            kept == {m \in Known \cup found : Closes[m] + GraceTime >= fnow}
<1>1. DOMAIN records = Known \cup found /\ found \subseteq Upcoming(FMarkets)
  BY DEF WithRecords, Upcoming
<1>2. /\ registry' = Restrict(records, kept) /\ books' = books \cap kept
      /\ detached' = (detached \cup found \cup (Known \ kept)) \cap DOMAIN held
  BY <1>1 DEF RefreshSeries
<1>3. registry' = [m \in kept |-> IF m \in Known THEN registry[m] ELSE NewRecord]
  BY <1>2 DEF Restrict, WithRecords
<1>4. \A m \in Known \ kept : Closes[m] <= fnow
  <2>1. SUFFICES ASSUME NEW m \in Known \ kept PROVE Closes[m] <= fnow
    OBVIOUS
  <2>2. m \in FMarkets /\ ~(Closes[m] + GraceTime >= fnow) /\ fnow \in Nat
    BY DEF FeedsInv, FeedsTyped
  <2>. QED
    BY <2>2, FeedsTypes
<1>. HIDE DEF kept, found
<1>5. \A m \in DOMAIN held \ detached' : m \notin detached /\ (m \in Known => m \in kept)
  BY <1>2
<1>6. kept \subseteq Known \cup found
  BY DEF kept
<1>. QED
  BY <1>1, <1>2, <1>3, <1>4, <1>5, <1>6, FeedsRefresh

\* The recorder takes the records of the markets in their window.
LEMMA FeedsRound ==
    ASSUME FeedsInv, StartRound
    PROVE  FeedsInv'
<1>. USE DEF FeedsInv
<1>. DEFINE W == {m \in Known : Opening(m) <= fnow + LeadTime /\ fnow < Closes[m]}
<1>1. /\ held' = Restrict(registry, W) /\ todoTicks' = W /\ rnow' = fnow /\ rspot' = spot
      /\ UNCHANGED <<fnow, spot, registry, books, opens, raced>>
  BY DEF StartRound, stateVars
<1>2. W \subseteq Known /\ Known' = Known
  BY <1>1 DEF Known
<1>. HIDE DEF W
<1>3. DOMAIN held' = W /\ \A m \in W : held'[m] = registry[m]
  BY <1>1 DEF Restrict
<1>4. held' = [m \in DOMAIN held' |-> held'[m]]
  BY <1>1 DEF Restrict
<1>5. FeedsTyped'
  BY <1>1, <1>2, <1>3, <1>4 DEF FeedsTyped, Plausible, Opening
<1>6. HeldCurrent' /\ ForgottenClosed' /\ OneOpenPrice' /\ BooksOfKnownMarkets'
  BY <1>1, <1>2, <1>3
     DEF HeldCurrent, ForgottenClosed, OneOpenPrice, BooksOfKnownMarkets, FeedsTyped
<1>. QED
  BY <1>5, <1>6

\* A capture is of the record in the state, unless the race is recorded.
LEMMA FeedsRecord ==
    ASSUME FeedsInv, RecordMarket
    PROVE  FeedsInv'
<1>. USE DEF FeedsInv
<1>1. PICK m \in todoTicks :
         LET record == IF Captures(m) THEN [open |-> rspot, captured |-> TRUE] ELSE held[m]
         IN /\ todoTicks' = todoTicks \ {m}
            /\ IF m \in heldBooks
               THEN /\ held' = [held EXCEPT ![m] = record]
                    /\ registry' = IF m \in detached THEN registry
                                   ELSE [registry EXCEPT ![m] = record]
                    /\ opens' = [opens EXCEPT ![m] = @ \union ({record.open} \ {0})]
                    /\ raced' = raced \union {n \in detached : n = m /\ Captures(n)}
               ELSE UNCHANGED <<held, registry, opens, raced>>
  BY DEF RecordMarket
<1>2. UNCHANGED <<fnow, spot, books, detached, rnow, rspot>>
  BY DEF RecordMarket
<1>3. m \in DOMAIN held /\ m \in FMarkets /\ (m \notin detached => m \in Known)
  BY <1>1 DEF FeedsTyped, HeldCurrent
<1>4. CASE m \notin heldBooks
  <2>1. UNCHANGED <<held, registry, opens, raced>> /\ todoTicks' \subseteq todoTicks
    BY <1>1, <1>4
  <2>2. Known' = Known
    BY <2>1 DEF Known
  <2>3. FeedsTyped'
    BY <1>2, <2>1, <2>2 DEF FeedsTyped, Plausible, Opening
  <2>. QED
    BY <1>2, <2>1, <2>2, <2>3
       DEF HeldCurrent, ForgottenClosed, OneOpenPrice, BooksOfKnownMarkets
<1>5. CASE m \in heldBooks
  <2>. DEFINE record == IF Captures(m) THEN [open |-> rspot, captured |-> TRUE] ELSE held[m]
  <2>1. /\ todoTicks' = todoTicks \ {m} /\ held' = [held EXCEPT ![m] = record]
        /\ registry' = IF m \in detached THEN registry ELSE [registry EXCEPT ![m] = record]
        /\ opens' = [opens EXCEPT ![m] = @ \union ({record.open} \ {0})]
        /\ raced' = raced \union {n \in detached : n = m /\ Captures(n)}
    BY <1>1, <1>5
  <2>2. Plausible(m, held[m]) /\ rspot \in Nat /\ rnow \in Nat /\ rspot <= rnow
    BY <1>3 DEF FeedsTyped
  <2>3. Plausible(m, record)
    <3>1. CASE Captures(m)
      <4>1. record.open = rspot /\ record.captured /\ record \in Records
        BY <2>2, <3>1 DEF Records
      <4>2. rnow <= Opening(m) + CaptureTime /\ Opening(m) \in Int /\ CaptureTime \in Nat
        BY <1>3, <3>1, FeedsTypes DEF Captures
      <4>3. rspot <= Opening(m) + CaptureTime
        BY <2>2, <4>2
      <4>. QED
        BY <4>1, <4>3 DEF Plausible
    <3>. QED
      BY <2>2, <3>1
  <2>4. Captures(m) /\ m \in detached => m \in raced'
    BY <2>1
  <2>5. Captures(m) /\ m \notin raced => opens[m] = {}
    <3>1. Captures(m) => held[m].open = 0
      BY <2>2 DEF Captures, Plausible
    <3>2. m \notin raced => opens[m] \subseteq {held[m].open}
      BY <1>3 DEF OneOpenPrice
    <3>3. \A p \in opens[m] : p # 0
      BY <1>3 DEF FeedsTyped
    <3>. QED
      BY <3>1, <3>2, <3>3
  <2>6. ~Captures(m) => record = held[m]
    OBVIOUS
  <2>. HIDE DEF record
  <2>7. /\ Known' = Known /\ DOMAIN held' = DOMAIN held /\ held'[m] = record
        /\ \A n \in DOMAIN held \ {m} : held'[n] = held[n]
    BY <1>3, <2>1 DEF Known
  <2>8. \A n \in Known : registry'[n] = IF n = m /\ m \notin detached THEN record ELSE registry[n]
    BY <2>1 DEF Known
  <2>9. /\ opens'[m] = opens[m] \cup ({record.open} \ {0})
        /\ \A n \in FMarkets \ {m} : opens'[n] = opens[n]
    BY <1>3, <2>1 DEF FeedsTyped
  <2>10. raced \subseteq raced'
    BY <2>1
  <2>11. FeedsTyped'
    <3>1. opens' \in [FMarkets -> SUBSET Nat]
      <4>1. record.open \in Nat
        BY <2>3 DEF Plausible, Records
      <4>. QED
        BY <1>3, <2>1, <4>1 DEF FeedsTyped
    <3>2. \A n \in FMarkets : \A p \in opens'[n] : p # 0 /\ p <= Opening(n) + CaptureTime
      BY <1>3, <2>3, <2>9 DEF FeedsTyped, Plausible
    <3>3. /\ registry' = [n \in Known' |-> registry'[n]]
          /\ held' = [n \in DOMAIN held' |-> held'[n]]
      <4>1. registry = [n \in Known |-> registry[n]] /\ held = [n \in DOMAIN held |-> held[n]]
        BY DEF FeedsTyped
      <4>2. held' = [n \in DOMAIN held' |-> held'[n]]
        BY <2>1, <4>1
      <4>3. registry' = [n \in DOMAIN registry' |-> registry'[n]]
        BY <2>1, <4>1
      <4>. QED
        BY <4>2, <4>3 DEF Known
    <3>4. /\ \A n \in Known' : Plausible(n, registry'[n])
          /\ \A n \in DOMAIN held' : Plausible(n, held'[n])
      BY <2>3, <2>7, <2>8 DEF FeedsTyped
    <3>. QED
      BY <1>2, <2>1, <2>7, <3>1, <3>2, <3>3, <3>4 DEF FeedsTyped, Plausible, Opening
  <2>12. HeldCurrent'
    BY <1>2, <1>3, <2>4, <2>6, <2>7, <2>8, <2>10 DEF HeldCurrent
  <2>13. ForgottenClosed'
    BY <1>2, <1>3, <2>7, <2>9 DEF ForgottenClosed
  <2>14. OneOpenPrice'
    <3>1. SUFFICES ASSUME NEW n \in FMarkets, n \notin raced'
                   PROVE  /\ n \in Known => opens'[n] \subseteq {registry'[n].open}
                          /\ n \in DOMAIN held => opens'[n] \subseteq {held'[n].open}
                          /\ \E v : opens'[n] \subseteq {v}
      BY <2>7 DEF OneOpenPrice
    <3>2. CASE n # m
      BY <2>7, <2>8, <2>9, <2>10, <3>1, <3>2 DEF OneOpenPrice
    <3>3. CASE n = m
      <4>1. opens'[m] \subseteq {record.open}
        BY <1>3, <2>5, <2>6, <2>9, <2>10, <3>1, <3>3 DEF OneOpenPrice
      <4>2. m \in Known => registry'[m] = record
        BY <1>3, <2>4, <2>6, <2>8, <2>10, <3>1, <3>3 DEF HeldCurrent
      <4>. QED
        BY <2>7, <3>3, <4>1, <4>2
    <3>. QED
      BY <3>2, <3>3
  <2>. QED
    BY <1>2, <2>7, <2>11, <2>12, <2>13, <2>14 DEF BooksOfKnownMarkets
<1>. QED
  BY <1>4, <1>5

LEMMA FeedsStep ==
    ASSUME FeedsInv, [FeedsNext]_feedVars
    PROVE  FeedsInv'
<1>. USE DEF refreshVars, roundVars, clobVars, stateVars
<1>0. /\ books \subseteq Known /\ fnow \in Nat /\ spot \in Nat /\ spot <= fnow
      /\ todoTicks \subseteq DOMAIN held
  BY DEF FeedsInv, FeedsTyped, BooksOfKnownMarkets
<1>1. CASE RunBinanceSpot
  BY <1>0, <1>1, FeedsFrame DEF RunBinanceSpot
<1>2. CASE ConnectClob \/ DiffSubscribe \/ FeedDrop \/ StartRefresh
  BY <1>0, <1>2, FeedsFrame DEF ConnectClob, DiffSubscribe, FeedDrop, StartRefresh
<1>3. CASE ApplyClobEvent
  BY <1>0, <1>3, FeedsFrame DEF ApplyClobEvent
<1>4. CASE FeedTick \/ UNCHANGED feedVars
  BY <1>0, <1>4, FeedsFrame DEF FeedTick, feedVars
<1>5. CASE RefreshOnce
  <2>1. UNCHANGED <<fnow, spot, held, raced, opens, rnow, rspot, todoTicks>>
    BY <1>5 DEF RefreshOnce
  <2>2. CASE \E S \in SUBSET FMarkets : RefreshSeries(S)
    BY <2>1, <2>2, FeedsSeries
  <2>3. CASE UNCHANGED <<registry, books, detached>>
    BY <1>0, <2>1, <2>3, FeedsFrame
  <2>. QED
    BY <1>5, <2>2, <2>3, FeedsTypes DEF RefreshOnce
<1>6. CASE RefreshOnce15m
  <2>1. UNCHANGED <<fnow, spot, held, raced, opens, rnow, rspot, todoTicks, books>>
    BY <1>6 DEF RefreshOnce15m
  <2>2. ASSUME NEW S \in SUBSET Upcoming(FMarkets \ (Series1 \union Series2)),
               registry' = WithRecords(S), detached' = detached \union (S \intersect DOMAIN held)
        PROVE  FeedsInv'
    <3>1. S \subseteq Upcoming(FMarkets)
      BY <2>2 DEF Upcoming
    <3>2. registry' = [m \in Known \cup S |-> IF m \in Known THEN registry[m] ELSE NewRecord]
      BY <2>2 DEF WithRecords
    <3>3. \A m \in DOMAIN held \ detached' : m \notin detached /\ (m \in Known => m \in Known \cup S)
      BY <2>2
    <3>. DEFINE kept == Known \cup S
    <3>4. kept \subseteq Known \cup S /\ books' \subseteq kept /\ \A m \in Known \ kept : Closes[m] <= fnow
      BY <1>0, <2>1
    <3>5. registry' = [m \in kept |-> IF m \in Known THEN registry[m] ELSE NewRecord]
      BY <3>2
    <3>6. \A m \in DOMAIN held \ detached' : m \notin detached /\ (m \in Known => m \in kept)
      BY <3>3
    <3>. HIDE DEF kept
    <3>. QED
      BY <2>1, <3>1, <3>4, <3>5, <3>6, FeedsRefresh
  <2>3. CASE UNCHANGED <<registry, detached, rpage>>
    BY <1>0, <2>1, <2>3, FeedsFrame
  <2>. QED
    BY <1>6, <2>2, <2>3 DEF RefreshOnce15m
<1>7. CASE StartRound
  BY <1>7, FeedsRound
<1>8. CASE RecordMarket
  BY <1>8, FeedsRecord
<1>9. CASE EndRound
  <2>1. /\ UNCHANGED <<fnow, spot, registry, books, opens, raced>> /\ held' = << >>
        /\ rnow' = 0 /\ rspot' = 0 /\ todoTicks' = {}
    BY <1>9 DEF EndRound
  <2>2. Known' = Known /\ DOMAIN held' = {} /\ held' = [m \in DOMAIN held' |-> held'[m]]
    BY <2>1 DEF Known
  <2>3. FeedsTyped'
    BY <2>1, <2>2 DEF FeedsInv, FeedsTyped, Plausible, Opening
  <2>. QED
    BY <2>1, <2>2, <2>3
       DEF FeedsInv, HeldCurrent, ForgottenClosed, OneOpenPrice, BooksOfKnownMarkets
<1>. QED
  BY <1>1, <1>2, <1>3, <1>4, <1>5, <1>6, <1>7, <1>8, <1>9 DEF FeedsNext

LEMMA FeedsSafe == FeedsInv => OpenPriceStable /\ BooksOfKnownMarkets
<1>1. SUFFICES ASSUME FeedsInv, NEW m \in FMarkets
               PROVE  /\ m \notin raced => Cardinality(opens[m]) <= 1
                      /\ \A p \in opens[m] : p <= Opening(m) + CaptureTime
                      /\ m \in Known \ raced /\ opens[m] # {} => registry[m].open \in opens[m]
  BY DEF OpenPriceStable, FeedsInv
<1>2. ASSUME m \notin raced PROVE Cardinality(opens[m]) <= 1
  <2>1. PICK v : opens[m] \subseteq {v}
    BY <1>1, <1>2 DEF FeedsInv, OneOpenPrice
  <2>2. IsFiniteSet({v}) /\ Cardinality({v}) = 1
    BY FS_Singleton
  <2>. QED
    BY <2>1, <2>2, FS_Subset
<1>3. \A p \in opens[m] : p <= Opening(m) + CaptureTime
  BY <1>1 DEF FeedsInv, FeedsTyped
<1>4. m \in Known \ raced /\ opens[m] # {} => registry[m].open \in opens[m]
  BY <1>1 DEF FeedsInv, OneOpenPrice
<1>. QED
  BY <1>2, <1>3, <1>4

\* All ticks of a market carry one open price, taken in the first seconds of
\* its window, however the refresher interleaves with the recorder, except for
\* a market whose record was replaced between the round's start and the capture.
THEOREM OpenPriceStableHolds == FeedsSpec => []OpenPriceStable
<1>. QED
  BY FeedsStart, FeedsStep, FeedsSafe, PTL DEF FeedsSpec

\* A late order-book event never brings back the book of a forgotten market.
THEOREM BooksOfKnownMarketsHolds == FeedsSpec => []BooksOfKnownMarkets
<1>. QED
  BY FeedsStart, FeedsStep, FeedsSafe, PTL DEF FeedsSpec

-----------------------------------------------------------------------------
(* The trade streams: what a connection can take with it. *)

\* What a trade that is neither a row nor waiting can have been lost with.
LossPerDrop == IF tvenue = "binance" THEN FlushAt ELSE 1

TradesInv ==
    /\ arrived \in Nat /\ tdrops \in Nat /\ buffer \in Seq(Nat) /\ IsFiniteSet(tlost)
    /\ tvenue # "binance" \/ tlink = "down" => buffer = << >>
    /\ stored \intersect ToSet(buffer) = {} /\ tlost \intersect ToSet(buffer) = {}
    /\ TradeLossBounded

LEMMA ToSetSize ==
    ASSUME NEW s \in Seq(Nat)
    PROVE  IsFiniteSet(ToSet(s)) /\ Cardinality(ToSet(s)) <= Len(s)
<1>1. s \in Surjection(1 .. Len(s), ToSet(s))
  <2>1. DOMAIN s = 1 .. Len(s) /\ s \in [1 .. Len(s) -> Nat]
    OBVIOUS
  <2>2. s \in [1 .. Len(s) -> ToSet(s)]
    BY <2>1 DEF ToSet
  <2>3. \A t \in ToSet(s) : \E i \in 1 .. Len(s) : s[i] = t
    BY <2>1 DEF ToSet
  <2>. QED
    BY <2>2, <2>3 DEF Surjection
<1>2. IsFiniteSet(1 .. Len(s)) /\ Cardinality(1 .. Len(s)) = Len(s)
  <2>1. \A n \in Nat : IsFiniteSet(1 .. n) /\ Cardinality(1 .. n) = IF 1 > n THEN 0 ELSE n - 1 + 1
    BY FS_Interval
  <2>2. Len(s) \in Nat
    OBVIOUS
  <2>3. \A n \in Nat : (IF 1 > n THEN 0 ELSE n - 1 + 1) = n
    OBVIOUS
  <2>. QED
    BY <2>1, <2>2, <2>3
<1>. QED
  BY <1>1, <1>2, FS_Surjection

LEMMA ToSetAppend ==
    ASSUME NEW s \in Seq(Nat), NEW e \in Nat
    PROVE  /\ Append(s, e) \in Seq(Nat) /\ ToSet(Append(s, e)) = ToSet(s) \cup {e}
           /\ Len(Append(s, e)) = Len(s) + 1
<1>1. /\ DOMAIN s = 1 .. Len(s) /\ DOMAIN Append(s, e) = 1 .. Len(s) + 1
      /\ \A i \in 1 .. Len(s) : Append(s, e)[i] = s[i]
      /\ Append(s, e)[Len(s) + 1] = e /\ Len(s) \in Nat
  OBVIOUS
<1>2. ToSet(Append(s, e)) \subseteq ToSet(s) \cup {e}
  BY <1>1 DEF ToSet
<1>3. ToSet(s) \cup {e} \subseteq ToSet(Append(s, e))
  BY <1>1 DEF ToSet
<1>. QED
  BY <1>2, <1>3

LEMMA TradesStart == TradesInit => TradesInv
<1>1. SUFFICES ASSUME TradesInit PROVE TradesInv
  OBVIOUS
<1>2. /\ arrived = 0 /\ tdrops = 0 /\ buffer = << >> /\ stored = {} /\ tlost = {}
  BY <1>1 DEF TradesInit
<1>3. ToSet(<< >>) = {} /\ 1 .. 0 = {} /\ Len(<< >>) = 0 /\ << >> \in Seq(Nat)
  BY DEF ToSet
<1>4. IsFiniteSet({}) /\ Cardinality({}) = 0
  BY FS_EmptySet
<1>5. FlushAt \in Nat \ {0} /\ \A n \in Nat : 0 <= 0 * n
  BY TradesAssumption
<1>6. 0 <= 0 * (IF tvenue = "binance" THEN FlushAt ELSE 1)
  BY <1>5
<1>. QED
  BY <1>2, <1>3, <1>4, <1>5, <1>6 DEF TradesInv, TradeLossBounded

LEMMA TradesStep ==
    ASSUME TradesInv, [TradesNext]_tradeVars
    PROVE  TradesInv'
<1>. USE DEF TradesInv
<1>0. /\ FlushAt \in Nat \ {0} /\ arrived \in Nat /\ tdrops \in Nat /\ buffer \in Seq(Nat)
      /\ ToSet(<< >>) = {} /\ Len(<< >>) = 0 /\ << >> \in Seq(Nat)
  BY TradesAssumption DEF ToSet
<1>a. /\ 1 .. arrived = stored \union ToSet(buffer) \union tlost
      /\ stored \intersect tlost = {} /\ Len(buffer) < FlushAt
      /\ Cardinality(tlost) <= tdrops * LossPerDrop
  BY DEF TradeLossBounded, LossPerDrop
<1>b. 1 .. arrived + 1 = (1 .. arrived) \cup {arrived + 1} /\ arrived + 1 \notin 1 .. arrived
  BY <1>0
<1>1. CASE TradeConnect
  <2>1. tlink = "down" /\ buffer' = << >> /\ UNCHANGED <<tvenue, arrived, stored, tlost, tdrops>>
    BY <1>1 DEF TradeConnect
  <2>. QED
    BY <2>1 DEF TradeLossBounded
<1>2. CASE BinanceTrade
  <2>. DEFINE batch == Append(buffer, arrived + 1)
  <2>1. /\ arrived' = arrived + 1 /\ UNCHANGED <<tvenue, tlink, tlost, tdrops>>
        /\ tvenue = "binance" /\ tlink = "up"
        /\ \/ buffer' = << >> /\ stored' = stored \union ToSet(batch)
           \/ Len(batch) < FlushAt /\ buffer' = batch /\ UNCHANGED stored
    BY <1>2 DEF BinanceTrade, Arrives
  <2>2. ToSet(batch) = ToSet(buffer) \cup {arrived + 1} /\ batch \in Seq(Nat)
    BY <1>0, ToSetAppend
  <2>. HIDE DEF batch
  <2>3. /\ 1 .. arrived' = stored' \union ToSet(buffer') \union tlost'
        /\ stored' \intersect ToSet(buffer') = {} /\ tlost' \intersect ToSet(buffer') = {}
        /\ stored' \intersect tlost' = {} /\ Len(buffer') < FlushAt /\ buffer' \in Seq(Nat)
    <3>1. CASE buffer' = << >> /\ stored' = stored \union ToSet(batch)
      BY <1>0, <1>a, <1>b, <2>1, <2>2, <3>1
    <3>2. CASE Len(batch) < FlushAt /\ buffer' = batch /\ UNCHANGED stored
      BY <1>0, <1>a, <1>b, <2>1, <2>2, <3>2
    <3>. QED
      BY <2>1, <3>1, <3>2
  <2>. QED
    BY <1>0, <1>a, <2>1, <2>3 DEF TradeLossBounded, LossPerDrop
<1>3. CASE VenueTrade
  <2>1. /\ arrived' = arrived + 1 /\ UNCHANGED <<tvenue, tlink, buffer, tlost, tdrops>>
        /\ stored' = stored \union {arrived + 1}
    BY <1>3 DEF VenueTrade, Arrives
  <2>2. /\ 1 .. arrived' = stored' \union ToSet(buffer) \union tlost
        /\ stored' \intersect ToSet(buffer) = {} /\ stored' \intersect tlost = {}
    BY <1>a, <1>b, <2>1
  <2>. QED
    BY <1>0, <1>a, <2>1, <2>2 DEF TradeLossBounded, LossPerDrop
<1>4. CASE TradeDrop
  <2>1. /\ tdrops' = tdrops + 1 /\ buffer' = << >> /\ UNCHANGED <<tvenue, stored>>
        /\ arrived' \in {arrived, arrived + 1}
        /\ tlost' = tlost \union ToSet(buffer) \union (arrived + 1 .. arrived')
    BY <1>4 DEF TradeDrop, Arrives
  <2>2. (arrived + 1 .. arrived') \subseteq {arrived + 1}
    BY <1>0, <2>1
  <2>3. 1 .. arrived' = (1 .. arrived) \cup (arrived + 1 .. arrived')
    BY <1>0, <2>1
  <2>4. /\ 1 .. arrived' = stored' \union ToSet(buffer') \union tlost'
        /\ stored' \intersect ToSet(buffer') = {} /\ tlost' \intersect ToSet(buffer') = {}
        /\ stored' \intersect tlost' = {}
    BY <1>0, <1>a, <1>b, <2>1, <2>2, <2>3
  <2>5. IsFiniteSet({arrived + 1}) /\ Cardinality({arrived + 1}) = 1
    BY FS_Singleton
  <2>6. /\ IsFiniteSet(arrived + 1 .. arrived')
        /\ Cardinality(arrived + 1 .. arrived') <= 1 /\ Cardinality(arrived + 1 .. arrived') \in Nat
    BY <2>2, <2>5, FS_Subset, FS_CardinalityType
  <2>7. /\ IsFiniteSet(ToSet(buffer)) /\ Cardinality(ToSet(buffer)) <= Len(buffer)
        /\ Cardinality(ToSet(buffer)) \in Nat
    BY <1>0, ToSetSize, FS_CardinalityType
  <2>8. \A S, T : IsFiniteSet(S) /\ IsFiniteSet(T) =>
           /\ IsFiniteSet(S \cup T) /\ Cardinality(S \cup T) \in Nat
           /\ Cardinality(S \cup T) <= Cardinality(S) + Cardinality(T)
    <3>1. SUFFICES ASSUME NEW S, NEW T, IsFiniteSet(S), IsFiniteSet(T)
                   PROVE  /\ IsFiniteSet(S \cup T) /\ Cardinality(S \cup T) \in Nat
                          /\ Cardinality(S \cup T) <= Cardinality(S) + Cardinality(T)
      OBVIOUS
    <3>2. IsFiniteSet(S \cup T) /\ Cardinality(S \cup T) = Cardinality(S) + Cardinality(T) - Cardinality(S \cap T)
      BY <3>1, FS_Union
    <3>3. IsFiniteSet(S \cap T)
      BY <3>1, FS_Subset
    <3>4. /\ Cardinality(S) \in Nat /\ Cardinality(T) \in Nat /\ Cardinality(S \cap T) \in Nat
          /\ Cardinality(S \cup T) \in Nat
      BY <3>1, <3>2, <3>3, FS_CardinalityType
    <3>. QED
      BY <3>2, <3>4
  <2>9. /\ IsFiniteSet(tlost \cup ToSet(buffer)) /\ Cardinality(tlost \cup ToSet(buffer)) \in Nat
        /\ Cardinality(tlost \cup ToSet(buffer)) <= Cardinality(tlost) + Cardinality(ToSet(buffer))
    BY <2>7, <2>8
  <2>10. /\ IsFiniteSet(tlost') /\ Cardinality(tlost') \in Nat
         /\ Cardinality(tlost') <= Cardinality(tlost \cup ToSet(buffer)) + Cardinality(arrived + 1 .. arrived')
    BY <2>1, <2>6, <2>8, <2>9
  <2>11. Cardinality(tlost) \in Nat
    BY FS_CardinalityType
  <2>12. Cardinality(tlost') <= Cardinality(tlost) + Len(buffer) + 1
    BY <1>0, <2>6, <2>7, <2>9, <2>10, <2>11
  <2>13. Len(buffer) + 1 <= LossPerDrop /\ LossPerDrop \in Nat
    BY <1>0, <1>a DEF LossPerDrop
  <2>14. (tdrops + 1) * LossPerDrop = tdrops * LossPerDrop + LossPerDrop /\ tdrops * LossPerDrop \in Nat
    <3>1. \A d, k \in Nat : (d + 1) * k = d * k + k /\ d * k \in Nat
      OBVIOUS
    <3>. QED
      BY <1>0, <2>13, <3>1
  <2>15. Cardinality(tlost') <= (tdrops + 1) * LossPerDrop
    <3>1. \A a, b, c, d, e \in Nat : a <= b + c + 1 /\ b <= d /\ c + 1 <= e => a <= d + e
      OBVIOUS
    <3>. QED
      BY <1>0, <1>a, <2>10, <2>11, <2>12, <2>13, <2>14, <3>1
  <2>. QED
    BY <1>0, <2>1, <2>4, <2>10, <2>15 DEF TradeLossBounded, LossPerDrop
<1>5. CASE UNCHANGED tradeVars
  BY <1>5 DEF tradeVars, TradeLossBounded
<1>. QED
  BY <1>1, <1>2, <1>3, <1>4, <1>5 DEF TradesNext

-----------------------------------------------------------------------------
(* The oracle's loops: one alert per stale stretch, one row per bar. *)

ChainInv ==
    /\ streak \in Nat /\ staleRun = streak
    /\ fired <=> streak >= MaxStaleStreak
    /\ StaleAlertExact

\* The price at which a bar is stored once that is settled.
SettledPrice(b) == IF b \in Quoted THEN -1 ELSE b

\* A bar has a row at another price only if it was read before it was settled.
ClustersInv ==
    /\ minute \in Nat /\ closes \subseteq Nat
    /\ \A k \in DOMAIN clusters : k[1] \notin early => k = <<k[1], SettledPrice(k[1])>>
    /\ \A b \in repaired : /\ b \in Nat /\ b < minute
                           /\ <<b, b>> \in DOMAIN clusters /\ clusters[<<b, b>>]

LEMMA ChainStep ==
    ASSUME ChainInv, ChainlinkPoll
    PROVE  ChainInv'
<1>. USE DEF ChainInv, StaleAlertExact
<1>0. MaxStaleStreak \in Nat \ {0} /\ streak \in Nat
  BY OracleAssumption
<1>1. CASE /\ streak' = streak + 1 /\ staleRun' = staleRun + 1
           /\ fired' = (fired \/ streak' >= MaxStaleStreak)
           /\ alerts' = alerts + IF fired' /\ ~fired THEN 1 ELSE 0
  <2>1. fired' <=> (streak >= MaxStaleStreak \/ streak + 1 >= MaxStaleStreak)
    BY <1>1
  <2>2. fired' <=> streak' >= MaxStaleStreak
    <3>1. \A x, y \in Nat : (x >= y \/ x + 1 >= y) <=> x + 1 >= y
      OBVIOUS
    <3>. QED
      BY <1>0, <1>1, <2>1, <3>1
  <2>3. streak' \in Nat /\ staleRun' = streak'
    BY <1>0, <1>1
  <2>4. alerts' = IF staleRun' >= MaxStaleStreak THEN 1 ELSE 0
    <3>1. alerts = IF streak >= MaxStaleStreak THEN 1 ELSE 0
      OBVIOUS
    <3>2. alerts' = alerts + IF streak + 1 >= MaxStaleStreak /\ ~(streak >= MaxStaleStreak) THEN 1 ELSE 0
      BY <1>1, <2>1
    <3>. QED
      BY <1>0, <1>1, <2>3, <3>1, <3>2
  <2>. QED
    BY <2>2, <2>3, <2>4
<1>2. CASE streak' = 0 /\ fired' = FALSE /\ staleRun' = 0 /\ alerts' = 0
  <2>1. ~(0 >= MaxStaleStreak)
    BY <1>0
  <2>2. fired' <=> streak' >= MaxStaleStreak
    BY <1>2, <2>1
  <2>. QED
    BY <1>2, <2>1, <2>2
<1>3. CASE UNCHANGED <<streak, fired, staleRun, alerts>>
  BY <1>3
<1>. QED
  BY <1>1, <1>2, <1>3 DEF ChainlinkPoll

\* The rows of bars priced by closes: a bar whose own close is among those
\* read gets the row of that close.
LEMMA OwnClosePrices ==
    ASSUME closes \subseteq Nat, NEW a \in Int, NEW z \in Int, NEW B, B \subseteq Bars(a, z)
    PROVE  LET keys == SpotKeys(B, WindowCloses(a, z))
           IN  /\ \A k \in keys : /\ k[1] \in B /\ k = <<k[1], k[2]>>
                                  /\ k[1] \in closes => k[2] = k[1]
               /\ \A b \in B \cap closes : <<b, b>> \in keys
<1>. DEFINE S == WindowCloses(a, z)
<1>0. SpotWalk \in Nat
  BY OracleAssumption
<1>1. ASSUME NEW b \in B \cap closes
      PROVE  SpotMinutes(S, b) # {} /\ Max(SpotMinutes(S, b)) = b
  <2>1. b \in Nat /\ a <= b /\ b <= z
    BY <1>1 DEF Bars
  <2>2. b \in SpotMinutes(S, b)
    BY <1>0, <1>1, <2>1 DEF SpotMinutes, WindowCloses
  <2>3. \A m \in SpotMinutes(S, b) : m \in Nat /\ m <= b
    BY DEF SpotMinutes, WindowCloses
  <2>4. \A x \in SpotMinutes(S, b) : (\A y \in SpotMinutes(S, b) : x >= y) => x = b
    BY <2>1, <2>2, <2>3
  <2>5. \A y \in SpotMinutes(S, b) : b >= y
    BY <2>1, <2>3
  <2>. HIDE DEF S
  <2>6. /\ Max(SpotMinutes(S, b)) \in SpotMinutes(S, b)
        /\ \A y \in SpotMinutes(S, b) : Max(SpotMinutes(S, b)) >= y
    BY <2>2, <2>5 DEF Max
  <2>. QED
    BY <2>2, <2>4, <2>6
<1>. HIDE DEF S
<1>2. \A b \in B \cap closes : <<b, b>> \in SpotKeys(B, S)
  BY <1>1 DEF SpotKeys
<1>3. ASSUME NEW k \in SpotKeys(B, S)
      PROVE  k[1] \in B /\ k = <<k[1], k[2]>> /\ (k[1] \in closes => k[2] = k[1])
  <2>1. PICK b \in B : k = <<b, Max(SpotMinutes(S, b))>>
    BY <1>3 DEF SpotKeys
  <2>. QED
    BY <1>1, <2>1
<1>. QED
  BY <1>2, <1>3 DEF S

LEMMA ClustersStep ==
    ASSUME ClustersInv, ClustersNext
    PROVE  ClustersInv'
<1>. USE DEF ClustersInv
<1>0. minute \in Nat /\ closes \subseteq Nat /\ LookBack \in Nat
  BY OracleAssumption
<1>1. CASE LiquidationPoll
  <2>. DEFINE bars == Bars(minute - LookBack, minute)
              closesRead == WindowCloses(minute - LookBack, minute)
  <2>1. PICK S \in {closesRead, {}} :
           /\ clusters' = [k \in DOMAIN clusters \union ExpandBars(bars, S) |->
                             IF k \in DOMAIN clusters THEN clusters[k] ELSE Complete(k[1])]
           /\ early' = early \union {b \in bars : IF b \in Quoted THEN ~Complete(b) ELSE b \notin closes}
           /\ UNCHANGED <<minute, closes, repaired>>
    BY <1>1 DEF LiquidationPoll
  <2>2. \A k \in SpotKeys(bars \ Quoted, closesRead) :
           /\ k[1] \in bars \ Quoted /\ k = <<k[1], k[2]>>
           /\ k[1] \in closes => k[2] = k[1]
    BY <1>0, OwnClosePrices
  <2>3. SpotKeys(bars \ Quoted, {}) = {}
    BY DEF SpotKeys, SpotMinutes
  <2>. DEFINE keys == ExpandBars(bars, S)
  <2>4. \A k \in keys : k[1] \notin early' => k = <<k[1], SettledPrice(k[1])>>
    <3>1. SUFFICES ASSUME NEW k \in keys, k[1] \notin early' PROVE k = <<k[1], SettledPrice(k[1])>>
      OBVIOUS
    <3>. HIDE DEF bars, closesRead
    <3>2. CASE k \in {<<b, OwnPrice(b)>> : b \in bars \intersect Quoted}
      <4>1. PICK b \in bars \intersect Quoted : k = <<b, OwnPrice(b)>>
        BY <3>2
      <4>2. Complete(b)
        BY <2>1, <3>1, <4>1
      <4>. QED
        BY <4>1, <4>2 DEF OwnPrice, SettledPrice
    <3>3. CASE k \in SpotKeys(bars \ Quoted, S)
      <4>1. k \in SpotKeys(bars \ Quoted, closesRead)
        BY <2>1, <2>3, <3>3
      <4>2. k[1] \in bars \ Quoted /\ k = <<k[1], k[2]>> /\ (k[1] \in closes => k[2] = k[1])
        BY <2>2, <4>1
      <4>3. k[1] \in closes
        BY <2>1, <3>1, <4>2
      <4>. QED
        BY <4>2, <4>3 DEF SettledPrice
    <3>. QED
      BY <3>1, <3>2, <3>3 DEF ExpandBars
  <2>. HIDE DEF bars, keys
  <2>5. DOMAIN clusters' = DOMAIN clusters \cup keys
    BY <2>1 DEF keys
  <2>6. \A k \in DOMAIN clusters' : k[1] \notin early' => k = <<k[1], SettledPrice(k[1])>>
    BY <2>1, <2>4, <2>5
  <2>7. \A b \in repaired' : b \in Nat /\ b < minute' /\ <<b, b>> \in DOMAIN clusters' /\ clusters'[<<b, b>>]
    BY <2>1, <2>5
  <2>. QED
    BY <1>0, <2>1, <2>6, <2>7
<1>2. CASE BackfillClusters
  <2>1. PICK a, z \in 0 .. minute :
           LET bars == Bars(a, z)
               keys == SpotKeys(bars, WindowCloses(a, z))
           IN /\ clusters' = [k \in DOMAIN clusters \union keys |->
                                IF k \in keys THEN Complete(k[1]) ELSE clusters[k]]
              /\ early' = early \union {b \in bars : b \in Quoted \/ b \notin closes}
              /\ repaired' = repaired \union {b \in bars : b \in closes /\ Complete(b)}
              /\ UNCHANGED <<minute, closes>>
    BY <1>2 DEF BackfillClusters
  <2>. DEFINE bars == Bars(a, z)
              keys == SpotKeys(bars, WindowCloses(a, z))
  <2>2. /\ \A k \in keys : /\ k[1] \in bars /\ k = <<k[1], k[2]>>
                           /\ k[1] \in closes => k[2] = k[1]
        /\ \A b \in bars \cap closes : <<b, b>> \in keys
    BY <1>0, OwnClosePrices
  <2>3. /\ clusters' = [k \in DOMAIN clusters \union keys |->
                          IF k \in keys THEN Complete(k[1]) ELSE clusters[k]]
        /\ early' = early \union {b \in bars : b \in Quoted \/ b \notin closes}
        /\ repaired' = repaired \union {b \in bars : b \in closes /\ Complete(b)}
        /\ UNCHANGED <<minute, closes>>
    BY <2>1
  <2>4. \A b \in bars : b \in Nat
    BY DEF Bars
  <2>. HIDE DEF bars, keys
  <2>5. DOMAIN clusters' = DOMAIN clusters \cup keys
    BY <2>3
  <2>6. \A k \in DOMAIN clusters' : k[1] \notin early' => k = <<k[1], SettledPrice(k[1])>>
    BY <2>2, <2>3, <2>5 DEF SettledPrice
  <2>7. ASSUME NEW b \in repaired'
        PROVE  b \in Nat /\ b < minute' /\ <<b, b>> \in DOMAIN clusters' /\ clusters'[<<b, b>>]
    <3>1. b \in Nat /\ b < minute /\ (<<b, b>> \notin keys => b \in repaired)
      BY <2>2, <2>3, <2>4, <2>7 DEF Complete
    <3>2. CASE <<b, b>> \in keys
      BY <2>3, <2>5, <3>1, <3>2 DEF Complete
    <3>3. CASE <<b, b>> \notin keys
      BY <2>3, <2>5, <3>1, <3>3
    <3>. QED
      BY <3>2, <3>3
  <2>. QED
    BY <1>0, <2>3, <2>6, <2>7
<1>3. CASE Minute
  BY <1>0, <1>3 DEF Minute
<1>4. CASE StoreClose
  BY <1>0, <1>4 DEF StoreClose
<1>. QED
  BY <1>1, <1>2, <1>3, <1>4 DEF ClustersNext

LEMMA ClustersSafe == ClustersInv => ClustersSound
<1>1. SUFFICES ASSUME ClustersInv PROVE ClustersSound
  OBVIOUS
<1>2. ASSUME NEW b \in 0 .. minute, b \notin early PROVE Cardinality(RowsOf(b)) <= 1
  <2>1. RowsOf(b) \subseteq {<<b, SettledPrice(b)>>}
    BY <1>1, <1>2 DEF ClustersInv, RowsOf
  <2>2. IsFiniteSet({<<b, SettledPrice(b)>>}) /\ Cardinality({<<b, SettledPrice(b)>>}) = 1
    BY FS_Singleton
  <2>. QED
    BY <2>1, <2>2, FS_Subset
<1>. QED
  BY <1>1, <1>2 DEF ClustersInv, ClustersSound

LEMMA OracleStart == OracleInit => ChainInv /\ ClustersInv
<1>1. SUFFICES ASSUME OracleInit PROVE ChainInv /\ ClustersInv
  OBVIOUS
<1>2. ClustersInv
  <2>1. DOMAIN clusters = {} /\ minute = 0 /\ closes = {} /\ repaired = {}
    BY <1>1 DEF OracleInit
  <2>. QED
    BY <2>1 DEF ClustersInv
<1>3. ~(0 >= MaxStaleStreak)
  BY OracleAssumption
<1>4. fired <=> streak >= MaxStaleStreak
  BY <1>1, <1>3 DEF OracleInit
<1>. QED
  BY <1>1, <1>2, <1>3, <1>4 DEF OracleInit, ChainInv, StaleAlertExact

LEMMA OracleStep ==
    ASSUME ChainInv, ClustersInv, [OracleNext]_oracleVars
    PROVE  ChainInv' /\ ClustersInv'
<1>1. CASE ChainlinkPoll
  <2>1. ClustersInv'
    BY <1>1 DEF ChainlinkPoll, liqVars, ClustersInv
  <2>. QED
    BY <1>1, <2>1, ChainStep
<1>2. CASE ClustersNext
  <2>1. UNCHANGED <<streak, fired, staleRun, alerts>>
    BY <1>2 DEF ClustersNext, LiquidationPoll, BackfillClusters, Minute, StoreClose, chainVars
  <2>. QED
    BY <1>2, <2>1, ClustersStep DEF ChainInv, StaleAlertExact
<1>3. CASE UNCHANGED oracleVars
  BY <1>3 DEF oracleVars, chainVars, liqVars, ChainInv, StaleAlertExact, ClustersInv
<1>. QED
  BY <1>1, <1>2, <1>3 DEF OracleNext

-----------------------------------------------------------------------------
(* The backfill script: the manifest is what the tables hold. *)

\* How far the phases of a clean run have come, market by market.
ScriptPhases ==
    /\ stage \in {"metadata", "prices", "trades"} => path \in Scripts
    /\ stage \in {"prices", "trades"} => todo \subseteq out
    /\ clean => opts.prices /\ opts.trades
    /\ clean /\ stage = "prices" => \A m \in out \ todo : priced[m] = {"YES", "NO"}
    /\ clean /\ stage = "trades" =>
          /\ \A m \in out : priced[m] = {"YES", "NO"}
          /\ \A m \in out \ todo : m \in traded

FlagsBacked ==
    \A m \in DOMAIN manifest :
       (manifest[m].book => priced[m] # {}) /\ (manifest[m].trade => m \in traded)

CleanRunFills ==
    path \in Scripts /\ stage = "done" /\ clean =>
       \A m \in out : /\ priced[m] = {"YES", "NO"} /\ m \in traded
                      /\ m \in DOMAIN manifest /\ manifest[m].book /\ manifest[m].trade

ManifestInv ==
    /\ Family \subseteq Events /\ out \subseteq Events /\ opts \in Options
    /\ priced \in [Events -> SUBSET {"YES", "NO"}] /\ DOMAIN manifest \subseteq Events
    /\ ScriptPhases /\ FlagsBacked /\ CleanRunFills

LEMMA DiscoveryStart == DiscoveryInit => ManifestInv
<1>1. SUFFICES ASSUME DiscoveryInit PROVE ManifestInv
  OBVIOUS
<1>2. /\ stage = "page" /\ out = {} /\ manifest = << >> /\ Family \subseteq Events /\ opts \in Options
      /\ priced = [e \in Events |-> {}] /\ clean = (opts.prices /\ opts.trades)
  BY <1>1, DiscoveryAssumption DEF DiscoveryInit
<1>3. DOMAIN manifest = {}
  BY <1>2
<1>4. ScriptPhases /\ FlagsBacked /\ CleanRunFills
  BY <1>2, <1>3 DEF ScriptPhases, FlagsBacked, CleanRunFills
<1>. QED
  BY <1>2, <1>3, <1>4 DEF ManifestInv

LEMMA DiscoveryStep ==
    ASSUME ManifestInv, [DiscoveryNext]_discoveryVars
    PROVE  ManifestInv'
<1>. USE DEF ManifestInv, inputs, tables
<1>1. CASE ListEvent \/ DiscoverViaSeries \/ DiscoverViaGlobalEvents
  <2>1. /\ stage = "page" /\ UNCHANGED <<path, Family, opts, out, priced, traded, manifest, clean>>
        /\ stage' = "page" \/ (path \notin Scripts /\ stage' \in {"page", "done", "capped"})
    BY <1>1 DEF ListEvent, DiscoverViaSeries, DiscoverViaGlobalEvents, Scripts
  <2>. QED
    BY <2>1 DEF ScriptPhases, FlagsBacked, CleanRunFills
<1>2. CASE Enumerate
  <2>1. /\ stage = "page" /\ path \in Scripts /\ stage' \in {"page", "metadata"} /\ out' \subseteq out \cup Family
        /\ UNCHANGED <<path, Family, opts, priced, traded, manifest, clean>>
    BY <1>2 DEF Enumerate, MarketRows
  <2>. QED
    BY <2>1 DEF ScriptPhases, FlagsBacked, CleanRunFills
<1>3. CASE PageError \/ ScriptDies
  <2>1. /\ stage' = "failed"
        /\ UNCHANGED <<path, Family, opts, out, priced, traded, manifest, clean>>
    BY <1>3 DEF PageError, ScriptDies
  <2>. QED
    BY <2>1 DEF ScriptPhases, FlagsBacked, CleanRunFills
<1>4. CASE StoreMetadata
  <2>1. /\ stage = "metadata" /\ stage' = "prices" /\ todo' = IF opts.prices THEN out ELSE {}
        /\ UNCHANGED <<path, Family, opts, out, priced, traded, manifest, clean>>
    BY <1>4 DEF StoreMetadata
  <2>. QED
    BY <2>1 DEF ScriptPhases, FlagsBacked, CleanRunFills
<1>5. CASE PriceHistory
  <2>1. PICK m \in todo :
           /\ todo' = todo \ {m}
           /\ \/ clean' = FALSE /\ UNCHANGED priced
              \/ priced' = [priced EXCEPT ![m] = {"YES", "NO"}] /\ UNCHANGED clean
              \/ /\ clean' = FALSE
                 /\ \E kept \in {{}, {"YES"}, {"NO"}} : priced' = [priced EXCEPT ![m] = @ \union kept]
    BY <1>5 DEF PriceHistory
  <2>2. stage = "prices" /\ UNCHANGED <<path, Family, opts, stage, out, traded, manifest>>
    BY <1>5 DEF PriceHistory
  <2>3. m \in out /\ m \in Events /\ todo' \subseteq out
    BY <2>1, <2>2 DEF ScriptPhases
  <2>4. priced' \in [Events -> SUBSET {"YES", "NO"}] /\ \A n \in Events : priced[n] \subseteq priced'[n]
    BY <2>1, <2>3
  <2>5. \A n : priced[n] # {} /\ n \in Events => priced'[n] # {}
    BY <2>4
  <2>7. FlagsBacked'
    BY <2>2, <2>5 DEF FlagsBacked
  <2>8. clean' => clean /\ \A n \in out \ todo' : priced'[n] = {"YES", "NO"}
    BY <2>1, <2>2, <2>3 DEF ScriptPhases
  <2>9. ScriptPhases'
    BY <2>2, <2>3, <2>8 DEF ScriptPhases
  <2>. QED
    BY <2>2, <2>4, <2>7, <2>9 DEF CleanRunFills
<1>6. CASE PricesDone
  <2>1. /\ stage = "prices" /\ todo = {} /\ stage' = "trades" /\ todo' = IF opts.trades THEN out ELSE {}
        /\ UNCHANGED <<path, Family, opts, out, priced, traded, manifest, clean>>
    BY <1>6 DEF PricesDone
  <2>. QED
    BY <2>1 DEF ScriptPhases, FlagsBacked, CleanRunFills
<1>7. CASE Trades
  <2>1. PICK m \in todo : /\ todo' = todo \ {m} /\ traded \subseteq traded'
                          /\ clean' => clean /\ traded' = traded \union {m}
    BY <1>7 DEF Trades
  <2>2. stage = "trades" /\ UNCHANGED <<path, Family, opts, stage, out, priced, manifest>>
    BY <1>7 DEF Trades
  <2>3. ScriptPhases'
    BY <2>1, <2>2 DEF ScriptPhases
  <2>. QED
    BY <2>1, <2>2, <2>3 DEF FlagsBacked, CleanRunFills
<1>8. CASE WriteManifest
  <2>1. /\ stage = "trades" /\ todo = {} /\ stage' = "done"
        /\ manifest' = [m \in out \union DOMAIN manifest |->
                          IF m \in out THEN [book |-> priced[m] # {}, trade |-> m \in traded]
                                       ELSE manifest[m]]
        /\ UNCHANGED <<path, Family, opts, out, priced, traded, clean>>
    BY <1>8 DEF WriteManifest
  <2>2. FlagsBacked'
    BY <2>1 DEF FlagsBacked
  <2>3. CleanRunFills'
    <3>1. SUFFICES ASSUME clean, NEW m \in out
                   PROVE  /\ priced[m] = {"YES", "NO"} /\ m \in traded
                          /\ m \in DOMAIN manifest' /\ manifest'[m].book /\ manifest'[m].trade
      BY <2>1 DEF CleanRunFills
    <3>2. priced[m] = {"YES", "NO"} /\ m \in traded
      BY <2>1, <3>1 DEF ScriptPhases
    <3>3. m \in DOMAIN manifest' /\ manifest'[m] = [book |-> priced[m] # {}, trade |-> m \in traded]
      BY <2>1
    <3>4. manifest'[m].book = (priced[m] # {}) /\ manifest'[m].trade = (m \in traded)
      BY <3>3
    <3>5. priced[m] # {}
      BY <3>2
    <3>. QED
      BY <3>2, <3>3, <3>4, <3>5
  <2>. QED
    BY <2>1, <2>2, <2>3 DEF ScriptPhases
<1>9. CASE DiscoverAgain
  <2>1. /\ opts' \in Options /\ clean' = (opts'.prices /\ opts'.trades) /\ stage' = "page" /\ out' = {}
        /\ UNCHANGED <<path, Family, priced, traded, manifest>>
    BY <1>9 DEF DiscoverAgain
  <2>. QED
    BY <2>1 DEF ScriptPhases, FlagsBacked, CleanRunFills
<1>10. CASE UNCHANGED discoveryVars
  BY <1>10 DEF discoveryVars, ScriptPhases, FlagsBacked, CleanRunFills
<1>. QED
  BY <1>1, <1>2, <1>3, <1>4, <1>5, <1>6, <1>7, <1>8, <1>9, <1>10 DEF DiscoveryNext

-----------------------------------------------------------------------------
(* Least and greatest elements, and the pages cut out with them. *)

LEMMA LeastNat ==
    ASSUME NEW S, S \subseteq Nat, S # {}
    PROVE  Min(S) \in S /\ \A y \in S : Min(S) <= y
<1>. DEFINE less == {ss \in Nat \X Nat : ss[1] < ss[2]}
<1>1. IsWellFoundedOn(less, Nat)
  BY NatLessThanWellFounded DEF OpToRel
<1>. HIDE DEF less
<1>2. PICK x \in S : \A y \in S : <<y, x>> \notin less
  BY <1>1, WFMin
<1>3. \A y \in S : x \in Nat /\ y \in Nat /\ ~(y < x)
  BY <1>2 DEF less
<1>4. \A y \in S : x <= y
  BY <1>3
<1>. QED
  BY <1>4 DEF Min

LEMMA GreatestNat ==
    ASSUME NEW S, S \subseteq Nat, S # {}, NEW n \in Nat, \A x \in S : x <= n
    PROVE  Max(S) \in S /\ \A y \in S : y <= Max(S)
<1>. DEFINE T == {n - x : x \in S}
<1>0. \A x \in S : x \in Nat /\ x <= n /\ n - x \in Nat
  OBVIOUS
<1>1. T \subseteq Nat /\ T # {}
  BY <1>0
<1>2. Min(T) \in T /\ \A d \in T : Min(T) <= d
  BY <1>1, LeastNat
<1>3. PICK x \in S : Min(T) = n - x
  BY <1>2
<1>4. \A y \in S : n - x <= n - y
  BY <1>2, <1>3
<1>. HIDE DEF T
<1>5. \A y \in S : x >= y
  BY <1>0, <1>4
<1>6. Max(S) \in S /\ \A y \in S : Max(S) >= y
  BY <1>5 DEF Max
<1>. QED
  BY <1>6

LEMMA PartOfInterval ==
    ASSUME NEW S, S \subseteq Nat, NEW n \in Nat, \A x \in S : x <= n
    PROVE  IsFiniteSet(S)
<1>1. IsFiniteSet(0 .. n) /\ S \subseteq 0 .. n
  BY FS_Interval
<1>. QED
  BY <1>1, FS_Subset

\* A page of oldest rows is an initial part of its range, not empty unless the
\* range is, and with room for two it is not just the first row either.
LEMMA OldestRows ==
    ASSUME NEW S, S \subseteq Nat, NEW n \in Nat, \A x \in S : x <= n
    PROVE  /\ Oldest(S) \subseteq S
           /\ S # {} => Oldest(S) # {}
           /\ \A x \in Oldest(S), t \in S : t <= x => t \in Oldest(S)
           /\ PageCandles > 1 =>
                 \A c \in Nat : (\A x \in S : c <= x) /\ (\A x \in Oldest(S) : x <= c)
                                => \A x \in S : x <= c
<1>0. PageCandles \in Nat \ {0} /\ IsFiniteSet({}) /\ Cardinality({}) = 0
  BY CandlesAssumption, FS_EmptySet
<1>a. \A t, x \in S : t <= x => {u \in S : u < t} \subseteq {u \in S : u < x}
  <2>1. \A t, x, u \in Nat : t <= x /\ u < t => u < x
    OBVIOUS
  <2>. QED
    BY <2>1
<1>1. \A t : IsFiniteSet({u \in S : u < t}) /\ Cardinality({u \in S : u < t}) \in Nat
  <2>1. IsFiniteSet(S)
    BY PartOfInterval
  <2>. QED
    BY <2>1, FS_Subset, FS_CardinalityType
<1>2. S # {} => Oldest(S) # {}
  <2>1. SUFFICES ASSUME S # {} PROVE Oldest(S) # {}
    OBVIOUS
  <2>2. PICK m \in S : \A y \in S : m <= y
    BY <2>1, LeastNat
  <2>3. {u \in S : u < m} = {}
    <3>1. \A x, y \in Nat : x <= y => ~(y < x)
      OBVIOUS
    <3>2. \A u \in S : u \in Nat
      OBVIOUS
    <3>. QED
      BY <2>2, <3>1, <3>2
  <2>. QED
    BY <1>0, <2>3 DEF Oldest
<1>3. ASSUME NEW x \in Oldest(S), NEW t \in S, t <= x
      PROVE  t \in Oldest(S)
  <2>1. x \in S /\ Cardinality({u \in S : u < x}) < PageCandles
    BY DEF Oldest
  <2>2. {u \in S : u < t} \subseteq {u \in S : u < x}
    BY <1>3, <1>a, <2>1
  <2>3. Cardinality({u \in S : u < t}) <= Cardinality({u \in S : u < x})
    BY <1>1, <2>2, FS_Subset
  <2>. QED
    BY <1>0, <1>1, <2>1, <2>3 DEF Oldest
<1>4. ASSUME PageCandles > 1, NEW c \in Nat, \A x \in S : c <= x, \A x \in Oldest(S) : x <= c,
             NEW y \in S, ~(y <= c)
      PROVE  FALSE
  <2>. DEFINE T == {x \in S : x > c}
  <2>1. y > c
    <3>1. y \in Nat
      OBVIOUS
    <3>2. ~(y <= c) /\ c \in Nat
      BY <1>4
    <3>. QED
      BY <3>1, <3>2
  <2>a. T \subseteq Nat /\ T # {}
    BY <2>1
  <2>2. PICK z \in T : \A x \in T : z <= x
    <3>. HIDE DEF T
    <3>. QED
      BY <2>a, LeastNat
  <2>3. z \in S /\ z > c /\ \A x \in S : x > c => z <= x
    BY <2>2
  <2>4. {u \in S : u < z} \subseteq {c}
    <3>1. SUFFICES ASSUME NEW u \in S, u < z PROVE u = c
      OBVIOUS
    <3>2. u \in Nat /\ z \in Nat
      BY <2>3
    <3>3. c <= u /\ (u > c => z <= u)
      BY <1>4, <2>3
    <3>. QED
      BY <3>1, <3>2, <3>3
  <2>5. IsFiniteSet({c}) /\ Cardinality({c}) = 1
    BY FS_Singleton
  <2>6. Cardinality({u \in S : u < z}) <= 1
    BY <2>4, <2>5, FS_Subset
  <2>7. z \in Oldest(S)
    BY <1>0, <1>1, <1>4, <2>3, <2>6 DEF Oldest
  <2>. QED
    BY <1>4, <2>3, <2>7
<1>. QED
  BY <1>2, <1>3, <1>4 DEF Oldest

\* A page of newest rows is a final part of its range.
LEMMA NewestRows ==
    ASSUME NEW S, S \subseteq Nat, NEW n \in Nat, \A x \in S : x <= n
    PROVE  /\ Newest(S) \subseteq S
           /\ S # {} => Newest(S) # {}
           /\ \A x \in Newest(S), t \in S : x <= t => t \in Newest(S)
<1>0. PageCandles \in Nat \ {0} /\ IsFiniteSet({}) /\ Cardinality({}) = 0
  BY CandlesAssumption, FS_EmptySet
<1>a. \A t, x \in S : x <= t => {u \in S : u > t} \subseteq {u \in S : u > x}
  <2>1. \A t, x, u \in Nat : x <= t /\ u > t => u > x
    OBVIOUS
  <2>. QED
    BY <2>1
<1>1. \A t : IsFiniteSet({u \in S : u > t}) /\ Cardinality({u \in S : u > t}) \in Nat
  <2>1. IsFiniteSet(S)
    BY PartOfInterval
  <2>. QED
    BY <2>1, FS_Subset, FS_CardinalityType
<1>2. S # {} => Newest(S) # {}
  <2>1. SUFFICES ASSUME S # {} PROVE Newest(S) # {}
    OBVIOUS
  <2>2. PICK m \in S : \A y \in S : y <= m
    BY <2>1, GreatestNat
  <2>3. {u \in S : u > m} = {}
    <3>1. \A x, y \in Nat : x <= y => ~(y < x)
      OBVIOUS
    <3>2. \A u \in S : u \in Nat
      OBVIOUS
    <3>. QED
      BY <2>2, <3>1, <3>2
  <2>. QED
    BY <1>0, <2>3 DEF Newest
<1>3. ASSUME NEW x \in Newest(S), NEW t \in S, x <= t
      PROVE  t \in Newest(S)
  <2>1. x \in S /\ Cardinality({u \in S : u > x}) < PageCandles
    BY DEF Newest
  <2>2. {u \in S : u > t} \subseteq {u \in S : u > x}
    BY <1>3, <1>a, <2>1
  <2>3. Cardinality({u \in S : u > t}) <= Cardinality({u \in S : u > x})
    BY <1>1, <2>2, FS_Subset
  <2>. QED
    BY <1>0, <1>1, <2>1, <2>3 DEF Newest
<1>. QED
  BY <1>2, <1>3 DEF Newest

-----------------------------------------------------------------------------
(* The candle table: complete ranges, final values. *)

CandleTypes ==
    /\ venue \in Venues /\ listed \in Listings /\ from \in Nat /\ to \in Nat
    /\ keeps \in {"oldest", "newest"}
    /\ clock \in Nat /\ began \in Nat /\ cursor \in Int
    /\ bf \in {"idle", "page", "failed", "done"}
    /\ ohlcv \in [listed -> {"none", "partial", "final"}]

\* A stored candle, or one that the venue's pages lose.
Covered(t) == ohlcv[t] # "none" \/ Lost(t)

\* A page with nothing but the row at the cursor is Kraken's last one only if
\* it has room for two.
RoomForTwo == venue = "kraken" => PageCandles > 1

\* While the backfill runs, the part of its range that the cursor has left
\* behind is covered.
BackfillInv ==
    /\ bf # "idle" => began <= clock
    /\ bf = "page" => /\ venue # "okx" => cursor \in Nat
                      /\ venue # "okx" /\ RoomForTwo => \A t \in Wanted : t < cursor => Covered(t)
                      /\ venue = "okx" => cursor <= to /\ \A t \in Wanted : t >= cursor => Covered(t)
    /\ bf = "done" /\ RoomForTwo => \A t \in Wanted : Covered(t)

\* Only candles not closed when the backfill began are written unfinished.
PartialRows ==
    \A t \in listed : ohlcv[t] = "partial" =>
       venue = "kraken" \/ (bf # "idle" /\ t <= to /\ began < t + CandleTicks)

CandlesInv == CandleTypes /\ BackfillInv /\ PartialRows

LEMMA CandleConsts ==
    CandleTypes => /\ CandleTicks \in Nat \ {0} /\ PageCandles \in Nat \ {0} /\ listed \subseteq Nat
                   /\ \A t, u \in listed : t < u => t + CandleTicks <= u
                   /\ Opened \subseteq Nat /\ \A t \in Opened : t <= clock
BY CandlesAssumption DEF CandleTypes, Opened

LEMMA CandlesStart == CandlesInit => CandlesInv
BY CandlesAssumption DEF CandlesInit, CandlesInv, CandleTypes, BackfillInv, PartialRows

\* An insert that does nothing on conflict keeps every row there is.
LEMMA Upserted ==
    ASSUME CandleTypes, NEW S, ohlcv' = UpsertMany(ohlcv, S), UNCHANGED <<listed, clock>>
    PROVE  /\ ohlcv' \in [listed -> {"none", "partial", "final"}]
           /\ \A t \in listed : ohlcv[t] # "none" => ohlcv'[t] = ohlcv[t]
           /\ \A t \in listed \cap S : ohlcv'[t] # "none"
           /\ \A t \in listed : ohlcv'[t] = "partial" =>
                 ohlcv[t] = "partial" \/ (t \in S /\ ~Closed(t))
<1>1. DOMAIN ohlcv = listed
  BY DEF CandleTypes
<1>2. \A t : Value(t) \in {"partial", "final"} /\ (Value(t) = "partial" => ~Closed(t))
  BY DEF Value
<1>3. ohlcv' = [t \in listed |-> IF t \in S /\ ohlcv[t] = "none" THEN Value(t) ELSE ohlcv[t]]
  BY <1>1 DEF UpsertMany
<1>. QED
  BY <1>2, <1>3 DEF CandleTypes

LEMMA CopyIsUpsert == \A S : BulkUpsertViaCopy(ohlcv, S, FALSE) = UpsertMany(ohlcv, S)
BY DEF BulkUpsertViaCopy, UpsertMany

\* Candles lost stay lost: later ones only come to be opened and stored.
LEMMA CoveredStays ==
    ASSUME CandleTypes, UNCHANGED <<venue, listed, from, to, keeps, began>>,
           clock' \in Nat, clock <= clock',
           \A t \in listed : ohlcv[t] # "none" => ohlcv'[t] = ohlcv[t]
    PROVE  Wanted' = Wanted /\ \A t \in Wanted : Covered(t) => Covered(t)'
<1>1. Wanted' = Wanted
  BY DEF Wanted
<1>2. SUFFICES ASSUME NEW t \in Wanted, Lost(t) PROVE Covered(t)'
  BY <1>1 DEF Covered, Wanted
<1>3. /\ listed \subseteq Nat /\ t \in Nat /\ PageCandles \in Nat /\ CandleTicks \in Nat
      /\ clock \in Nat
  BY CandleConsts DEF Wanted, CandleTypes
<1>. DEFINE far == t + PageCandles * CandleTicks
            next == {u \in listed : t < u /\ u <= far /\ ohlcv[u] # "none"}
            later == {u \in Opened : t < u}
<1>4. CASE venue = "okx"
  BY <1>2, <1>4 DEF Lost, Covered
<1>5. CASE venue = "bybit"
  <2>1. next \subseteq next' /\ Cardinality(next) >= PageCandles
    BY <1>2, <1>5 DEF Lost
  <2>2. IsFiniteSet(next')
    <3>1. far \in Nat /\ far' = far /\ listed' = listed
      BY <1>3
    <3>. HIDE DEF far
    <3>2. next' \subseteq Nat /\ \A u \in next' : u <= far
      BY <1>3, <3>1
    <3>. HIDE DEF next
    <3>. QED
      BY <3>1, <3>2, PartOfInterval
  <2>3. Cardinality(next) <= Cardinality(next') /\ Cardinality(next) \in Nat /\ Cardinality(next') \in Nat
    BY <2>1, <2>2, FS_Subset, FS_CardinalityType
  <2>4. Cardinality(next') >= PageCandles
    BY <1>3, <2>1, <2>3
  <2>. QED
    BY <1>5, <2>4 DEF Covered, Lost
<1>6. CASE venue = "kraken"
  <2>a. \A u \in Opened : u \in Opened'
    <3>1. SUFFICES ASSUME NEW u \in listed, u <= clock PROVE u <= clock'
      BY DEF Opened
    <3>2. u \in Nat
      BY <1>3
    <3>. QED
      BY <1>3, <3>1, <3>2
  <2>1. later \subseteq later' /\ Cardinality(later) >= PageCandles /\ keeps = "newest"
    BY <1>2, <1>6, <2>a DEF Lost
  <2>2. IsFiniteSet(later')
    <3>1. later' \subseteq Nat /\ \A u \in later' : u <= clock'
      BY <1>3 DEF Opened
    <3>. HIDE DEF later
    <3>. QED
      BY <3>1, PartOfInterval
  <2>3. /\ Cardinality(later) <= Cardinality(later')
        /\ Cardinality(later) \in Nat /\ Cardinality(later') \in Nat
    BY <2>1, <2>2, FS_Subset, FS_CardinalityType
  <2>4. Cardinality(later') >= PageCandles
    BY <1>3, <2>1, <2>3
  <2>. QED
    BY <1>6, <2>1, <2>4 DEF Covered, Lost
<1>. QED
  BY <1>2, <1>4, <1>5, <1>6 DEF Lost

\* Rows written by a page are of the range, and closed unless they were open,
\* or to come, when the backfill began.
LEMMA PartialStays ==
    ASSUME CandlesInv, bf = "page", bf' # "idle", NEW S, ohlcv' = UpsertMany(ohlcv, S),
           UNCHANGED <<venue, listed, from, to, keeps, clock, began>>,
           venue # "kraken" => \A t \in S : t <= to
    PROVE  PartialRows'
<1>1. SUFFICES ASSUME NEW t \in listed, ohlcv'[t] = "partial", venue # "kraken",
                      ~(ohlcv[t] = "partial")
               PROVE  t <= to /\ began < t + CandleTicks
  BY DEF CandlesInv, PartialRows
<1>2. t \in S /\ ~Closed(t)
  BY <1>1, Upserted DEF CandlesInv
<1>3. t \in Nat /\ CandleTicks \in Nat /\ clock \in Nat /\ began \in Nat /\ began <= clock
  BY CandleConsts DEF CandlesInv, CandleTypes, BackfillInv
<1>. QED
  BY <1>1, <1>2, <1>3 DEF Closed

\* A step of a backfill that goes forward in time.
LEMMA ForwardPage ==
    ASSUME CandlesInv, bf = "page", venue # "okx", NEW S, ohlcv' = UpsertMany(ohlcv, S),
           UNCHANGED <<venue, listed, from, to, keeps, clock, began>>,
           venue # "kraken" => \A t \in S : t <= to,
           cursor' \in Nat, bf' \in {"page", "done"},
           RoomForTwo => \A t \in Wanted : cursor <= t /\ (bf' = "page" => t < cursor')
                                       => t \in S \/ Lost(t)'
    PROVE  CandlesInv'
<1>1. CandleTypes'
  BY Upserted DEF CandlesInv, CandleTypes
<1>2. PartialRows'
  BY PartialStays
<1>3. Wanted' = Wanted /\ Wanted \subseteq listed /\ \A t \in Wanted : Covered(t) => Covered(t)'
  BY Upserted, CoveredStays DEF CandlesInv, CandleTypes, Wanted
<1>4. ASSUME NEW t \in Wanted, bf' = "page" => t < cursor', RoomForTwo
      PROVE  Covered(t)'
  <2>1. CASE t < cursor
    BY <1>3, <1>4, <2>1 DEF CandlesInv, BackfillInv
  <2>2. CASE t >= cursor
    <3>1. cursor <= t
      BY <1>3, <2>2, CandleConsts DEF CandlesInv, CandleTypes
    <3>2. ohlcv'[t] # "none" \/ Lost(t)'
      BY <1>3, <1>4, <3>1, Upserted DEF CandlesInv
    <3>. QED
      BY <3>2 DEF Covered
  <2>. QED
    BY <1>3, <1>4, <2>1, <2>2, CandleConsts DEF CandlesInv, CandleTypes
<1>5. BackfillInv'
  BY <1>3, <1>4 DEF CandlesInv, BackfillInv, RoomForTwo
<1>. QED
  BY <1>1, <1>2, <1>5 DEF CandlesInv

LEMMA PageEnds ==
    ASSUME CandleTypes, cursor \in Nat
    PROVE  PageEnd \in Nat /\ PageEnd <= to /\ (PageEnd = to \/ cursor < PageEnd)
<1>. DEFINE far == cursor + PageCandles * CandleTicks
<1>1. far \in Nat /\ far > cursor /\ to \in Nat
  <2>1. PageCandles \in Nat \ {0} /\ CandleTicks \in Nat \ {0}
    BY CandleConsts
  <2>2. \A p, k \in Nat \ {0} : p * k \in Nat /\ p * k > 0
    OBVIOUS
  <2>3. PageCandles * CandleTicks \in Nat /\ PageCandles * CandleTicks > 0
    BY <2>1, <2>2
  <2>. QED
    BY <2>3 DEF CandleTypes
<1>. HIDE DEF far
<1>2. PageEnd = Min({far, to})
  BY DEF PageEnd, far
<1>3. {far, to} \subseteq Nat /\ {far, to} # {}
  BY <1>1
<1>4. Min({far, to}) \in {far, to} /\ \A y \in {far, to} : Min({far, to}) <= y
  BY <1>3, LeastNat
<1>. QED
  BY <1>1, <1>2, <1>4

\* The loop body of Binance, Bybit and Coinbase on a page that is empty only if
\* its range is, and up to its last row holds all that is not lost.
LEMMA WalkPage ==
    ASSUME CandlesInv, bf = "page", venue \notin {"okx", "kraken"}, NEW S,
           S \subseteq {t \in Opened : cursor <= t /\ t <= PageEnd},
           S = {} => {t \in Opened : cursor <= t /\ t <= PageEnd} = {},
           \A x \in S, t \in Opened : cursor <= t /\ t <= x => t \in S \/ Lost(t)',
           ohlcv' = UpsertMany(ohlcv, S), WalkForward(S, PageEnd),
           UNCHANGED <<venue, listed, from, to, keeps, clock, began>>
    PROVE  CandlesInv'
<1>0. /\ cursor \in Nat /\ clock \in Nat /\ to \in Nat /\ began \in Nat /\ began <= clock
      /\ CandleTicks \in Nat \ {0} /\ Opened \subseteq Nat /\ Opened \subseteq listed
      /\ \A t, u \in listed : t < u => t + CandleTicks <= u
      /\ \A t \in Opened : t <= clock
  BY CandleConsts DEF CandlesInv, CandleTypes, BackfillInv, Opened
<1>1. PageEnd \in Nat /\ PageEnd <= to /\ (PageEnd = to \/ cursor < PageEnd)
  BY <1>0, PageEnds DEF CandlesInv
<1>2. \A t \in Wanted : t \in Opened /\ t < to
  BY <1>0, CandleConsts DEF Wanted, Opened, CandlesInv
<1>3. bf' \in {"page", "done"}
  BY DEF WalkForward, MoveTo
<1>4. cursor' \in Nat /\ (bf' = "done" => to <= cursor')
      /\ \A t \in Wanted : cursor <= t /\ t < cursor' => t \in S \/ Lost(t)'
  <2>1. CASE S = {}
    <3>1. cursor' = PageEnd + 1 /\ bf' = IF PageEnd + 1 < to THEN "page" ELSE "done"
      BY <2>1 DEF WalkForward, MoveTo
    <3>2. \A t \in Wanted : cursor <= t => ~(t <= PageEnd)
      BY <1>2, <2>1
    <3>3. \A t \in Wanted : t \in Nat
      BY <1>0, <1>2
    <3>. QED
      BY <1>0, <1>1, <3>1, <3>2, <3>3
  <2>2. CASE S # {}
    <3>. DEFINE top == Max(S)
    <3>1. top \in S /\ \A y \in S : y <= top
      <4>1. S \subseteq Nat /\ \A x \in S : x <= clock
        BY <1>0
      <4>. QED
        BY <1>0, <2>2, <4>1, GreatestNat
    <3>2. cursor' = top + CandleTicks /\ bf' = IF top + CandleTicks < to THEN "page" ELSE "done"
      BY <2>2 DEF WalkForward, MoveTo
    <3>. HIDE DEF top
    <3>3. top \in Opened /\ top \in Nat
      BY <1>0, <3>1
    <3>4. ASSUME NEW t \in Wanted, cursor <= t, t < cursor' PROVE t \in S \/ Lost(t)'
      <4>1. t \in Opened /\ t \in listed /\ t \in Nat
        BY <1>0, <1>2
      <4>2. ~(top < t)
        <5>1. top \in listed /\ (top < t => top + CandleTicks <= t)
          BY <1>0, <3>3, <4>1
        <5>. QED
          BY <1>0, <3>2, <3>3, <3>4, <4>1, <5>1
      <4>3. t <= top
        BY <3>3, <4>1, <4>2
      <4>. QED
        BY <3>1, <3>4, <4>1, <4>3
    <3>. QED
      BY <1>0, <3>2, <3>3, <3>4
  <2>. QED
    BY <2>1, <2>2
<1>5. \A t \in Wanted : cursor <= t /\ (bf' = "page" => t < cursor') => t \in S \/ Lost(t)'
  <2>1. \A t \in Wanted : t \in Nat /\ t < to
    BY <1>0, <1>2
  <2>. QED
    BY <1>0, <1>3, <1>4, <2>1
<1>6. \A t \in S : t <= to
  BY <1>0, <1>1
<1>. QED
  BY <1>3, <1>4, <1>5, <1>6, ForwardPage

\* What makes the integer quotients of candle times distinct and bounded.
LEMMA DivProps ==
    ASSUME NEW w \in Nat \ {0}, NEW a \in Nat
    PROVE  a \div w \in Nat /\ (a \div w) * w <= a /\ a < (a \div w) * w + w
OBVIOUS

LEMMA DivDistinct ==
    ASSUME NEW w \in Nat \ {0}, NEW a \in Nat, NEW b \in Nat, a + w <= b
    PROVE  a \div w # b \div w
<1>1. SUFFICES ASSUME a \div w = b \div w PROVE FALSE
  OBVIOUS
<1>. DEFINE q == a \div w
<1>2. q * w <= a /\ b < q * w + w /\ q \in Nat
  BY <1>1, DivProps
<1>. HIDE DEF q
<1>3. q * w \in Nat
  BY <1>2
<1>. QED
  BY <1>2, <1>3

LEMMA DivBelow ==
    ASSUME NEW w \in Nat \ {0}, NEW a \in Nat, NEW k \in Nat, w <= a, a < (k + 1) * w
    PROVE  a \div w \in 1 .. k
<1>. DEFINE q == a \div w
<1>1. q * w <= a /\ a < q * w + w /\ q \in Nat
  BY DivProps
<1>. HIDE DEF q
<1>2. q # 0
  BY <1>1
<1>3. ASSUME q >= k + 1 PROVE FALSE
  <2>1. q * w >= (k + 1) * w
    BY <1>1, <1>3
  <2>2. q * w \in Nat /\ (k + 1) * w \in Nat
    BY <1>1
  <2>. QED
    BY <1>1, <2>1, <2>2
<1>4. q \in 1 .. k
  BY <1>1, <1>2, <1>3
<1>. QED
  BY <1>4 DEF q

\* Candles do not overlap, so that less than k + 1 candles' time after one of
\* them holds at most k others.
LEMMA CandlesIn ==
    ASSUME CandleTypes, NEW t \in listed, NEW k \in Nat, NEW A,
           A \subseteq {u \in listed : t < u /\ u < t + (k + 1) * CandleTicks}
    PROVE  IsFiniteSet(A) /\ Cardinality(A) <= k
<1>. DEFINE f == [u \in A |-> (u - t) \div CandleTicks]
<1>1. /\ CandleTicks \in Nat \ {0} /\ listed \subseteq Nat /\ A \subseteq listed /\ t \in Nat
      /\ \A u, v \in listed : u < v => u + CandleTicks <= v
  BY CandleConsts
<1>2. \A u \in A : u - t \in Nat /\ CandleTicks <= u - t /\ u - t < (k + 1) * CandleTicks
  <2>1. SUFFICES ASSUME NEW u \in A
                 PROVE  u - t \in Nat /\ CandleTicks <= u - t /\ u - t < (k + 1) * CandleTicks
    OBVIOUS
  <2>2. u \in Nat /\ t < u /\ u < t + (k + 1) * CandleTicks /\ t + CandleTicks <= u
    BY <1>1
  <2>3. (k + 1) * CandleTicks \in Nat
    BY <1>1
  <2>. QED
    BY <1>1, <2>2, <2>3
<1>3. f \in [A -> 1 .. k]
  BY <1>1, <1>2, DivBelow
<1>4. \A u, v \in A : u < v => f[u] # f[v]
  <2>1. SUFFICES ASSUME NEW u \in A, NEW v \in A, u < v PROVE f[u] # f[v]
    OBVIOUS
  <2>2. u - t \in Nat /\ v - t \in Nat /\ (u - t) + CandleTicks <= v - t
    BY <1>1, <1>2, <2>1
  <2>. QED
    BY <1>1, <2>2, DivDistinct
<1>5. f \in Injection(A, 1 .. k)
  <2>1. \A u, v \in A : u # v => u < v \/ v < u
    BY <1>1
  <2>2. \A u, v \in A : f[u] = f[v] => u = v
    BY <1>4, <2>1
  <2>. HIDE DEF f
  <2>. QED
    BY <1>3, <2>2 DEF Injection, IsInjective
<1>6. IsFiniteSet(1 .. k) /\ Cardinality(1 .. k) = k
  BY FS_Interval
<1>. HIDE DEF f
<1>. QED
  BY <1>5, <1>6, FS_Injection

\* Bybit leaves out at most the candle at the cursor, and only when a page's
\* worth of candles follows it at once.
LEMMA BybitPage ==
    ASSUME CandlesInv, venue = "bybit", cursor \in Nat,
           UNCHANGED <<venue, listed, from, to, keeps, clock, began>>,
           NEW R, R = {t \in Opened : cursor <= t /\ t <= PageEnd},
           ohlcv' = UpsertMany(ohlcv, Newest(R)),
           NEW t \in R, t \notin Newest(R)
    PROVE  Lost(t)'
<1>. DEFINE after == {u \in R : u > t}
            far == t + PageCandles * CandleTicks
            next == {u \in listed : t < u /\ u <= far /\ ohlcv'[u] # "none"}
<1>1. /\ PageCandles \in Nat \ {0} /\ CandleTicks \in Nat \ {0} /\ listed \subseteq Nat
      /\ Opened \subseteq listed /\ R \subseteq listed /\ t \in Nat /\ t \in listed
      /\ cursor <= t /\ CandleTypes
  BY CandleConsts DEF CandlesInv, Opened
<1>2. PageEnd \in Nat /\ PageEnd <= cursor + PageCandles * CandleTicks
  <2>. DEFINE fr == cursor + PageCandles * CandleTicks
  <2>1. fr \in Nat /\ to \in Nat
    BY <1>1 DEF CandleTypes
  <2>. HIDE DEF fr
  <2>2. {fr, to} \subseteq Nat /\ {fr, to} # {}
    BY <2>1
  <2>3. Min({fr, to}) \in {fr, to} /\ Min({fr, to}) <= fr
    BY <2>2, LeastNat
  <2>. QED
    BY <2>1, <2>3 DEF PageEnd, fr
<1>3. PageCandles * CandleTicks \in Nat
  BY <1>1
<1>4. \A u \in R : u \in Nat /\ u <= cursor + PageCandles * CandleTicks
  BY <1>1, <1>2, <1>3
<1>5. /\ Cardinality(after) >= PageCandles /\ IsFiniteSet(after)
      /\ Cardinality(after) \in Nat
  <2>1. IsFiniteSet(after)
    <3>1. after \subseteq Nat /\ \A u \in after : u <= PageEnd
      BY <1>1
    <3>. HIDE DEF after
    <3>. QED
      BY <1>2, <3>1, PartOfInterval
  <2>2. ~(Cardinality(after) < PageCandles)
    BY DEF Newest
  <2>3. Cardinality(after) \in Nat
    BY <2>1, FS_CardinalityType
  <2>. QED
    BY <1>1, <2>1, <2>2, <2>3
<1>6. t = cursor
  <2>1. SUFFICES ASSUME cursor < t PROVE FALSE
    BY <1>1
  <2>. DEFINE k == PageCandles - 1
  <2>2. k \in Nat /\ k + 1 = PageCandles
    BY <1>1
  <2>3. after \subseteq {u \in listed : t < u /\ u < t + PageCandles * CandleTicks}
    <3>1. SUFFICES ASSUME NEW u \in R, u > t PROVE u \in listed /\ t < u /\ u < t + PageCandles * CandleTicks
      OBVIOUS
    <3>2. u \in listed /\ u \in Nat /\ u <= cursor + PageCandles * CandleTicks /\ cursor \in Nat
      BY <1>1, <1>4
    <3>. QED
      BY <1>1, <1>3, <2>1, <3>1, <3>2
  <2>4. after \subseteq {u \in listed : t < u /\ u < t + (k + 1) * CandleTicks}
    BY <2>2, <2>3
  <2>. HIDE DEF k, after
  <2>5. Cardinality(after) <= k
    BY <1>1, <2>2, <2>4, CandlesIn
  <2>. QED
    BY <1>1, <1>5, <2>2, <2>5
<1>7. after \subseteq {u \in listed : t < u /\ u < t + (PageCandles + 1) * CandleTicks}
  <2>1. (PageCandles + 1) * CandleTicks = PageCandles * CandleTicks + CandleTicks
    BY <1>1
  <2>2. SUFFICES ASSUME NEW u \in R, u > t
                 PROVE  u \in listed /\ t < u /\ u < t + (PageCandles + 1) * CandleTicks
    OBVIOUS
  <2>3. u \in listed /\ u \in Nat /\ u <= cursor + PageCandles * CandleTicks
    BY <1>1, <1>4
  <2>. QED
    BY <1>1, <1>3, <1>6, <2>1, <2>2, <2>3
<1>8. Cardinality(after) <= PageCandles
  <2>. HIDE DEF after
  <2>. QED
    BY <1>1, <1>7, CandlesIn
<1>9. after \subseteq Newest(R)
  <2>1. SUFFICES ASSUME NEW u \in after PROVE u \in Newest(R)
    OBVIOUS
  <2>2. u \in R /\ u \in Nat /\ u > t
    BY <1>4
  <2>3. {v \in R : v > u} \subseteq after \ {u}
    <3>1. SUFFICES ASSUME NEW v \in R, v > u PROVE v > t /\ v # u
      OBVIOUS
    <3>2. v \in Nat
      BY <1>4
    <3>. QED
      BY <1>1, <2>2, <3>1, <3>2
  <2>. DEFINE rest == {v \in R : v > u}
  <2>4. IsFiniteSet(after \ {u}) /\ Cardinality(after \ {u}) = Cardinality(after) - 1
    <3>1. u \in after
      OBVIOUS
    <3>. HIDE DEF after
    <3>. QED
      BY <1>5, <3>1, FS_RemoveElement
  <2>5. Cardinality(rest) <= Cardinality(after \ {u}) /\ Cardinality(rest) \in Nat
    <3>1. rest \subseteq after \ {u}
      BY <2>3
    <3>. HIDE DEF rest, after
    <3>. QED
      BY <2>4, <3>1, FS_Subset, FS_CardinalityType
  <2>6. Cardinality(rest) < PageCandles
    <3>. HIDE DEF rest, after
    <3>. QED
      BY <1>1, <1>5, <1>8, <2>4, <2>5
  <2>. QED
    BY <2>2, <2>6 DEF Newest
<1>10. after \subseteq next
  <2>1. SUFFICES ASSUME NEW u \in after PROVE u \in next
    OBVIOUS
  <2>2. u \in listed /\ u \in Newest(R) /\ u > t /\ u \in Nat /\ u <= far
    BY <1>1, <1>4, <1>6, <1>9
  <2>3. ohlcv'[u] # "none"
    BY <1>1, <2>2, Upserted
  <2>. QED
    BY <1>1, <2>2, <2>3
<1>11. IsFiniteSet(next)
  <2>1. far \in Nat
    BY <1>1, <1>3
  <2>. HIDE DEF far
  <2>2. next \subseteq Nat /\ \A u \in next : u <= far
    BY <1>1
  <2>. HIDE DEF next
  <2>. QED
    BY <2>1, <2>2, PartOfInterval
<1>12. Cardinality(next) >= PageCandles
  <2>. HIDE DEF next, after
  <2>1. Cardinality(after) <= Cardinality(next) /\ Cardinality(next) \in Nat
    BY <1>10, <1>11, FS_Subset, FS_CardinalityType
  <2>. QED
    BY <1>1, <1>5, <2>1
<1>. QED
  BY <1>12 DEF Lost

LEMMA ForwardVenues ==
    ASSUME CandlesInv, BinanceBackfill \/ BybitBackfill \/ CoinbaseBackfill
    PROVE  CandlesInv'
<1>. DEFINE R == {t \in Opened : cursor <= t /\ t <= PageEnd}
<1>1. /\ bf = "page" /\ venue \notin {"okx", "kraken"}
      /\ UNCHANGED <<venue, listed, from, to, keeps, clock, began>>
      /\ \E S \in {Oldest(R), R, Newest(R)} :
            /\ S = Newest(R) => venue = "bybit" \/ S = Oldest(R) \/ S = R
            /\ ohlcv' = UpsertMany(ohlcv, S) /\ WalkForward(S, PageEnd)
  BY CopyIsUpsert
     DEF BinanceBackfill, BybitBackfill, CoinbaseBackfill, BinanceKlinesPage, BybitKlinesPage,
         CoinbaseCandlesPage, chosen
<1>2. PICK S \in {Oldest(R), R, Newest(R)} :
            /\ S = Newest(R) => venue = "bybit" \/ S = Oldest(R) \/ S = R
            /\ ohlcv' = UpsertMany(ohlcv, S) /\ WalkForward(S, PageEnd)
  BY <1>1
<1>3. R \subseteq Nat /\ clock \in Nat /\ \A x \in R : x <= clock
  BY CandleConsts DEF CandlesInv, CandleTypes
<1>4. PageEnd \in Nat /\ cursor \in Nat
  BY <1>1, PageEnds DEF CandlesInv, BackfillInv
<1>5. \A x \in R, t \in Opened : cursor <= t /\ t <= x => t \in R
  <2>1. SUFFICES ASSUME NEW x \in R, NEW t \in Opened, cursor <= t, t <= x PROVE t <= PageEnd
    OBVIOUS
  <2>2. x \in Nat /\ t \in Nat /\ x <= PageEnd
    BY CandleConsts DEF CandlesInv
  <2>. QED
    BY <1>4, <2>1, <2>2
<1>a. R = {t \in Opened : cursor <= t /\ t <= PageEnd}
  OBVIOUS
<1>. HIDE DEF R
<1>6. S \subseteq R /\ (S = {} => R = {}) /\ \A x \in S, t \in R : t <= x => t \in S \/ Lost(t)'
  <2>1. CASE S \in {Oldest(R), R}
    BY <1>3, <2>1, OldestRows
  <2>2. CASE S = Newest(R) /\ venue = "bybit"
    <3>1. \A t \in R : t \notin S => Lost(t)'
      BY <1>1, <1>2, <1>4, <1>a, <2>2, BybitPage
    <3>. QED
      BY <1>3, <2>2, <3>1, NewestRows
  <2>. QED
    BY <1>2, <2>1, <2>2
<1>7. \A x \in S, t \in Opened : cursor <= t /\ t <= x => t \in S \/ Lost(t)'
  BY <1>5, <1>6
<1>. QED
  BY <1>1, <1>2, <1>6, <1>7, WalkPage DEF R

\* Kraken's pages have no end; one that shows nothing but the cursor's row
\* ends the loop, which is right when a page has room for a second row.
LEMMA KrakenPage ==
    ASSUME CandlesInv, KrakenBackfill
    PROVE  CandlesInv'
<1>. DEFINE R == {t \in Opened : cursor <= t}
            S == KrakenOhlcPage(cursor)
            rows == {t \in S : cursor <= t /\ t <= to}
<1>1. /\ venue = "kraken" /\ bf = "page" /\ UNCHANGED <<venue, listed, from, to, keeps, clock, began>>
      /\ ohlcv' = UpsertMany(ohlcv, rows)
      /\ IF S = {} \/ Max(S) <= cursor THEN bf' = "done" /\ UNCHANGED cursor
         ELSE MoveTo(Max(S) + CandleTicks, Max(S) + CandleTicks < to)
  BY DEF KrakenBackfill, chosen
<1>2. /\ cursor \in Nat /\ clock \in Nat /\ to \in Nat /\ began \in Nat /\ began <= clock
      /\ CandleTicks \in Nat \ {0} /\ Opened \subseteq Nat /\ Opened \subseteq listed
      /\ \A t, u \in listed : t < u => t + CandleTicks <= u
      /\ \A t \in Opened : t <= clock
  BY <1>1, CandleConsts DEF CandlesInv, CandleTypes, BackfillInv, Opened
<1>3. R \subseteq Nat /\ \A x \in R : x <= clock /\ cursor <= x
  BY <1>2
<1>4. \A t \in Wanted : t \in Nat /\ t \in Opened /\ t < to
  BY <1>2, CandleConsts DEF Wanted, Opened, CandlesInv
<1>a. \A t \in Opened : cursor <= t => t \in R
  OBVIOUS
<1>b. S = IF keeps = "oldest" THEN Oldest(R) ELSE Newest(R)
  BY DEF KrakenOhlcPage
<1>c. \A t \in R : t \notin Newest(R) /\ keeps = "newest" => Lost(t)'
  <2>1. SUFFICES ASSUME NEW t \in R, t \notin Newest(R), keeps = "newest" PROVE Lost(t)'
    OBVIOUS
  <2>. DEFINE after == {u \in R : u > t}
  <2>2. {u \in Opened' : t < u} = after
    BY <1>1, <1>2, <1>3 DEF Opened
  <2>3. IsFiniteSet(after) /\ Cardinality(after) \in Nat
    <3>1. after \subseteq Nat /\ \A u \in after : u <= clock
      BY <1>3
    <3>. HIDE DEF after
    <3>. QED
      BY <1>2, <3>1, PartOfInterval, FS_CardinalityType
  <2>4. ~(Cardinality(after) < PageCandles)
    BY <2>1 DEF Newest
  <2>5. Cardinality(after) >= PageCandles
    <3>1. PageCandles \in Nat
      BY CandlesAssumption
    <3>. HIDE DEF after
    <3>. QED
      BY <2>3, <2>4, <3>1
  <2>. QED
    BY <1>1, <2>1, <2>2, <2>5 DEF Lost
<1>. HIDE DEF R, S
<1>d. keeps \in {"oldest", "newest"}
  BY DEF CandlesInv, CandleTypes
<1>5. /\ S \subseteq R /\ (R # {} => S # {})
      /\ \A x \in S, t \in R : t <= x => t \in S \/ Lost(t)'
      /\ RoomForTwo /\ (\A x \in S : x <= cursor) => \A x \in R : x <= cursor
  <2>1. CASE keeps = "oldest"
    BY <1>1, <1>2, <1>3, <1>b, <2>1, OldestRows DEF RoomForTwo
  <2>2. CASE keeps = "newest"
    <3>1. S = Newest(R)
      BY <1>b, <2>2
    <3>2. /\ S \subseteq R /\ (R # {} => S # {}) /\ \A x \in S, t \in R : x <= t => t \in S
      BY <1>2, <1>3, <3>1, NewestRows
    <3>3. ASSUME \A x \in S : x <= cursor, NEW y \in R PROVE y <= cursor
      <4>1. PICK x \in S : x <= cursor
        BY <3>2, <3>3
      <4>2. x \in Nat /\ y \in Nat
        BY <1>3, <3>2
      <4>. QED
        BY <1>2, <3>2, <3>3, <4>1, <4>2
    <3>. QED
      BY <1>c, <2>2, <3>1, <3>2, <3>3
  <2>. QED
    BY <1>d, <2>1, <2>2
<1>6. S # {} => Max(S) \in S /\ \A y \in S : y <= Max(S)
  <2>1. S \subseteq Nat /\ \A x \in S : x <= clock
    BY <1>3, <1>5
  <2>. QED
    BY <1>2, <2>1, GreatestNat
<1>7. /\ cursor' \in Nat /\ bf' \in {"page", "done"}
      /\ RoomForTwo => \A t \in Wanted : cursor <= t /\ (bf' = "page" => t < cursor')
                       => t \in S \/ Lost(t)'
  <2>1. CASE S = {}
    BY <1>1, <1>2, <1>4, <1>5, <1>a, <2>1
  <2>2. CASE S # {} /\ Max(S) <= cursor
    <3>1. Max(S) = cursor /\ cursor \in S
      <4>1. Max(S) \in S /\ Max(S) \in Nat /\ cursor <= Max(S)
        BY <1>3, <1>5, <1>6, <2>2
      <4>. QED
        BY <1>2, <2>2, <4>1
    <3>2. RoomForTwo => \A x \in R : x <= cursor
      BY <1>5, <1>6, <3>1
    <3>3. RoomForTwo => \A t \in Wanted : cursor <= t => t = cursor
      BY <1>2, <1>4, <1>a, <3>2
    <3>. QED
      BY <1>1, <1>2, <2>2, <3>1, <3>3
  <2>3. CASE S # {} /\ ~(Max(S) <= cursor)
    <3>. DEFINE top == Max(S)
    <3>1. cursor' = top + CandleTicks /\ bf' = IF top + CandleTicks < to THEN "page" ELSE "done"
      BY <1>1, <2>3 DEF MoveTo
    <3>2. top \in S /\ top \in R /\ top \in Nat
      BY <1>3, <1>5, <1>6, <2>3
    <3>. HIDE DEF top
    <3>3. top \in listed
      BY <1>2, <3>2 DEF R
    <3>4. ASSUME NEW t \in Wanted, cursor <= t, bf' = "page" => t < cursor'
          PROVE  t \in S \/ Lost(t)'
      <4>1. t \in Opened /\ t \in listed /\ t \in Nat /\ t < to /\ t \in R
        BY <1>2, <1>4, <1>a, <3>4
      <4>2. t < top + CandleTicks
        BY <1>2, <3>1, <3>2, <3>4, <4>1
      <4>3. top < t => top + CandleTicks <= t
        BY <1>2, <3>3, <4>1
      <4>4. t <= top
        BY <1>2, <3>2, <4>1, <4>2, <4>3
      <4>. QED
        BY <1>5, <3>2, <4>1, <4>4
    <3>. QED
      BY <1>2, <3>1, <3>2, <3>4
  <2>. QED
    BY <2>1, <2>2, <2>3
<1>8. RoomForTwo => \A t \in Wanted : cursor <= t /\ (bf' = "page" => t < cursor')
                    => t \in rows \/ Lost(t)'
  BY <1>2, <1>4, <1>7
<1>. HIDE DEF rows
<1>. QED
  BY <1>1, <1>7, <1>8, ForwardPage

\* OKX goes back in time; the row it steps over is next to one it has stored.
LEMMA OkxPage ==
    ASSUME CandlesInv, OkxBackfill
    PROVE  CandlesInv'
<1>. DEFINE R == {t \in Opened : t < cursor}
            S == Newest(R)
            rows == {t \in S : t >= from}
            low == Min(S)
<1>1. /\ venue = "okx" /\ bf = "page" /\ UNCHANGED <<venue, listed, from, to, keeps, clock, began>>
      /\ ohlcv' = UpsertMany(ohlcv, rows)
      /\ IF S = {} \/ low >= cursor THEN bf' = "done" /\ UNCHANGED cursor
         ELSE MoveTo(low - CandleTicks, low - CandleTicks > from)
  BY DEF OkxBackfill, OkxCandlesPage, chosen
<1>2. /\ cursor \in Int /\ clock \in Nat /\ to \in Nat /\ from \in Nat /\ cursor <= to
      /\ began \in Nat /\ began <= clock
      /\ CandleTicks \in Nat \ {0} /\ Opened \subseteq Nat /\ Opened \subseteq listed
      /\ \A t \in Opened : t <= clock
  BY <1>1, CandleConsts DEF CandlesInv, CandleTypes, BackfillInv, Opened
<1>3. R \subseteq Nat /\ (\A x \in R : x <= clock /\ x < cursor) /\ R \subseteq listed
  BY <1>2
<1>4. \A t \in Wanted : t \in Nat /\ t \in Opened /\ from <= t /\ (t < cursor => t \in R)
  BY <1>2, CandleConsts DEF Wanted, Opened, CandlesInv
<1>. HIDE DEF R
<1>5. S \subseteq R /\ (R # {} => S # {}) /\ \A x \in S, t \in R : x <= t => t \in S
  BY <1>2, <1>3, NewestRows
<1>. HIDE DEF S
<1>6. S # {} => low \in S /\ \A y \in S : low <= y
  BY <1>3, <1>5, LeastNat
<1>. HIDE DEF low
<1>a. S # {} => low \in Nat /\ low < cursor /\ low \in listed
  BY <1>3, <1>5, <1>6
<1>7. /\ Wanted' = Wanted /\ \A t \in Wanted : Covered(t) => Covered(t)'
      /\ \A t \in listed \cap rows : ohlcv'[t] # "none"
  <2>1. CandleTypes /\ UNCHANGED <<venue, listed, from, to, keeps, clock, began>> /\ ohlcv' = UpsertMany(ohlcv, rows)
    BY <1>1 DEF CandlesInv
  <2>. HIDE DEF rows
  <2>. QED
    BY <1>2, <2>1, Upserted, CoveredStays
<1>8. ASSUME NEW t \in Wanted, t >= cursor PROVE Covered(t)'
  BY <1>1, <1>7, <1>8 DEF CandlesInv, BackfillInv
<1>9. ASSUME NEW t \in Wanted, t < cursor, S # {}, low - CandleTicks <= t PROVE Covered(t)'
  <2>1. t \in R /\ t \in Nat /\ from <= t /\ t \in listed /\ low \in Nat
    BY <1>3, <1>4, <1>9, <1>a
  <2>2. CASE low <= t
    <3>1. t \in rows
      BY <1>2, <1>5, <1>6, <1>9, <2>1, <2>2
    <3>. QED
      BY <1>7, <2>1, <3>1 DEF Covered
  <2>3. CASE low > t
    <3>1. low \in rows /\ low \in listed
      BY <1>2, <1>6, <1>9, <1>a, <2>1, <2>3
    <3>2. ohlcv'[low] # "none"
      BY <1>7, <3>1
    <3>3. venue' = "okx" /\ listed' = listed
      BY <1>1
    <3>. QED
      BY <1>9, <2>3, <3>1, <3>2, <3>3 DEF Covered, Lost
  <2>. QED
    BY <2>1, <2>2, <2>3
<1>10. CASE S = {} \/ low >= cursor
  <2>1. S = {} /\ bf' = "done" /\ cursor' = cursor
    BY <1>1, <1>2, <1>10, <1>a
  <2>2. \A t \in Wanted : t >= cursor
    BY <1>2, <1>4, <1>5, <2>1
  <2>3. BackfillInv'
    BY <1>1, <1>2, <1>7, <1>8, <2>1, <2>2 DEF BackfillInv
  <2>4. CandleTypes' /\ PartialRows'
    <3>1. \A t \in rows : t <= to
      BY <2>1
    <3>. HIDE DEF rows
    <3>. QED
      BY <1>1, <2>1, <3>1, Upserted, PartialStays DEF CandlesInv, CandleTypes
  <2>. QED
    BY <2>3, <2>4 DEF CandlesInv
<1>11. CASE ~(S = {} \/ low >= cursor)
  <2>1. /\ cursor' = low - CandleTicks
        /\ bf' = IF low - CandleTicks > from THEN "page" ELSE "done"
    BY <1>1, <1>11 DEF MoveTo
  <2>2. cursor' \in Int /\ cursor' <= to /\ low \in Nat
    BY <1>2, <1>11, <1>a, <2>1
  <2>3. \A t \in Wanted : t >= low - CandleTicks => Covered(t)'
    <3>1. SUFFICES ASSUME NEW t \in Wanted, t >= low - CandleTicks, t < cursor PROVE Covered(t)'
      BY <1>2, <1>4, <1>8
    <3>2. low - CandleTicks <= t
      BY <1>2, <1>4, <2>2, <3>1
    <3>. QED
      BY <1>9, <1>11, <3>1, <3>2
  <2>4. bf' = "done" => \A t \in Wanted : t >= low - CandleTicks
    BY <1>2, <1>4, <2>1, <2>2
  <2>5. BackfillInv'
    BY <1>1, <1>2, <1>7, <2>1, <2>2, <2>3, <2>4 DEF BackfillInv
  <2>6. CandleTypes' /\ PartialRows'
    <3>1. \A t \in rows : t <= to
      BY <1>2, <1>3, <1>5
    <3>. HIDE DEF rows
    <3>2. bf' \in {"page", "done"}
      BY <2>1
    <3>. QED
      BY <1>1, <2>2, <3>1, <3>2, Upserted, PartialStays DEF CandlesInv, CandleTypes
  <2>. QED
    BY <2>5, <2>6 DEF CandlesInv
<1>. QED
  BY <1>10, <1>11

\* Steps that leave the backfill where it is.
LEMMA CandlesFrame ==
    ASSUME CandlesInv, UNCHANGED <<venue, listed, from, to, keeps, began, cursor>>,
           clock' \in Nat, clock <= clock',
           bf' \in {"idle", "page", "failed", "done"}, bf' \in {"page", "done"} => bf' = bf,
           bf' = "idle" <=> bf = "idle",
           ohlcv' \in [listed -> {"none", "partial", "final"}],
           \A t \in listed : ohlcv[t] # "none" => ohlcv'[t] = ohlcv[t],
           \A t \in listed : ohlcv'[t] = "partial" => ohlcv[t] = "partial" \/ venue = "kraken"
    PROVE  CandlesInv'
<1>1. Wanted' = Wanted /\ \A t \in Wanted : Covered(t) => Covered(t)'
  BY CoveredStays DEF CandlesInv, CandleTypes
<1>2. CandleTypes'
  BY DEF CandlesInv, CandleTypes
<1>3. bf' # "idle" => began' <= clock'
  BY <1>2 DEF CandlesInv, CandleTypes, BackfillInv
<1>4. BackfillInv'
  BY <1>1, <1>3 DEF CandlesInv, BackfillInv, RoomForTwo
<1>5. PartialRows'
  BY DEF CandlesInv, PartialRows
<1>. QED
  BY <1>2, <1>4, <1>5 DEF CandlesInv

\* Only Kraken's handler inserts a candle that is still open.
LEMMA StreamKinds ==
    ASSUME venue \in Venues, venue # "kraken", NEW kind \in CandleKinds \cap Sends(venue),
           CandleStored(venue, kind)
    PROVE  kind = "closed"
BY DEF Venues, CandleKinds, Sends, CandleStored, BinanceCandle, BybitHandleKline, OkxHandleCandle

LEMMA CandlesStep ==
    ASSUME CandlesInv, [CandlesNext]_candleVars
    PROVE  CandlesInv'
<1>0. CandleTypes /\ DOMAIN ohlcv = listed /\ clock \in Nat
  BY DEF CandlesInv, CandleTypes
<1>1. CASE BackfillStart
  <2>1. /\ UNCHANGED <<venue, listed, from, to, keeps, clock, ohlcv>>
        /\ began' = (IF bf = "idle" THEN clock ELSE began)
        /\ cursor' = (IF venue = "okx" THEN to ELSE from)
        /\ bf' = IF from < to THEN "page" ELSE "done"
    BY <1>1 DEF BackfillStart, MoveTo, chosen
  <2>2. began' \in Nat /\ began' <= clock' /\ (bf # "idle" => began' = began) /\ bf' # "idle"
    BY <1>0, <2>1 DEF CandlesInv, CandleTypes, BackfillInv
  <2>3. from \in Nat /\ to \in Nat /\ PartialRows'
    BY <2>1, <2>2 DEF CandlesInv, CandleTypes, PartialRows
  <2>4. CandleTypes'
    BY <2>1, <2>2, <2>3 DEF CandlesInv, CandleTypes
  <2>5. \A t \in Wanted' : t \in Nat /\ from <= t /\ t < to
    BY <1>0, <2>1, CandleConsts DEF Wanted
  <2>6. \A t \in Wanted' : ~(t < from) /\ ~(t >= to)
    BY <2>3, <2>5
  <2>7. bf' = "done" => Wanted' = {}
    BY <2>1, <2>3, <2>5
  <2>8. BackfillInv'
    BY <2>1, <2>2, <2>3, <2>6, <2>7 DEF BackfillInv
  <2>. QED
    BY <2>3, <2>4, <2>8 DEF CandlesInv
<1>2. CASE Page
  BY <1>2, ForwardVenues, OkxPage, KrakenPage DEF Page
<1>3. CASE PageFails
  BY <1>0, <1>3, CandlesFrame DEF PageFails, CandleTypes, chosen
<1>4. CASE CandleTick
  BY <1>0, <1>4, CandlesFrame DEF CandleTick, CandleTypes, chosen
<1>5. CASE UNCHANGED candleVars
  BY <1>0, <1>5, CandlesFrame DEF candleVars, CandleTypes, chosen
<1>6. CASE StreamCandle
  <2>1. PICK t \in Opened, kind \in CandleKinds \cap Sends(venue) :
           /\ kind = "closed" <=> Closed(t)
           /\ CandleStored(venue, kind) /\ ohlcv' = UpsertMany(ohlcv, {t})
    BY <1>6 DEF StreamCandle
  <2>2. UNCHANGED <<venue, listed, from, to, keeps, clock, bf, began, cursor>>
    BY <1>6 DEF StreamCandle, chosen
  <2>3. venue # "kraken" => Closed(t)
    BY <1>0, <2>1, StreamKinds DEF CandleTypes
  <2>4. /\ ohlcv' \in [listed -> {"none", "partial", "final"}]
        /\ \A u \in listed : ohlcv[u] # "none" => ohlcv'[u] = ohlcv[u]
        /\ \A u \in listed : ohlcv'[u] = "partial" =>
              ohlcv[u] = "partial" \/ (u \in {t} /\ ~Closed(u))
    BY <1>0, <2>1, <2>2, Upserted
  <2>5. \A u \in listed : ohlcv'[u] = "partial" => ohlcv[u] = "partial" \/ venue = "kraken"
    BY <2>3, <2>4
  <2>. QED
    BY <1>0, <2>2, <2>4, <2>5, CandlesFrame DEF CandleTypes
<1>. QED
  BY <1>1, <1>2, <1>3, <1>4, <1>5, <1>6 DEF CandlesNext

LEMMA CandlesSafe ==
    CandlesInv => (PageCandles > 1 => BackfillComplete) /\ FinalUnlessOpen
BY DEF CandlesInv, BackfillInv, RoomForTwo, Covered, BackfillComplete, PartialRows,
       FinalUnlessOpen, Wanted

\* A backfill that ends has stored its range but for what Lost says the pages of
\* OKX, Bybit and Kraken lose, for any gaps in the exchange's list, page size,
\* arguments and failures, and with the stream writing too.  On Kraken this
\* needs pages of at least two candles (they have 720): a page with nothing but
\* the row at the cursor is taken for the last one.
THEOREM BackfillCompleteHolds ==
    ASSUME PageCandles > 1
    PROVE  CandlesSpec => []BackfillComplete
<1>. QED
  BY CandlesStart, CandlesStep, CandlesSafe, PTL DEF CandlesSpec

\* No stream or backfill leaves the value of an unfinished candle in the table,
\* but for candles of its range that were not closed when a backfill was first
\* started, and for Kraken.
THEOREM FinalUnlessOpenHolds == CandlesSpec => []FinalUnlessOpen
<1>. QED
  BY CandlesStart, CandlesStep, CandlesSafe, PTL DEF CandlesSpec

-----------------------------------------------------------------------------
(* Discovery: pages by offset over a list that grows at its front. *)

\* Ranks fall with the date and take every value up to the last one's.
LEMMA Ranks ==
    ASSUME NEW S, S \subseteq Nat, NEW n \in Nat, \A x \in S : x <= n
    PROVE  /\ \A e : Rank(S, e) \in Nat
           /\ \A e, f \in Nat : f <= e => Rank(S, e) <= Rank(S, f)
           /\ \A T, e : T \subseteq S => Rank(T, e) <= Rank(S, e)
           /\ \A e \in S, o \in Nat : Rank(S, e) > o =>
                 \E f \in S : f >= e /\ Rank(S, f) = o + 1
<1>1. IsFiniteSet(S)
  BY PartOfInterval
<1>2. \A e : IsFiniteSet({f \in S : f >= e}) /\ Rank(S, e) \in Nat
  BY <1>1, FS_Subset, FS_CardinalityType DEF Rank
<1>3. ASSUME NEW e \in Nat, NEW f \in Nat, f <= e PROVE Rank(S, e) <= Rank(S, f)
  <2>1. \A x, y, z \in Nat : x <= y /\ z >= y => z >= x
    OBVIOUS
  <2>2. {g \in S : g >= e} \subseteq {g \in S : g >= f}
    BY <1>3, <2>1
  <2>. QED
    BY <1>2, <2>2, FS_Subset DEF Rank
<1>4. ASSUME NEW T, NEW e, T \subseteq S PROVE Rank(T, e) <= Rank(S, e)
  <2>1. {g \in T : g >= e} \subseteq {g \in S : g >= e}
    BY <1>4
  <2>. QED
    BY <1>2, <2>1, FS_Subset DEF Rank
<1>5. ASSUME NEW e \in S, NEW o \in Nat, Rank(S, e) > o
      PROVE  \E f \in S : f >= e /\ Rank(S, f) = o + 1
  <2>. DEFINE X == {f \in S : f >= e /\ Rank(S, f) > o}
  <2>1. e \in X
    <3>1. e \in Nat
      OBVIOUS
    <3>. QED
      BY <1>5, <3>1
  <2>2. X \subseteq Nat /\ X # {} /\ \A x \in X : x <= n
    BY <2>1
  <2>. HIDE DEF X
  <2>3. PICK t \in X : \A x \in X : x <= t
    BY <2>2, GreatestNat
  <2>4. t \in S /\ t >= e /\ Rank(S, t) > o /\ t \in Nat /\ e \in Nat
    BY <2>3 DEF X
  <2>. DEFINE B == {g \in S : g > t}
  <2>5. {g \in S : g >= t} = B \cup {t} /\ t \notin B
    <3>1. \A x \in S : x \in Nat
      OBVIOUS
    <3>2. \A x, y \in Nat : x >= y <=> (x > y \/ x = y)
      OBVIOUS
    <3>3. ~(t > t)
      BY <2>4
    <3>. QED
      BY <2>4, <3>1, <3>2, <3>3
  <2>6. B \subseteq S /\ B \subseteq Nat /\ IsFiniteSet(B) /\ Cardinality(B) \in Nat
    BY <1>1, FS_Subset, FS_CardinalityType
  <2>7. Rank(S, t) = Cardinality(B) + 1
    <3>. HIDE DEF B
    <3>. QED
      BY <2>5, <2>6, FS_AddElement DEF Rank
  <2>8. CASE B = {}
    <3>1. Cardinality(B) = 0
      BY <2>8, FS_EmptySet
    <3>. QED
      BY <1>5, <2>4, <2>7, <3>1
  <2>9. CASE B # {}
    <3>1. PICK g \in B : \A x \in B : g <= x
      <4>. HIDE DEF B
      <4>. QED
        BY <2>6, <2>9, LeastNat
    <3>2. {h \in S : h >= g} = B
      <4>1. \A x \in S : x \in Nat
        OBVIOUS
      <4>2. g \in Nat /\ t \in Nat /\ g > t
        BY <2>4, <2>6
      <4>3. \A x \in Nat : x >= g => x > t
        BY <4>2
      <4>4. \A x \in Nat : g <= x <=> x >= g
        BY <4>2
      <4>. QED
        BY <3>1, <4>1, <4>3, <4>4
    <3>3. Rank(S, g) = Cardinality(B)
      BY <3>2 DEF Rank
    <3>4. g \in Nat /\ g > t /\ g >= e /\ g \in S
      <4>1. g \in Nat /\ g > t /\ g \in S
        BY <2>6
      <4>. QED
        BY <2>4, <4>1
    <3>5. ~(Rank(S, g) > o)
      <4>1. ~(g <= t)
        BY <2>4, <3>4
      <4>2. g \notin X
        BY <2>3, <4>1
      <4>. QED
        BY <3>4, <4>2 DEF X
    <3>6. Rank(S, t) = o + 1
      BY <2>4, <2>6, <2>7, <3>3, <3>5
    <3>. QED
      BY <2>4, <3>6
  <2>. QED
    BY <2>8, <2>9
<1>. QED
  BY <1>2, <1>3, <1>4, <1>5

\* What a page leaves out, and what its end says of the rest of the list.
LEMMA PagesCover ==
    ASSUME eoffset \in Nat, since \in Nat, NEW S, S \subseteq Nat, NEW n \in Nat, \A x \in S : x <= n
    PROVE  /\ PageOf(S) \subseteq S
           /\ \A e \in S : Rank(S, e) <= eoffset + EventPage => Rank(S, e) <= eoffset \/ e \in PageOf(S)
           /\ PageOf(S) = {} => \A e \in S : Rank(S, e) <= eoffset + EventPage
           /\ PageOf(S) # {} /\ Min(PageOf(S)) < since =>
                 \A e \in S : e >= since => Rank(S, e) <= eoffset + EventPage
<1>0. EventPage \in Nat \ {0}
  BY DiscoveryAssumption
<1>1. /\ \A e : Rank(S, e) \in Nat
      /\ \A e, f \in Nat : f <= e => Rank(S, e) <= Rank(S, f)
      /\ \A e \in S, o \in Nat : Rank(S, e) > o => \E f \in S : f >= e /\ Rank(S, f) = o + 1
  BY Ranks
<1>2. \A e \in S : Rank(S, e) <= eoffset + EventPage => Rank(S, e) <= eoffset \/ e \in PageOf(S)
  BY <1>0, <1>1 DEF PageOf
<1>3. ASSUME PageOf(S) = {}, NEW e \in S PROVE Rank(S, e) <= eoffset + EventPage
  <2>1. SUFFICES ASSUME Rank(S, e) > eoffset PROVE FALSE
    BY <1>0, <1>1
  <2>2. PICK f \in S : Rank(S, f) = eoffset + 1
    BY <1>1, <2>1
  <2>3. eoffset < Rank(S, f) /\ Rank(S, f) <= eoffset + EventPage
    BY <1>0, <2>2
  <2>. QED
    BY <1>3, <2>3 DEF PageOf
<1>4. ASSUME PageOf(S) # {}, Min(PageOf(S)) < since, NEW e \in S, e >= since
      PROVE  Rank(S, e) <= eoffset + EventPage
  <2>. DEFINE low == Min(PageOf(S))
  <2>1. PageOf(S) \subseteq S
    BY DEF PageOf
  <2>2. low \in PageOf(S)
    BY <1>4, <2>1, LeastNat
  <2>. HIDE DEF low
  <2>3. low \in S /\ Rank(S, low) <= eoffset + EventPage
    BY <2>2 DEF PageOf
  <2>4. low \in Nat /\ e \in Nat /\ low < since
    BY <1>4, <2>3 DEF low
  <2>5. low <= e
    BY <1>4, <2>4
  <2>6. Rank(S, e) <= Rank(S, low)
    BY <1>1, <2>4, <2>5
  <2>. QED
    BY <1>0, <1>1, <2>3, <2>6
<1>. QED
  BY <1>2, <1>3, <1>4 DEF PageOf

\* A short page is the last one: a full one has an event of every rank in it.
LEMMA ShortPageIsLast ==
    ASSUME eoffset \in Nat, NEW S, S \subseteq Nat, NEW n \in Nat, \A x \in S : x <= n,
           Cardinality(PageOf(S)) < EventPage
    PROVE  \A e \in S : Rank(S, e) <= eoffset + EventPage
<1>0. EventPage \in Nat \ {0}
  BY DiscoveryAssumption
<1>1. /\ \A e : Rank(S, e) \in Nat
      /\ \A e \in S, o \in Nat : Rank(S, e) > o => \E f \in S : f >= e /\ Rank(S, f) = o + 1
  BY Ranks
<1>2. SUFFICES ASSUME NEW e \in S, Rank(S, e) > eoffset + EventPage PROVE FALSE
  BY <1>0, <1>1
<1>. DEFINE places == eoffset + 1 .. eoffset + EventPage
            place == [x \in PageOf(S) |-> Rank(S, x)]
<1>3. IsFiniteSet(PageOf(S))
  BY PartOfInterval, FS_Subset DEF PageOf
<1>4. \A x \in PageOf(S) : Rank(S, x) \in places
  BY <1>0, <1>1 DEF PageOf
<1>5. ASSUME NEW k \in places PROVE \E x \in PageOf(S) : place[x] = k
  <2>1. k - 1 \in Nat /\ k - 1 >= eoffset /\ k - 1 < eoffset + EventPage /\ Rank(S, e) > k - 1
    BY <1>0, <1>1, <1>2
  <2>2. PICK x \in S : Rank(S, x) = (k - 1) + 1
    BY <1>1, <2>1
  <2>3. Rank(S, x) = k
    BY <2>1, <2>2
  <2>4. x \in PageOf(S)
    BY <1>0, <2>3 DEF PageOf
  <2>. QED
    BY <2>3, <2>4
<1>6. place \in Surjection(PageOf(S), places)
  BY <1>4, <1>5 DEF Surjection
<1>7. Cardinality(places) <= Cardinality(PageOf(S))
  <2>. HIDE DEF places, place
  <2>. QED
    BY <1>3, <1>6, FS_Surjection
<1>8. Cardinality(places) = EventPage
  <2>1. Cardinality(places) =
          IF eoffset + 1 > eoffset + EventPage THEN 0 ELSE eoffset + EventPage - (eoffset + 1) + 1
    BY <1>0, FS_Interval
  <2>. QED
    BY <1>0, <2>1
<1>. QED
  BY <1>0, <1>3, <1>7, <1>8, FS_CardinalityType

Sought == {e \in atStart : e \in Family /\ e >= since}
Answer == IF path \in {"series", "script_5m"} THEN (1 .. listing) \intersect Family ELSE 1 .. listing
Got == IF path \in Scripts THEN out ELSE markets

\* While pages are read, what is above the offset is there already.
ScanInv ==
    /\ path \in {"series", "global"} \union Scripts /\ since \in Nat /\ opts \in Options
    /\ listing \in Nat /\ eoffset \in Nat /\ page \in Nat /\ atStart \subseteq 1 .. listing
    /\ path = "global" => eoffset = page * EventPage
    /\ stage = "page" => \A e \in Sought : Rank(Answer, e) <= eoffset => e \in Got
    /\ stage \in {"metadata", "prices", "trades"} => path \in Scripts
    /\ DiscoveryComplete

\* No event has rank 0: before the first page nothing is above the offset.
LEMMA NothingAboveZero ==
    ASSUME NEW S, S \subseteq Nat, NEW n \in Nat, \A x \in S : x <= n, NEW e \in S
    PROVE  ~(Rank(S, e) <= 0)
<1>1. IsFiniteSet({f \in S : f >= e}) /\ e \in {f \in S : f >= e}
  <2>1. IsFiniteSet(S) /\ e \in Nat
    BY PartOfInterval
  <2>. QED
    BY <2>1, FS_Subset
<1>2. Cardinality({f \in S : f >= e}) # 0 /\ Cardinality({f \in S : f >= e}) \in Nat
  BY <1>1, FS_EmptySet, FS_CardinalityType
<1>. QED
  BY <1>2 DEF Rank

LEMMA ScanStart == DiscoveryInit => ScanInv
<1>1. SUFFICES ASSUME DiscoveryInit PROVE ScanInv
  OBVIOUS
<1>2. /\ stage = "page" /\ eoffset = 0 /\ page = 0 /\ listing \in Nat /\ atStart = 1 .. listing
      /\ path \in {"series", "global"} \union Scripts /\ since \in Nat /\ opts \in Options
  BY <1>1, DiscoveryAssumption DEF DiscoveryInit, Events
<1>3. EventPage \in Nat /\ 0 = 0 * EventPage
  BY DiscoveryAssumption
<1>4. \A e \in Sought : ~(Rank(Answer, e) <= 0)
  <2>1. Answer \subseteq 1 .. listing /\ Sought \subseteq Answer
    BY <1>2 DEF Sought, Answer
  <2>2. Answer \subseteq Nat /\ \A x \in Answer : x <= listing
    BY <1>2, <2>1
  <2>. QED
    BY <1>2, <2>1, <2>2, NothingAboveZero
<1>. QED
  BY <1>2, <1>3, <1>4 DEF ScanInv, DiscoveryComplete

LEMMA PageTaken ==
    ASSUME ScanInv, stage = "page"
    PROVE  LET events == PageOf(Answer)
               have == Got \cup MarketRows(events)
           IN  /\ \A e \in Sought : Rank(Answer, e) <= eoffset + EventPage => e \in have
               /\ events = {} \/ Min(events) < since => Sought \subseteq have
               /\ path # "series" /\ ScanEnds(events) => Sought \subseteq have
<1>. DEFINE events == PageOf(Answer)
            have == Got \cup MarketRows(events)
<1>0. listing \in Nat /\ eoffset \in Nat /\ since \in Nat
  BY DEF ScanInv
<1>1. Answer \subseteq Nat /\ \A x \in Answer : x <= listing
  BY <1>0 DEF Answer
<1>2. \A e \in Sought : e \in Answer /\ e \in Family /\ e >= since
  BY DEF Sought, Answer, ScanInv
<1>3. /\ \A e \in Answer : Rank(Answer, e) <= eoffset + EventPage => Rank(Answer, e) <= eoffset \/ e \in events
      /\ events = {} => \A e \in Answer : Rank(Answer, e) <= eoffset + EventPage
      /\ events # {} /\ Min(events) < since =>
            \A e \in Answer : e >= since => Rank(Answer, e) <= eoffset + EventPage
  BY <1>0, <1>1, PagesCover
<1>4. path # "series" /\ Cardinality(events) < EventPage =>
         \A e \in Answer : Rank(Answer, e) <= eoffset + EventPage
  BY <1>0, <1>1, ShortPageIsLast
<1>. HIDE DEF events
<1>5. \A e \in Sought : Rank(Answer, e) <= eoffset + EventPage => e \in have
  BY <1>2, <1>3 DEF ScanInv, MarketRows
<1>6. events = {} \/ Min(events) < since => Sought \subseteq have
  BY <1>2, <1>3, <1>5
<1>7. path # "series" /\ ScanEnds(events) => Sought \subseteq have
  BY <1>2, <1>4, <1>5, <1>6 DEF ScanEnds
<1>. QED
  BY <1>5, <1>6, <1>7 DEF events

\* Steps after the pages: the lists and the tables only grow.
LEMMA ScanFrame ==
    ASSUME ScanInv, UNCHANGED <<path, Family, since, opts, listing, eoffset, page, atStart, out>>,
           markets \subseteq markets', stage' # "page",
           stage' = "done" /\ path \notin Scripts => stage = "done",
           stage' \notin {"page", "failed"} /\ path \in Scripts => stage \notin {"page", "failed"},
           stage' \in {"metadata", "prices", "trades"} => path \in Scripts
    PROVE  ScanInv'
<1>1. DiscoveryComplete'
  BY DEF ScanInv, DiscoveryComplete
<1>. QED
  BY <1>1 DEF ScanInv

LEMMA ScanStep ==
    ASSUME ScanInv, [DiscoveryNext]_discoveryVars
    PROVE  ScanInv'
<1>. USE DEF inputs, tables
<1>0. /\ listing \in Nat /\ eoffset \in Nat /\ since \in Nat /\ page \in Nat
      /\ EventPage \in Nat \ {0} /\ PageCap \in Nat \ {0}
  BY DiscoveryAssumption DEF ScanInv
<1>1. CASE ListEvent
  <2>1. /\ listing' = listing + 1 /\ stage = "page"
        /\ UNCHANGED <<path, Family, since, opts, stage, eoffset, page, out, markets, atStart>>
    BY <1>1 DEF ListEvent
  <2>2. 1 .. listing \subseteq 1 .. listing' /\ listing' \in Nat
    BY <1>0, <2>1
  <2>3. Answer \subseteq Answer' /\ Answer' \subseteq Nat /\ \A x \in Answer' : x <= listing'
    BY <1>0, <2>1, <2>2 DEF Answer
  <2>4. \A e : Rank(Answer, e) <= Rank(Answer', e) /\ Rank(Answer, e) \in Nat /\ Rank(Answer', e) \in Nat
    <3>1. Answer \subseteq Nat /\ \A x \in Answer : x <= listing
      BY <1>0 DEF Answer
    <3>. QED
      BY <1>0, <2>2, <2>3, <3>1, Ranks
  <2>5. Sought' = Sought /\ Got' = Got /\ eoffset' = eoffset
    BY <2>1 DEF Sought, Got
  <2>6. \A e \in Sought' : Rank(Answer', e) <= eoffset' => e \in Got'
    BY <1>0, <2>1, <2>4, <2>5 DEF ScanInv
  <2>7. DiscoveryComplete' /\ atStart' \subseteq 1 .. listing'
    BY <2>1, <2>2 DEF ScanInv, DiscoveryComplete
  <2>. QED
    BY <2>1, <2>2, <2>6, <2>7 DEF ScanInv
<1>2. CASE DiscoverViaSeries
  <2>. DEFINE events == PageOf(Answer)
  <2>1. /\ path = "series" /\ stage = "page" /\ eoffset' = eoffset + EventPage
        /\ events = FetchEventsPage
        /\ markets' = markets \union MarketRows(events)
        /\ stage' = IF events = {} \/ Min(events) < since THEN "done" ELSE "page"
        /\ UNCHANGED <<path, Family, since, opts, listing, page, out, atStart>>
    BY <1>2 DEF DiscoverViaSeries, FetchEventsPage, Answer
  <2>2. /\ \A e \in Sought : Rank(Answer, e) <= eoffset + EventPage => e \in Got \cup MarketRows(events)
        /\ events = {} \/ Min(events) < since => Sought \subseteq Got \cup MarketRows(events)
    BY <2>1, PageTaken
  <2>. HIDE DEF events
  <2>3. Sought' = Sought /\ Answer' = Answer /\ Got' = Got \cup MarketRows(events)
    BY <2>1 DEF Sought, Answer, Got, Scripts
  <2>4. \A e \in Sought' : Rank(Answer', e) <= eoffset' => e \in Got'
    BY <2>1, <2>2, <2>3
  <2>5. stage' = "done" => Sought' \subseteq markets'
    BY <2>1, <2>2, <2>3 DEF Got, Scripts
  <2>6. DiscoveryComplete'
    BY <2>1, <2>5 DEF DiscoveryComplete, Sought, Scripts
  <2>7. eoffset' \in Nat /\ atStart' \subseteq 1 .. listing'
    BY <1>0, <2>1 DEF ScanInv
  <2>. QED
    BY <1>0, <2>1, <2>4, <2>6, <2>7 DEF ScanInv
<1>3. CASE DiscoverViaGlobalEvents
  <2>. DEFINE events == PageOf(Answer)
  <2>1. /\ path = "global" /\ stage = "page" /\ page' = page + 1 /\ eoffset' = (page + 1) * EventPage
        /\ markets' = markets \union MarketRows(events)
        /\ stage' = IF ScanEnds(events) THEN "done" ELSE IF page + 1 = PageCap THEN "capped" ELSE "page"
        /\ UNCHANGED <<path, Family, since, opts, listing, out, atStart>>
    BY <1>3 DEF DiscoverViaGlobalEvents, FetchEventsPageGlobal, Answer
  <2>2. /\ \A e \in Sought : Rank(Answer, e) <= eoffset + EventPage => e \in Got \cup MarketRows(events)
        /\ ScanEnds(events) => Sought \subseteq Got \cup MarketRows(events)
    BY <2>1, PageTaken
  <2>. HIDE DEF events
  <2>3. Sought' = Sought /\ Answer' = Answer /\ Got' = Got \cup MarketRows(events)
    BY <2>1 DEF Sought, Answer, Got, Scripts
  <2>a. eoffset' = eoffset + EventPage
    <3>1. \A p, k \in Nat : (p + 1) * k = p * k + k
      OBVIOUS
    <3>. QED
      BY <1>0, <2>1, <3>1 DEF ScanInv
  <2>4. \A e \in Sought' : Rank(Answer', e) <= eoffset' => e \in Got'
    BY <2>1, <2>2, <2>3, <2>a
  <2>5. stage' = "done" => Sought' \subseteq markets'
    BY <2>1, <2>2, <2>3 DEF Got, Scripts
  <2>6. DiscoveryComplete'
    BY <2>1, <2>5 DEF DiscoveryComplete, Sought, Scripts
  <2>7. eoffset' \in Nat /\ page' \in Nat /\ atStart' \subseteq 1 .. listing' /\ eoffset' = page' * EventPage
    BY <1>0, <2>1, <2>a DEF ScanInv
  <2>. QED
    BY <1>0, <2>1, <2>4, <2>6, <2>7 DEF ScanInv
<1>4. CASE Enumerate
  <2>. DEFINE events == PageOf(Answer)
              found == out \union MarketRows(events)
              ends == ScanEnds(events) \/ page + 1 = PageCap
  <2>1. /\ path \in Scripts /\ stage = "page" /\ page' = page + 1 /\ eoffset' = eoffset + EventPage
        /\ out' = IF ends /\ opts.limit > 0 THEN {e \in found : Rank(found, e) <= opts.limit} ELSE found
        /\ stage' = IF ends THEN "metadata" ELSE "page"
        /\ UNCHANGED <<path, Family, since, opts, listing, markets, atStart>>
    <3>1. events = IF path = "script_5m" THEN FetchEventsPage ELSE FetchEventsPageGlobal
      BY <1>4 DEF Enumerate, Scripts, FetchEventsPage, FetchEventsPageGlobal, Answer
    <3>. HIDE DEF events
    <3>. QED
      BY <1>4, <3>1 DEF Enumerate
  <2>2. /\ \A e \in Sought : Rank(Answer, e) <= eoffset + EventPage => e \in Got \cup MarketRows(events)
        /\ ScanEnds(events) => Sought \subseteq Got \cup MarketRows(events)
    BY <2>1, PageTaken DEF Scripts
  <2>. HIDE DEF events
  <2>3. Sought' = Sought /\ Answer' = Answer /\ Got = out /\ Got' = out'
    BY <2>1 DEF Sought, Answer, Got
  <2>4. stage' = "page" => \A e \in Sought' : Rank(Answer', e) <= eoffset' => e \in Got'
    BY <2>1, <2>2, <2>3
  <2>5. stage' = "metadata" /\ page' < PageCap /\ opts.limit = 0 => Sought' \subseteq out'
    <3>1. opts.limit = 0 => out' = found
      BY <2>1
    <3>2. stage' = "metadata" /\ page' < PageCap => ScanEnds(events)
      BY <1>0, <2>1
    <3>. QED
      BY <2>2, <2>3, <3>1, <3>2
  <2>6. DiscoveryComplete'
    BY <2>1, <2>5 DEF DiscoveryComplete, Sought
  <2>7. eoffset' \in Nat /\ page' \in Nat /\ atStart' \subseteq 1 .. listing'
    BY <1>0, <2>1 DEF ScanInv
  <2>. QED
    BY <1>0, <2>1, <2>4, <2>6, <2>7 DEF ScanInv, Scripts
<1>5. CASE PageError \/ StoreMetadata \/ PriceHistory \/ PricesDone \/ Trades \/ WriteManifest \/ ScriptDies
  <2>1. UNCHANGED <<path, Family, since, opts, listing, eoffset, page, atStart, out>> /\ markets \subseteq markets'
    BY <1>5 DEF PageError, StoreMetadata, PriceHistory, PricesDone, Trades, WriteManifest, ScriptDies
  <2>2. /\ stage' # "page"
        /\ \/ stage' = "failed"
           \/ stage \in {"metadata", "prices", "trades"} /\ stage' \in {"prices", "trades", "done"}
    BY <1>5 DEF PageError, StoreMetadata, PriceHistory, PricesDone, Trades, WriteManifest, ScriptDies
  <2>3. stage \in {"metadata", "prices", "trades"} => path \in Scripts
    BY DEF ScanInv
  <2>. QED
    BY <2>1, <2>2, <2>3, ScanFrame
<1>7. CASE DiscoverAgain
  <2>1. /\ stage' = "page" /\ eoffset' = 0 /\ page' = 0 /\ opts' \in Options /\ atStart' = 1 .. listing
        /\ UNCHANGED <<path, Family, since, listing>>
    BY <1>7 DEF DiscoverAgain, ScanInv
  <2>2. listing' \in Nat /\ atStart' \subseteq 1 .. listing'
    BY <1>0, <2>1
  <2>3. \A e \in Sought' : ~(Rank(Answer', e) <= 0)
    <3>1. Answer' \subseteq 1 .. listing' /\ Sought' \subseteq Answer'
      BY <2>2 DEF Sought, Answer
    <3>2. Answer' \subseteq Nat /\ \A x \in Answer' : x <= listing'
      BY <2>2, <3>1
    <3>. QED
      BY <2>2, <3>1, <3>2, NothingAboveZero
  <2>4. DiscoveryComplete'
    BY <2>1 DEF DiscoveryComplete
  <2>. QED
    BY <1>0, <2>1, <2>2, <2>3, <2>4 DEF ScanInv
<1>6. CASE UNCHANGED discoveryVars
  BY <1>6 DEF discoveryVars, ScanInv, DiscoveryComplete, Sought, Answer, Got
<1>. QED
  BY <1>1, <1>2, <1>3, <1>4, <1>5, <1>6, <1>7 DEF DiscoveryNext

-----------------------------------------------------------------------------
(* Paging through trades, by offset and by id. *)

LEMMA RisingOrder ==
    ASSUME NEW s \in Seq(Nat), Rising(s), NEW i \in 1 .. Len(s), NEW j \in 1 .. Len(s), i <= j
    PROVE  s[i] <= s[j]
<1>. DEFINE T == {k \in i .. Len(s) : ~(s[i] <= s[k])}
<1>1. SUFFICES ASSUME T # {} PROVE FALSE
  OBVIOUS
<1>2. T \subseteq Nat
  OBVIOUS
<1>. HIDE DEF T
<1>3. PICK k \in T : \A x \in T : k <= x
  BY <1>1, <1>2, LeastNat
<1>4. k \in i .. Len(s) /\ ~(s[i] <= s[k]) /\ s[i] \in Nat
  BY <1>3 DEF T
<1>5. k # i
  BY <1>4
<1>6. k - 1 \in i .. Len(s) /\ k - 1 \in 1 .. Len(s) - 1 /\ k \in 1 .. Len(s)
  BY <1>4, <1>5
<1>7. k - 1 \notin T
  BY <1>2, <1>3, <1>6
<1>8. s[i] <= s[k - 1]
  BY <1>6, <1>7 DEF T
<1>9. s[k - 1] <= s[k - 1 + 1]
  BY <1>6 DEF Rising
<1>10. k - 1 + 1 = k /\ s[k] \in Nat /\ s[k - 1] \in Nat
  BY <1>6
<1>. QED
  BY <1>4, <1>8, <1>9, <1>10

\* An answer cut to the lowest ids is an initial part of its range, and full
\* when it leaves anything out.
LEMMA LowestRows ==
    ASSUME NEW S, S \subseteq Nat, NEW n \in Nat, \A x \in S : x <= n
    PROVE  /\ Lowest(S) \subseteq S /\ IsFiniteSet(Lowest(S))
           /\ \A x \in Lowest(S), t \in S : t <= x => t \in Lowest(S)
           /\ S # Lowest(S) => Lowest(S) # {} /\ Cardinality(Lowest(S)) >= TradePage
<1>0. TradePage \in Nat /\ TradePage > 0
  BY PagingAssumption
<1>1. \A t, x \in S : t <= x => {u \in S : u < t} \subseteq {u \in S : u < x}
  <2>1. \A t, x, u \in Nat : t <= x /\ u < t => u < x
    OBVIOUS
  <2>. QED
    BY <2>1
<1>2. IsFiniteSet(S) /\ IsFiniteSet(Lowest(S)) /\ Lowest(S) \subseteq S
  <2>1. IsFiniteSet(S) /\ Lowest(S) \subseteq S
    BY PartOfInterval DEF Lowest
  <2>. QED
    BY <2>1, FS_Subset
<1>3. \A t : IsFiniteSet({u \in S : u < t}) /\ Cardinality({u \in S : u < t}) \in Nat
  BY <1>2, FS_Subset, FS_CardinalityType
<1>4. ASSUME NEW x \in Lowest(S), NEW t \in S, t <= x
      PROVE  t \in Lowest(S)
  <2>1. x \in S /\ Cardinality({u \in S : u < x}) < TradePage
    BY DEF Lowest
  <2>2. Cardinality({u \in S : u < t}) <= Cardinality({u \in S : u < x})
    BY <1>1, <1>3, <1>4, <2>1, FS_Subset
  <2>. QED
    BY <1>0, <1>3, <2>1, <2>2 DEF Lowest
<1>5. ASSUME S # Lowest(S) PROVE Lowest(S) # {} /\ Cardinality(Lowest(S)) >= TradePage
  <2>. DEFINE T == S \ Lowest(S)
  <2>1. T \subseteq Nat /\ T # {}
    BY <1>2, <1>5
  <2>. HIDE DEF T
  <2>2. PICK z \in T : \A x \in T : z <= x
    BY <2>1, LeastNat
  <2>3. z \in S /\ z \notin Lowest(S)
    BY <2>2 DEF T
  <2>4. {u \in S : u < z} \subseteq Lowest(S)
    <3>1. \A x, y \in Nat : x < y => ~(y <= x)
      OBVIOUS
    <3>2. z \in Nat /\ \A u \in S : u \in Nat
      BY <2>3
    <3>. QED
      BY <2>2, <3>1, <3>2 DEF T
  <2>5. Cardinality({u \in S : u < z}) >= TradePage
    BY <1>0, <1>3, <2>3 DEF Lowest
  <2>6. /\ Cardinality({u \in S : u < z}) <= Cardinality(Lowest(S))
        /\ Cardinality(Lowest(S)) \in Nat
    BY <1>2, <2>4, FS_Subset, FS_CardinalityType
  <2>7. Cardinality(Lowest(S)) >= TradePage
    BY <1>0, <1>3, <2>5, <2>6
  <2>8. Lowest(S) # {}
    <3>1. Cardinality({}) = 0
      BY FS_EmptySet
    <3>. QED
      BY <1>0, <2>7, <3>1
  <2>. QED
    BY <2>7, <2>8
<1>. QED
  BY <1>2, <1>4, <1>5

\* What the offset, or the id, has passed is gathered.
PagingInv ==
    /\ stamps \in Seq(Nat) /\ offset \in Nat /\ fromId \in Nat
    /\ how = "data_api" /\ fetching = "page" =>
          /\ first \subseteq Tape
          /\ \A i \in first : Len(stamps) + 1 - i <= offset => i \in gathered
          /\ gathered \subseteq Tape
    /\ how = "agg" =>
          /\ Rising(stamps) /\ \A i \in gathered : InWindow(i)
          /\ fromId # 0 => fromId - 1 \in Tape /\ WinStart <= stamps[fromId - 1]
          /\ fetching = "page" => \A i \in Tape : InWindow(i) /\ i < fromId => i \in gathered
    /\ PagesLoseNothing

LEMMA PagingStart == PagingInit => PagingInv
<1>1. SUFFICES ASSUME PagingInit PROVE PagingInv
  OBVIOUS
<1>2. PICK n \in 0 .. MaxTape : stamps \in [1 .. n -> 0 .. LastStamp]
  BY <1>1 DEF PagingInit
<1>3. stamps \in Seq(Nat) /\ Rising(stamps)
  BY <1>1, <1>2, PagingAssumption DEF PagingInit
<1>4. /\ fetching = "page" /\ offset = 0 /\ fromId = 0 /\ gathered = {} /\ first = Tape
  BY <1>1 DEF PagingInit
<1>5. \A i \in Tape : i \in 1 .. Len(stamps)
  BY <1>3 DEF Tape
<1>6. \A i \in Tape : ~(Len(stamps) + 1 - i <= 0) /\ ~(i < 0)
  BY <1>3, <1>5
<1>. QED
  BY <1>3, <1>4, <1>6 DEF PagingInv, PagesLoseNothing

\* A page by offset; one that is short is the last.
LEMMA OffsetPage ==
    ASSUME PagingInv, BackfillMarketTrades
    PROVE  PagingInv'
<1>0. /\ how = "data_api" /\ fetching = "page" /\ offset' = offset + TradePage
      /\ gathered' = gathered \union FetchTradesPage
      /\ fetching' = IF Cardinality(FetchTradesPage) < TradePage THEN "done" ELSE "page"
      /\ UNCHANGED <<how, stamps, fromId, first, refused>>
  BY DEF BackfillMarketTrades
<1>. DEFINE n == Len(stamps)
<1>1. /\ TradePage \in Nat \ {0} /\ offset \in Nat /\ n \in Nat /\ Tape = 1 .. n
      /\ first \subseteq 1 .. n
  BY <1>0, PagingAssumption DEF PagingInv, Tape
<1>2. FetchTradesPage = {i \in 1 .. n : offset < n + 1 - i /\ n + 1 - i <= offset + TradePage}
  BY <1>1 DEF FetchTradesPage
<1>. HIDE DEF n
<1>3. \A i \in first : n + 1 - i <= offset + TradePage => i \in gathered'
  <2>1. SUFFICES ASSUME NEW i \in first, n + 1 - i <= offset + TradePage PROVE i \in gathered'
    OBVIOUS
  <2>2. n + 1 - i <= offset => i \in gathered
    BY <1>0 DEF PagingInv, n
  <2>3. i \in 1 .. n /\ (n + 1 - i <= offset \/ offset < n + 1 - i)
    BY <1>1
  <2>. QED
    BY <1>0, <1>2, <2>1, <2>2, <2>3
<1>4. ASSUME Cardinality(FetchTradesPage) < TradePage, NEW i \in first
      PROVE  n + 1 - i <= offset + TradePage
  <2>1. SUFFICES ASSUME n + 1 - i > offset + TradePage PROVE FALSE
    BY <1>1
  <2>. DEFINE low == n + 1 - offset - TradePage
              high == n - offset
  <2>2. i \in 1 .. n
    BY <1>1
  <2>3. /\ low \in Nat /\ high \in Nat /\ low >= 1 /\ high <= n /\ low <= high
        /\ high - low + 1 = TradePage
    BY <1>1, <2>1, <2>2
  <2>4. low .. high \subseteq FetchTradesPage
    BY <1>1, <1>2, <2>3
  <2>. HIDE DEF low, high
  <2>5. Cardinality(low .. high) = TradePage
    <3>1. Cardinality(low .. high) = IF low > high THEN 0 ELSE high - low + 1
      BY <2>3, FS_Interval
    <3>. QED
      BY <2>3, <3>1
  <2>6. IsFiniteSet(FetchTradesPage)
    <3>1. IsFiniteSet(1 .. n) /\ FetchTradesPage \subseteq 1 .. n
      BY <1>1, <1>2, FS_Interval
    <3>. QED
      BY <3>1, FS_Subset
  <2>7. TradePage <= Cardinality(FetchTradesPage) /\ Cardinality(FetchTradesPage) \in Nat
    BY <2>4, <2>5, <2>6, FS_Subset, FS_CardinalityType
  <2>. QED
    BY <1>1, <1>4, <2>7
<1>5. fetching' = "done" => first' \subseteq gathered'
  BY <1>0, <1>3, <1>4
<1>7. gathered' \subseteq 1 .. n
  BY <1>0, <1>1, <1>2 DEF PagingInv
<1>8. ASSUME NEW i \in gathered', NEW j \in first, i <= j PROVE j \in gathered'
  <2>1. i \in 1 .. n /\ j \in 1 .. n
    BY <1>1, <1>7
  <2>2. CASE i \in gathered
    BY <1>0, <1>8, <2>2 DEF PagingInv, PagesLoseNothing
  <2>3. CASE i \in FetchTradesPage
    <3>1. n + 1 - i <= offset + TradePage
      BY <1>2, <2>3
    <3>2. n + 1 - j <= offset + TradePage
      BY <1>1, <1>8, <2>1, <3>1
    <3>. QED
      BY <1>3, <3>2
  <2>. QED
    BY <1>0, <2>2, <2>3
<1>6. /\ offset' \in Nat /\ first' \subseteq Tape' /\ gathered' \subseteq Tape'
      /\ \A i \in first' : Len(stamps') + 1 - i <= offset' => i \in gathered'
  BY <1>0, <1>1, <1>3, <1>7 DEF n, Tape
<1>. QED
  BY <1>0, <1>5, <1>6, <1>8 DEF PagingInv, PagesLoseNothing

\* A window of trades: first by time, then by id.
LEMMA WindowPage ==
    ASSUME PagingInv, FetchWindow
    PROVE  PagingInv'
<1>. DEFINE X == {i \in Tape : IF fromId = 0 THEN InWindow(i) ELSE i >= fromId}
            A == Lowest(X)
            batch == {i \in A : InWindow(i)}
<1>0. /\ how = "agg" /\ fetching = "page" /\ UNCHANGED <<how, stamps, offset, first>>
      /\ gathered' = gathered \union batch
      /\ IF batch = {} \/ Cardinality(A) < TradePage \/ stamps[LastOf(batch)] >= WinEnd
         THEN fetching' = "done" /\ UNCHANGED fromId
         ELSE fromId' = LastOf(batch) + 1 /\ UNCHANGED fetching
  BY DEF FetchWindow, AggAnswer
<1>. DEFINE n == Len(stamps)
<1>1. /\ TradePage \in Nat \ {0} /\ n \in Nat /\ Tape = 1 .. n /\ fromId \in Nat
      /\ WinStart \in Nat /\ WinEnd \in Nat
      /\ \A i \in 1 .. n : stamps[i] \in Nat
  BY PagingAssumption DEF PagingInv, Tape
<1>2. \A i, j \in 1 .. n : i <= j => stamps[i] <= stamps[j]
  BY <1>0, RisingOrder DEF PagingInv
<1>. HIDE DEF n
<1>3. X \subseteq Nat /\ X \subseteq 1 .. n /\ \A x \in X : x <= n
  BY <1>1
<1>a. /\ \A i \in 1 .. n : InWindow(i) /\ ~(i < fromId) => i \in X
      /\ fromId = 0 => \A i \in X : InWindow(i)
      /\ fromId # 0 => \A i \in X : i >= fromId
  BY <1>1
<1>. HIDE DEF X
<1>4. /\ A \subseteq X /\ \A x \in A, t \in X : t <= x => t \in A
      /\ X # A => A # {} /\ Cardinality(A) >= TradePage /\ Cardinality(A) \in Nat
  BY <1>1, <1>3, LowestRows, FS_CardinalityType
<1>. HIDE DEF A
<1>5. batch # {} => LastOf(batch) \in batch /\ \A j \in batch : j <= LastOf(batch)
  <2>1. SUFFICES ASSUME batch # {}
                 PROVE  LastOf(batch) \in batch /\ \A j \in batch : j <= LastOf(batch)
    OBVIOUS
  <2>2. batch \subseteq Nat /\ \A x \in batch : x <= n
    BY <1>3, <1>4
  <2>. HIDE DEF batch
  <2>3. PICK t \in batch : \A j \in batch : j <= t
    BY <1>1, <2>1, <2>2, GreatestNat
  <2>. QED
    BY <2>3 DEF LastOf
<1>6. \A i \in batch : i \in A /\ InWindow(i) /\ i \in X /\ i \in 1 .. n
  BY <1>3, <1>4
<1>b. \A i \in A : InWindow(i) => i \in batch
  OBVIOUS
<1>. HIDE DEF batch
<1>7. \A i \in gathered' : InWindow(i)'
  <2>1. \A i : InWindow(i)' <=> InWindow(i)
    BY <1>0 DEF InWindow
  <2>. QED
    BY <1>0, <1>6, <2>1 DEF PagingInv
<1>8. CASE batch = {} \/ Cardinality(A) < TradePage \/ stamps[LastOf(batch)] >= WinEnd
  <2>1. fetching' = "done" /\ fromId' = fromId
    BY <1>0, <1>8
  <2>2. ASSUME NEW i \in 1 .. n, InWindow(i), stamps[i] < WinEnd, i \notin gathered'
        PROVE  FALSE
    <3>1. ~(i < fromId)
      BY <1>0, <1>1, <2>2 DEF PagingInv
    <3>2. i \in X /\ i \notin A
      BY <1>0, <1>a, <1>b, <2>2, <3>1
    <3>3. A # {} /\ ~(Cardinality(A) < TradePage)
      BY <1>1, <1>4, <3>2
    <3>4. \A x \in A : x \in 1 .. n /\ x <= i /\ stamps[x] <= stamps[i]
      <4>1. \A x \in A : x \in 1 .. n /\ ~(i <= x)
        BY <1>3, <1>4, <3>2
      <4>2. \A x \in A : x <= i
        BY <4>1
      <4>. QED
        BY <1>2, <2>2, <4>1, <4>2
    <3>5. CASE batch = {}
      <4>1. PICK x \in A : ~InWindow(x)
        BY <1>b, <3>3, <3>5
      <4>2. fromId # 0 /\ x >= fromId
        BY <1>4, <1>a, <4>1
      <4>3. fromId - 1 \in 1 .. n /\ WinStart <= stamps[fromId - 1]
        BY <1>0, <1>1, <4>2 DEF PagingInv
      <4>4. x \in 1 .. n /\ stamps[x] <= stamps[i] /\ x \in Nat
        BY <3>4
      <4>5. fromId - 1 <= x
        BY <1>1, <4>2, <4>4
      <4>6. stamps[fromId - 1] <= stamps[x]
        BY <1>2, <4>3, <4>4, <4>5
      <4>7. WinStart <= stamps[x] /\ stamps[x] <= WinEnd
        <5>1. \A a, b, c, d, e \in Nat : a <= b /\ b <= c /\ c <= d /\ d < e => a <= c /\ c <= e
          OBVIOUS
        <5>2. stamps[x] \in Nat /\ stamps[i] \in Nat /\ stamps[fromId - 1] \in Nat
          BY <1>1, <4>3, <4>4
        <5>. QED
          BY <1>1, <2>2, <4>3, <4>4, <4>6, <5>1, <5>2
      <4>. QED
        BY <4>1, <4>7 DEF InWindow
    <3>6. CASE batch # {} /\ stamps[LastOf(batch)] >= WinEnd
      <4>. DEFINE last1 == LastOf(batch)
      <4>1. last1 \in A
        BY <1>5, <1>6, <3>6
      <4>. HIDE DEF last1
      <4>2. stamps[last1] \in Nat /\ stamps[last1] <= stamps[i] /\ stamps[i] \in Nat
        BY <1>1, <3>4, <4>1
      <4>. QED
        BY <1>1, <2>2, <3>6, <4>2 DEF last1
    <3>. QED
      BY <1>8, <3>3, <3>5, <3>6
  <2>3. PagesLoseNothing'
    <3>1. \A i : InWindow(i)' <=> InWindow(i)
      BY <1>0 DEF InWindow
    <3>2. {i \in Tape' : InWindow(i)' /\ stamps'[i] < WinEnd} \subseteq gathered'
      BY <1>0, <1>1, <2>2, <3>1 DEF Tape
    <3>. QED
      BY <1>0, <1>7, <3>2 DEF PagesLoseNothing
  <2>. QED
    BY <1>0, <1>7, <2>1, <2>3 DEF PagingInv, Tape, InWindow
<1>9. CASE ~(batch = {} \/ Cardinality(A) < TradePage \/ stamps[LastOf(batch)] >= WinEnd)
  <2>. DEFINE top == LastOf(batch)
  <2>1. fetching' = fetching /\ fromId' = top + 1
    BY <1>0, <1>9
  <2>2. top \in batch /\ top \in A /\ top \in 1 .. n /\ InWindow(top)
    BY <1>5, <1>6, <1>9
  <2>. HIDE DEF top
  <2>3. fromId' \in Nat /\ fromId' - 1 = top
    BY <1>1, <2>1, <2>2
  <2>4. fromId' - 1 \in Tape' /\ WinStart <= stamps'[fromId' - 1]
    BY <1>0, <1>1, <2>2, <2>3 DEF Tape, InWindow
  <2>5. ASSUME NEW i \in 1 .. n, InWindow(i), i < fromId' PROVE i \in gathered'
    <3>1. CASE i < fromId
      BY <1>0, <1>1, <2>5, <3>1 DEF PagingInv
    <3>2. CASE ~(i < fromId)
      <4>1. i \in X /\ i <= top
        BY <1>1, <1>a, <2>1, <2>2, <2>5, <3>2
      <4>. QED
        BY <1>0, <1>4, <1>b, <2>2, <2>5, <4>1
    <3>. QED
      BY <3>1, <3>2
  <2>6. \A i \in Tape' : InWindow(i)' /\ i < fromId' => i \in gathered'
    <3>1. \A i : InWindow(i)' <=> InWindow(i)
      BY <1>0 DEF InWindow
    <3>. QED
      BY <1>0, <1>1, <2>5, <3>1 DEF Tape
  <2>. QED
    BY <1>0, <1>7, <2>1, <2>3, <2>4, <2>6 DEF PagingInv, PagesLoseNothing
<1>. QED
  BY <1>8, <1>9

LEMMA PagingStep ==
    ASSUME PagingInv, [PagingNext]_pagingVars
    PROVE  PagingInv'
<1>1. CASE NewTrade
  <2>1. /\ how = "data_api" /\ fetching = "page" /\ stamps' = Append(stamps, LastStamp)
        /\ UNCHANGED <<how, fetching, offset, fromId, gathered, first, refused>>
    BY <1>1 DEF NewTrade
  <2>2. stamps' \in Seq(Nat) /\ Len(stamps') = Len(stamps) + 1 /\ Len(stamps) \in Nat
    BY <2>1, PagingAssumption DEF PagingInv
  <2>3. Tape = 1 .. Len(stamps) /\ Tape' = 1 .. Len(stamps')
    BY <2>2 DEF PagingInv, Tape
  <2>4. first \subseteq 1 .. Len(stamps) /\ offset \in Nat
    BY <2>1, <2>3 DEF PagingInv
  <2>5. \A i \in first : Len(stamps') + 1 - i <= offset => i \in gathered
    <3>1. \A i \in first : Len(stamps') + 1 - i <= offset => Len(stamps) + 1 - i <= offset
      BY <2>2, <2>4
    <3>. QED
      BY <2>1, <3>1 DEF PagingInv
  <2>6. first' \subseteq Tape' /\ gathered' \subseteq Tape'
    <3>1. gathered \subseteq Tape /\ gathered' = gathered
      BY <1>1, <2>1 DEF PagingInv, NewTrade
    <3>. QED
      BY <2>1, <2>2, <2>3, <2>4, <3>1
  <2>. QED
    BY <2>1, <2>2, <2>5, <2>6 DEF PagingInv, PagesLoseNothing
<1>2. CASE BackfillMarketTrades
  BY <1>2, OffsetPage
<1>3. CASE FetchWindow
  BY <1>3, WindowPage
<1>4. CASE FetchFails
  BY <1>4 DEF FetchFails, PagingInv, PagesLoseNothing, Tape, InWindow
<1>a. CASE EmptyForRefused
  BY <1>a DEF EmptyForRefused, PagingInv, PagesLoseNothing, Tape
<1>5. CASE UNCHANGED pagingVars
  BY <1>5 DEF pagingVars, PagingInv, PagesLoseNothing, Tape, InWindow
<1>. QED
  BY <1>1, <1>2, <1>3, <1>4, <1>5, <1>a DEF PagingNext

-----------------------------------------------------------------------------
(* The Polymarket loop under its supervisor. *)

\* The failures that count are in the order of time.
FailsInv ==
    /\ mnow \in Nat /\ fails \in Seq(Nat)
    /\ \A i \in 1 .. Len(fails) : fails[i] <= mnow
    /\ \A i, j \in 1 .. Len(fails) : i <= j => fails[i] <= fails[j]
    /\ loop = "stopped" => /\ Len(fails) > FailBudget
                           /\ \A i \in DOMAIN fails : fails[Len(fails)] - fails[i] < FailWindow

StreamStates == {"load", "run", "cancelled", "empty", "failed"}

\* The streams that run without an owner, each left by a crash of the loop.
Orphans == {i \in DOMAIN streams : Running(i) /\ i # last}

\* The last stream is the one of streamed_ids, and was not cancelled.
StreamsInv ==
    /\ streams \in Seq([ids : SUBSET Mkts, state : StreamStates]) /\ known \subseteq Mkts
    /\ last \in 0 .. Len(streams) /\ crashes \in Nat
    /\ streamed # {} => last # 0 /\ streams[last].ids = streamed
    /\ last # 0 => /\ streams[last].state # "cancelled"
                   /\ streams[last].state = "empty" => streams[last].ids \subseteq NoTokens
    /\ loop = "sleep" => OpenIds = {} \/ OpenIds = streamed
    /\ Cardinality(Orphans) <= crashes

LoopInv == FailsInv /\ StreamsInv

LEMMA LoopSafe == LoopInv => MarketsStreamed
<1>1. SUFFICES ASSUME LoopInv PROVE MarketsStreamed
  OBVIOUS
<1>. USE DEF LoopInv
<1>2. DOMAIN streams = 1 .. Len(streams) /\ Len(streams) \in Nat
  BY <1>1 DEF StreamsInv
<1>3. OpenMarketsStreamed
  <2>1. SUFFICES ASSUME loop = "sleep", NEW m \in OpenIds \ NoTokens
                 PROVE  \/ \E i \in DOMAIN streams : Running(i) /\ m \in streams[i].ids
                        \/ last # 0 /\ m \in streams[last].ids /\ streams[last].state = "failed"
    BY DEF OpenMarketsStreamed
  <2>2. m \in streamed /\ last # 0 /\ streams[last].ids = streamed
    BY <1>1, <2>1 DEF StreamsInv
  <2>3. last \in DOMAIN streams /\ streams[last].state \in StreamStates
    <3>1. last \in 1 .. Len(streams)
      BY <1>1, <1>2, <2>2 DEF StreamsInv
    <3>2. streams[last] \in [ids : SUBSET Mkts, state : StreamStates]
      BY <1>1, <3>1, ElementOfSeq DEF StreamsInv
    <3>. QED
      BY <1>2, <3>1, <3>2
  <2>4. streams[last].state \notin {"cancelled", "empty"}
    BY <1>1, <2>1, <2>2 DEF StreamsInv
  <2>. QED
    BY <2>2, <2>3, <2>4 DEF StreamStates, Running
<1>4. Cardinality({i \in DOMAIN streams : Running(i)}) <= crashes + 1
  <2>. DEFINE R == {i \in DOMAIN streams : Running(i)}
  <2>1. IsFiniteSet(DOMAIN streams) /\ Orphans \subseteq DOMAIN streams /\ R \subseteq Orphans \cup {last}
    BY <1>2, FS_Interval DEF Orphans
  <2>2. IsFiniteSet(Orphans) /\ Cardinality(Orphans) \in Nat
    BY <2>1, FS_Subset, FS_CardinalityType
  <2>3. last \notin Orphans
    BY DEF Orphans
  <2>4. IsFiniteSet(Orphans \cup {last}) /\ Cardinality(Orphans \cup {last}) = Cardinality(Orphans) + 1
    BY <2>2, <2>3, FS_AddElement
  <2>5. Cardinality(R) <= Cardinality(Orphans \cup {last}) /\ Cardinality(R) \in Nat
    BY <2>1, <2>4, FS_Subset, FS_CardinalityType
  <2>. QED
    BY <1>1, <2>2, <2>4, <2>5 DEF StreamsInv
<1>. QED
  BY <1>1, <1>3, <1>4 DEF MarketsStreamed, SupervisionSound, FailsInv

\* Dropping as many failures from the front as are too old drops those.
LEMMA RecentFails ==
    ASSUME FailsInv
    PROVE  /\ Recent \in Seq(Nat)
           /\ \A i \in 1 .. Len(Recent) : Recent[i] <= mnow /\ mnow - Recent[i] < FailWindow
           /\ \A i, j \in 1 .. Len(Recent) : i <= j => Recent[i] <= Recent[j]
<1>. DEFINE n == Len(fails)
            old == {i \in 1 .. n : mnow - fails[i] >= FailWindow}
            k == Cardinality(old)
<1>0. n \in Nat /\ mnow \in Nat /\ FailWindow \in Nat /\ \A i \in 1 .. n : fails[i] \in Nat
  BY LoopAssumption DEF FailsInv
<1>1. DOMAIN fails = 1 .. n
  BY DEF FailsInv
<1>2. Recent = SubSeq(fails, k + 1, n)
  BY <1>1 DEF Recent
<1>3. IsFiniteSet(old) /\ k \in Nat /\ k <= n
  <2>1. IsFiniteSet(1 .. n) /\ Cardinality(1 .. n) = IF 1 > n THEN 0 ELSE n - 1 + 1
    BY <1>0, FS_Interval
  <2>2. old \subseteq 1 .. n
    OBVIOUS
  <2>. HIDE DEF old
  <2>3. IsFiniteSet(old) /\ k <= Cardinality(1 .. n)
    BY <2>1, <2>2, FS_Subset
  <2>4. k \in Nat
    BY <2>3, FS_CardinalityType
  <2>. QED
    BY <1>0, <2>1, <2>3, <2>4
<1>4. \A i \in k + 1 .. n : i \in 1 .. n /\ i \notin old
  <2>1. SUFFICES ASSUME NEW i \in k + 1 .. n, i \in old PROVE FALSE
    <3>. HIDE DEF k
    <3>. QED
      BY <1>0, <1>3
  <2>2. i \in 1 .. n /\ mnow - fails[i] >= FailWindow
    BY <2>1
  <2>3. 1 .. i \subseteq old
    <3>1. SUFFICES ASSUME NEW j \in 1 .. i PROVE j \in 1 .. n /\ mnow - fails[j] >= FailWindow
      OBVIOUS
    <3>2. j \in 1 .. n /\ j <= i
      BY <1>0, <2>2
    <3>3. fails[j] <= fails[i] /\ fails[j] \in Nat /\ fails[i] \in Nat
      BY <1>0, <2>2, <3>2 DEF FailsInv
    <3>. QED
      BY <1>0, <2>2, <3>2, <3>3
  <2>. HIDE DEF old
  <2>4. Cardinality(1 .. i) = IF 1 > i THEN 0 ELSE i - 1 + 1
    BY <2>2, FS_Interval
  <2>5. Cardinality(1 .. i) <= k
    BY <1>3, <2>3, FS_Subset
  <2>6. i > k
    <3>. HIDE DEF k
    <3>. QED
      BY <1>0, <1>3, <2>1
  <2>. HIDE DEF k
  <2>. QED
    BY <1>0, <1>3, <2>2, <2>4, <2>5, <2>6
<1>5. \A i \in k + 1 .. n : fails[i] \in Nat /\ fails[i] <= mnow /\ mnow - fails[i] < FailWindow
  <2>. HIDE DEF k
  <2>1. \A i \in k + 1 .. n : i \in 1 .. n /\ ~(mnow - fails[i] >= FailWindow)
    BY <1>4
  <2>2. \A i \in 1 .. n : fails[i] <= mnow
    BY DEF FailsInv
  <2>. QED
    BY <1>0, <2>1, <2>2
<1>. HIDE DEF old, k
<1>6. /\ Recent \in Seq(Nat) /\ Len(Recent) = IF k + 1 <= n THEN n - (k + 1) + 1 ELSE 0
      /\ \A i \in 1 .. n - (k + 1) + 1 : Recent[i] = fails[k + 1 + i - 1]
  <2>1. k + 1 \in Int /\ n \in Int
    BY <1>0, <1>3
  <2>. QED
    BY <1>2, <1>5, <2>1, SubSeqProperties
<1>7. Len(Recent) = n - k /\ \A i \in 1 .. n - k : Recent[i] = fails[k + i] /\ k + i \in k + 1 .. n
  <2>1. n - (k + 1) + 1 = n - k /\ \A i \in 1 .. n - k : k + 1 + i - 1 = k + i /\ k + i \in k + 1 .. n
    BY <1>0, <1>3
  <2>2. Len(Recent) = n - k
    BY <1>0, <1>3, <1>6
  <2>. QED
    BY <1>6, <2>1, <2>2
<1>8. \A i \in 1 .. Len(Recent) : Recent[i] <= mnow /\ mnow - Recent[i] < FailWindow
  BY <1>5, <1>7
<1>9. \A i, j \in 1 .. Len(Recent) : i <= j => Recent[i] <= Recent[j]
  <2>1. SUFFICES ASSUME NEW i \in 1 .. n - k, NEW j \in 1 .. n - k, i <= j
                 PROVE  fails[k + i] <= fails[k + j]
    BY <1>7
  <2>2. k + i \in 1 .. n /\ k + j \in 1 .. n /\ k + i <= k + j
    BY <1>0, <1>3, <2>1
  <2>. QED
    BY <2>2 DEF FailsInv
<1>. QED
  BY <1>6, <1>8, <1>9

LEMMA LoopStart == LoopInit => LoopInv
<1>1. SUFFICES ASSUME LoopInit PROVE LoopInv
  OBVIOUS
<1>2. /\ mnow = 0 /\ loop = "discover" /\ known = {} /\ streamed = {} /\ last = 0
      /\ streams = << >> /\ fails = << >> /\ crashes = 0
  BY <1>1 DEF LoopInit
<1>3. Orphans = {} /\ Cardinality({}) = 0
  BY <1>2, FS_EmptySet DEF Orphans
<1>4. FailsInv
  BY <1>2 DEF FailsInv
<1>5. StreamsInv
  BY <1>2, <1>3 DEF StreamsInv
<1>. QED
  BY <1>4, <1>5 DEF LoopInv

LEMMA FailsStep ==
    ASSUME FailsInv, [LoopNext]_loopVars
    PROVE  FailsInv'
<1>1. CASE Guarded
  <2>1. /\ fails' = Append(Recent, mnow) /\ mnow' = mnow
        /\ loop' = IF Len(fails') > FailBudget THEN "stopped" ELSE "guard"
    BY <1>1 DEF Guarded
  <2>. DEFINE r == Recent
  <2>2. /\ r \in Seq(Nat) /\ mnow \in Nat /\ FailWindow \in Nat /\ FailWindow > 0
        /\ \A i \in 1 .. Len(r) : r[i] <= mnow /\ mnow - r[i] < FailWindow
        /\ \A i, j \in 1 .. Len(r) : i <= j => r[i] <= r[j]
    BY RecentFails, LoopAssumption DEF FailsInv
  <2>. HIDE DEF r
  <2>3. /\ fails' \in Seq(Nat) /\ Len(fails') = Len(r) + 1 /\ fails'[Len(r) + 1] = mnow
        /\ \A i \in 1 .. Len(r) : fails'[i] = r[i]
    BY <2>1, <2>2 DEF r
  <2>4. Len(r) \in Nat /\ \A i \in 1 .. Len(r) : r[i] \in Nat
    BY <2>2
  <2>a. \A i \in 1 .. Len(r) + 1 : i \in 1 .. Len(r) \/ i = Len(r) + 1
    BY <2>4
  <2>b. mnow <= mnow /\ mnow - mnow < FailWindow
    BY <2>2
  <2>5. \A i \in 1 .. Len(fails') : fails'[i] <= mnow /\ mnow - fails'[i] < FailWindow
    BY <2>2, <2>3, <2>a, <2>b
  <2>6. \A i, j \in 1 .. Len(fails') : i <= j => fails'[i] <= fails'[j]
    <3>1. SUFFICES ASSUME NEW i \in 1 .. Len(r) + 1, NEW j \in 1 .. Len(r) + 1, i <= j
                   PROVE  fails'[i] <= fails'[j]
      BY <2>3
    <3>2. CASE j = Len(r) + 1
      BY <2>3, <2>5, <3>2
    <3>3. CASE j \in 1 .. Len(r)
      <4>1. i \in 1 .. Len(r)
        BY <2>4, <3>1, <3>3
      <4>. QED
        BY <2>2, <2>3, <3>1, <3>3, <4>1
    <3>. QED
      BY <2>a, <3>2, <3>3
  <2>7. DOMAIN fails' = 1 .. Len(fails')
    BY <2>3
  <2>. QED
    BY <2>1, <2>2, <2>3, <2>5, <2>6, <2>7 DEF FailsInv
<1>2. CASE Discover \/ SelectOpen \/ CallAgain \/ Wake \/ Passes \/ StreamPrices \/ UNCHANGED loopVars
  <2>1. fails' = fails /\ (loop' = "stopped" => loop = "stopped") /\ mnow' \in {mnow, mnow + 1}
    BY <1>2 DEF Discover, SelectOpen, CallAgain, Wake, Passes, StreamPrices, loopVars
  <2>2. mnow \in Nat /\ mnow' \in Nat /\ mnow <= mnow'
    BY <2>1 DEF FailsInv
  <2>3. \A i \in 1 .. Len(fails) : fails[i] <= mnow'
    BY <2>2 DEF FailsInv
  <2>. QED
    BY <2>1, <2>2, <2>3 DEF FailsInv
<1>. QED
  BY <1>1, <1>2 DEF LoopNext

\* Steps that leave the streams alone and the loop awake.
LEMMA StreamsFrame ==
    ASSUME StreamsInv, UNCHANGED <<streams, last, streamed, crashes>>, known' \subseteq Mkts,
           loop' # "sleep" \/ UNCHANGED <<loop, mnow, known>>
    PROVE  StreamsInv'
<1>1. Orphans' = Orphans
  BY DEF Orphans, Running
<1>2. UNCHANGED <<mnow, known>> => OpenIds' = OpenIds
  BY DEF OpenIds
<1>. QED
  BY <1>1, <1>2 DEF StreamsInv

\* Fewer streams without an owner are still few enough.
LEMMA FewerOrphans ==
    ASSUME StreamsInv, streams' \in Seq([ids : SUBSET Mkts, state : StreamStates]),
           NEW S, S \subseteq Orphans
    PROVE  Cardinality(S) <= crashes
<1>1. IsFiniteSet(DOMAIN streams) /\ Orphans \subseteq DOMAIN streams
  <2>1. DOMAIN streams = 1 .. Len(streams) /\ Len(streams) \in Nat
    BY DEF StreamsInv
  <2>. QED
    BY <2>1, FS_Interval DEF Orphans
<1>2. IsFiniteSet(Orphans) /\ Cardinality(Orphans) \in Nat
  BY <1>1, FS_Subset, FS_CardinalityType
<1>3. IsFiniteSet(S) /\ Cardinality(S) <= Cardinality(Orphans) /\ Cardinality(S) \in Nat
  BY <1>2, FS_Subset, FS_CardinalityType
<1>. QED
  BY <1>2, <1>3 DEF StreamsInv

LEMMA NewStream ==
    ASSUME StreamsInv, SelectOpen
    PROVE  StreamsInv'
<1>1. loop = "query" /\ loop' = "sleep" /\ UNCHANGED <<mnow, known, crashes>>
  BY DEF SelectOpen
<1>2. OpenIds' = OpenIds /\ OpenIds \subseteq Mkts
  BY <1>1 DEF OpenIds, StreamsInv
<1>3. CASE ~Changed
  <2>1. UNCHANGED <<streamed, streams, last>>
    BY <1>3 DEF SelectOpen
  <2>2. Orphans' = Orphans
    BY <2>1 DEF Orphans, Running
  <2>. QED
    BY <1>1, <1>2, <1>3, <2>1, <2>2 DEF StreamsInv, Changed
<1>4. CASE Changed
  <2>. DEFINE Stream == [ids : SUBSET Mkts, state : StreamStates]
              old == [i \in DOMAIN streams |->
                        IF i = last /\ Running(i)
                        THEN [streams[i] EXCEPT !.state = "cancelled"] ELSE streams[i]]
              new == [ids |-> OpenIds, state |-> "load"]
              n == Len(streams)
  <2>1. streamed' = OpenIds /\ streams' = Append(old, new) /\ last' = Len(streams')
    BY <1>4 DEF SelectOpen
  <2>2. DOMAIN streams = 1 .. n /\ n \in Nat /\ \A i \in 1 .. n : streams[i] \in Stream
    <3>1. streams \in Seq(Stream)
      BY DEF StreamsInv
    <3>. HIDE DEF Stream
    <3>. QED
      BY <3>1, ElementOfSeq
  <2>3. old \in Seq(Stream) /\ Len(old) = n /\ new \in Stream
    <3>1. \A i \in 1 .. n : old[i] \in Stream
      BY <2>2 DEF StreamStates
    <3>2. new \in Stream
      BY <1>2 DEF StreamStates
    <3>3. old \in [1 .. n -> Stream]
      BY <2>2, <3>1
    <3>. HIDE DEF Stream, old
    <3>. QED
      BY <2>2, <3>2, <3>3
  <2>4. /\ streams' \in Seq(Stream) /\ Len(streams') = n + 1 /\ streams'[n + 1] = new
        /\ \A i \in 1 .. n : streams'[i] = old[i]
    <3>. HIDE DEF Stream, old, new, n
    <3>. QED
      BY <2>1, <2>3, AppendProperties
  <2>5. last' = n + 1 /\ streams'[last'].ids = OpenIds /\ streams'[last'].state = "load"
    BY <2>1, <2>4
  <2>6. \A i \in 1 .. n : streams'[i].state \in {"load", "run"} =>
           i # last /\ streams[i].state \in {"load", "run"}
    BY <2>2, <2>4 DEF Running
  <2>7. Orphans' \subseteq Orphans
    <3>1. DOMAIN streams' = 1 .. n + 1
      BY <2>4
    <3>2. \A i \in 1 .. n + 1 : i # n + 1 => i \in 1 .. n
      BY <2>2
    <3>. QED
      BY <2>2, <2>5, <2>6, <3>1, <3>2 DEF Orphans, Running
  <2>8. Cardinality(Orphans') <= crashes
    BY <2>4, <2>7, FewerOrphans
  <2>9. last' \in 0 .. Len(streams') /\ last' # 0
    BY <2>2, <2>4, <2>5
  <2>. QED
    BY <1>1, <1>2, <2>1, <2>4, <2>5, <2>8, <2>9 DEF StreamsInv
<1>. QED
  BY <1>3, <1>4

LEMMA StreamsStep ==
    ASSUME StreamsInv, [LoopNext]_loopVars
    PROVE  StreamsInv'
<1>1. CASE Discover
  <2>1. Found \subseteq Mkts /\ known \subseteq Mkts
    BY DEF Found, Listed, StreamsInv
  <2>2. known' \subseteq Mkts /\ loop' = "query" /\ UNCHANGED <<streams, last, streamed, crashes>>
    BY <1>1, <2>1 DEF Discover
  <2>. QED
    BY <2>2, StreamsFrame
<1>2. CASE CallAgain \/ Wake \/ Passes \/ UNCHANGED loopVars
  <2>1. /\ known' = known /\ UNCHANGED <<streams, last, streamed, crashes>>
        /\ loop' # "sleep" \/ UNCHANGED <<loop, mnow, known>>
    BY <1>2 DEF CallAgain, Wake, Passes, loopVars
  <2>. QED
    BY <2>1, StreamsFrame DEF StreamsInv
<1>3. CASE SelectOpen
  BY <1>3, NewStream
<1>4. CASE Guarded
  <2>1. /\ streamed' = {} /\ last' = 0 /\ crashes' = crashes + 1 /\ loop' # "sleep"
        /\ UNCHANGED <<known, streams>>
    BY <1>4 DEF Guarded
  <2>2. DOMAIN streams = 1 .. Len(streams) /\ Len(streams) \in Nat /\ crashes \in Nat
    BY DEF StreamsInv
  <2>3. IsFiniteSet(DOMAIN streams) /\ Orphans \subseteq DOMAIN streams /\ last \notin Orphans
    BY <2>2, FS_Interval DEF Orphans
  <2>4. Orphans' \subseteq Orphans \cup {last}
    BY <2>1 DEF Orphans, Running
  <2>5. IsFiniteSet(Orphans) /\ Cardinality(Orphans) \in Nat
    BY <2>3, FS_Subset, FS_CardinalityType
  <2>6. IsFiniteSet(Orphans \cup {last}) /\ Cardinality(Orphans \cup {last}) = Cardinality(Orphans) + 1
    BY <2>3, <2>5, FS_AddElement
  <2>7. Cardinality(Orphans') <= Cardinality(Orphans \cup {last}) /\ Cardinality(Orphans') \in Nat
    BY <2>4, <2>6, FS_Subset, FS_CardinalityType
  <2>8. Cardinality(Orphans') <= crashes'
    BY <2>1, <2>2, <2>5, <2>6, <2>7 DEF StreamsInv
  <2>. QED
    BY <2>1, <2>2, <2>8 DEF StreamsInv
<1>5. CASE StreamPrices
  <2>. DEFINE Stream == [ids : SUBSET Mkts, state : StreamStates]
  <2>1. PICK i \in DOMAIN streams :
           /\ streams[i].state = "load"
           /\ \/ streams' = [streams EXCEPT ![i].state =
                               IF streams[i].ids \subseteq NoTokens THEN "empty" ELSE "run"]
              \/ streams' = [streams EXCEPT ![i].state = "failed"]
    BY <1>5 DEF StreamPrices
  <2>2. UNCHANGED <<mnow, loop, known, streamed, last, crashes>>
    BY <1>5 DEF StreamPrices
  <2>3. PICK s \in {"empty", "run", "failed"} :
           /\ streams' = [streams EXCEPT ![i] = [streams[i] EXCEPT !.state = s]]
           /\ s = "empty" => streams[i].ids \subseteq NoTokens
    BY <2>1
  <2>4. DOMAIN streams = 1 .. Len(streams) /\ \A j \in DOMAIN streams : streams[j] \in Stream
    <3>1. streams \in Seq(Stream)
      BY DEF StreamsInv
    <3>. HIDE DEF Stream
    <3>. QED
      BY <3>1, ElementOfSeq
  <2>5. [streams[i] EXCEPT !.state = s] \in Stream
    BY <2>3, <2>4 DEF StreamStates
  <2>6. streams' \in Seq(Stream) /\ Len(streams') = Len(streams) /\ DOMAIN streams' = DOMAIN streams
    <3>. HIDE DEF Stream
    <3>. QED
      BY <2>3, <2>4, <2>5, ExceptSeq DEF StreamsInv, Stream
  <2>7. /\ \A j \in DOMAIN streams : streams'[j].ids = streams[j].ids
        /\ \A j \in DOMAIN streams \ {i} : streams'[j] = streams[j]
        /\ streams'[i].state = s
    BY <2>3, <2>4
  <2>8. Orphans' \subseteq Orphans
    BY <2>1, <2>2, <2>6, <2>7 DEF Orphans, Running
  <2>9. Cardinality(Orphans') <= crashes'
    BY <2>2, <2>6, <2>8, FewerOrphans
  <2>10. last # 0 => last \in DOMAIN streams
    <3>1. last \in 0 .. Len(streams) /\ Len(streams) \in Nat
      BY DEF StreamsInv
    <3>. QED
      BY <2>4, <3>1
  <2>11. last # 0 => /\ streams'[last].ids = streams[last].ids
                     /\ streams'[last].state # "cancelled"
                     /\ streams'[last].state = "empty" => streams'[last].ids \subseteq NoTokens
    BY <2>3, <2>7, <2>10 DEF StreamsInv
  <2>12. OpenIds' = OpenIds
    BY <2>2 DEF OpenIds
  <2>. QED
    BY <2>2, <2>6, <2>9, <2>11, <2>12 DEF StreamsInv
<1>. QED
  BY <1>1, <1>2, <1>3, <1>4, <1>5 DEF LoopNext

-----------------------------------------------------------------------------
(* The parts side by side: each of their invariants is one of the whole. *)

IngestInv ==
    /\ TradesInv /\ ChainInv /\ ClustersInv /\ LoopInv /\ PagingInv /\ ManifestInv /\ ScanInv

LEMMA IngestStart == MarketDataInit => IngestInv
<1>1. MarketDataInit => TradesInit /\ OracleInit /\ LoopInit /\ PagingInit /\ DiscoveryInit
  BY DEF MarketDataInit
<1>. QED
  BY <1>1, TradesStart, OracleStart, LoopStart, PagingStart, DiscoveryStart, ScanStart
  DEF IngestInv

\* A step of the whole is a step of each part, or leaves it alone.
LEMMA StepOfParts ==
    ASSUME [MarketDataNext]_marketDataVars
    PROVE  /\ [TradesNext]_tradeVars /\ [OracleNext]_oracleVars /\ [LoopNext]_loopVars
           /\ [PagingNext]_pagingVars /\ [DiscoveryNext]_discoveryVars
BY Zenon DEF MarketDataNext, marketDataVars, ingestVars, OracleNext

LEMMA IngestStep ==
    ASSUME IngestInv, [MarketDataNext]_marketDataVars
    PROVE  IngestInv'
<1>. USE StepOfParts DEF IngestInv
<1>1. TradesInv'
  BY TradesStep
<1>2. ChainInv' /\ ClustersInv'
  BY OracleStep
<1>3. FailsInv' /\ StreamsInv'
  BY FailsStep, StreamsStep DEF LoopInv
<1>4. PagingInv'
  BY PagingStep
<1>5. ManifestInv' /\ ScanInv'
  BY DiscoveryStep, ScanStep
<1>. QED
  BY <1>1, <1>2, <1>3, <1>4, <1>5 DEF LoopInv

LEMMA IngestSafe == IngestInv => RowsAccounted /\ FetchersSkipNothing /\ MarketsStreamed
<1>1. TradesInv => TradeLossBounded
  BY DEF TradesInv
<1>2. ChainInv /\ ManifestInv => StaleAlertExact /\ ManifestBacked
  BY DEF ChainInv, ManifestInv, FlagsBacked, CleanRunFills, ManifestBacked
<1>3. PagingInv /\ ScanInv => PagesLoseNothing /\ DiscoveryComplete
  BY DEF PagingInv, ScanInv
<1>. QED
  BY <1>1, <1>2, <1>3, ClustersSafe, LoopSafe DEF IngestInv, RowsAccounted, FetchersSkipNothing

\* Trades received are rows, buffered, or lost with a connection in bounded
\* number; a liquidation bar has one row; the manifest names only data that is
\* there; a stretch of stale oracle answers is reported once: for any number of
\* lost connections, repairs and late closes.
THEOREM RowsAccountedHolds == MarketDataSpec => []RowsAccounted
<1>. QED
  BY IngestStart, IngestStep, IngestSafe, PTL DEF MarketDataSpec

\* No page border loses a trade or a market, for any page sizes and while the
\* list grows under the offsets.
THEOREM FetchersSkipNothingHolds == MarketDataSpec => []FetchersSkipNothing
<1>. QED
  BY IngestStart, IngestStep, IngestSafe, PTL DEF MarketDataSpec

\* After every pass of the loop the open markets are in a running price stream,
\* streams without an owner are no more than the crashes of the loop, and the
\* ingestor gives up only after more failures than the window allows.
THEOREM MarketsStreamedHolds == MarketDataSpec => []MarketsStreamed
<1>. QED
  BY IngestStart, IngestStep, IngestSafe, PTL DEF MarketDataSpec
=============================================================================
