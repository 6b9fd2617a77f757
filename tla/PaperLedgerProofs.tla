-------------------------- MODULE PaperLedgerProofs --------------------------
(***************************************************************************)
(* What the driver's own books promise, proved for every set of markets    *)
(* and every schedule: each entry fill is accounted for, a market is       *)
(* traded and settled at the right time, and within a day the ledgers of   *)
(* the driver and of the RiskManager agree with trading.fills.  Builds on  *)
(* the life of an order proved in PaperDriverProofs.                       *)
(***************************************************************************)
EXTENDS PaperDriverProofs

\* No statement failed and the process never died.
Unfailed == crashes = 0 /\ dbErrs = 0

-----------------------------------------------------------------------------
(* Every entry fill is in one place. *)

\* What was given up stays given up.
DroppedApart ==
    \A c \in dropped :
       /\ c \in entries \ Settled /\ ~IsOpen(c)
       /\ pc["main"] = "opened" => job["main"].coid # c
       /\ \A t \in Tasks : pc[t] = "exit_row" => job[t].coid # c

\* try_enter was called for a market without a position, and only the main
\* task opens positions: opening one overwrites none.
SlotFree == pc["main"] \in EntryPCs => positions[job["main"].coid.slug] = NoPos

BeingPaid(c) == \E t \in Tasks : pc[t] = "exit_row" /\ job[t].coid = c
BeingOpened(c) == pc["main"] = "opened" /\ job["main"].coid = c

Sighted ==
    Unfailed => \A c \in entries : \/ c \in dropped \cup Settled
                                   \/ IsOpen(c) \/ BeingOpened(c) \/ BeingPaid(c)

AccountInv == DroppedApart /\ SlotFree /\ Sighted

\* Steps that leave the fills, the positions and their handlers alone.
LEMMA AccountFrame ==
    ASSUME AccountInv, Unfailed' => Unfailed,
           UNCHANGED <<entries, exits, positions, dropped>>,
           \A t \in Tasks :
              \/ pc'[t] = pc[t] /\ job'[t].coid = job[t].coid
              \/ {pc[t], pc'[t]} \cap (EntryPCs \cup {"exit_row"}) = {}
    PROVE  AccountInv'
<1>1. Settled' = Settled /\ \A c : IsOpen(c)' = IsOpen(c)
  BY DEF Settled, IsOpen
<1>2. \A c : BeingOpened(c)' = BeingOpened(c) /\ BeingPaid(c)' = BeingPaid(c)
  BY DEF BeingOpened, BeingPaid, EntryPCs, Tasks
<1>3. DroppedApart'
  BY <1>1 DEF AccountInv, DroppedApart, EntryPCs, Tasks
<1>4. SlotFree'
  BY DEF AccountInv, SlotFree, Tasks
<1>5. Sighted'
  BY <1>1, <1>2 DEF AccountInv, Sighted
<1>. QED
  BY <1>3, <1>4, <1>5 DEF AccountInv

\* The steps of try_enter.
LEMMA AccountEnter ==
    ASSUME AccountInv, LifeInv, TypeOK, JobsTyped, Enter
    PROVE  AccountInv'
<1>. DEFINE c == job["main"].coid
<1>. USE DEF dbVars, memVars, faultVars, Goto
<1>1. /\ job' = job /\ exits' = exits /\ dropped' = dropped
      /\ pc'["wd"] = pc["wd"] /\ pc["main"] \in EntryPCs /\ crashes' = crashes
  BY DEF Enter, OrderUpsert, EntryFillUpsert, EntryPersistError, OpenPosition,
         TypeOK, Tasks, EntryPCs
<1>2. c \in Coids /\ c # NoPos /\ c.slug \in Markets /\ positions[c.slug] = NoPos
  BY <1>1, ConstantTypes DEF JobsTyped, Tasks, Coids, AccountInv, SlotFree
<1>3. Settled' = Settled
  BY <1>1 DEF Settled
<1>4. \A d : BeingPaid(d) => BeingPaid(d)'
  BY <1>1 DEF BeingPaid, EntryPCs, Tasks
<1>5. CASE OpenPosition
  <2>1. /\ pc["main"] = "opened" /\ pc'["main"] = "listen"
        /\ positions' = [positions EXCEPT ![c.slug] = c]
        /\ UNCHANGED <<entries, dbErrs>>
    BY <1>5 DEF OpenPosition, TypeOK, Tasks
  <2>. HIDE DEF c
  <2>2. /\ positions'[c.slug] = c
        /\ \A m \in Markets : m # c.slug => positions'[m] = positions[m]
    BY <1>2, <2>1 DEF TypeOK
  <2>3. \A d : IsOpen(d)' => IsOpen(d) \/ d = c
    BY <1>2, <2>2 DEF IsOpen
  <2>4. \A d \in Coids : IsOpen(d) \/ d = c => IsOpen(d)'
    BY <1>2, <2>2, ConstantTypes DEF IsOpen
  <2>5. c \notin dropped
    BY <2>1 DEF AccountInv, DroppedApart, c
  <2>6. DroppedApart'
    BY <1>1, <1>3, <2>1, <2>3, <2>5 DEF AccountInv, DroppedApart, Tasks
  <2>7. SlotFree'
    BY <2>1 DEF SlotFree, EntryPCs
  <2>8. Sighted'
    BY <1>1, <1>3, <1>4, <2>1, <2>4
       DEF AccountInv, Sighted, Unfailed, TypeOK, BeingOpened, c
  <2>. QED
    BY <2>6, <2>7, <2>8 DEF AccountInv
<1>6. CASE ~OpenPosition
  <2>1. positions' = positions /\ pc["main"] \in {"order", "fill"}
    BY <1>6 DEF Enter, OrderUpsert, EntryFillUpsert, EntryPersistError
  <2>2. \A d : IsOpen(d)' = IsOpen(d)
    BY <2>1 DEF IsOpen
  <2>3. pc'["main"] \in {"fill", "opened", "listen"}
    BY <1>6 DEF Enter, OrderUpsert, EntryFillUpsert, EntryPersistError,
                TypeOK, Tasks
  <2>4. SlotFree'
    BY <1>1, <1>2, <2>1 DEF SlotFree
  <2>5. entries \subseteq entries'
    BY <1>6 DEF Enter, OrderUpsert, EntryFillUpsert, EntryPersistError
  <2>6. pc'["main"] = "opened" => c \notin entries
    BY <1>6 DEF Enter, OrderUpsert, EntryFillUpsert, EntryPersistError, TypeOK,
                Tasks, LifeInv, EntryStages
  <2>7. DroppedApart'
    <3>1. ASSUME NEW d \in dropped PROVE d \in entries
      BY DEF AccountInv, DroppedApart
    <3>2. \A t \in Tasks : pc'[t] = "exit_row" => pc[t] = "exit_row"
      BY <1>1, <2>3 DEF Tasks
    <3>. QED
      BY <1>1, <1>3, <2>2, <2>3, <2>5, <2>6, <3>1, <3>2 DEF AccountInv, DroppedApart
  <2>8. Sighted'
    <3>1. CASE EntryPersistError
      <4>1. dbErrs' # 0
        BY <3>1 DEF EntryPersistError, DbError, TypeOK
      <4>. QED
        BY <4>1 DEF Sighted, Unfailed
    <3>2. CASE OrderUpsert
      <4>1. UNCHANGED <<entries, dbErrs>> /\ pc["main"] = "order"
        BY <3>2 DEF OrderUpsert
      <4>. QED
        BY <1>1, <1>3, <1>4, <2>2, <4>1
           DEF AccountInv, Sighted, Unfailed, BeingOpened
    <3>3. CASE EntryFillUpsert
      <4>1. /\ entries' = entries \cup {c} /\ dbErrs' = dbErrs
            /\ pc["main"] = "fill" /\ pc'["main"] = "opened"
        BY <3>3 DEF EntryFillUpsert, TypeOK, Tasks
      <4>. QED
        BY <1>1, <1>3, <1>4, <2>2, <4>1
           DEF AccountInv, Sighted, Unfailed, BeingOpened
    <3>. QED
      BY <1>6, <3>1, <3>2, <3>3 DEF Enter
  <2>. QED
    BY <2>4, <2>7, <2>8 DEF AccountInv
<1>. QED
  BY <1>5, <1>6

\* A position is popped, to be paid out or because it is given up.
LEMMA AccountPop ==
    ASSUME AccountInv, LifeInv, TypeOK, JobsTyped, NEW t \in Tasks,
           pc[t] \in QueryPCs, Slug(t) \in Markets, Pops(t) \/ GivesUp(t),
           UNCHANGED <<entries, exits, crashes>>, DbError \/ dbErrs' = dbErrs
    PROVE  AccountInv'
<1>. DEFINE m == Slug(t)
            c == positions[m]
<1>1. /\ positions' = [positions EXCEPT ![m] = NoPos]
      /\ \A u \in Tasks : u # t => pc'[u] = pc[u] /\ job'[u] = job[u]
      /\ pc'[t] \notin EntryPCs
  BY DEF Pops, GivesUp, TypeOK, EntryPCs, Return
<1>2. Settled' = Settled /\ (Unfailed' => Unfailed)
  BY DEF Settled, Unfailed, TypeOK, DbError
<1>3. \A n \in Markets : positions'[n] = IF n = m THEN NoPos ELSE positions[n]
  BY <1>1 DEF TypeOK
<1>4. \A d \in Coids : d # c => (IsOpen(d)' <=> IsOpen(d))
  BY <1>3, ConstantTypes DEF IsOpen
<1>5. c # NoPos => c \in Coids /\ c \in entries \ Settled /\ c.slug = m /\ IsOpen(c)
  BY DEF TypeOK, LifeInv, OpenUnsettled, IsOpen
<1>6. \A d : d = c /\ d # NoPos => ~IsOpen(d)'
  <2>1. SUFFICES ASSUME c # NoPos, NEW n \in Markets PROVE positions'[n] # c
    BY DEF IsOpen
  <2>2. n # m => positions[n] # c
    BY <1>5, <2>1 DEF LifeInv, OpenUnsettled
  <2>. QED
    BY <1>3, <2>1, <2>2
<1>7. \A u \in Tasks : pc[u] = "exit_row" => u # t /\ job[u].coid # c
  <2>1. ASSUME NEW u \in Tasks, pc[u] = "exit_row" PROVE job[u].coid # c
    BY <1>5, <2>1, ConstantTypes
       DEF LifeInv, PayoutExclusive, JobsTyped, SettlePCs, PayoutPCs
  <2>. QED
    BY <2>1 DEF QueryPCs
<1>8. pc["main"] \in EntryPCs => t # "main" /\ job["main"].coid \in Coids
  BY DEF QueryPCs, EntryPCs, JobsTyped, Tasks
<1>9. SlotFree'
  <2>1. SUFFICES ASSUME pc'["main"] \in EntryPCs
                 PROVE  positions'[job'["main"].coid.slug] = NoPos
    BY DEF SlotFree
  <2>2. /\ pc["main"] \in EntryPCs /\ job'["main"] = job["main"]
        /\ positions[job["main"].coid.slug] = NoPos
    BY <1>1, <2>1 DEF AccountInv, SlotFree, Tasks
  <2>3. job["main"].coid.slug \in Markets
    BY <1>8, <2>2 DEF Coids
  <2>. QED
    BY <1>3, <2>2, <2>3
<1>. HIDE DEF c, m
<1>10. ASSUME NEW d \in dropped
       PROVE  d \in Coids /\ d # c /\ d \in entries \ Settled /\ ~IsOpen(d)'
  <2>1. d \in Coids /\ d \in entries \ Settled /\ ~IsOpen(d)
    BY DEF AccountInv, DroppedApart, TypeOK
  <2>2. d # c
    BY <1>5, <2>1, ConstantTypes
  <2>. QED
    BY <1>4, <2>1, <2>2
<1>11. \A d : BeingOpened(d) <=> BeingOpened(d)'
  <2>1. CASE t = "main"
    BY <1>1, <2>1 DEF BeingOpened, QueryPCs, EntryPCs
  <2>2. CASE t # "main"
    BY <1>1, <2>2 DEF BeingOpened, Tasks
  <2>. QED
    BY <2>1, <2>2
<1>12. \A d : BeingOpened(d) => d # c
  BY <1>5, <1>8, ConstantTypes DEF BeingOpened, LifeInv, EntryStages, EntryPCs
<1>13. CASE Pops(t)
  <2>1. /\ c # NoPos /\ pc'[t] = "exit_row" /\ job'[t].coid = c /\ dropped' = dropped
    BY <1>13 DEF Pops, TypeOK, c, m
  <2>2. \A d : BeingPaid(d)' <=> BeingPaid(d) \/ d = c
    BY <1>1, <1>7, <2>1 DEF BeingPaid
  <2>3. \A d \in dropped : ~BeingPaid(d) /\ ~BeingOpened(d)
    BY DEF AccountInv, DroppedApart, BeingPaid, BeingOpened
  <2>4. \A d \in dropped : ~BeingPaid(d)' /\ ~BeingOpened(d)'
    BY <1>10, <1>11, <2>2, <2>3
  <2>5. DroppedApart'
    BY <1>2, <1>10, <2>1, <2>4 DEF DroppedApart, BeingPaid, BeingOpened
  <2>6. Sighted'
    BY <1>2, <1>4, <1>11, <2>1, <2>2 DEF AccountInv, Sighted, TypeOK
  <2>. QED
    BY <1>9, <2>5, <2>6 DEF AccountInv
<1>14. CASE GivesUp(t)
  <2>1. dropped' = dropped \cup ({c} \ {NoPos})
    BY <1>14 DEF GivesUp, c, m
  <2>2. \A d : BeingPaid(d)' <=> BeingPaid(d)
    <3>1. pc'[t] # "exit_row"
      BY <1>14 DEF GivesUp, Return, TypeOK
    <3>. QED
      BY <1>1, <1>7, <3>1 DEF BeingPaid
  <2>3. \A d \in dropped : ~BeingPaid(d) /\ ~BeingOpened(d)
    BY DEF AccountInv, DroppedApart, BeingPaid, BeingOpened
  <2>4. ~BeingPaid(c)
    BY <1>7 DEF BeingPaid
  <2>5. \A d \in dropped' : ~BeingPaid(d)' /\ ~BeingOpened(d)'
    BY <1>11, <1>12, <2>1, <2>2, <2>3, <2>4
  <2>6. DroppedApart'
    BY <1>2, <1>5, <1>6, <1>10, <2>1, <2>5 DEF DroppedApart, BeingPaid, BeingOpened
  <2>7. Sighted'
    BY <1>2, <1>4, <1>11, <2>1, <2>2, ConstantTypes DEF AccountInv, Sighted, TypeOK
  <2>. QED
    BY <1>9, <2>6, <2>7 DEF AccountInv
<1>. QED
  BY <1>13, <1>14

\* The settle fill is stored, or the insert failed.
LEMMA AccountExit ==
    ASSUME AccountInv, LifeInv, TypeOK, JobsTyped, NEW t \in Tasks, ExitFillUpsert(t)
    PROVE  AccountInv'
<1>. DEFINE c == job[t].coid
<1>1. /\ pc[t] = "exit_row" /\ pc' = [pc EXCEPT ![t] = "ledger"]
      /\ UNCHANGED <<entries, positions, job, dropped, crashes>>
      /\ \/ exits' = exits \cup {ExitRow(t)} /\ dbErrs' = dbErrs
         \/ exits' \in {exits, exits \cup {ExitRow(t)}} /\ dbErrs' # 0
  BY DEF ExitFillUpsert, memVars, Goto, DbError, TypeOK
<1>2. /\ pc'[t] = "ledger" /\ \A u \in Tasks : u # t => pc'[u] = pc[u]
  BY <1>1 DEF TypeOK
<1>3. /\ ExitRow(t).coid = c /\ Settled \subseteq Settled'
      /\ Settled' \subseteq Settled \cup {c}
  BY <1>1 DEF ExitRow, Settled
<1>4. dbErrs' = dbErrs => c \in Settled' \/ dbErrs' # 0
  BY <1>1, <1>3 DEF Settled
<1>5. c \notin dropped
  BY <1>1 DEF AccountInv, DroppedApart
<1>6. \A d : IsOpen(d)' = IsOpen(d)
  BY <1>1 DEF IsOpen
<1>7. \A u \in Tasks : pc'[u] \in EntryPCs \cup {"exit_row"} => u # t /\ pc'[u] = pc[u]
  BY <1>2 DEF EntryPCs
<1>. HIDE DEF c
<1>8. DroppedApart'
  BY <1>1, <1>3, <1>5, <1>6, <1>7 DEF AccountInv, DroppedApart, Tasks, EntryPCs
<1>9. SlotFree'
  BY <1>1, <1>7 DEF AccountInv, SlotFree, Tasks
<1>10. Sighted'
  <2>1. SUFFICES ASSUME Unfailed', NEW d \in entries
                 PROVE  \/ d \in dropped \cup Settled' \/ IsOpen(d)
                        \/ BeingOpened(d)' \/ BeingPaid(d)'
    BY <1>1, <1>6 DEF Sighted
  <2>2. Unfailed /\ c \in Settled'
    BY <1>1, <1>4, <2>1 DEF Unfailed
  <2>3. CASE BeingOpened(d)
    <3>1. t # "main"
      BY <1>1, <2>3 DEF BeingOpened
    <3>. QED
      BY <1>1, <1>2, <2>3, <3>1 DEF BeingOpened, Tasks
  <2>4. CASE BeingPaid(d)
    BY <1>1, <1>2, <2>2, <2>4 DEF BeingPaid, c
  <2>. QED
    BY <1>3, <2>2, <2>3, <2>4 DEF AccountInv, Sighted
<1>. QED
  BY <1>8, <1>9, <1>10 DEF AccountInv

LEMMA AccountStep ==
    ASSUME AccountInv, LifeInv, TypeOK, JobsTyped, [Next]_vars
    PROVE  AccountInv'
<1>. USE DEF recVars, dbVars, memVars, taskVars, faultVars, Goto
<1>1. ASSUME UNCHANGED <<entries, exits, positions, dropped, pc, job, crashes, dbErrs>>
      PROVE  AccountInv'
  BY <1>1, AccountFrame DEF Unfailed
<1>2. CASE Crash
  <2>1. /\ \A m \in Markets : positions'[m] = NoPos
        /\ \A t \in Tasks : pc'[t] = "down"
        /\ UNCHANGED <<entries, exits, dropped>> /\ crashes' # 0
    BY <1>2 DEF Crash, TypeOK
  <2>2. Settled' = Settled /\ \A c \in Coids : ~IsOpen(c)'
    BY <2>1, ConstantTypes DEF Settled, IsOpen
  <2>3. DroppedApart'
    BY <2>1, <2>2 DEF AccountInv, DroppedApart, TypeOK, Tasks
  <2>. QED
    BY <2>1, <2>3 DEF AccountInv, SlotFree, Sighted, Unfailed, Tasks, EntryPCs
<1>3. CASE Boot \/ Disconnect
  <2>1. /\ UNCHANGED <<entries, exits, positions, dropped, job, crashes>>
        /\ dbErrs' = dbErrs \/ DbError
        /\ pc["main"] \in BootPCs \cup {"down", "connect", "listen"}
        /\ pc'["main"] \in BootPCs \cup {"down", "connect", "listen"}
        /\ pc'["wd"] = pc["wd"] \/ (pc["main"] = "boot_pnl" /\ pc'["wd"] = "sleep")
    BY <1>3 DEF Boot, Start, RehydratePauseState, RehydrateTradeTaken,
                BootstrapDailyPnl, Subscribe, Disconnect, TypeOK, Tasks, BootPCs
  <2>2. Unfailed' => Unfailed
    BY <2>1 DEF Unfailed, DbError, TypeOK
  <2>. QED
    BY <2>1, <2>2, AccountFrame DEF BootPCs, EntryPCs, Tasks
<1>4. ASSUME NEW tk, TickSettle(tk) PROVE AccountInv'
  <2>1. /\ UNCHANGED <<entries, exits, positions, dropped, crashes, dbErrs>>
        /\ pc["main"] = "listen" /\ pc'["main"] = "last_tick"
        /\ pc'["wd"] = pc["wd"] /\ job'["wd"] = job["wd"]
    BY <1>4 DEF TickSettle, TypeOK, Tasks, Receive
  <2>. QED
    BY <2>1, AccountFrame DEF EntryPCs, Tasks, Unfailed
<1>5. ASSUME NEW tk, TickSubmit(tk) PROVE AccountInv'
  <2>1. /\ UNCHANGED <<entries, exits, positions, dropped, crashes, dbErrs>>
        /\ pc["main"] = "listen" /\ pc'["main"] = "order" /\ job'["main"].coid = tk
        /\ pc'["wd"] = pc["wd"] /\ job'["wd"] = job["wd"] /\ positions[tk.slug] = NoPos
    BY <1>5 DEF TickSubmit, TypeOK, Tasks, Receive, Untraded, NoJob
  <2>2. Settled' = Settled /\ \A c : IsOpen(c)' = IsOpen(c) /\ BeingPaid(c)' = BeingPaid(c)
    BY <2>1 DEF Settled, IsOpen, BeingPaid, Tasks
  <2>3. DroppedApart'
    BY <2>1, <2>2 DEF AccountInv, DroppedApart, Tasks
  <2>4. SlotFree'
    BY <2>1 DEF SlotFree
  <2>5. Sighted'
    BY <2>1, <2>2 DEF AccountInv, Sighted, Unfailed, BeingOpened
  <2>. QED
    BY <2>3, <2>4, <2>5 DEF AccountInv
<1>6. ASSUME NEW tk, HandleTick(tk) PROVE AccountInv'
  BY <1>1, <1>4, <1>5, <1>6
     DEF HandleTick, TickPaused, TickHolding, TickTaken, TickOutOfWindow, TickNoEntry
<1>7. CASE Watchdog
  <2>1. /\ UNCHANGED <<entries, exits, positions, dropped, crashes, dbErrs>>
        /\ pc["wd"] \in {"sleep", "next"} /\ pc'["wd"] \in {"next", "last_tick"}
        /\ pc'["main"] = pc["main"] /\ job'["main"] = job["main"]
    BY <1>7 DEF Watchdog, WatchdogWake, WatchdogNext, TypeOK, Tasks
  <2>. QED
    BY <2>1, AccountFrame DEF EntryPCs, Tasks, Unfailed
<1>8. ASSUME NEW t \in Tasks, Settle(t) PROVE AccountInv'
  <2>1. CASE Query(t)
    <3>1. /\ pc[t] \in QueryPCs /\ Slug(t) \in Markets
          /\ Proceeds(t) \/ GivesUp(t) \/ Pops(t)
          /\ DbError \/ dbErrs' = dbErrs
          /\ UNCHANGED <<entries, exits, crashes>>
      BY <2>1, QueryStep
    <3>2. CASE Proceeds(t)
      <4>1. /\ pc'[t] \in QueryPCs \cup {Return(t)}
            /\ \A u \in Tasks : u # t => pc'[u] = pc[u] /\ job'[u] = job[u]
            /\ UNCHANGED <<positions, dropped>>
        BY <3>2 DEF Proceeds, TypeOK
      <4>2. {pc[t], pc'[t]} \cap (EntryPCs \cup {"exit_row"}) = {}
        BY <3>1, <4>1 DEF QueryPCs, Return, EntryPCs
      <4>3. Unfailed' => Unfailed
        BY <3>1 DEF Unfailed, DbError, TypeOK
      <4>. QED
        BY <3>1, <4>1, <4>2, <4>3, AccountFrame
    <3>. QED
      BY <3>1, <3>2, AccountPop
  <2>2. CASE ExitFillUpsert(t)
    BY <2>2, AccountExit
  <2>3. CASE BookPnl(t) \/ CleanupMarket(t)
    <3>1. /\ UNCHANGED <<entries, exits, positions, dropped, job, crashes, dbErrs>>
          /\ pc[t] \in {"ledger", "notify"}
          /\ pc' = [pc EXCEPT ![t] = "notify"] \/ pc' = [pc EXCEPT ![t] = Return(t)]
      BY <2>3 DEF BookPnl, CleanupMarket
    <3>2. /\ {pc[t], pc'[t]} \cap (EntryPCs \cup {"exit_row"}) = {}
          /\ \A u \in Tasks : u # t => pc'[u] = pc[u]
      BY <3>1 DEF Return, EntryPCs, TypeOK
    <3>. QED
      BY <3>1, <3>2, AccountFrame DEF Unfailed
  <2>. QED
    BY <1>8, <2>1, <2>2, <2>3 DEF Settle, Query
<1>9. CASE Clock \/ ToggleKill \/ StoreTicks \/ HandleControl \/ OrphanCleanup
  BY <1>1, <1>9 DEF Clock, ToggleKill, StoreTicks, HandleControl, OrphanCleanup
<1>10. ASSUME NEW m \in Markets, RecordTick(m) PROVE AccountInv'
  BY <1>1, <1>10 DEF RecordTick
<1>11. ASSUME NEW c \in CandleTimes, IngestCandle(c) PROVE AccountInv'
  BY <1>1, <1>11 DEF IngestCandle
<1>12. CASE UNCHANGED vars
  BY <1>1, <1>12 DEF vars
<1>. QED
  BY <1>2, <1>3, <1>6, <1>7, <1>8, <1>9, <1>10, <1>11, <1>12, AccountEnter
     DEF Next, Environment, Listen

\* Each fill is in at least one place, and no two places share one.
LEMMA AccountPlaces ==
    ASSUME AccountInv, SafetyInv
    PROVE  EntryAccounted
<1>1. SUFFICES ASSUME Unfailed, NEW c \in entries
               PROVE  Cardinality({place \in {"opening", "open", "paying", "settled", "dropped"} :
                  c \in CASE place = "opening" -> Opening
                          [] place = "open"    -> Open
                          [] place = "paying"  -> Paying({"exit_row"})
                          [] place = "settled" -> Settled
                          [] OTHER             -> dropped}) = 1
  BY DEF EntryAccounted, Unfailed
<1>. DEFINE In(place) == CASE place = "opening" -> Opening
                           [] place = "open"    -> Open
                           [] place = "paying"  -> Paying({"exit_row"})
                           [] place = "settled" -> Settled
                           [] OTHER             -> dropped
            places == {"opening", "open", "paying", "settled", "dropped"}
            here   == {place \in places : c \in In(place)}
<1>2. c \in Coids /\ c # NoPos
  BY ConstantTypes DEF SafetyInv, TypeInv, TypeOK
<1>3. /\ c \in Opening <=> BeingOpened(c)
      /\ c \in Open <=> IsOpen(c)
      /\ c \in Paying({"exit_row"}) <=> BeingPaid(c)
  BY <1>2 DEF Opening, Open, Paying, BeingOpened, IsOpen, BeingPaid
<1>4. \/ BeingOpened(c) \/ IsOpen(c) \/ BeingPaid(c) \/ c \in Settled \/ c \in dropped
  BY <1>1 DEF AccountInv, Sighted
<1>5. /\ BeingOpened(c) => ~IsOpen(c) /\ ~BeingPaid(c) /\ c \notin Settled /\ c \notin dropped
      /\ IsOpen(c) => ~BeingPaid(c) /\ c \notin Settled /\ c \notin dropped
      /\ BeingPaid(c) => c \notin Settled /\ c \notin dropped
      /\ c \in Settled => c \notin dropped
  <2>1. LifeInv
    BY DEF SafetyInv
  <2>2. BeingOpened(c) => ~IsOpen(c) /\ ~BeingPaid(c) /\ c \notin Settled /\ c \notin dropped
    BY <2>1 DEF BeingOpened, BeingPaid, LifeInv, EntryStages, AccountInv, DroppedApart, Tasks
  <2>3. IsOpen(c) => ~BeingPaid(c) /\ c \notin Settled /\ c \notin dropped
    BY <1>2, <2>1 DEF BeingPaid, LifeInv, OpenUnsettled, PayoutExclusive, IsOpen, AccountInv, DroppedApart
  <2>4. BeingPaid(c) => c \notin Settled /\ c \notin dropped
    BY <2>1 DEF BeingPaid, LifeInv, PayoutExclusive, AccountInv, DroppedApart
  <2>5. c \in Settled => c \notin dropped
    BY DEF AccountInv, DroppedApart
  <2>. QED
    BY <2>2, <2>3, <2>4, <2>5
<1>6. \A place \in places : c \in In(place) <=>
         \/ place = "opening" /\ BeingOpened(c)
         \/ place = "open" /\ IsOpen(c)
         \/ place = "paying" /\ BeingPaid(c)
         \/ place = "settled" /\ c \in Settled
         \/ place = "dropped" /\ c \in dropped
  BY <1>3
<1>7. \E place : here = {place}
  <2>. HIDE DEF In
  <2>1. CASE BeingOpened(c)
    <3>1. here = {"opening"}
      BY <1>5, <1>6, <2>1
    <3>. QED
      BY <3>1
  <2>2. CASE IsOpen(c)
    <3>1. here = {"open"}
      BY <1>5, <1>6, <2>2
    <3>. QED
      BY <3>1
  <2>3. CASE BeingPaid(c)
    <3>1. here = {"paying"}
      BY <1>5, <1>6, <2>3
    <3>. QED
      BY <3>1
  <2>4. CASE c \in Settled
    <3>1. here = {"settled"}
      BY <1>5, <1>6, <2>4
    <3>. QED
      BY <3>1
  <2>5. CASE c \in dropped
    <3>1. here = {"dropped"}
      BY <1>5, <1>6, <2>5
    <3>. QED
      BY <3>1
  <2>. QED
    BY <1>4, <2>1, <2>2, <2>3, <2>4, <2>5
<1>8. Cardinality(here) = 1
  <2>. HIDE DEF here
  <2>. QED
    BY <1>7, FS_Singleton
<1>. QED
  BY <1>8

LEMMA AccountHolds == Spec => [](SafetyInv /\ AccountInv)
<1>1. Init => AccountInv
  BY DEF Init, AccountInv, DroppedApart, SlotFree, Sighted, EntryPCs, Tasks
<1>2. SafetyInv /\ AccountInv /\ [Next]_vars => AccountInv'
  BY AccountStep DEF SafetyInv, TypeInv
<1>. QED
  BY <1>1, <1>2, SafetyHolds, PTL DEF Spec

\* While nothing has failed, every entry fill is being opened, open, being
\* settled, settled or given up, and only one of these, for any number of
\* markets and however the listen loop and the settle watchdog interleave.
THEOREM EntryAccountedHolds == Spec => []EntryAccounted
<1>1. SafetyInv /\ AccountInv => EntryAccounted
  BY AccountPlaces
<1>. QED
  BY <1>1, AccountHolds, PTL

-----------------------------------------------------------------------------
(* The times of ticks and of settlements. *)

\* A window lasts as long as the driver assumes, or less.
ShortWindows == \A m \in Markets : WindowClose[m] <= WindowOpen[m] + SettleT

\* A tick that the recorder may have published by time n.
Fits(c, n) == WindowOpen[c.slug] <= c.ts /\ c.ts < WindowClose[c.slug] /\ c.ts <= n

\* The socket delivers ticks in the order in which they were published.
TickTimes ==
    /\ \A c \in Used : Fits(c, now)
    /\ \A i \in 1..Len(inbox) : Fits(inbox[i], now)
    /\ \A i, j \in 1..Len(inbox) : i <= j => inbox[i].ts <= inbox[j].ts

LEMMA FirstTick ==
    ASSUME TypeOK, NEW tk, Receive(tk)
    PROVE  1 \in 1..Len(inbox) /\ tk = inbox[1]
<1>1. inbox \in Seq(Coids) /\ inbox # << >> /\ tk = inbox[1]
  BY DEF Receive, TypeOK
<1>. QED
  BY <1>1, EmptySeq

LEMMA TimesStep ==
    ASSUME TickTimes, TypeOK, JobsTyped, [Next]_vars
    PROVE  TickTimes'
<1>1. Used \subseteq Coids /\ inbox \in Seq(Coids) /\ now \in Nat /\ Len(inbox) \in Nat
  BY DEF Used, TypeOK, JobsTyped, EntryPCs, Tasks
<1>2. \A c \in Coids, n \in Nat : Fits(c, now) /\ now <= n => Fits(c, n)
  BY <1>1 DEF Fits, Coids
<1>3. \A i \in 1..Len(inbox) : inbox[i] \in Coids
  BY <1>1
<1>4. CASE Quiet
  <2>1. now' \in Nat /\ now <= now'
    BY <1>1, <1>4 DEF Quiet
  <2>2. \A c \in Used' : Fits(c, now')
    BY <1>1, <1>2, <1>4, <2>1 DEF Quiet, TickTimes
  <2>3. CASE inbox' = inbox
    BY <1>2, <1>3, <2>1, <2>2, <2>3 DEF TickTimes
  <2>4. CASE inbox' = << >>
    BY <2>2, <2>4 DEF TickTimes
  <2>. QED
    BY <1>4, <2>3, <2>4 DEF Quiet
<1>5. ASSUME NEW tk, Reads(tk) PROVE TickTimes'
  <2>1. /\ tk = inbox[1] /\ 1 \in 1..Len(inbox) /\ inbox' = Tail(inbox) /\ inbox # << >>
        /\ now' = now
    BY <1>5, FirstTick DEF Reads, Receive
  <2>2. /\ Len(inbox') = Len(inbox) - 1
        /\ \A i \in 1..Len(inbox') : inbox'[i] = inbox[i + 1]
    BY <1>1, <2>1, HeadTailProperties
  <2>3. \A i \in 1..Len(inbox') : i + 1 \in 1..Len(inbox) /\ inbox'[i] = inbox[i + 1]
    BY <1>1, <2>2
  <2>4. \A c \in Used' : Fits(c, now)
    BY <1>5, <2>1 DEF Reads, TickTimes
  <2>5. \A i, j \in 1..Len(inbox') : i <= j => inbox'[i].ts <= inbox'[j].ts
    BY <1>1, <2>3 DEF TickTimes
  <2>. QED
    BY <2>1, <2>3, <2>4, <2>5 DEF TickTimes
<1>6. ASSUME NEW m \in Markets, RecordTick(m) PROVE TickTimes'
  <2>. DEFINE tk == Coid(m, now)
  <2>1. /\ WindowOpen[m] <= now /\ now < WindowClose[m] /\ now' = now
        /\ inbox' = inbox \/ inbox' = Append(inbox, tk)
        /\ UNCHANGED <<orders, pc, job>>
    BY <1>6 DEF RecordTick, dbVars, taskVars
  <2>2. tk \in Coids /\ Fits(tk, now) /\ tk.ts = now
    BY <1>1, <2>1 DEF Coid, Coids, Fits
  <2>3. Used' = Used
    BY <2>1 DEF Used
  <2>4. CASE inbox' = inbox
    BY <2>1, <2>3, <2>4 DEF TickTimes
  <2>5. CASE inbox' = Append(inbox, tk)
    <3>. HIDE DEF tk
    <3>1. /\ Len(inbox') = Len(inbox) + 1
          /\ inbox'[Len(inbox) + 1] = tk
          /\ \A i \in 1..Len(inbox) : inbox'[i] = inbox[i]
      BY <1>1, <2>2, <2>5, AppendProperties
    <3>2. \A i \in 1..Len(inbox') : i \in 1..Len(inbox) \/ i = Len(inbox) + 1
      BY <1>1, <3>1
    <3>3. \A i \in 1..Len(inbox') : Fits(inbox'[i], now)
      BY <2>2, <3>1, <3>2 DEF TickTimes
    <3>4. \A i \in 1..Len(inbox) : inbox[i].ts <= tk.ts
      BY <2>2 DEF TickTimes, Fits
    <3>5. ASSUME NEW i \in 1..Len(inbox'), NEW j \in 1..Len(inbox'), i <= j
          PROVE  inbox'[i].ts <= inbox'[j].ts
      <4>1. CASE j \in 1..Len(inbox)
        <5>1. i \in 1..Len(inbox)
          BY <1>1, <3>5, <4>1
        <5>. QED
          BY <3>1, <3>5, <4>1, <5>1 DEF TickTimes
      <4>2. CASE j = Len(inbox) + 1
        BY <1>1, <2>2, <3>1, <3>2, <3>4, <4>2
      <4>. QED
        BY <3>2, <4>1, <4>2
    <3>. QED
      BY <2>1, <2>3, <3>3, <3>5 DEF TickTimes
  <2>. QED
    BY <2>1, <2>4, <2>5
<1>. QED
  BY <1>4, <1>5, <1>6, TickFlow

LEMMA TimesHold == Spec => [](SafetyInv /\ TickTimes)
<1>1. Init => TickTimes
  BY DEF Init, TickTimes, Used, Tasks
<1>2. SafetyInv /\ TickTimes /\ [Next]_vars => TickTimes'
  BY TimesStep DEF SafetyInv, TypeInv
<1>. QED
  BY <1>1, <1>2, SafetyHolds, PTL DEF Spec

\* Only the watchdog settles, and only markets that have closed: the recorder
\* publishes ticks before the close only, so none finds its position due.
SettlesClosed ==
    /\ pc["main"] \notin SettlePCs
    /\ \A c \in expired : WindowClose[c.slug] <= now
    /\ pc["wd"] \in SettlePCs => WindowClose[Slug("wd")] <= now

LEMMA ClosedStep ==
    ASSUME ShortWindows, SettlesClosed, TickTimes, LifeInv, TypeOK, JobsTyped, [Next]_vars
    PROVE  SettlesClosed'
<1>. USE DEF recVars, dbVars, memVars, taskVars, faultVars, Goto
<1>1. ASSUME now' = now \/ now' = now + 1, expired' = expired, pc'["wd"] = pc["wd"],
             job'["wd"] = job["wd"], pc'["main"] \notin SettlePCs
      PROVE  SettlesClosed'
  <2>1. now \in Nat /\ (\A c \in expired : WindowClose[c.slug] \in Nat)
    BY ConstantTypes DEF TypeOK, Coids
  <2>2. pc["wd"] \in SettlePCs => WindowClose[Slug("wd")] \in Nat
    BY ConstantTypes DEF JobsTyped, Slug, Coids, Tasks
  <2>. QED
    BY <1>1, <2>1, <2>2 DEF SettlesClosed, Slug
<1>2. ASSUME UNCHANGED <<now, expired, pc, job>> PROVE SettlesClosed'
  BY <1>1, <1>2 DEF SettlesClosed
<1>3. CASE Clock
  BY <1>1, <1>3 DEF Clock, SettlesClosed
<1>4. CASE Crash
  <2>1. pc'["main"] = "down" /\ pc'["wd"] = "down" /\ expired' = {}
    BY <1>4 DEF Crash, Tasks
  <2>. QED
    BY <2>1 DEF SettlesClosed, SettlePCs, QueryPCs, PayoutPCs
<1>5. CASE Boot \/ Disconnect
  <2>1. /\ UNCHANGED <<now, expired, job>>
        /\ pc'["main"] \in BootPCs \cup {"down", "connect", "listen"}
        /\ pc'["wd"] = pc["wd"] \/ pc'["wd"] = "sleep"
    BY <1>5 DEF Boot, Start, RehydratePauseState, RehydrateTradeTaken,
                BootstrapDailyPnl, Subscribe, Disconnect, TypeOK, Tasks, BootPCs
  <2>. QED
    BY <2>1 DEF SettlesClosed, SettlePCs, QueryPCs, PayoutPCs, BootPCs, Slug
<1>6. ASSUME NEW tk, HandleTick(tk) PROVE SettlesClosed'
  <2>1. Receive(tk)
    BY <1>6 DEF HandleTick, TickPaused, TickHolding, TickSettle, TickTaken,
                TickOutOfWindow, TickNoEntry, TickSubmit
  <2>2. tk \in Coids /\ Fits(tk, now)
    BY <2>1, FirstTick, ReceiveType DEF TickTimes
  <2>3. ~(TInWindow(tk) >= SettleT)
    <3>1. /\ tk.slug \in Markets /\ tk.ts \in Nat /\ WindowOpen[tk.slug] \in Nat
          /\ WindowClose[tk.slug] \in Nat /\ SettleT \in Nat
      BY <2>2, ConstantTypes DEF Coids
    <3>2. WindowClose[tk.slug] <= WindowOpen[tk.slug] + SettleT
      BY <3>1 DEF ShortWindows
    <3>. QED
      BY <2>2, <3>1, <3>2 DEF Fits, TInWindow
  <2>4. /\ now' = now /\ expired' = expired /\ pc'["wd"] = pc["wd"]
        /\ job'["wd"] = job["wd"] /\ pc'["main"] \in {"listen", "order"}
    BY <1>6, <2>1, <2>3
       DEF HandleTick, TickPaused, TickHolding, TickSettle, TickTaken,
           TickOutOfWindow, TickNoEntry, TickSubmit, TypeOK, Tasks, Receive
  <2>. QED
    BY <1>1, <2>4 DEF SettlePCs, QueryPCs, PayoutPCs
<1>7. CASE Enter
  <2>1. /\ now' = now /\ expired' = expired /\ pc'["wd"] = pc["wd"]
        /\ job' = job /\ pc'["main"] \in {"listen", "fill", "opened"}
    BY <1>7 DEF Enter, OrderUpsert, EntryFillUpsert, EntryPersistError,
                OpenPosition, TypeOK, Tasks
  <2>. QED
    BY <1>1, <2>1 DEF SettlePCs, QueryPCs, PayoutPCs
<1>8. CASE WatchdogWake
  <2>1. /\ expired' = {positions[m] : m \in {n \in Markets : Expired(n)}}
        /\ pc'["wd"] = "next" /\ pc'["main"] = pc["main"] /\ now' = now
    BY <1>8 DEF WatchdogWake, TypeOK, Tasks
  <2>2. ASSUME NEW m \in Markets, Expired(m)
        PROVE  WindowClose[positions[m].slug] <= now
    <3>1. positions[m].slug = m
      BY <2>2 DEF Expired, LifeInv, OpenUnsettled
    <3>2. now \in Nat /\ WindowClose[m] \in Nat /\ WatchdogGrace \in Nat
      BY ConstantTypes, DriverAssumption DEF TypeOK
    <3>. QED
      BY <2>2, <3>1, <3>2 DEF Expired
  <2>3. \A c \in expired' : WindowClose[c.slug] <= now
    BY <2>1, <2>2
  <2>. QED
    BY <2>1, <2>3 DEF SettlesClosed, SettlePCs, QueryPCs, PayoutPCs
<1>9. ASSUME NEW c \in expired, WatchdogNext(c) PROVE SettlesClosed'
  <2>1. /\ expired' \subseteq expired /\ job'["wd"].coid = c /\ now' = now
        /\ pc'["main"] = pc["main"]
    BY <1>9 DEF WatchdogNext, TypeOK, Tasks, Jobs
  <2>. QED
    BY <2>1 DEF SettlesClosed, Slug
<1>10. ASSUME NEW t \in Tasks, Settle(t) PROVE SettlesClosed'
  <2>1. t = "wd" /\ pc["wd"] \in SettlePCs
    BY <1>10 DEF Settle, LastTickQuery, OhlcvCloseQuery, FirstTickQuery, OhlcvOpenQuery,
         ExitFillUpsert, BookPnl, CleanupMarket, SettlePCs, QueryPCs, PayoutPCs,
         SettlesClosed, Tasks
  <2>2. CASE Query(t)
    <3>1. /\ Slug(t) \in Markets /\ UNCHANGED <<now, expired>>
          /\ Proceeds(t) \/ GivesUp(t) \/ Pops(t)
      BY <2>2, QueryStep
    <3>2. job'["wd"].coid.slug = Slug("wd")
      <4>1. CASE Proceeds(t) \/ GivesUp(t)
        BY <2>1, <4>1 DEF Proceeds, GivesUp, TypeOK, Slug
      <4>2. CASE Pops(t)
        BY <2>1, <3>1, <4>2 DEF Pops, TypeOK, LifeInv, OpenUnsettled
      <4>. QED
        BY <3>1, <4>1, <4>2
    <3>3. pc'["main"] = pc["main"]
      BY <2>1, <3>1 DEF Proceeds, GivesUp, Pops, TypeOK, Tasks
    <3>. QED
      BY <2>1, <3>1, <3>2, <3>3 DEF SettlesClosed, Slug
  <2>3. CASE ExitFillUpsert(t) \/ BookPnl(t) \/ CleanupMarket(t)
    <3>1. UNCHANGED <<now, expired, job>> /\ pc'["main"] = pc["main"]
      BY <2>1, <2>3 DEF ExitFillUpsert, BookPnl, CleanupMarket, TypeOK, Tasks
    <3>. QED
      BY <2>1, <3>1 DEF SettlesClosed, Slug
  <2>. QED
    BY <1>10, <2>2, <2>3 DEF Settle, Query
<1>11. CASE ToggleKill \/ StoreTicks \/ HandleControl \/ OrphanCleanup
  BY <1>2, <1>11 DEF ToggleKill, StoreTicks, HandleControl, OrphanCleanup
<1>12. ASSUME NEW m \in Markets, RecordTick(m) PROVE SettlesClosed'
  BY <1>2, <1>12 DEF RecordTick
<1>13. ASSUME NEW c \in CandleTimes, IngestCandle(c) PROVE SettlesClosed'
  BY <1>2, <1>13 DEF IngestCandle
<1>14. CASE UNCHANGED vars
  BY <1>2, <1>14 DEF vars
<1>. QED
  BY <1>3, <1>4, <1>5, <1>6, <1>7, <1>8, <1>9, <1>10, <1>11, <1>12, <1>13, <1>14
     DEF Next, Environment, Listen, Watchdog

LEMMA ClosedHolds ==
    ASSUME ShortWindows
    PROVE  Spec => [](SafetyInv /\ TickTimes /\ SettlesClosed)
<1>1. Init => SettlesClosed
  BY DEF Init, SettlesClosed, SettlePCs, QueryPCs, PayoutPCs, Tasks
<1>2. SafetyInv /\ TickTimes /\ SettlesClosed /\ [Next]_vars => SettlesClosed'
  BY ClosedStep DEF SafetyInv, TypeInv
<1>. QED
  BY <1>1, <1>2, TimesHold, PTL DEF Spec

\* With windows of the length the driver assumes, no position is paid out
\* before its market has closed, whatever else happens.
THEOREM NoEarlySettleHolds ==
    ASSUME ShortWindows
    PROVE  Spec => []NoEarlySettle
<1>1. TypeInv /\ SettlesClosed => NoEarlySettle
  <2>1. SUFFICES ASSUME TypeInv, SettlesClosed, NEW t \in Tasks, pc[t] = "exit_row"
                 PROVE  now >= CloseTs(t)
    BY DEF NoEarlySettle
  <2>2. t = "wd"
    BY <2>1 DEF SettlesClosed, SettlePCs, PayoutPCs, Tasks
  <2>3. now \in Nat /\ WindowClose[Slug(t)] \in Nat
    BY <2>1, ConstantTypes
       DEF TypeInv, TypeOK, JobsTyped, Slug, Coids, SettlePCs, PayoutPCs
  <2>. QED
    BY <2>1, <2>2, <2>3 DEF SettlesClosed, CloseTs, SettlePCs, PayoutPCs
<1>. QED
  BY <1>1, ClosedHolds, PTL DEF SafetyInv

-----------------------------------------------------------------------------
(* The price of a settlement is not older than the entry. *)

Entering == IF pc["main"] \in EntryPCs THEN {job["main"].coid} ELSE {}

\* Ticks that are, or may become, the entry of a position.
Live == {inbox[i] : i \in 1..Len(inbox)} \cup Entering \cup Open

\* Their rows are in paper_ticks, or in the recorder's unfinished round.
RowsKept == /\ \A c \in Live : c \in unstored \/ c.ts \in ticks[c.slug]
            /\ \A c \in unstored : c.ts = now

\* Once a settlement has its price, no position of the market is younger.
PriceLate ==
    /\ pc["wd"] \in {"first_tick", "ohlcv_open"} =>
          \A c \in Live : c.slug = Slug("wd") => c.ts <= job["wd"].ts
    /\ pc["wd"] = "exit_row" => job["wd"].coid.ts <= job["wd"].ts

PriceInv == RowsKept /\ PriceLate /\ SettleAfterEntry

\* Nothing becomes live except what is published.
LEMMA LiveFlow ==
    ASSUME TypeOK, JobsTyped, [Next]_vars
    PROVE  \/ Live' \subseteq Live
           \/ \E m \in Markets : RecordTick(m) /\ Live' \subseteq Live \cup {Coid(m, now)}
<1>. USE DEF recVars, dbVars, memVars, taskVars, faultVars, Goto
<1>. DEFINE Inbox == {inbox[i] : i \in 1..Len(inbox)}
<1>1. inbox \in Seq(Coids) /\ Len(inbox) \in Nat
  BY DEF TypeOK
<1>2. ASSUME inbox' = inbox \/ inbox' = << >> PROVE Inbox' \subseteq Inbox
  BY <1>2
<1>3. ASSUME UNCHANGED <<inbox, pc, job, positions>> PROVE Live' \subseteq Live
  <2>1. Entering' = Entering /\ Open' = Open
    BY <1>3 DEF Entering, Open
  <2>. QED
    BY <1>3, <2>1 DEF Live
<1>4. CASE Crash
  <2>1. inbox' = << >> /\ pc'["main"] = "down" /\ positions' = [m \in Markets |-> NoPos]
    BY <1>4 DEF Crash, Tasks
  <2>2. Entering' = {} /\ Open' = {}
    BY <2>1 DEF Entering, Open, EntryPCs
  <2>. QED
    BY <1>2, <2>1, <2>2 DEF Live
<1>5. CASE Boot \/ Disconnect
  <2>1. /\ positions' = positions /\ (inbox' = inbox \/ inbox' = << >>)
        /\ pc'["main"] \notin EntryPCs
    BY <1>5 DEF Boot, Start, RehydratePauseState, RehydrateTradeTaken, EntryPCs,
                BootstrapDailyPnl, Subscribe, Disconnect, TypeOK, Tasks, BootPCs
  <2>2. Entering' = {} /\ Open' = Open
    BY <2>1 DEF Entering, Open
  <2>. QED
    BY <1>2, <2>1, <2>2 DEF Live
<1>6. ASSUME NEW tk, HandleTick(tk) PROVE Live' \subseteq Live
  <2>1. Receive(tk) /\ positions' = positions
    BY <1>6 DEF HandleTick, TickPaused, TickHolding, TickSettle, TickTaken,
                TickOutOfWindow, TickNoEntry, TickSubmit
  <2>2. tk = inbox[1] /\ 1 \in 1..Len(inbox) /\ inbox' = Tail(inbox) /\ inbox # << >>
    BY <2>1, FirstTick DEF Receive
  <2>3. \A i \in 1..Len(inbox') : i + 1 \in 1..Len(inbox) /\ inbox'[i] = inbox[i + 1]
    BY <1>1, <2>2, HeadTailProperties
  <2>4. Inbox' \subseteq Inbox /\ tk \in Inbox
    BY <2>2, <2>3
  <2>5. Open' = Open
    BY <2>1 DEF Open
  <2>6. pc'["main"] \in EntryPCs => job'["main"].coid = tk
    <3>1. CASE TickSubmit(tk)
      BY <3>1 DEF TickSubmit, TypeOK, Tasks, NoJob
    <3>2. CASE ~TickSubmit(tk)
      BY <1>6, <2>1, <3>2
         DEF HandleTick, TickPaused, TickHolding, TickSettle, TickTaken, EntryPCs,
             TickOutOfWindow, TickNoEntry, TypeOK, Tasks, Receive
    <3>. QED
      BY <3>1, <3>2
  <2>7. Entering' \subseteq {tk}
    BY <2>6 DEF Entering
  <2>. QED
    BY <2>4, <2>5, <2>7 DEF Live
<1>7. CASE Enter
  <2>1. /\ inbox' = inbox /\ job' = job /\ pc["main"] \in EntryPCs
    BY <1>7 DEF Enter, OrderUpsert, EntryFillUpsert, EntryPersistError, OpenPosition,
                EntryPCs
  <2>2. Entering' \subseteq Entering /\ job["main"].coid \in Entering
    BY <2>1 DEF Entering
  <2>3. Open' \subseteq Open \cup Entering
    <3>1. CASE OpenPosition
      BY <2>2, <3>1 DEF OpenPosition, Open, TypeOK
    <3>2. CASE ~OpenPosition
      BY <1>7, <3>2 DEF Enter, OrderUpsert, EntryFillUpsert, EntryPersistError, Open
    <3>. QED
      BY <3>1, <3>2
  <2>. QED
    BY <2>1, <2>2, <2>3 DEF Live
<1>8. CASE Watchdog
  <2>1. /\ UNCHANGED <<inbox, positions>> /\ pc'["main"] = pc["main"]
        /\ job'["main"] = job["main"]
    BY <1>8 DEF Watchdog, WatchdogWake, WatchdogNext, TypeOK, Tasks
  <2>2. Entering' = Entering /\ Open' = Open
    BY <2>1 DEF Entering, Open
  <2>. QED
    BY <2>1, <2>2 DEF Live
<1>9. ASSUME NEW t \in Tasks, Settle(t) PROVE Live' \subseteq Live
  <2>1. /\ inbox' = inbox
        /\ \A m \in Markets : positions'[m] \in {positions[m], NoPos}
        /\ pc'[t] \notin EntryPCs
        /\ \A u \in Tasks : u # t => pc'[u] = pc[u] /\ job'[u] = job[u]
    <3>1. CASE Query(t)
      <4>1. /\ Proceeds(t) \/ GivesUp(t) \/ Pops(t)
            /\ Slug(t) \in Markets /\ inbox' = inbox
        BY <3>1, QueryStep
      <4>2. pc'[t] \in QueryPCs \cup {"exit_row", Return(t)}
        BY <4>1 DEF Proceeds, GivesUp, Pops, TypeOK
      <4>3. \A u \in Tasks : u # t => pc'[u] = pc[u] /\ job'[u] = job[u]
        BY <4>1 DEF Proceeds, GivesUp, Pops, TypeOK
      <4>4. \A m \in Markets : positions'[m] \in {positions[m], NoPos}
        BY <4>1 DEF Proceeds, GivesUp, Pops, TypeOK
      <4>. QED
        BY <4>1, <4>2, <4>3, <4>4 DEF QueryPCs, EntryPCs, Return
    <3>2. CASE ExitFillUpsert(t) \/ BookPnl(t) \/ CleanupMarket(t)
      BY <3>2 DEF ExitFillUpsert, BookPnl, CleanupMarket, TypeOK, EntryPCs, Return
    <3>. QED
      BY <1>9, <3>1, <3>2 DEF Settle, Query
  <2>2. Open' \subseteq Open
    BY <2>1 DEF Open
  <2>3. Entering' \subseteq Entering
    BY <2>1 DEF Entering, Tasks
  <2>. QED
    BY <2>1, <2>2, <2>3 DEF Live
<1>10. CASE Clock \/ ToggleKill \/ StoreTicks \/ HandleControl \/ OrphanCleanup
  BY <1>3, <1>10 DEF Clock, ToggleKill, StoreTicks, HandleControl, OrphanCleanup
<1>11. ASSUME NEW m \in Markets, RecordTick(m)
       PROVE  Live' \subseteq Live \cup {Coid(m, now)}
  <2>. DEFINE tk == Coid(m, now)
  <2>1. /\ UNCHANGED <<pc, job, positions>>
        /\ inbox' = inbox \/ inbox' = Append(inbox, tk)
    BY <1>11 DEF RecordTick
  <2>2. Entering' = Entering /\ Open' = Open
    BY <2>1 DEF Entering, Open
  <2>3. tk \in Coids
    BY DEF Coid, Coids, TypeOK
  <2>. HIDE DEF tk
  <2>4. Inbox' \subseteq Inbox \cup {tk}
    <3>1. CASE inbox' = inbox
      BY <3>1
    <3>2. CASE inbox' = Append(inbox, tk)
      <4>1. /\ Len(inbox') = Len(inbox) + 1
            /\ inbox'[Len(inbox) + 1] = tk
            /\ \A i \in 1..Len(inbox) : inbox'[i] = inbox[i]
        BY <1>1, <2>3, <3>2, AppendProperties
      <4>2. \A i \in 1..Len(inbox') : i \in 1..Len(inbox) \/ i = Len(inbox) + 1
        BY <1>1, <4>1
      <4>. QED
        BY <4>1, <4>2
    <3>. QED
      BY <2>1, <3>1, <3>2
  <2>. QED
    BY <2>2, <2>4 DEF Live, tk
<1>12. ASSUME NEW c \in CandleTimes, IngestCandle(c) PROVE Live' \subseteq Live
  BY <1>3, <1>12 DEF IngestCandle
<1>13. CASE UNCHANGED vars
  BY <1>3, <1>13 DEF vars
<1>. QED
  BY <1>4, <1>5, <1>6, <1>7, <1>8, <1>9, <1>10, <1>11, <1>12, <1>13
     DEF Next, Environment, Listen

LEMMA LiveTyped ==
    ASSUME TypeOK, JobsTyped
    PROVE  Live \subseteq Coids
<1>1. \A i \in 1..Len(inbox) : inbox[i] \in Coids
  BY DEF TypeOK
<1>2. Entering \subseteq Coids
  BY DEF Entering, JobsTyped, Tasks
<1>3. Open \subseteq Coids
  BY DEF Open, TypeOK
<1>. QED
  BY <1>1, <1>2, <1>3 DEF Live

LEMMA LiveFits ==
    ASSUME TickTimes, LifeInv, TypeOK, JobsTyped, NEW c \in Live
    PROVE  Fits(c, now)
<1>1. CASE c \in Entering
  <2>1. c \in Used
    BY <1>1 DEF Entering, EntryPCs, Used, LifeInv, EntryStages
  <2>. QED
    BY <2>1 DEF TickTimes
<1>2. CASE c \in Open
  <2>1. c \in Used
    BY <1>2 DEF Open, LifeInv, OpenUnsettled, Used
  <2>. QED
    BY <2>1 DEF TickTimes
<1>. QED
  BY <1>1, <1>2 DEF Live, TickTimes

\* The recorder inserts the rows of a round before the clock moves on.
LEMMA RowsStep ==
    ASSUME StoreOutcomes \subseteq {TRUE}, RowsKept, TypeOK, JobsTyped, [Next]_vars
    PROVE  RowsKept'
<1>. USE DEF recVars, dbVars, memVars, taskVars, faultVars
<1>1. Live \subseteq Coids
  BY LiveTyped
<1>2. ASSUME Live' \subseteq Live, UNCHANGED <<unstored, ticks, now>> PROVE RowsKept'
  BY <1>2 DEF RowsKept
<1>3. ASSUME NEW m \in Markets, RecordTick(m) PROVE RowsKept'
  <2>1. /\ unstored' = unstored \cup {Coid(m, now)} /\ UNCHANGED <<ticks, now, pc>>
    BY <1>3 DEF RecordTick
  <2>2. Live' \subseteq Live \cup {Coid(m, now)}
    <3>1. CASE Live' \subseteq Live
      BY <3>1
    <3>2. ASSUME NEW n \in Markets, RecordTick(n), Live' \subseteq Live \cup {Coid(n, now)}
          PROVE  Live' \subseteq Live \cup {Coid(m, now)}
      <4>1. /\ lastPub' = [lastPub EXCEPT ![m] = now] /\ lastPub[m] < now
            /\ lastPub' = [lastPub EXCEPT ![n] = now] /\ lastPub[n] < now
        BY <1>3, <3>2 DEF RecordTick
      <4>2. m = n
        <5>1. lastPub[m] \in Int /\ lastPub[n] \in Int /\ now \in Nat
              /\ lastPub \in [Markets -> Nat \cup {NoTick}]
          BY DEF TypeOK, NoTick
        <5>. QED
          BY <4>1, <5>1
      <4>. QED
        BY <3>2, <4>2
    <3>. QED
      BY <3>1, <3>2, LiveFlow
  <2>3. Coid(m, now).ts = now
    BY DEF Coid
  <2>. QED
    BY <2>1, <2>2, <2>3 DEF RowsKept
<1>4. CASE ~\E m \in Markets : RecordTick(m)
  <2>1. Live' \subseteq Live
    BY <1>4, LiveFlow
  <2>2. CASE Clock
    <3>1. unstored = {} /\ UNCHANGED <<unstored, ticks>>
      BY <2>2 DEF Clock
    <3>. QED
      BY <2>1, <3>1 DEF RowsKept
  <2>3. CASE StoreTicks
    <3>1. /\ unstored' = {} /\ now' = now
          /\ ticks' = [m \in Markets |->
                         ticks[m] \cup {c.ts : c \in {d \in unstored : d.slug = m}}]
      BY <2>3 DEF StoreTicks
    <3>2. ASSUME NEW c \in Live PROVE c.ts \in ticks'[c.slug]
      <4>1. c.slug \in Markets
        BY <1>1 DEF Coids
      <4>. QED
        BY <3>1, <4>1 DEF RowsKept
    <3>. QED
      BY <2>1, <3>1, <3>2 DEF RowsKept
  <2>4. CASE Crash
    <3>1. /\ inbox' = << >> /\ pc'["main"] = "down" /\ unstored' = {}
          /\ positions' = [m \in Markets |-> NoPos]
      BY <2>4 DEF Crash, Tasks
    <3>2. Entering' = {} /\ Open' = {}
      BY <3>1 DEF Entering, Open, EntryPCs
    <3>3. Live' = {}
      BY <3>1, <3>2 DEF Live
    <3>. QED
      BY <3>1, <3>3 DEF RowsKept
  <2>5. ASSUME NEW tk, HandleTick(tk) PROVE RowsKept'
    BY <1>2, <2>1, <2>5
       DEF HandleTick, TickPaused, TickHolding, TickSettle, TickTaken,
           TickOutOfWindow, TickNoEntry, TickSubmit
  <2>6. CASE Enter \/ Boot \/ Disconnect \/ Watchdog
    BY <1>2, <2>1, <2>6
       DEF Enter, OrderUpsert, EntryFillUpsert, EntryPersistError, OpenPosition, Boot,
           Start, RehydratePauseState, RehydrateTradeTaken, BootstrapDailyPnl, Subscribe,
           Disconnect, Watchdog, WatchdogWake, WatchdogNext
  <2>7. ASSUME NEW t \in Tasks, Settle(t) PROVE RowsKept'
    BY <1>2, <2>1, <2>7
       DEF Settle, LastTickQuery, OhlcvCloseQuery, FirstTickQuery, OhlcvOpenQuery,
           ExitFillUpsert, BookPnl, CleanupMarket
  <2>8. CASE ToggleKill \/ HandleControl \/ OrphanCleanup
    BY <1>2, <2>1, <2>8 DEF ToggleKill, HandleControl, OrphanCleanup
  <2>9. ASSUME NEW c \in CandleTimes, IngestCandle(c) PROVE RowsKept'
    BY <1>2, <2>1, <2>9 DEF IngestCandle
  <2>10. CASE UNCHANGED vars
    BY <1>2, <2>1, <2>10 DEF vars
  <2>. QED
    BY <1>4, <2>2, <2>3, <2>4, <2>5, <2>6, <2>7, <2>8, <2>9, <2>10
       DEF Next, Environment, Listen
<1>. QED
  BY <1>3, <1>4

\* Both price sources of a settlement are at least as recent as any entry.
LEMMA PriceQuery ==
    ASSUME ShortWindows, PriceInv, TickTimes, SettlesClosed, LifeInv, TypeOK, JobsTyped,
           pc["wd"] \in {"last_tick", "ohlcv_close"}, NEW ts,
           \/ WindowTicks(Slug("wd")) # {} /\ ts = Latest(WindowTicks(Slug("wd")))
           \/ ts = CloseTs("wd")
    PROVE  \A c \in Live : c.slug = Slug("wd") => c.ts <= ts
<1>1. SUFFICES ASSUME NEW c \in Live, c.slug = Slug("wd") PROVE c.ts <= ts
  OBVIOUS
<1>. DEFINE m == Slug("wd")
<1>2. m \in Markets
  BY DEF JobsTyped, SettlePCs, QueryPCs, Slug, Coids, Tasks
<1>3. /\ WindowClose[m] <= now /\ now \in Nat /\ WindowClose[m] \in Nat /\ SettleT \in Nat
      /\ WindowOpen[m] \in Nat /\ WindowClose[m] <= WindowOpen[m] + SettleT
  BY <1>2, ConstantTypes DEF SettlesClosed, SettlePCs, QueryPCs, TypeOK, ShortWindows
<1>4. c \in Coids /\ Fits(c, now)
  BY LiveFits, LiveTyped
<1>5. c.ts \in Nat /\ WindowOpen[m] <= c.ts /\ c.ts < WindowClose[m]
  BY <1>1, <1>4 DEF Fits, Coids
<1>6. CASE ts = CloseTs("wd")
  BY <1>3, <1>5, <1>6 DEF CloseTs
<1>7. CASE WindowTicks(m) # {} /\ ts = Latest(WindowTicks(m))
  <2>1. c \notin unstored
    BY <1>3, <1>5 DEF PriceInv, RowsKept
  <2>2. c.ts \in ticks[m]
    BY <1>1, <2>1 DEF PriceInv, RowsKept
  <2>3. c.ts \in WindowTicks(m)
    BY <1>3, <1>5, <2>2 DEF WindowTicks
  <2>. QED
    BY <1>2, <1>7, <2>3, LatestRow
<1>. QED
  BY <1>6, <1>7

\* The watchdog's steps find prices, pop positions and write them.
LEMMA PriceSettle ==
    ASSUME ShortWindows, PriceInv, TickTimes, SettlesClosed, LifeInv, TypeOK, JobsTyped,
           Settle("wd"), Live' \subseteq Live
    PROVE  PriceLate' /\ SettleAfterEntry'
<1>. USE DEF Goto
<1>1. pc \in [Tasks -> MainPCs \cup WdPCs] /\ job \in [Tasks -> Jobs] /\ "wd" \in Tasks
  BY DEF TypeOK, Tasks
<1>2. ASSUME pc'["wd"] \notin {"first_tick", "ohlcv_open", "exit_row"}, exits' = exits
      PROVE  PriceLate' /\ SettleAfterEntry'
  BY <1>2 DEF PriceLate, PriceInv, SettleAfterEntry
<1>3. Return("wd") \in {"sleep", "next"}
  BY DEF Return
<1>4. ASSUME NEW ts, PriceFound("wd", ts), exits' = exits, pc["wd"] \in {"last_tick", "ohlcv_close"},
             \/ WindowTicks(Slug("wd")) # {} /\ ts = Latest(WindowTicks(Slug("wd")))
             \/ ts = CloseTs("wd")
      PROVE  PriceLate' /\ SettleAfterEntry'
  <2>1. /\ pc'["wd"] = "first_tick" /\ job'["wd"].ts = ts /\ job'["wd"].coid = job["wd"].coid
    BY <1>1, <1>4 DEF PriceFound, Jobs
  <2>2. \A c \in Live : c.slug = Slug("wd") => c.ts <= ts
    BY <1>4, PriceQuery
  <2>. QED
    BY <1>4, <2>1, <2>2 DEF PriceLate, PriceInv, SettleAfterEntry, Slug
<1>5. ASSUME GiveUpOrReturn("wd"), exits' = exits PROVE PriceLate' /\ SettleAfterEntry'
  <2>1. pc'["wd"] = Return("wd")
    BY <1>1, <1>5 DEF GiveUpOrReturn
  <2>. QED
    BY <1>2, <1>3, <1>5, <2>1
<1>6. ASSUME PopPosition("wd"), exits' = exits, pc["wd"] \in {"first_tick", "ohlcv_open"}
      PROVE  PriceLate' /\ SettleAfterEntry'
  <2>. DEFINE m == Slug("wd")
              c == positions[m]
  <2>1. m \in Markets
    BY <1>6 DEF JobsTyped, SettlePCs, QueryPCs, Slug, Coids, Tasks
  <2>2. CASE c = NoPos
    <3>1. pc'["wd"] = Return("wd")
      BY <1>1, <1>6, <2>2 DEF PopPosition
    <3>. QED
      BY <1>2, <1>3, <1>6, <3>1
  <2>3. CASE c # NoPos
    <3>1. c \in Live /\ c.slug = m
      BY <2>1, <2>3 DEF Live, Open, LifeInv, OpenUnsettled
    <3>2. c.ts <= job["wd"].ts
      BY <1>6, <3>1 DEF PriceInv, PriceLate
    <3>3. PICK won \in BOOLEAN : job' = [job EXCEPT !["wd"].coid = c, !["wd"].won = won]
      BY <1>6, <2>3 DEF PopPosition
    <3>4. pc'["wd"] = "exit_row"
      BY <1>1, <1>6, <2>3 DEF PopPosition
    <3>. HIDE DEF c
    <3>5. job'["wd"].coid = c /\ job'["wd"].ts = job["wd"].ts
      BY <1>1, <3>3 DEF Jobs
    <3>. QED
      BY <1>6, <3>2, <3>4, <3>5 DEF PriceLate, PriceInv, SettleAfterEntry
  <2>. QED
    BY <2>2, <2>3
<1>7. CASE LastTickQuery("wd")
  <2>1. exits' = exits /\ pc["wd"] = "last_tick"
    BY <1>7 DEF LastTickQuery, dbVars
  <2>2. ASSUME pc'= [pc EXCEPT !["wd"] = "ohlcv_close"] PROVE PriceLate' /\ SettleAfterEntry'
    BY <1>1, <1>2, <2>1, <2>2
  <2>. QED
    BY <1>4, <1>5, <1>7, <2>1, <2>2 DEF LastTickQuery
<1>8. CASE OhlcvCloseQuery("wd")
  <2>1. exits' = exits /\ pc["wd"] = "ohlcv_close"
    BY <1>8 DEF OhlcvCloseQuery, dbVars
  <2>. QED
    BY <1>4, <1>5, <1>8, <2>1 DEF OhlcvCloseQuery
<1>9. CASE FirstTickQuery("wd")
  <2>1. exits' = exits /\ pc["wd"] = "first_tick"
    BY <1>9 DEF FirstTickQuery, dbVars
  <2>2. ASSUME pc' = [pc EXCEPT !["wd"] = "ohlcv_open"], job' = job
        PROVE  PriceLate' /\ SettleAfterEntry'
    BY <1>1, <2>1, <2>2 DEF PriceLate, PriceInv, SettleAfterEntry, Slug
  <2>. QED
    BY <1>6, <1>9, <2>1, <2>2 DEF FirstTickQuery
<1>10. CASE OhlcvOpenQuery("wd")
  <2>1. exits' = exits /\ pc["wd"] = "ohlcv_open"
    BY <1>10 DEF OhlcvOpenQuery, dbVars
  <2>2. ASSUME pc' = [pc EXCEPT !["wd"] = Return("wd")] PROVE PriceLate' /\ SettleAfterEntry'
    BY <1>1, <1>2, <1>3, <2>1, <2>2
  <2>. QED
    BY <1>6, <1>10, <2>1, <2>2 DEF OhlcvOpenQuery
<1>11. CASE ExitFillUpsert("wd")
  <2>1. /\ pc["wd"] = "exit_row" /\ pc'["wd"] = "ledger"
        /\ exits' \in {exits, exits \cup {ExitRow("wd")}}
    BY <1>1, <1>11 DEF ExitFillUpsert
  <2>2. ExitRow("wd").ts >= ExitRow("wd").coid.ts
    <3>1. job["wd"].ts \in Nat /\ job["wd"].coid.ts \in Nat
      BY <1>1, <2>1 DEF Jobs, JobsTyped, SettlePCs, PayoutPCs, Coids
    <3>. QED
      BY <2>1, <3>1 DEF ExitRow, PriceInv, PriceLate
  <2>3. \A e \in exits' : e.ts >= e.coid.ts
    <3>1. \A e \in exits : e.ts >= e.coid.ts
      BY DEF PriceInv, SettleAfterEntry
    <3>. QED
      BY <2>1, <2>2, <3>1
  <2>. QED
    BY <2>1, <2>3 DEF PriceLate, SettleAfterEntry
<1>12. CASE BookPnl("wd") \/ CleanupMarket("wd")
  <2>1. exits' = exits /\ pc'["wd"] \in {"notify", Return("wd")}
    BY <1>1, <1>12 DEF BookPnl, CleanupMarket, dbVars
  <2>. QED
    BY <1>2, <1>3, <2>1
<1>. QED
  BY <1>7, <1>8, <1>9, <1>10, <1>11, <1>12 DEF Settle

LEMMA PriceStep ==
    ASSUME ShortWindows, StoreOutcomes \subseteq {TRUE}, PriceInv, TickTimes,
           SettlesClosed, LifeInv, TypeOK, JobsTyped, [Next]_vars
    PROVE  PriceInv'
<1>. USE DEF recVars, dbVars, memVars, taskVars, faultVars, Goto
<1>1. RowsKept'
  BY RowsStep DEF PriceInv
<1>2. SUFFICES PriceLate' /\ SettleAfterEntry'
  BY <1>1 DEF PriceInv
<1>3. ASSUME pc'["wd"] = pc["wd"], job'["wd"] = job["wd"], exits' = exits
      PROVE  PriceLate' /\ SettleAfterEntry'
  <2>1. ASSUME NEW c \in Live', c.slug = Slug("wd"), pc["wd"] \in {"first_tick", "ohlcv_open"}
        PROVE  c \in Live
    <3>1. ASSUME NEW m \in Markets, RecordTick(m) PROVE c # Coid(m, now)
      <4>1. now < WindowClose[m] /\ WindowClose[Slug("wd")] <= now
        BY <2>1, <3>1 DEF RecordTick, SettlesClosed, SettlePCs, QueryPCs
      <4>2. WindowClose[m] \in Nat /\ now \in Nat
        BY ConstantTypes DEF TypeOK
      <4>. QED
        BY <2>1, <4>1, <4>2 DEF Coid
    <3>. QED
      BY <3>1, LiveFlow
  <2>. QED
    BY <1>3, <2>1 DEF PriceInv, PriceLate, SettleAfterEntry, Slug
<1>4. ASSUME pc'["wd"] \notin {"first_tick", "ohlcv_open", "exit_row"}, exits' = exits
      PROVE  PriceLate' /\ SettleAfterEntry'
  BY <1>4 DEF PriceLate, PriceInv, SettleAfterEntry
<1>5. CASE Crash
  BY <1>4, <1>5 DEF Crash, Tasks
<1>6. CASE Boot \/ Disconnect
  <2>1. exits' = exits /\ job' = job /\ (pc'["wd"] = pc["wd"] \/ pc'["wd"] = "sleep")
    BY <1>6 DEF Boot, Start, RehydratePauseState, RehydrateTradeTaken, BootstrapDailyPnl,
                Subscribe, Disconnect, TypeOK, Tasks
  <2>. QED
    BY <1>3, <1>4, <2>1
<1>7. ASSUME NEW tk, HandleTick(tk) PROVE PriceLate' /\ SettleAfterEntry'
  <2>1. pc'["wd"] = pc["wd"] /\ job'["wd"] = job["wd"] /\ exits' = exits
    BY <1>7 DEF HandleTick, TickPaused, TickHolding, TickSettle, TickTaken,
                TickOutOfWindow, TickNoEntry, TickSubmit, TypeOK, Tasks
  <2>. QED
    BY <1>3, <2>1
<1>8. CASE Enter
  <2>1. pc'["wd"] = pc["wd"] /\ job' = job /\ exits' = exits
    BY <1>8 DEF Enter, OrderUpsert, EntryFillUpsert, EntryPersistError, OpenPosition,
                TypeOK, Tasks
  <2>. QED
    BY <1>3, <2>1
<1>9. CASE Watchdog
  <2>1. exits' = exits /\ pc'["wd"] \in {"next", "last_tick"}
    BY <1>9 DEF Watchdog, WatchdogWake, WatchdogNext, TypeOK, Tasks
  <2>. QED
    BY <1>4, <2>1
<1>10. ASSUME NEW t \in Tasks, Settle(t) PROVE PriceLate' /\ SettleAfterEntry'
  <2>1. t = "wd"
    BY <1>10 DEF Settle, LastTickQuery, OhlcvCloseQuery, FirstTickQuery, OhlcvOpenQuery,
         ExitFillUpsert, BookPnl, CleanupMarket, SettlePCs, QueryPCs, PayoutPCs,
         SettlesClosed, Tasks
  <2>2. now' = now /\ lastPub' = lastPub
    BY <1>10 DEF Settle, LastTickQuery, OhlcvCloseQuery, FirstTickQuery, OhlcvOpenQuery,
         ExitFillUpsert, BookPnl, CleanupMarket
  <2>3. ASSUME NEW m \in Markets PROVE ~RecordTick(m)
    <3>1. lastPub[m] \in Int /\ now \in Nat /\ lastPub \in [Markets -> Nat \cup {NoTick}]
      BY DEF TypeOK, NoTick
    <3>. QED
      BY <2>2, <3>1 DEF RecordTick
  <2>4. Live' \subseteq Live
    BY <2>3, LiveFlow
  <2>. QED
    BY <1>10, <2>1, <2>4, PriceSettle
<1>11. CASE Clock \/ ToggleKill \/ StoreTicks \/ HandleControl \/ OrphanCleanup
  BY <1>3, <1>11 DEF Clock, ToggleKill, StoreTicks, HandleControl, OrphanCleanup
<1>12. ASSUME NEW m \in Markets, RecordTick(m) PROVE PriceLate' /\ SettleAfterEntry'
  BY <1>3, <1>12 DEF RecordTick
<1>13. ASSUME NEW c \in CandleTimes, IngestCandle(c) PROVE PriceLate' /\ SettleAfterEntry'
  BY <1>3, <1>13 DEF IngestCandle
<1>14. CASE UNCHANGED vars
  BY <1>3, <1>14 DEF vars
<1>. QED
  BY <1>5, <1>6, <1>7, <1>8, <1>9, <1>10, <1>11, <1>12, <1>13, <1>14
     DEF Next, Environment, Listen

\* When no tick row is lost, no trade is settled at a price older than its
\* entry, through crashes and failing queries as well.
THEOREM SettleAfterEntryHolds ==
    ASSUME ShortWindows, StoreOutcomes \subseteq {TRUE}
    PROVE  Spec => []SettleAfterEntry
<1>1. Init => PriceInv
  <2>1. SUFFICES ASSUME Init PROVE PriceInv
    OBVIOUS
  <2>2. Live = {}
    BY <2>1 DEF Init, Live, Entering, Open, EntryPCs, Tasks
  <2>. QED
    BY <2>1, <2>2 DEF Init, PriceInv, RowsKept, PriceLate, SettleAfterEntry, Tasks
<1>2. SafetyInv /\ TickTimes /\ SettlesClosed /\ PriceInv /\ [Next]_vars => PriceInv'
  BY PriceStep DEF SafetyInv, TypeInv
<1>3. PriceInv => SettleAfterEntry
  BY DEF PriceInv
<1>. QED
  BY <1>1, <1>2, <1>3, ClosedHolds, PTL DEF Spec

-----------------------------------------------------------------------------
(* A market is entered once. *)

\* Windows do not straddle midnight: slots of five minutes, aligned to the hour.
DayWindows ==
    \A m \in Markets : \A ts \in Nat :
       WindowOpen[m] <= ts /\ ts < WindowClose[m] => Day(ts) = Day(WindowOpen[m])

LEMMA DayType == \A ts \in Nat : Day(ts) \in Nat
BY ConstantTypes DEF Day

LEMMA DayMonotone ==
    ASSUME NEW a \in Nat, NEW b \in Nat, a <= b
    PROVE  Day(a) <= Day(b)
<1>1. \A n \in Nat \ {0} : a \div n <= b \div n
  OBVIOUS
<1>. QED
  BY <1>1, ConstantTypes DEF Day

\* The driver's day follows the ticks it reads, which come in order.
DaysOrdered ==
    crashes = 0 =>
    /\ ledger.today <= Day(now)
    /\ \A i \in 1..Len(inbox) : ledger.today <= Day(inbox[i].ts)
    /\ pc["main"] \in EntryPCs => ledger.today = Day(job["main"].coid.ts)
    /\ \A c \in entries : Day(c.ts) <= ledger.today

\* Today's markets are marked as taken, or about to be.
TakenMarks ==
    Unfailed => \A c \in entries : Day(c.ts) = ledger.today =>
                   c.slug \in ledger.trade_taken \/ BeingOpened(c)

\* try_enter is called for a market that has no entry.
MarketFree ==
    Unfailed /\ pc["main"] \in EntryPCs =>
       \A c \in entries : c.slug = job["main"].coid.slug => BeingOpened(c)

TakenInv == DaysOrdered /\ TakenMarks /\ MarketFree /\ (Unfailed => OneEntryPerMarket)

\* Only ticks and crashes roll the day or take marks away.
LEMMA LedgerKeeps ==
    ASSUME TypeOK, [Next]_vars, ~Crash, ~\E tk : HandleTick(tk)
    PROVE  ledger'.today = ledger.today /\ ledger.trade_taken \subseteq ledger'.trade_taken
<1>. USE DEF recVars, dbVars, memVars, taskVars, faultVars
<1>. DEFINE Goal == ledger'.today = ledger.today /\ ledger.trade_taken \subseteq ledger'.trade_taken
<1>1. ledger \in Ledgers
  BY DEF TypeOK
<1>2. ASSUME ledger' = ledger PROVE Goal
  BY <1>2
<1>3. CASE Enter
  <2>1. CASE OpenPosition
    BY <1>1, <2>1 DEF OpenPosition, Ledgers
  <2>. QED
    BY <1>2, <1>3, <2>1 DEF Enter, OrderUpsert, EntryFillUpsert, EntryPersistError
<1>4. CASE Boot
  <2>1. CASE RehydrateTradeTaken
    BY <1>1, <2>1 DEF RehydrateTradeTaken, Ledgers
  <2>2. CASE BootstrapDailyPnl
    BY <1>1, <2>2 DEF BootstrapDailyPnl, Ledgers
  <2>. QED
    BY <1>2, <1>4, <2>1, <2>2 DEF Boot, Start, RehydratePauseState, Subscribe
<1>5. ASSUME NEW t \in Tasks, Settle(t) PROVE Goal
  <2>1. CASE BookPnl(t)
    BY <1>1, <2>1 DEF BookPnl, Ledgers
  <2>. QED
    BY <1>2, <1>5, <2>1 DEF Settle, LastTickQuery, OhlcvCloseQuery, FirstTickQuery,
       OhlcvOpenQuery, ExitFillUpsert, CleanupMarket
<1>6. CASE Environment
  BY <1>2, <1>6 DEF Environment, Clock, ToggleKill, Disconnect, StoreTicks, RecordTick,
                    IngestCandle
<1>7. CASE Watchdog \/ HandleControl \/ OrphanCleanup \/ UNCHANGED vars
  BY <1>2, <1>7 DEF Watchdog, WatchdogWake, WatchdogNext, HandleControl, OrphanCleanup, vars
<1>. QED
  BY <1>3, <1>4, <1>5, <1>6, <1>7 DEF Next, Listen

\* What a tick does to the driver's day and marks.
LEMMA LedgerOnTick ==
    ASSUME ShortWindows, TickTimes, TypeOK, NEW tk, HandleTick(tk)
    PROVE  /\ Receive(tk) /\ tk \in Coids /\ Fits(tk, now)
           /\ ledger'.today = Day(tk.ts)
           /\ Day(tk.ts) = ledger.today => ledger.trade_taken \subseteq ledger'.trade_taken
           /\ TickSubmit(tk) => tk.slug \notin ledger'.trade_taken
           /\ UNCHANGED <<now, entries, orders, crashes, dbErrs>>
           /\ IF TickSubmit(tk) THEN pc'["main"] = "order" /\ job'["main"].coid = tk
                                ELSE pc'["main"] \notin EntryPCs
<1>. USE DEF recVars, dbVars, memVars, taskVars, faultVars, Goto
<1>1. Receive(tk) /\ UNCHANGED <<now, entries, orders, crashes, dbErrs>>
  BY DEF HandleTick, TickPaused, TickHolding, TickSettle, TickTaken,
         TickOutOfWindow, TickNoEntry, TickSubmit
<1>2. tk \in Coids /\ Fits(tk, now)
  BY <1>1, FirstTick, ReceiveType DEF TickTimes
<1>3. ~(TInWindow(tk) >= SettleT)
  <2>1. /\ tk.slug \in Markets /\ tk.ts \in Nat /\ WindowOpen[tk.slug] \in Nat
        /\ WindowClose[tk.slug] \in Nat /\ SettleT \in Nat
    BY <1>2, ConstantTypes DEF Coids
  <2>2. WindowClose[tk.slug] <= WindowOpen[tk.slug] + SettleT
    BY <2>1 DEF ShortWindows
  <2>. QED
    BY <1>2, <2>1, <2>2 DEF Fits, TInWindow
<1>4. ledger' = RollDay(ledger, tk.ts) \/ ledger' = Gated(tk)
  BY <1>3 DEF HandleTick, TickPaused, TickHolding, TickSettle, TickTaken,
              TickOutOfWindow, TickNoEntry, TickSubmit
<1>5. ledger \in Ledgers /\ RollDay(ledger, tk.ts) \in Ledgers
  BY <1>2, LedgerType DEF TypeOK
<1>6. /\ RollDay(ledger, tk.ts).today = Day(tk.ts)
      /\ Day(tk.ts) = ledger.today => RollDay(ledger, tk.ts) = ledger
  BY DEF RollDay, FreshLedger
<1>7. /\ Gated(tk).today = Day(tk.ts)
      /\ RollDay(ledger, tk.ts).trade_taken \subseteq Gated(tk).trade_taken
  BY <1>5, <1>6 DEF Gated, DailyPauseGate, Ledgers
<1>8. TickSubmit(tk) => tk.slug \notin ledger'.trade_taken
  BY DEF TickSubmit, Untraded
<1>9. IF TickSubmit(tk) THEN pc'["main"] = "order" /\ job'["main"].coid = tk
                        ELSE pc'["main"] \notin EntryPCs
  <2>1. CASE TickSubmit(tk)
    BY <2>1 DEF TickSubmit, TypeOK, Tasks, NoJob
  <2>2. CASE ~TickSubmit(tk)
    BY <1>1, <2>2
       DEF HandleTick, TickPaused, TickHolding, TickSettle, TickTaken, EntryPCs,
           TickOutOfWindow, TickNoEntry, TypeOK, Tasks, Receive
  <2>. QED
    BY <2>1, <2>2
<1>. QED
  BY <1>1, <1>2, <1>4, <1>6, <1>7, <1>8, <1>9

LEMMA DaysStep ==
    ASSUME ShortWindows, DaysOrdered, TickTimes, LifeInv, TypeOK, JobsTyped, [Next]_vars
    PROVE  DaysOrdered'
<1>. USE DEF recVars, dbVars, memVars, taskVars, faultVars, Goto
<1>1. SUFFICES ASSUME crashes' = 0 PROVE DaysOrdered'
  BY DEF DaysOrdered
<1>2. /\ now \in Nat /\ ledger.today \in Int /\ inbox \in Seq(Coids) /\ Len(inbox) \in Nat
      /\ entries \subseteq Coids /\ crashes \in Nat
  BY DEF TypeOK, Ledgers
<1>3. \A i \in 1..Len(inbox) : inbox[i] \in Coids /\ inbox[i].ts \in Nat
  <2>1. \A c \in Coids : c.ts \in Nat
    BY DEF Coids
  <2>2. \A i \in 1..Len(inbox) : inbox[i] \in Coids
    BY <1>2
  <2>. QED
    BY <2>1, <2>2
<1>4. ASSUME crashes = 0, ledger'.today = ledger.today, entries' = entries,
             inbox' = inbox \/ inbox' = << >>, now' = now \/ now' = now + 1,
             \/ pc'["main"] \notin EntryPCs
             \/ pc'["main"] = pc["main"] /\ job'["main"] = job["main"]
      PROVE  DaysOrdered'
  <2>1. ledger.today <= Day(now')
    <3>1. now' \in Nat /\ now <= now'
      BY <1>2, <1>4
    <3>2. Day(now) <= Day(now') /\ Day(now) \in Nat /\ Day(now') \in Nat
      BY <1>2, <3>1, DayMonotone, DayType
    <3>. QED
      BY <1>2, <1>4, <3>2 DEF DaysOrdered
  <2>2. \A i \in 1..Len(inbox') : ledger.today <= Day(inbox'[i].ts)
    BY <1>4 DEF DaysOrdered
  <2>. QED
    BY <1>4, <2>1, <2>2 DEF DaysOrdered
<1>5. ASSUME NEW tk, HandleTick(tk) PROVE DaysOrdered'
  <2>1. /\ Receive(tk) /\ tk \in Coids /\ Fits(tk, now) /\ ledger'.today = Day(tk.ts)
        /\ UNCHANGED <<now, entries, crashes>>
        /\ pc'["main"] \in EntryPCs => job'["main"].coid = tk
    BY <1>5, LedgerOnTick
  <2>2. tk = inbox[1] /\ 1 \in 1..Len(inbox) /\ inbox' = Tail(inbox) /\ inbox # << >>
    BY <2>1, FirstTick DEF Receive
  <2>3. \A i \in 1..Len(inbox') : i + 1 \in 1..Len(inbox) /\ inbox'[i] = inbox[i + 1] /\ 1 <= i + 1
    BY <1>2, <2>2, HeadTailProperties
  <2>4. tk.ts \in Nat /\ tk.ts <= now /\ Day(tk.ts) \in Nat
    BY <2>1, DayType DEF Coids, Fits
  <2>5. \A i \in 1..Len(inbox') : Day(tk.ts) <= Day(inbox'[i].ts)
    <3>1. ASSUME NEW i \in 1..Len(inbox') PROVE Day(tk.ts) <= Day(inbox'[i].ts)
      <4>1. tk.ts <= inbox[i + 1].ts /\ inbox[i + 1].ts \in Nat
        BY <1>3, <2>2, <2>3 DEF TickTimes
      <4>. QED
        BY <2>3, <2>4, <4>1, DayMonotone
    <3>. QED
      BY <3>1
  <2>6. Day(tk.ts) <= Day(now)
    BY <1>2, <2>4, DayMonotone
  <2>7. \A c \in entries : Day(c.ts) <= Day(tk.ts)
    <3>1. crashes = 0 /\ ledger.today <= Day(tk.ts)
      BY <1>1, <2>1, <2>2 DEF DaysOrdered
    <3>2. \A c \in entries : Day(c.ts) \in Nat /\ Day(c.ts) <= ledger.today
      BY <1>2, <3>1, DayType DEF DaysOrdered, Coids
    <3>. QED
      BY <1>2, <2>4, <3>1, <3>2
  <2>. QED
    BY <2>1, <2>5, <2>6, <2>7 DEF DaysOrdered
<1>6. CASE Crash
  BY <1>1, <1>2, <1>6 DEF Crash
<1>7. CASE ~Crash /\ ~\E tk : HandleTick(tk)
  <2>1. ledger'.today = ledger.today
    BY <1>7, LedgerKeeps
  <2>2. CASE Enter
    <3>1. /\ UNCHANGED <<inbox, now, job, crashes>> /\ pc["main"] \in EntryPCs
          /\ entries' \subseteq entries \cup {job["main"].coid}
      BY <2>2 DEF Enter, OrderUpsert, EntryFillUpsert, EntryPersistError, OpenPosition,
                  EntryPCs
    <3>2. crashes = 0 /\ ledger.today = Day(job["main"].coid.ts)
      BY <1>1, <3>1 DEF DaysOrdered
    <3>3. \A c \in entries' : Day(c.ts) <= ledger.today
      BY <1>2, <3>1, <3>2 DEF DaysOrdered
    <3>. QED
      BY <2>1, <3>1, <3>2, <3>3 DEF DaysOrdered
  <2>3. ASSUME NEW m \in Markets, RecordTick(m) PROVE DaysOrdered'
    <3>. DEFINE tk == Coid(m, now)
    <3>1. /\ UNCHANGED <<now, entries, pc, job, crashes>>
          /\ inbox' = inbox \/ inbox' = Append(inbox, tk)
      BY <2>3 DEF RecordTick
    <3>2. CASE inbox' = inbox
      BY <1>1, <1>4, <2>1, <3>1, <3>2
    <3>3. CASE inbox' = Append(inbox, tk)
      <4>1. tk \in Coids /\ tk.ts = now
        BY <1>2 DEF Coid, Coids
      <4>. HIDE DEF tk
      <4>2. /\ Len(inbox') = Len(inbox) + 1
            /\ inbox'[Len(inbox) + 1] = tk
            /\ \A i \in 1..Len(inbox) : inbox'[i] = inbox[i]
        BY <1>2, <3>3, <4>1, AppendProperties
      <4>3. \A i \in 1..Len(inbox') : i \in 1..Len(inbox) \/ i = Len(inbox) + 1
        BY <1>2, <4>2
      <4>4. \A i \in 1..Len(inbox') : ledger.today <= Day(inbox'[i].ts)
        BY <1>1, <3>1, <4>1, <4>2, <4>3 DEF DaysOrdered
      <4>. QED
        BY <1>1, <2>1, <3>1, <4>4 DEF DaysOrdered
    <3>. QED
      BY <3>1, <3>2, <3>3
  <2>4. ASSUME NEW t \in Tasks, Settle(t) PROVE DaysOrdered'
    <3>1. UNCHANGED <<entries, inbox, now, crashes>>
      BY <2>4 DEF Settle, LastTickQuery, OhlcvCloseQuery, FirstTickQuery, OhlcvOpenQuery,
                  ExitFillUpsert, BookPnl, CleanupMarket
    <3>2. /\ pc'[t] \notin EntryPCs
          /\ \A u \in Tasks : u # t => pc'[u] = pc[u] /\ job'[u] = job[u]
      <4>1. CASE Query(t)
        BY <4>1, QueryStep DEF Proceeds, GivesUp, Pops, TypeOK, QueryPCs, EntryPCs, Return
      <4>2. CASE ExitFillUpsert(t) \/ BookPnl(t) \/ CleanupMarket(t)
        BY <4>2 DEF ExitFillUpsert, BookPnl, CleanupMarket, TypeOK, EntryPCs, Return
      <4>. QED
        BY <2>4, <4>1, <4>2 DEF Settle, Query
    <3>. QED
      BY <1>1, <1>4, <2>1, <3>1, <3>2 DEF Tasks
  <2>5. CASE Boot \/ Disconnect
    <3>1. /\ UNCHANGED <<entries, now, crashes>> /\ (inbox' = inbox \/ inbox' = << >>)
          /\ pc'["main"] \notin EntryPCs
      BY <2>5 DEF Boot, Start, RehydratePauseState, RehydrateTradeTaken, EntryPCs,
                  BootstrapDailyPnl, Subscribe, Disconnect, TypeOK, Tasks
    <3>. QED
      BY <1>1, <1>4, <2>1, <3>1
  <2>6. CASE Watchdog
    <3>1. /\ UNCHANGED <<entries, now, crashes, inbox>>
          /\ pc'["main"] = pc["main"] /\ job'["main"] = job["main"]
      BY <2>6 DEF Watchdog, WatchdogWake, WatchdogNext, TypeOK, Tasks
    <3>. QED
      BY <1>1, <1>4, <2>1, <3>1
  <2>7. CASE Clock \/ ToggleKill \/ StoreTicks \/ HandleControl \/ OrphanCleanup
    BY <1>1, <1>4, <2>1, <2>7 DEF Clock, ToggleKill, StoreTicks, HandleControl, OrphanCleanup
  <2>8. ASSUME NEW c \in CandleTimes, IngestCandle(c) PROVE DaysOrdered'
    BY <1>1, <1>4, <2>1, <2>8 DEF IngestCandle
  <2>9. CASE UNCHANGED vars
    BY <1>1, <1>4, <2>1, <2>9 DEF vars
  <2>. QED
    BY <1>7, <2>2, <2>3, <2>4, <2>5, <2>6, <2>7, <2>8, <2>9
       DEF Next, Environment, Listen
<1>. QED
  BY <1>5, <1>6, <1>7

LEMMA TakenStep ==
    ASSUME ShortWindows, DayWindows, TakenInv, TickTimes, LifeInv, TypeOK, JobsTyped,
           [Next]_vars
    PROVE  TakenInv'
<1>. USE DEF recVars, dbVars, memVars, taskVars, faultVars, Goto
<1>. DEFINE Goal == TakenMarks' /\ MarketFree' /\ (Unfailed' => OneEntryPerMarket')
<1>1. DaysOrdered'
  BY DaysStep DEF TakenInv
<1>2. SUFFICES ASSUME Unfailed' PROVE Goal
  BY <1>1 DEF TakenInv, TakenMarks, MarketFree
<1>3. /\ entries \subseteq Coids /\ ledger.today \in Int
      /\ \A c \in entries : c.slug \in Markets /\ c.ts \in Nat /\ Day(c.ts) \in Nat
  BY DayType DEF TypeOK, Ledgers, Coids
<1>4. ASSUME Unfailed, ledger'.today = ledger.today, entries' = entries,
             ledger.trade_taken \subseteq ledger'.trade_taken,
             \/ {pc["main"], pc'["main"]} \cap EntryPCs = {}
             \/ pc'["main"] = pc["main"] /\ job'["main"] = job["main"]
      PROVE  Goal
  <2>1. \A c : BeingOpened(c)' <=> BeingOpened(c)
    BY <1>4 DEF BeingOpened, EntryPCs
  <2>. QED
    BY <1>4, <2>1 DEF TakenInv, TakenMarks, MarketFree, OneEntryPerMarket
<1>5. ASSUME NEW tk, HandleTick(tk) PROVE Goal
  <2>1. /\ Receive(tk) /\ tk \in Coids /\ Fits(tk, now)
        /\ ledger'.today = Day(tk.ts)
        /\ Day(tk.ts) = ledger.today => ledger.trade_taken \subseteq ledger'.trade_taken
        /\ TickSubmit(tk) => tk.slug \notin ledger'.trade_taken
        /\ UNCHANGED <<now, entries, crashes, dbErrs>>
        /\ IF TickSubmit(tk) THEN pc'["main"] = "order" /\ job'["main"].coid = tk
                             ELSE pc'["main"] \notin EntryPCs
    BY <1>5, LedgerOnTick
  <2>2. Unfailed /\ crashes = 0 /\ pc["main"] = "listen"
    BY <1>2, <2>1 DEF Unfailed, Receive
  <2>3. /\ tk.ts \in Nat /\ tk.slug \in Markets /\ Day(tk.ts) \in Nat
        /\ ledger.today <= Day(tk.ts)
    BY <2>1, <2>2, DayType, FirstTick DEF TakenInv, DaysOrdered, Coids
  <2>4. \A c \in entries : Day(c.ts) = Day(tk.ts) => c.slug \in ledger'.trade_taken
    <3>1. ASSUME NEW c \in entries, Day(c.ts) = Day(tk.ts)
          PROVE  c.slug \in ledger'.trade_taken
      <4>1. Day(c.ts) <= ledger.today
        BY <2>2 DEF TakenInv, DaysOrdered
      <4>2. Day(tk.ts) = ledger.today
        BY <1>3, <2>3, <3>1, <4>1
      <4>3. ~BeingOpened(c)
        BY <2>2 DEF BeingOpened
      <4>4. c.slug \in ledger.trade_taken
        BY <2>2, <3>1, <4>2, <4>3 DEF TakenInv, TakenMarks
      <4>. QED
        BY <2>1, <4>2, <4>4
    <3>. QED
      BY <3>1
  <2>5. TakenMarks'
    BY <2>1, <2>4 DEF TakenMarks
  <2>6. MarketFree'
    <3>1. SUFFICES ASSUME TickSubmit(tk), NEW c \in entries, c.slug = tk.slug PROVE FALSE
      BY <2>1 DEF MarketFree
    <3>2. Fits(c, now)
      BY DEF TickTimes, Used, LifeInv
    <3>3. Day(c.ts) = Day(WindowOpen[tk.slug]) /\ Day(tk.ts) = Day(WindowOpen[tk.slug])
      BY <1>3, <2>1, <2>3, <3>1, <3>2 DEF DayWindows, Fits
    <3>. QED
      BY <2>1, <2>4, <3>1, <3>3
  <2>7. OneEntryPerMarket'
    BY <2>1, <2>2 DEF TakenInv, OneEntryPerMarket
  <2>. QED
    BY <2>5, <2>6, <2>7
<1>6. CASE Crash
  BY <1>2, <1>6 DEF Crash, Unfailed, TypeOK
<1>7. CASE ~Crash /\ ~\E tk : HandleTick(tk)
  <2>1. ledger'.today = ledger.today /\ ledger.trade_taken \subseteq ledger'.trade_taken
    BY <1>7, LedgerKeeps
  <2>2. CASE Enter
    <3>. DEFINE c == job["main"].coid
    <3>1. UNCHANGED <<job, crashes>> /\ pc["main"] \in EntryPCs
      BY <2>2 DEF Enter, OrderUpsert, EntryFillUpsert, EntryPersistError, OpenPosition,
                  EntryPCs
    <3>2. c.slug \in Markets
      BY <3>1 DEF JobsTyped, Tasks, Coids
    <3>3. CASE OrderUpsert
      <4>1. /\ entries' = entries /\ dbErrs' = dbErrs /\ pc["main"] = "order"
            /\ pc'["main"] = "fill"
        BY <3>3 DEF OrderUpsert, TypeOK, Tasks
      <4>2. Unfailed /\ \A d : ~BeingOpened(d)
        BY <1>2, <3>1, <4>1 DEF Unfailed, BeingOpened
      <4>3. TakenMarks'
        BY <2>1, <4>1, <4>2 DEF TakenInv, TakenMarks
      <4>4. MarketFree'
        BY <3>1, <4>1, <4>2 DEF TakenInv, MarketFree
      <4>. QED
        BY <4>1, <4>2, <4>3, <4>4 DEF TakenInv, OneEntryPerMarket
    <3>4. CASE EntryFillUpsert
      <4>1. /\ entries' = entries \cup {c} /\ dbErrs' = dbErrs /\ pc["main"] = "fill"
            /\ pc'["main"] = "opened"
        BY <3>4 DEF EntryFillUpsert, TypeOK, Tasks
      <4>2. Unfailed /\ (\A d : ~BeingOpened(d)) /\ \A d : BeingOpened(d)' <=> d = c
        BY <1>2, <3>1, <4>1 DEF Unfailed, BeingOpened
      <4>3. \A d \in entries : d.slug # c.slug
        BY <3>1, <4>2 DEF TakenInv, MarketFree
      <4>. HIDE DEF c
      <4>4. TakenMarks'
        BY <2>1, <4>1, <4>2 DEF TakenInv, TakenMarks
      <4>5. MarketFree'
        BY <3>1, <4>1, <4>2, <4>3 DEF MarketFree, c
      <4>6. OneEntryPerMarket'
        BY <4>1, <4>2, <4>3 DEF TakenInv, OneEntryPerMarket
      <4>. QED
        BY <4>4, <4>5, <4>6
    <3>5. CASE EntryPersistError
      BY <1>2, <3>5 DEF EntryPersistError, DbError, Unfailed, TypeOK
    <3>6. CASE OpenPosition
      <4>1. /\ entries' = entries /\ dbErrs' = dbErrs /\ pc["main"] = "opened"
            /\ pc'["main"] = "listen"
            /\ ledger' = [ledger EXCEPT !.trade_taken = @ \cup {c.slug},
                                        !.daily_trades = @ + 1]
        BY <3>6 DEF OpenPosition, TypeOK, Tasks
      <4>2. Unfailed /\ \A d : BeingOpened(d) => d = c
        BY <1>2, <3>1, <4>1 DEF Unfailed, BeingOpened
      <4>3. c.slug \in ledger'.trade_taken
        BY <4>1 DEF TypeOK, Ledgers
      <4>4. TakenMarks'
        BY <2>1, <4>1, <4>2, <4>3 DEF TakenInv, TakenMarks
      <4>5. MarketFree'
        BY <4>1 DEF MarketFree, EntryPCs
      <4>. QED
        BY <4>1, <4>2, <4>4, <4>5 DEF TakenInv, OneEntryPerMarket
    <3>. QED
      BY <2>2, <3>3, <3>4, <3>5, <3>6 DEF Enter
  <2>3. ASSUME NEW m \in Markets, RecordTick(m) PROVE Goal
    BY <1>2, <1>4, <2>1, <2>3 DEF RecordTick, Unfailed
  <2>4. ASSUME NEW t \in Tasks, Settle(t) PROVE Goal
    <3>1. UNCHANGED <<entries, crashes>> /\ (dbErrs' = dbErrs \/ DbError)
      BY <2>4 DEF Settle, LastTickQuery, OhlcvCloseQuery, FirstTickQuery, OhlcvOpenQuery,
                  ExitFillUpsert, BookPnl, CleanupMarket, NoAnswer
    <3>2. /\ {pc[t], pc'[t]} \cap EntryPCs = {}
          /\ \A u \in Tasks : u # t => pc'[u] = pc[u] /\ job'[u] = job[u]
      <4>1. CASE Query(t)
        BY <4>1, QueryStep DEF Proceeds, GivesUp, Pops, TypeOK, QueryPCs, EntryPCs, Return
      <4>2. CASE ExitFillUpsert(t) \/ BookPnl(t) \/ CleanupMarket(t)
        BY <4>2 DEF ExitFillUpsert, BookPnl, CleanupMarket, TypeOK, EntryPCs, Return
      <4>. QED
        BY <2>4, <4>1, <4>2 DEF Settle, Query
    <3>3. Unfailed
      BY <1>2, <3>1 DEF Unfailed, DbError, TypeOK
    <3>. QED
      BY <1>4, <2>1, <3>1, <3>2, <3>3 DEF Tasks
  <2>5. CASE Boot \/ Disconnect
    <3>1. /\ UNCHANGED <<entries, crashes>> /\ (dbErrs' = dbErrs \/ DbError)
          /\ {pc["main"], pc'["main"]} \cap EntryPCs = {}
      BY <2>5 DEF Boot, Start, RehydratePauseState, RehydrateTradeTaken, EntryPCs,
                  BootstrapDailyPnl, Subscribe, Disconnect, TypeOK, Tasks
    <3>2. Unfailed
      BY <1>2, <3>1 DEF Unfailed, DbError, TypeOK
    <3>. QED
      BY <1>4, <2>1, <3>1, <3>2
  <2>6. CASE Watchdog
    <3>1. /\ UNCHANGED <<entries, crashes, dbErrs>>
          /\ pc'["main"] = pc["main"] /\ job'["main"] = job["main"]
      BY <2>6 DEF Watchdog, WatchdogWake, WatchdogNext, TypeOK, Tasks
    <3>. QED
      BY <1>2, <1>4, <2>1, <3>1 DEF Unfailed
  <2>7. CASE Clock \/ ToggleKill \/ StoreTicks \/ HandleControl \/ OrphanCleanup
    BY <1>2, <1>4, <2>1, <2>7
       DEF Clock, ToggleKill, StoreTicks, HandleControl, OrphanCleanup, Unfailed
  <2>8. ASSUME NEW c \in CandleTimes, IngestCandle(c) PROVE Goal
    BY <1>2, <1>4, <2>1, <2>8 DEF IngestCandle, Unfailed
  <2>9. CASE UNCHANGED vars
    BY <1>2, <1>4, <2>1, <2>9 DEF vars, Unfailed
  <2>. QED
    BY <1>7, <2>2, <2>3, <2>4, <2>5, <2>6, <2>7, <2>8, <2>9
       DEF Next, Environment, Listen
<1>. QED
  BY <1>5, <1>6, <1>7

\* Until a crash or a failed statement, no market is traded twice: the marks of
\* _trade_taken survive late ticks, watchdog settlements and midnight.
THEOREM OneEntryPerMarketHolds ==
    ASSUME ShortWindows, DayWindows
    PROVE  Spec => [](Unfailed => OneEntryPerMarket)
<1>1. Init => TakenInv
  <2>1. SUFFICES ASSUME Init PROVE TakenInv
    OBVIOUS
  <2>2. ledger.today = -1 /\ now = 0 /\ Day(0) \in Nat
    BY <2>1, DayType DEF Init, FreshLedger, NoDay
  <2>. QED
    BY <2>1, <2>2 DEF Init, TakenInv, DaysOrdered, TakenMarks, MarketFree, EntryPCs,
                      OneEntryPerMarket, Tasks
<1>2. SafetyInv /\ TickTimes /\ TakenInv /\ [Next]_vars => TakenInv'
  BY TakenStep DEF SafetyInv, TypeInv
<1>3. TakenInv => (Unfailed => OneEntryPerMarket)
  BY DEF TakenInv
<1>. QED
  BY <1>1, <1>2, <1>3, TimesHold, PTL DEF Spec

-----------------------------------------------------------------------------
(* Within a day, the ledgers agree with each other and with the fills. *)

OneDay == MaxTime < DayLen

\* Nothing carries a time stamp of the future.
ClockInv ==
    /\ now <= MaxTime
    /\ \A c \in unstored : c.ts <= now
    /\ \A m \in Markets : \A ts \in ticks[m] : ts <= now
    /\ \A c \in candles : c <= now
    /\ \A t \in Tasks : job[t].ts <= now

LEMMA ClockStep ==
    ASSUME ClockInv, TypeOK, JobsTyped, [Next]_vars
    PROVE  ClockInv'
<1>. USE DEF recVars, dbVars, memVars, taskVars, faultVars, Goto
<1>1. /\ now \in Nat /\ MaxTime \in Nat /\ job \in [Tasks -> Jobs]
      /\ ticks \in [Markets -> SUBSET Nat] /\ candles \subseteq Nat
      /\ \A c \in unstored : c \in Coids /\ c.ts \in Nat
      /\ \A t \in Tasks : job[t].ts \in Nat
  BY ConstantTypes DEF TypeOK, Coids, Jobs
<1>2. ASSUME UNCHANGED <<now, ticks, candles>>, unstored' = unstored \/ unstored' = {},
             \A t \in Tasks : job'[t].ts = job[t].ts \/ job'[t].ts = 0
      PROVE  ClockInv'
  BY <1>1, <1>2 DEF ClockInv
<1>3. CASE Clock
  <2>1. now' = now + 1 /\ now < MaxTime /\ UNCHANGED <<unstored, ticks, candles, job>>
    BY <1>3 DEF Clock
  <2>. QED
    BY <1>1, <2>1 DEF ClockInv
<1>4. ASSUME NEW m \in Markets, RecordTick(m) PROVE ClockInv'
  <2>1. unstored' = unstored \cup {Coid(m, now)} /\ UNCHANGED <<now, ticks, candles, job>>
    BY <1>4 DEF RecordTick
  <2>2. Coid(m, now).ts <= now
    BY <1>1 DEF Coid
  <2>. QED
    BY <2>1, <2>2 DEF ClockInv
<1>5. CASE StoreTicks
  <2>1. PICK stored \in StoreOutcomes : ticks' =
           IF stored
           THEN [m \in Markets |->
                   ticks[m] \cup {c.ts : c \in {d \in unstored : d.slug = m}}]
           ELSE ticks
    BY <1>5 DEF StoreTicks
  <2>2. \A m \in Markets : \A ts \in ticks'[m] : ts <= now
    BY <2>1 DEF ClockInv
  <2>. QED
    BY <1>5, <2>2 DEF StoreTicks, ClockInv
<1>6. ASSUME NEW c \in CandleTimes, IngestCandle(c) PROVE ClockInv'
  <2>1. candles' = candles \cup {c} /\ c < now /\ UNCHANGED <<now, unstored, ticks, job>>
    BY <1>6 DEF IngestCandle
  <2>2. c <= now
    BY <1>1, <2>1, ConstantTypes
  <2>. QED
    BY <2>1, <2>2 DEF ClockInv
<1>7. CASE Crash
  BY <1>2, <1>7 DEF Crash, NoJob, Tasks
<1>8. ASSUME NEW tk, HandleTick(tk) PROVE ClockInv'
  <2>1. UNCHANGED <<now, unstored, ticks, candles>>
    BY <1>8 DEF HandleTick, TickPaused, TickHolding, TickSettle, TickTaken,
                TickOutOfWindow, TickNoEntry, TickSubmit
  <2>2. \A t \in Tasks : job'[t].ts = job[t].ts \/ job'[t].ts = 0
    BY <1>1, <1>8 DEF HandleTick, TickPaused, TickHolding, TickSettle, TickTaken,
                TickOutOfWindow, TickNoEntry, TickSubmit, NoJob
  <2>. QED
    BY <1>2, <2>1, <2>2
<1>9. CASE Boot \/ Disconnect \/ Enter \/ ToggleKill \/ HandleControl \/ OrphanCleanup
  BY <1>2, <1>9
     DEF Boot, Start, RehydratePauseState, RehydrateTradeTaken, BootstrapDailyPnl, Subscribe,
         Disconnect, Enter, OrderUpsert, EntryFillUpsert, EntryPersistError, OpenPosition,
         ToggleKill, HandleControl, OrphanCleanup
<1>10. CASE WatchdogWake
  BY <1>1, <1>2, <1>10 DEF WatchdogWake, NoJob
<1>11. ASSUME NEW c \in expired, WatchdogNext(c) PROVE ClockInv'
  <2>1. /\ job' = [job EXCEPT !["wd"].coid = c]
        /\ UNCHANGED <<now, unstored, ticks, candles>>
    BY <1>11 DEF WatchdogNext
  <2>2. \A t \in Tasks : job'[t].ts = job[t].ts
    BY <1>1, <2>1 DEF Jobs, Tasks
  <2>. QED
    BY <1>2, <2>1, <2>2
<1>12. ASSUME NEW t \in Tasks, Settle(t) PROVE ClockInv'
  <2>1. UNCHANGED <<now, unstored, ticks, candles>>
    BY <1>12 DEF Settle, LastTickQuery, OhlcvCloseQuery, FirstTickQuery, OhlcvOpenQuery,
                 ExitFillUpsert, BookPnl, CleanupMarket
  <2>2. ASSUME job' = job PROVE ClockInv'
    BY <1>2, <2>1, <2>2
  <2>3. ASSUME NEW ts, PriceFound(t, ts), ts <= now PROVE ClockInv'
    <3>1. job' = [job EXCEPT ![t].ts = ts]
      BY <2>3 DEF PriceFound
    <3>2. \A u \in Tasks : job'[u].ts = job[u].ts \/ job'[u].ts = ts
      BY <1>1, <3>1 DEF Jobs
    <3>. QED
      BY <2>1, <2>3, <3>2 DEF ClockInv
  <2>4. ASSUME PopPosition(t) PROVE ClockInv'
    <3>1. CASE positions[Slug(t)] = NoPos
      BY <2>2, <2>4, <3>1 DEF PopPosition
    <3>2. CASE positions[Slug(t)] # NoPos
      <4>1. PICK won \in BOOLEAN :
              job' = [job EXCEPT ![t].coid = positions[Slug(t)], ![t].won = won]
        BY <2>4, <3>2 DEF PopPosition
      <4>2. \A u \in Tasks : job'[u].ts = job[u].ts
        BY <1>1, <4>1 DEF Jobs
      <4>. QED
        BY <1>2, <2>1, <4>2
    <3>. QED
      BY <3>1, <3>2
  <2>5. CASE LastTickQuery(t)
    <3>1. Slug(t) \in Markets
      BY <2>5 DEF LastTickQuery, JobsTyped, SettlePCs, QueryPCs, Slug, Coids
    <3>2. WindowTicks(Slug(t)) # {} => Latest(WindowTicks(Slug(t))) <= now
      BY <3>1, LatestRow DEF WindowTicks, ClockInv
    <3>. QED
      BY <2>2, <2>3, <2>5, <3>2 DEF LastTickQuery, GiveUpOrReturn
  <2>6. CASE OhlcvCloseQuery(t)
    <3>1. CloseTs(t) \in candles => CloseTs(t) <= now
      BY DEF ClockInv
    <3>. QED
      BY <2>2, <2>3, <2>6, <3>1 DEF OhlcvCloseQuery, GiveUpOrReturn
  <2>7. CASE FirstTickQuery(t) \/ OhlcvOpenQuery(t)
    BY <2>2, <2>4, <2>7 DEF FirstTickQuery, OhlcvOpenQuery
  <2>8. CASE ExitFillUpsert(t) \/ BookPnl(t) \/ CleanupMarket(t)
    BY <2>2, <2>8 DEF ExitFillUpsert, BookPnl, CleanupMarket
  <2>. QED
    BY <1>12, <2>5, <2>6, <2>7, <2>8 DEF Settle
<1>13. CASE UNCHANGED vars
  BY <1>2, <1>13 DEF vars
<1>. QED
  BY <1>3, <1>4, <1>5, <1>6, <1>7, <1>8, <1>9, <1>10, <1>11, <1>12, <1>13
     DEF Next, Environment, Listen, Watchdog

\* Steps that concern neither a fill nor a ledger.
Calm ==
    /\ UNCHANGED <<entries, exits, positions, dropped, ledger, risk, crashes>>
    /\ dbErrs' = dbErrs \/ DbError
    /\ Running' = Running
    /\ \A t \in Tasks : {pc[t], pc'[t]} \cap (EntryPCs \cup PayoutPCs) # {} =>
                           pc'[t] = pc[t] /\ job'[t] = job[t]

LEMMA StepKinds ==
    ASSUME TypeOK, [Next]_vars
    PROVE  \/ Calm \/ Crash \/ (\E tk : HandleTick(tk)) \/ Enter
           \/ RehydrateTradeTaken \/ BootstrapDailyPnl
           \/ \E t \in Tasks : Query(t) \/ ExitFillUpsert(t) \/ BookPnl(t)
<1>. USE DEF recVars, dbVars, memVars, taskVars, faultVars, Goto
<1>1. ASSUME UNCHANGED <<entries, exits, positions, dropped, ledger, risk, crashes, dbErrs>>,
             UNCHANGED <<pc, job>>
      PROVE  Calm
  BY <1>1 DEF Calm, Running
<1>2. CASE Start \/ RehydratePauseState \/ Subscribe \/ Disconnect
  <2>1. /\ UNCHANGED <<entries, exits, positions, dropped, ledger, risk, crashes, job>>
        /\ dbErrs' = dbErrs \/ DbError
        /\ pc'["wd"] = pc["wd"]
    BY <1>2 DEF Start, RehydratePauseState, Subscribe, Disconnect, TypeOK, Tasks
  <2>2. /\ {pc["main"], pc'["main"]} \cap (EntryPCs \cup PayoutPCs) = {}
        /\ Running' = Running
    BY <1>2 DEF Start, RehydratePauseState, Subscribe, Disconnect, TypeOK, Tasks, EntryPCs,
                PayoutPCs, Running, BootPCs
  <2>. QED
    BY <2>1, <2>2 DEF Calm, Tasks
<1>3. CASE Watchdog
  <2>1. /\ UNCHANGED <<entries, exits, positions, dropped, ledger, risk, crashes, dbErrs>>
        /\ {pc["wd"], pc'["wd"]} \subseteq {"sleep", "next", "last_tick"}
        /\ pc'["main"] = pc["main"] /\ job'["main"] = job["main"]
    BY <1>3 DEF Watchdog, WatchdogWake, WatchdogNext, TypeOK, Tasks
  <2>. QED
    BY <2>1 DEF Calm, Tasks, EntryPCs, PayoutPCs, Running
<1>4. ASSUME NEW t \in Tasks, CleanupMarket(t) PROVE Calm
  <2>1. /\ UNCHANGED <<entries, exits, positions, dropped, ledger, risk, crashes, dbErrs, job>>
        /\ pc[t] = "notify" /\ pc'[t] = Return(t)
        /\ \A u \in Tasks : u # t => pc'[u] = pc[u]
    BY <1>4 DEF CleanupMarket, TypeOK
  <2>. QED
    BY <2>1 DEF Calm, Tasks, EntryPCs, PayoutPCs, Running, BootPCs, Return
<1>5. CASE Clock \/ ToggleKill \/ StoreTicks \/ HandleControl \/ OrphanCleanup
  BY <1>1, <1>5 DEF Clock, ToggleKill, StoreTicks, HandleControl, OrphanCleanup
<1>6. ASSUME NEW m \in Markets, RecordTick(m) PROVE Calm
  BY <1>1, <1>6 DEF RecordTick
<1>7. ASSUME NEW c \in CandleTimes, IngestCandle(c) PROVE Calm
  BY <1>1, <1>7 DEF IngestCandle
<1>8. CASE UNCHANGED vars
  BY <1>1, <1>8 DEF vars
<1>. QED
  BY <1>2, <1>3, <1>4, <1>5, <1>6, <1>7, <1>8
     DEF Next, Environment, Boot, Listen, Settle, Query

RiskFields == {"day_key", "daily_pnl", "daily_trades", "circuit_breaker_tripped",
               "cooldown_until", "pause_until", "recent_pnls"}

\* can_enter changes no total, and on_trade_closed adds one trade to them.
LEMMA RiskEnter ==
    ASSUME NEW s, DOMAIN s = RiskFields, NEW ts, Day(ts) = s.day_key
    PROVE  LET r == AfterCanEnter(s, ts)
           IN  /\ DOMAIN r = RiskFields /\ r.day_key = s.day_key
               /\ r.daily_pnl = s.daily_pnl /\ r.daily_trades = s.daily_trades
BY DEF AfterCanEnter, RiskRollDay, RiskFields

LEMMA RiskClose ==
    ASSUME NEW s, DOMAIN s = RiskFields, NEW pnl, NEW ts, Day(ts) = s.day_key
    PROVE  LET r == OnTradeClosed(s, pnl, ts)
           IN  /\ DOMAIN r = RiskFields /\ r.day_key = s.day_key
               /\ r.daily_pnl = s.daily_pnl + pnl /\ r.daily_trades = s.daily_trades + 1
<1>. DEFINE q == [s EXCEPT !.daily_pnl = @ + pnl, !.daily_trades = @ + 1,
                           !.cooldown_until = ts + CooldownSeconds]
<1>1. OnTradeClosed(s, pnl, ts) = RollingLossPause(q, pnl, ts)
  BY DEF OnTradeClosed, RiskRollDay
<1>2. /\ DOMAIN q = RiskFields /\ q.day_key = s.day_key
      /\ q.daily_pnl = s.daily_pnl + pnl /\ q.daily_trades = s.daily_trades + 1
  BY DEF RiskFields
<1>. HIDE DEF q
<1>3. LET r == RollingLossPause(q, pnl, ts)
      IN  /\ DOMAIN r = RiskFields /\ r.day_key = q.day_key
          /\ r.daily_pnl = q.daily_pnl /\ r.daily_trades = q.daily_trades
  <2>. DEFINE recent == DropOld(Append(q.recent_pnls, [ts |-> ts, pnl |-> pnl]),
                                ts - LossPauseWindow)
  <2>1. RollingLossPause(q, pnl, ts) \in
          {q, [q EXCEPT !.pause_until = ts + LossPauseDuration, !.recent_pnls = << >>],
              [q EXCEPT !.recent_pnls = recent]}
    BY DEF RollingLossPause
  <2>. HIDE DEF recent
  <2>. QED
    BY <1>2, <2>1 DEF RiskFields
<1>. QED
  BY <1>1, <1>2, <1>3

\* In the first day every time stamp has day 0.
LEMMA DayZero ==
    ASSUME OneDay, NEW ts \in Nat, ts <= MaxTime
    PROVE  Day(ts) = 0
<1>1. \A n \in Nat \ {0} : ts < n => ts \div n = 0
  OBVIOUS
<1>2. ts < DayLen
  BY ConstantTypes DEF OneDay
<1>. QED
  BY <1>1, <1>2, ConstantTypes DEF Day

\* The RiskManager is at day 0, the driver there or not yet at any day.
TodayInv ==
    /\ DOMAIN risk = RiskFields /\ risk.day_key = 0
    /\ risk.daily_pnl \in Int /\ risk.daily_trades \in Nat
    /\ ledger.today \in {NoDay, 0}
    /\ ~Running => ledger.today = NoDay
    /\ pc["main"] \in EntryPCs => ledger.today = 0

LEMMA RiskStart ==
    ASSUME OneDay
    PROVE  /\ DOMAIN RiskInit = RiskFields /\ RiskInit.day_key = 0
           /\ RiskInit.daily_pnl = 0 /\ RiskInit.daily_trades = 0
<1>1. Day(0) = 0
  BY DayZero, ConstantTypes
<1>. QED
  BY <1>1 DEF RiskInit, RiskState, RiskFields

\* A tick resets the driver's totals when it rolls the day.
LEMMA TickTotals ==
    ASSUME OneDay, TodayInv, TickTimes, ClockInv, TypeOK, NEW tk, HandleTick(tk)
    PROVE  /\ Receive(tk) /\ Running /\ ledger'.today = 0
           /\ ledger'.daily_pnl = IF ledger.today = 0 THEN ledger.daily_pnl ELSE 0
           /\ ledger'.daily_trades = IF ledger.today = 0 THEN ledger.daily_trades ELSE 0
           /\ DOMAIN risk' = RiskFields /\ risk'.day_key = 0
           /\ risk'.daily_pnl = risk.daily_pnl /\ risk'.daily_trades = risk.daily_trades
           /\ UNCHANGED <<entries, exits, positions, dropped, crashes, dbErrs>>
           /\ pc'["wd"] = pc["wd"] /\ job'["wd"] = job["wd"]
           /\ pc["main"] = "listen" /\ pc'["main"] \in {"listen", "last_tick", "order"}
<1>. USE DEF recVars, dbVars, memVars, taskVars, faultVars, Goto
<1>1. Receive(tk) /\ UNCHANGED <<entries, exits, positions, dropped, crashes, dbErrs>>
  BY DEF HandleTick, TickPaused, TickHolding, TickSettle, TickTaken,
         TickOutOfWindow, TickNoEntry, TickSubmit
<1>2. tk \in Coids /\ Day(tk.ts) = 0
  <2>1. tk \in Coids /\ tk.ts \in Nat /\ tk.ts <= now
    BY <1>1, FirstTick, ReceiveType DEF TickTimes, Fits
  <2>2. tk.ts <= MaxTime
    BY <2>1, ConstantTypes DEF ClockInv, TypeOK
  <2>. QED
    BY <2>1, <2>2, DayZero
<1>3. \/ ledger' = RollDay(ledger, tk.ts) \/ ledger' = Gated(tk)
      \/ ledger' = [Gated(tk) EXCEPT !.trade_taken = @ \ {tk.slug}]
  BY DEF HandleTick, TickPaused, TickHolding, TickSettle, TickTaken,
         TickOutOfWindow, TickNoEntry, TickSubmit
<1>4. RollDay(ledger, tk.ts) \in Ledgers /\ Gated(tk) \in Ledgers
  BY <1>2, LedgerType
<1>5. Gated(tk) = RollDay(ledger, tk.ts)
        \/ Gated(tk) = [RollDay(ledger, tk.ts) EXCEPT !.trade_taken = @ \cup {tk.slug}]
  BY DEF Gated, DailyPauseGate
<1>6. /\ ledger'.today = RollDay(ledger, tk.ts).today
      /\ ledger'.daily_pnl = RollDay(ledger, tk.ts).daily_pnl
      /\ ledger'.daily_trades = RollDay(ledger, tk.ts).daily_trades
  <2>. DEFINE L == RollDay(ledger, tk.ts)
              G == Gated(tk)
  <2>1. /\ G.today = L.today /\ G.daily_pnl = L.daily_pnl /\ G.daily_trades = L.daily_trades
    <3>1. L \in Ledgers /\ (G = L \/ G = [L EXCEPT !.trade_taken = @ \cup {tk.slug}])
      BY <1>4, <1>5
    <3>. HIDE DEF L, G
    <3>. QED
      BY <3>1 DEF Ledgers
  <2>2. G \in Ledgers
        /\ (ledger' = L \/ ledger' = G \/ ledger' = [G EXCEPT !.trade_taken = @ \ {tk.slug}])
    BY <1>3, <1>4
  <2>. HIDE DEF L, G
  <2>3. /\ ledger'.today = L.today /\ ledger'.daily_pnl = L.daily_pnl
        /\ ledger'.daily_trades = L.daily_trades
    BY <2>1, <2>2 DEF Ledgers
  <2>. QED
    BY <2>3 DEF L
<1>7. RollDay(ledger, tk.ts) = IF ledger.today = 0 THEN ledger ELSE FreshLedger(0)
  BY <1>2 DEF RollDay
<1>8. /\ ledger'.today = 0
      /\ ledger'.daily_pnl = IF ledger.today = 0 THEN ledger.daily_pnl ELSE 0
      /\ ledger'.daily_trades = IF ledger.today = 0 THEN ledger.daily_trades ELSE 0
  BY <1>6, <1>7 DEF FreshLedger
<1>9. risk' = risk \/ risk' = AfterCanEnter(risk, tk.ts)
  BY DEF HandleTick, TickPaused, TickHolding, TickSettle, TickTaken,
         TickOutOfWindow, TickNoEntry, TickSubmit
<1>10. /\ DOMAIN risk' = RiskFields /\ risk'.day_key = 0
       /\ risk'.daily_pnl = risk.daily_pnl /\ risk'.daily_trades = risk.daily_trades
  <2>1. DOMAIN risk = RiskFields /\ Day(tk.ts) = risk.day_key /\ risk.day_key = 0
    BY <1>2 DEF TodayInv
  <2>2. LET r == AfterCanEnter(risk, tk.ts)
        IN  /\ DOMAIN r = RiskFields /\ r.day_key = risk.day_key
            /\ r.daily_pnl = risk.daily_pnl /\ r.daily_trades = risk.daily_trades
    BY <2>1, RiskEnter
  <2>. QED
    BY <1>9, <2>1, <2>2
<1>11. /\ pc'["wd"] = pc["wd"] /\ job'["wd"] = job["wd"]
       /\ pc["main"] = "listen" /\ pc'["main"] \in {"listen", "last_tick", "order"}
  BY <1>1 DEF HandleTick, TickPaused, TickHolding, TickSettle, TickTaken, Receive,
         TickOutOfWindow, TickNoEntry, TickSubmit, TypeOK, Tasks
<1>. QED
  BY <1>1, <1>8, <1>10, <1>11 DEF Running, BootPCs

\* A settlement is booked on the RiskManager's day.
LEMMA BookTotals ==
    ASSUME OneDay, TodayInv, ClockInv, TypeOK, NEW t \in Tasks, BookPnl(t)
    PROVE  LET p == Pnl(job[t].won)
           IN  /\ p \in Int
               /\ ledger'.today = ledger.today /\ ledger'.daily_pnl = ledger.daily_pnl + p
               /\ ledger'.daily_trades = ledger.daily_trades
               /\ DOMAIN risk' = RiskFields /\ risk'.day_key = 0
               /\ risk'.daily_pnl = risk.daily_pnl + p
               /\ risk'.daily_trades = risk.daily_trades + 1
<1>. DEFINE p == Pnl(job[t].won)
<1>1. p \in Int
  BY ConstantTypes DEF Pnl
<1>2. /\ ledger' = [ledger EXCEPT !.daily_pnl = @ + p]
      /\ risk' = OnTradeClosed(risk, p, job[t].ts)
  BY DEF BookPnl
<1>3. Day(job[t].ts) = 0
  <2>1. job[t].ts \in Nat /\ job[t].ts <= now /\ now \in Nat /\ now <= MaxTime
    BY DEF TypeOK, Jobs, ClockInv
  <2>2. job[t].ts <= MaxTime
    BY <2>1, ConstantTypes
  <2>. QED
    BY <2>1, <2>2, DayZero
<1>. HIDE DEF p
<1>4. /\ ledger'.today = ledger.today /\ ledger'.daily_pnl = ledger.daily_pnl + p
      /\ ledger'.daily_trades = ledger.daily_trades
  BY <1>1, <1>2 DEF TypeOK, Ledgers
<1>5. LET r == OnTradeClosed(risk, p, job[t].ts)
      IN  /\ DOMAIN r = RiskFields /\ r.day_key = risk.day_key
          /\ r.daily_pnl = risk.daily_pnl + p /\ r.daily_trades = risk.daily_trades + 1
  <2>1. DOMAIN risk = RiskFields /\ Day(job[t].ts) = risk.day_key
    BY <1>3 DEF TodayInv
  <2>. QED
    BY <2>1, RiskClose
<1>. QED
  BY <1>1, <1>2, <1>4, <1>5 DEF TodayInv, p

\* Opening a position counts a trade; the inserts before it change no total.
LEMMA EnterTotals ==
    ASSUME TypeOK, JobsTyped, Enter
    PROVE  /\ ledger'.today = ledger.today /\ ledger'.daily_pnl = ledger.daily_pnl
           /\ ledger'.daily_trades = IF OpenPosition THEN ledger.daily_trades + 1
                                                     ELSE ledger.daily_trades
<1>1. CASE OpenPosition
  <2>1. ledger' = [ledger EXCEPT !.trade_taken = @ \cup {job["main"].coid.slug},
                                 !.daily_trades = @ + 1]
    BY <1>1 DEF OpenPosition
  <2>. QED
    BY <1>1, <2>1 DEF TypeOK, Ledgers
<1>2. CASE ~OpenPosition
  BY <1>2 DEF Enter, OrderUpsert, EntryFillUpsert, EntryPersistError, memVars
<1>. QED
  BY <1>1, <1>2

LEMMA TodayStep ==
    ASSUME OneDay, TodayInv, TickTimes, ClockInv, TypeInv, [Next]_vars
    PROVE  TodayInv'
<1>. USE DEF TypeInv, recVars, dbVars, memVars, taskVars, faultVars, Goto
<1>1. ASSUME risk' = risk, ledger'.today = ledger.today,
             ~Running' => ~Running, pc'["main"] \in EntryPCs => pc["main"] \in EntryPCs
      PROVE  TodayInv'
  BY <1>1 DEF TodayInv
<1>2. CASE Calm
  BY <1>1, <1>2 DEF Calm, EntryPCs, Tasks
<1>3. CASE Crash
  <2>1. risk' = RiskInit /\ ledger'.today = NoDay /\ pc'["main"] = "down"
    BY <1>3 DEF Crash, FreshLedger, Tasks
  <2>. QED
    BY <2>1, RiskStart DEF TodayInv, EntryPCs
<1>4. ASSUME NEW tk, HandleTick(tk) PROVE TodayInv'
  <2>1. /\ Running' /\ ledger'.today = 0
        /\ DOMAIN risk' = RiskFields /\ risk'.day_key = 0
        /\ risk'.daily_pnl = risk.daily_pnl /\ risk'.daily_trades = risk.daily_trades
    BY <1>4, TickTotals DEF Running, BootPCs
  <2>. QED
    BY <2>1 DEF TodayInv
<1>5. CASE Enter
  <2>1. /\ risk' = risk /\ pc["main"] \in EntryPCs /\ Running
        /\ ledger'.today = ledger.today
    BY <1>5, EnterTotals DEF Enter, OrderUpsert, EntryFillUpsert, EntryPersistError,
                OpenPosition, EntryPCs, Running, BootPCs
  <2>2. Running'
    BY <1>5 DEF Enter, OrderUpsert, EntryFillUpsert, EntryPersistError,
                OpenPosition, Running, BootPCs, TypeOK, Tasks
  <2>. QED
    BY <1>1, <2>1, <2>2
<1>6. CASE RehydrateTradeTaken
  <2>1. /\ risk' = risk /\ pc["main"] = "boot_taken" /\ pc'["main"] = "boot_pnl"
        /\ ledger' = ledger \/ ledger' = [ledger EXCEPT !.trade_taken = @ \cup RecentSlugs]
    BY <1>6 DEF RehydrateTradeTaken, TypeOK, Tasks
  <2>2. ledger'.today = ledger.today
    BY <2>1 DEF TypeOK, Ledgers
  <2>. QED
    BY <1>1, <2>1, <2>2 DEF Running, BootPCs, EntryPCs
<1>7. CASE BootstrapDailyPnl
  <2>1. risk' = risk /\ pc["main"] = "boot_pnl" /\ pc'["main"] = "connect"
    BY <1>7 DEF BootstrapDailyPnl
  <2>2. ledger'.today = ledger.today
    BY <1>7 DEF BootstrapDailyPnl, TypeOK, Ledgers
  <2>3. ledger'.today = NoDay /\ Running'
    BY <2>1, <2>2 DEF TodayInv, Running, BootPCs
  <2>. QED
    BY <2>1, <2>3 DEF TodayInv, EntryPCs
<1>8. ASSUME NEW t \in Tasks, Query(t) PROVE TodayInv'
  <2>1. /\ pc[t] \in QueryPCs /\ UNCHANGED <<ledger, risk>>
        /\ \A u \in Tasks : u # t => pc'[u] = pc[u]
        /\ pc'[t] \in QueryPCs \cup {Return(t), "exit_row"}
    <3>1. /\ pc[t] \in QueryPCs /\ UNCHANGED <<ledger, risk>>
          /\ Proceeds(t) \/ GivesUp(t) \/ Pops(t)
      BY <1>8, QueryStep
    <3>. QED
      BY <3>1 DEF Proceeds, GivesUp, Pops, TypeOK
  <2>. QED
    BY <1>1, <2>1 DEF Tasks, Running, BootPCs, EntryPCs, QueryPCs, Return
<1>9. ASSUME NEW t \in Tasks, ExitFillUpsert(t) PROVE TodayInv'
  <2>1. /\ UNCHANGED <<ledger, risk>> /\ pc[t] = "exit_row" /\ pc'[t] = "ledger"
        /\ \A u \in Tasks : u # t => pc'[u] = pc[u]
    BY <1>9 DEF ExitFillUpsert, TypeOK
  <2>. QED
    BY <1>1, <2>1 DEF Tasks, Running, BootPCs, EntryPCs
<1>10. ASSUME NEW t \in Tasks, BookPnl(t) PROVE TodayInv'
  <2>1. /\ pc[t] = "ledger" /\ pc'[t] = "notify"
        /\ \A u \in Tasks : u # t => pc'[u] = pc[u]
    BY <1>10 DEF BookPnl, TypeOK
  <2>2. LET p == Pnl(job[t].won)
        IN  /\ p \in Int
            /\ ledger'.today = ledger.today /\ DOMAIN risk' = RiskFields /\ risk'.day_key = 0
            /\ risk'.daily_pnl = risk.daily_pnl + p
            /\ risk'.daily_trades = risk.daily_trades + 1
    BY <1>10, BookTotals
  <2>3. risk'.daily_pnl \in Int /\ risk'.daily_trades \in Nat
    BY <2>2 DEF TodayInv
  <2>4. /\ ~Running' => ~Running
        /\ pc'["main"] \in EntryPCs => pc["main"] \in EntryPCs
    BY <2>1 DEF Tasks, Running, BootPCs, EntryPCs
  <2>. QED
    BY <2>2, <2>3, <2>4 DEF TodayInv
<1>. QED
  BY <1>2, <1>3, <1>4, <1>5, <1>6, <1>7, <1>8, <1>9, <1>10, StepKinds

\* A settle fill adds its pnl to the sum of the others.
LEMMA SettledPnlAdd ==
    ASSUME NEW rows, IsFiniteSet(rows), NEW row, row \notin rows, row.won \in BOOLEAN
    PROVE  SettledPnl(rows \cup {row}) = SettledPnl(rows) + Pnl(row.won)
<1>. DEFINE Won(S) == {e \in S : e.won}
            Lost(S) == {e \in S : ~e.won}
<1>1. IsFiniteSet(Won(rows)) /\ IsFiniteSet(Lost(rows))
  BY FS_Subset
<1>2. Cardinality(Won(rows)) \in Nat /\ Cardinality(Lost(rows)) \in Nat
  BY <1>1, FS_CardinalityType
<1>3. CASE row.won
  <2>1. Won(rows \cup {row}) = Won(rows) \cup {row} /\ Lost(rows \cup {row}) = Lost(rows)
    BY <1>3
  <2>2. Cardinality(Won(rows \cup {row})) = Cardinality(Won(rows)) + 1
    BY <1>1, <2>1, FS_AddElement
  <2>3. \A w, l, a, b \in Nat : w * (a + 1) - l * b = (w * a - l * b) + w
    OBVIOUS
  <2>. HIDE DEF Won, Lost
  <2>4. WinPnl * (Cardinality(Won(rows)) + 1) - LossPnl * Cardinality(Lost(rows))
          = (WinPnl * Cardinality(Won(rows)) - LossPnl * Cardinality(Lost(rows))) + WinPnl
    BY <1>2, <2>3, ConstantTypes
  <2>. QED
    BY <1>3, <2>1, <2>2, <2>4 DEF SettledPnl, Pnl, Won, Lost
<1>4. CASE ~row.won
  <2>1. Won(rows \cup {row}) = Won(rows) /\ Lost(rows \cup {row}) = Lost(rows) \cup {row}
    BY <1>4
  <2>2. Cardinality(Lost(rows \cup {row})) = Cardinality(Lost(rows)) + 1
    BY <1>1, <2>1, FS_AddElement
  <2>3. \A w, l, a, b \in Nat : w * a - l * (b + 1) = (w * a - l * b) + (-l)
    OBVIOUS
  <2>. HIDE DEF Won, Lost
  <2>4. WinPnl * Cardinality(Won(rows)) - LossPnl * (Cardinality(Lost(rows)) + 1)
          = (WinPnl * Cardinality(Won(rows)) - LossPnl * Cardinality(Lost(rows))) + (-LossPnl)
    BY <1>2, <2>3, ConstantTypes
  <2>. QED
    BY <1>4, <2>1, <2>2, <2>4 DEF SettledPnl, Pnl, Won, Lost
<1>. QED
  BY <1>3, <1>4

LEMMA SettledPnlEmpty == SettledPnl({}) = 0
<1>1. /\ {e \in {} : e.won} = {} /\ {e \in {} : ~e.won} = {}
  OBVIOUS
<1>2. Cardinality({}) = 0
  BY FS_EmptySet
<1>3. \A w, l \in Nat : w * 0 - l * 0 = 0
  OBVIOUS
<1>. QED
  BY <1>1, <1>2, <1>3, ConstantTypes DEF SettledPnl

\* Trades that were opened and are not booked as closed.
Pending == Open \cup Paying(PayoutPCs) \cup dropped

\* A settlement about to be booked has its row, and is the only one to book it.
LedgerStage ==
    /\ \A t \in Tasks : pc[t] = "ledger" => ExitRow(t) \in exits
    /\ \A t, u \in Tasks : pc[t] = "ledger" /\ pc[u] = "ledger"
                             /\ job[t].coid = job[u].coid => t = u

\* Before the first tick of the process there is nothing to lose by a reset.
Blank == ledger.today = NoDay => /\ entries = {} /\ exits = {}
                                 /\ ledger.daily_pnl = 0 /\ ledger.daily_trades = 0

Sums == /\ ledger.daily_pnl = SettledPnl(exits \ Unbooked)
        /\ risk.daily_pnl = ledger.daily_pnl
        /\ ledger.daily_trades = risk.daily_trades + Cardinality(Pending)

Books == LedgerStage /\ Blank /\ Sums

\* Steps that move no total and book nothing.
LEMMA BooksFrame ==
    ASSUME Books, UNCHANGED exits, Pending' = Pending,
           entries' = entries \/ ledger.today # NoDay,
           ledger.today = NoDay => ledger'.today \in {NoDay, 0},
           ledger.today # NoDay => ledger'.today # NoDay,
           ledger'.daily_pnl = ledger.daily_pnl, ledger'.daily_trades = ledger.daily_trades,
           risk'.daily_pnl = risk.daily_pnl, risk'.daily_trades = risk.daily_trades,
           \A t \in Tasks : "ledger" \in {pc[t], pc'[t]} => pc'[t] = pc[t] /\ job'[t] = job[t]
    PROVE  Books'
<1>1. \A t \in Tasks : pc'[t] = "ledger" => pc[t] = "ledger" /\ job'[t] = job[t] /\ ExitRow(t)' = ExitRow(t)
  BY DEF ExitRow
<1>2. \A t \in Tasks : pc[t] = "ledger" => pc'[t] = "ledger" /\ ExitRow(t)' = ExitRow(t)
  BY DEF ExitRow
<1>3. Unbooked' = Unbooked
  BY <1>1, <1>2 DEF Unbooked
<1>4. LedgerStage'
  BY <1>1 DEF Books, LedgerStage
<1>5. Sums'
  BY <1>3 DEF Books, Sums
<1>6. Blank'
  BY DEF Books, Blank
<1>. QED
  BY <1>4, <1>5, <1>6 DEF Books

LEMMA PendingEntered ==
    ASSUME SafetyInv, AccountInv, LedgerStage
    PROVE  /\ Pending \subseteq entries /\ IsFiniteSet(Pending)
           /\ Cardinality(Pending) \in Nat
<1>1. Open \subseteq entries
  BY DEF Open, SafetyInv, LifeInv, OpenUnsettled
<1>2. dropped \subseteq entries
  BY DEF AccountInv, DroppedApart
<1>3. ASSUME NEW t \in Tasks, pc[t] \in PayoutPCs PROVE job[t].coid \in entries
  <2>1. CASE pc[t] = "exit_row"
    BY <2>1 DEF SafetyInv, LifeInv, PayoutExclusive
  <2>2. CASE pc[t] = "ledger"
    <3>1. ExitRow(t).coid \in Settled /\ ExitRow(t).coid = job[t].coid
      BY <2>2 DEF LedgerStage, Settled, ExitRow
    <3>. QED
      BY <3>1 DEF SafetyInv, LifeInv
  <2>. QED
    BY <1>3, <2>1, <2>2 DEF PayoutPCs
<1>4. Pending \subseteq entries
  BY <1>1, <1>2, <1>3 DEF Pending, Paying
<1>. QED
  BY <1>4, FS_Subset, FS_CardinalityType DEF SafetyInv, TypeInv, FiniteTables

LEMMA BooksTick ==
    ASSUME OneDay, TodayInv, TickTimes, ClockInv, SafetyInv, Books,
           NEW tk, HandleTick(tk)
    PROVE  Books'
<1>1. /\ ledger'.today = 0
      /\ ledger'.daily_pnl = IF ledger.today = 0 THEN ledger.daily_pnl ELSE 0
      /\ ledger'.daily_trades = IF ledger.today = 0 THEN ledger.daily_trades ELSE 0
      /\ risk'.daily_pnl = risk.daily_pnl /\ risk'.daily_trades = risk.daily_trades
      /\ UNCHANGED <<entries, exits, positions, dropped>>
      /\ pc'["wd"] = pc["wd"] /\ job'["wd"] = job["wd"]
      /\ pc["main"] = "listen" /\ pc'["main"] \in {"listen", "last_tick", "order"}
  BY TickTotals DEF SafetyInv, TypeInv
<1>2. ledger'.daily_pnl = ledger.daily_pnl /\ ledger'.daily_trades = ledger.daily_trades
  BY <1>1 DEF Books, Blank, TodayInv
<1>3. Pending' = Pending
  <2>1. Paying(PayoutPCs)' = Paying(PayoutPCs)
    BY <1>1 DEF Paying, PayoutPCs, Tasks
  <2>. QED
    BY <1>1, <2>1 DEF Pending, Open
<1>. QED
  BY <1>1, <1>2, <1>3, BooksFrame DEF Tasks, NoDay

\* The fill is stored before the position is opened and counted.
LEMMA BooksEnter ==
    ASSUME TodayInv, SafetyInv, AccountInv, Books, Enter
    PROVE  Books'
<1>. DEFINE c == job["main"].coid
<1>. USE DEF SafetyInv, TypeInv, dbVars, memVars, faultVars, Goto
<1>1. /\ UNCHANGED <<exits, dropped, job, risk>> /\ pc["main"] \in EntryPCs
      /\ pc'["wd"] = pc["wd"] /\ pc'["main"] \in {"fill", "opened", "listen"}
  BY DEF Enter, OrderUpsert, EntryFillUpsert, EntryPersistError, OpenPosition,
         EntryPCs, TypeOK, Tasks
<1>2. ledger.today = 0 /\ ledger'.today = 0 /\ ledger'.daily_pnl = ledger.daily_pnl
  BY <1>1, EnterTotals DEF TodayInv
<1>3. Paying(PayoutPCs)' = Paying(PayoutPCs) /\ Unbooked' = Unbooked
  BY <1>1 DEF Paying, Unbooked, ExitRow, PayoutPCs, EntryPCs, Tasks
<1>4. \A t \in Tasks : "ledger" \in {pc[t], pc'[t]} => pc'[t] = pc[t] /\ job'[t] = job[t]
  BY <1>1 DEF EntryPCs, Tasks
<1>5. CASE OpenPosition
  <2>1. /\ pc["main"] = "opened" /\ positions' = [positions EXCEPT ![c.slug] = c]
        /\ entries' = entries /\ ledger'.daily_trades = ledger.daily_trades + 1
    BY <1>5, EnterTotals DEF OpenPosition
  <2>2. /\ c \in Coids /\ c # NoPos /\ c.slug \in Markets /\ positions[c.slug] = NoPos
    BY <1>1, ConstantTypes DEF JobsTyped, Tasks, Coids, AccountInv, SlotFree
  <2>3. c \notin Pending
    <3>1. c \notin Open
      BY <2>1 DEF LifeInv, EntryStages, Open, IsOpen
    <3>2. c \notin dropped
      BY <2>1 DEF AccountInv, DroppedApart
    <3>3. ASSUME NEW t \in Tasks, pc[t] \in PayoutPCs PROVE job[t].coid # c
      <4>1. t = "wd"
        BY <2>1, <3>3 DEF PayoutPCs, Tasks
      <4>2. CASE pc[t] = "exit_row"
        BY <2>1, <4>1, <4>2 DEF LifeInv, EntryStages
      <4>3. CASE pc[t] = "ledger"
        <5>1. ExitRow(t) \in exits /\ ExitRow(t).coid = job[t].coid
          BY <4>3 DEF Books, LedgerStage, ExitRow
        <5>2. job[t].coid \in Settled
          BY <5>1 DEF Settled
        <5>. QED
          BY <2>1, <5>2 DEF LifeInv, EntryStages
      <4>. QED
        BY <3>3, <4>2, <4>3 DEF PayoutPCs
    <3>. QED
      BY <3>1, <3>2, <3>3 DEF Pending, Paying
  <2>. HIDE DEF c
  <2>4. Open' = Open \cup {c}
    <3>1. \A m \in Markets : positions'[m] = IF m = c.slug THEN c ELSE positions[m]
      BY <2>1 DEF TypeOK
    <3>. QED
      BY <2>2, <3>1 DEF Open
  <2>5. Pending' = Pending \cup {c}
    BY <1>1, <1>3, <2>4 DEF Pending
  <2>6. Cardinality(Pending') = Cardinality(Pending) + 1
    BY <2>3, <2>5, PendingEntered, FS_AddElement DEF Books
  <2>7. Sums'
    <3>1. /\ ledger.daily_trades = risk.daily_trades + Cardinality(Pending)
          /\ Cardinality(Pending) \in Nat /\ risk.daily_trades \in Nat
      BY PendingEntered DEF Books, Sums, TodayInv
    <3>2. ledger'.daily_trades = risk.daily_trades + Cardinality(Pending')
      BY <2>1, <2>6, <3>1
    <3>. QED
      BY <1>1, <1>2, <1>3, <3>2 DEF Books, Sums
  <2>8. LedgerStage'
    BY <1>1, <1>4 DEF Books, LedgerStage, ExitRow
  <2>. QED
    BY <1>2, <2>7, <2>8 DEF Books, Blank, NoDay
<1>6. CASE ~OpenPosition
  <2>1. positions' = positions /\ ledger' = ledger
    BY <1>6 DEF Enter, OrderUpsert, EntryFillUpsert, EntryPersistError
  <2>2. Pending' = Pending
    BY <1>1, <1>3, <2>1 DEF Pending, Open
  <2>. QED
    BY <1>1, <1>2, <1>4, <2>1, <2>2, BooksFrame DEF NoDay
<1>. QED
  BY <1>5, <1>6

\* A price query moves a position at most from one side of Pending to another.
LEMMA BooksQuery ==
    ASSUME SafetyInv, Books, NEW t \in Tasks, Query(t)
    PROVE  Books'
<1>. USE DEF SafetyInv, TypeInv
<1>1. /\ pc[t] \in QueryPCs /\ Slug(t) \in Markets
      /\ Proceeds(t) \/ GivesUp(t) \/ Pops(t)
      /\ UNCHANGED <<entries, exits, ledger, risk>>
  BY QueryStep
<1>2. /\ \A u \in Tasks : u # t => pc'[u] = pc[u] /\ job'[u] = job[u]
      /\ pc'[t] \in QueryPCs \cup {Return(t), "exit_row"}
  BY <1>1 DEF Proceeds, GivesUp, Pops, TypeOK
<1>3. \A u \in Tasks : "ledger" \in {pc[u], pc'[u]} => pc'[u] = pc[u] /\ job'[u] = job[u]
  BY <1>1, <1>2 DEF QueryPCs, Return
<1>4. Pending' = Pending
  <2>. DEFINE m == Slug(t)
              c == positions[m]
  <2>1. ASSUME pc'[t] \notin PayoutPCs PROVE Paying(PayoutPCs)' = Paying(PayoutPCs)
    BY <1>1, <1>2, <2>1 DEF Paying, PayoutPCs, QueryPCs
  <2>2. CASE Proceeds(t)
    <3>1. positions' = positions /\ dropped' = dropped /\ pc'[t] \notin PayoutPCs
      BY <2>2 DEF Proceeds, TypeOK, PayoutPCs, QueryPCs, Return
    <3>. QED
      BY <2>1, <3>1 DEF Pending, Open
  <2>3. CASE GivesUp(t) \/ Pops(t)
    <3>1. \A n \in Markets : positions'[n] = IF n = m THEN NoPos ELSE positions[n]
      BY <2>3 DEF GivesUp, Pops, TypeOK
    <3>2. Open' \cup ({c} \ {NoPos}) = Open
      <4>. HIDE DEF m
      <4>. QED
        BY <1>1, <3>1 DEF Open, m
    <3>3. CASE GivesUp(t)
      <4>1. dropped' = dropped \cup ({c} \ {NoPos}) /\ pc'[t] \notin PayoutPCs
        BY <3>3 DEF GivesUp, TypeOK, PayoutPCs, Return
      <4>. HIDE DEF c
      <4>. QED
        BY <2>1, <3>2, <4>1 DEF Pending
    <3>4. CASE Pops(t)
      <4>1. /\ c # NoPos /\ dropped' = dropped
            /\ pc'[t] = "exit_row" /\ job'[t].coid = c
        BY <3>4 DEF Pops, TypeOK
      <4>2. Paying(PayoutPCs)' = Paying(PayoutPCs) \cup {c}
        <5>. HIDE DEF c
        <5>. QED
          BY <1>1, <1>2, <4>1 DEF Paying, PayoutPCs, QueryPCs
      <4>. HIDE DEF c
      <4>. QED
        BY <3>2, <4>1, <4>2 DEF Pending
    <3>. QED
      BY <2>3, <3>3, <3>4
  <2>. QED
    BY <1>1, <2>2, <2>3
<1>. QED
  BY <1>1, <1>3, <1>4, BooksFrame

\* The settle fill is stored: it is in the table, and not booked yet.
LEMMA BooksExit ==
    ASSUME SafetyInv, Books, NEW t \in Tasks, ExitFillUpsert(t), dbErrs' = dbErrs
    PROVE  Books'
<1>. DEFINE row == ExitRow(t)
<1>. USE DEF SafetyInv, TypeInv
<1>1. /\ pc[t] = "exit_row" /\ exits' = exits \cup {row}
      /\ UNCHANGED <<entries, positions, ledger, risk, dropped, job>>
      /\ pc'[t] = "ledger" /\ \A u \in Tasks : u # t => pc'[u] = pc[u]
  BY DEF ExitFillUpsert, DbError, TypeOK, Goto, memVars
<1>2. /\ row.coid = job[t].coid /\ row.coid \in entries \ Settled
      /\ \A u \in Tasks : ExitRow(u)' = ExitRow(u)
  BY <1>1 DEF LifeInv, PayoutExclusive, ExitRow
<1>. HIDE DEF row
<1>3. row \notin exits
  BY <1>2 DEF Settled
<1>4. Unbooked' = Unbooked \cup {row}
  BY <1>1, <1>2 DEF Unbooked, row
<1>5. exits' \ Unbooked' = exits \ Unbooked
  BY <1>1, <1>3, <1>4
<1>6. Pending' = Pending
  <2>1. Paying(PayoutPCs)' = Paying(PayoutPCs)
    BY <1>1 DEF Paying, PayoutPCs
  <2>. QED
    BY <1>1, <2>1 DEF Pending, Open
<1>7. LedgerStage'
  <2>1. ASSUME NEW u \in Tasks, pc[u] = "ledger"
        PROVE  ExitRow(u) \in exits /\ job[u].coid # job[t].coid
    <3>1. ExitRow(u) \in exits /\ ExitRow(u).coid = job[u].coid
      BY <2>1 DEF Books, LedgerStage, ExitRow
    <3>2. job[u].coid \in Settled
      BY <3>1 DEF Settled
    <3>. QED
      BY <1>2, <3>1, <3>2
  <2>2. \A u \in Tasks : pc'[u] = "ledger" => u = t \/ pc[u] = "ledger"
    BY <1>1
  <2>3. \A u \in Tasks : pc'[u] = "ledger" => ExitRow(u)' \in exits'
    BY <1>1, <1>2, <2>1, <2>2 DEF row
  <2>. QED
    BY <1>1, <2>1, <2>2, <2>3 DEF Books, LedgerStage
<1>8. Sums'
  BY <1>1, <1>5, <1>6 DEF Books, Sums
<1>9. Blank'
  BY <1>1, <1>2 DEF Books, Blank
<1>. QED
  BY <1>7, <1>8, <1>9 DEF Books

\* The pnl is booked, in both ledgers, and the trade is no longer pending.
LEMMA BooksBook ==
    ASSUME OneDay, TodayInv, ClockInv, SafetyInv, AccountInv, Books,
           NEW t \in Tasks, BookPnl(t)
    PROVE  Books'
<1>. DEFINE row == ExitRow(t)
            p == Pnl(job[t].won)
<1>. USE DEF SafetyInv, TypeInv
<1>1. /\ pc[t] = "ledger" /\ UNCHANGED <<entries, exits, positions, dropped, job>>
      /\ pc'[t] = "notify" /\ \A u \in Tasks : u # t => pc'[u] = pc[u]
  BY DEF BookPnl, dbVars, TypeOK, Goto
<1>2. /\ p \in Int /\ ledger'.today = ledger.today /\ ledger'.daily_pnl = ledger.daily_pnl + p
      /\ ledger'.daily_trades = ledger.daily_trades
      /\ risk'.daily_pnl = risk.daily_pnl + p
      /\ risk'.daily_trades = risk.daily_trades + 1
  BY BookTotals
<1>3. /\ row.coid = job[t].coid /\ row.won = job[t].won /\ row.won \in BOOLEAN
      /\ \A u \in Tasks : ExitRow(u)' = ExitRow(u) /\ ExitRow(u).coid = job[u].coid
  BY <1>1 DEF ExitRow, TypeOK, Jobs
<1>4. row \in exits /\ row \in Unbooked
  BY <1>1 DEF Books, LedgerStage, Unbooked
<1>5. row.coid \in Settled
  BY <1>4 DEF Settled
<1>. HIDE DEF row, p
<1>6. \A u \in Tasks : u # t /\ pc[u] \in PayoutPCs => job[u].coid # row.coid
  BY <1>1, <1>3, <1>5 DEF PayoutPCs, LifeInv, PayoutExclusive, Books, LedgerStage
<1>7. Unbooked' = Unbooked \ {row}
  <2>1. \A u \in Tasks : u # t /\ pc[u] = "ledger" => ExitRow(u) # row
    BY <1>3, <1>6 DEF PayoutPCs
  <2>. QED
    BY <1>1, <1>3, <2>1 DEF Unbooked, row
<1>8. exits' \ Unbooked' = (exits \ Unbooked) \cup {row} /\ row \notin exits \ Unbooked
  BY <1>1, <1>4, <1>7
<1>9. /\ SettledPnl(exits' \ Unbooked') = SettledPnl(exits \ Unbooked) + p
      /\ SettledPnl(exits \ Unbooked) \in Int
  <2>1. IsFiniteSet(exits \ Unbooked)
    BY FS_Subset DEF FiniteTables
  <2>2. SettledPnl((exits \ Unbooked) \cup {row}) = SettledPnl(exits \ Unbooked) + Pnl(row.won)
    BY <1>3, <1>8, <2>1, SettledPnlAdd
  <2>. QED
    BY <1>3, <1>8, <2>1, <2>2, SettledPnlType DEF p
<1>10. /\ Pending' = Pending \ {row.coid} /\ row.coid \in Pending
  <2>1. row.coid \in Coids /\ row.coid # NoPos
    BY <1>3, <1>5, ConstantTypes DEF LifeInv, TypeOK
  <2>2. row.coid \notin Open /\ row.coid \notin dropped
    BY <1>5, <2>1 DEF Open, LifeInv, OpenUnsettled, AccountInv, DroppedApart
  <2>3. /\ Paying(PayoutPCs)' = Paying(PayoutPCs) \ {row.coid}
        /\ row.coid \in Paying(PayoutPCs)
    BY <1>1, <1>3, <1>6 DEF Paying, PayoutPCs
  <2>. QED
    BY <1>1, <2>2, <2>3 DEF Pending, Open
<1>11. Cardinality(Pending') = Cardinality(Pending) - 1 /\ Cardinality(Pending) \in Nat
  BY <1>10, PendingEntered, FS_RemoveElement DEF Books
<1>12. LedgerStage'
  BY <1>1, <1>3 DEF Books, LedgerStage
<1>13. Sums'
  <2>1. /\ ledger.daily_trades = risk.daily_trades + Cardinality(Pending)
        /\ risk.daily_trades \in Nat /\ ledger.daily_pnl \in Int /\ risk.daily_pnl \in Int
        /\ ledger.daily_pnl = SettledPnl(exits \ Unbooked)
        /\ risk.daily_pnl = ledger.daily_pnl
    BY DEF Books, Sums, TodayInv, TypeOK, Ledgers
  <2>2. ledger'.daily_trades = risk'.daily_trades + Cardinality(Pending')
    BY <1>2, <1>11, <2>1
  <2>3. ledger'.daily_pnl = SettledPnl(exits' \ Unbooked') /\ risk'.daily_pnl = ledger'.daily_pnl
    BY <1>2, <1>9, <2>1
  <2>. QED
    BY <2>2, <2>3 DEF Sums
<1>14. Blank'
  BY <1>1, <1>2, <1>4 DEF Books, Blank
<1>. QED
  BY <1>12, <1>13, <1>14 DEF Books

LEMMA BooksStep ==
    ASSUME OneDay, TodayInv, TickTimes, ClockInv, SafetyInv, AccountInv,
           Unfailed => Books, [Next]_vars, Unfailed'
    PROVE  Books'
<1>. USE DEF SafetyInv, TypeInv
<1>1. ~Crash /\ ~DbError
  <2>1. Crash => crashes' # 0
    BY DEF Crash, TypeOK
  <2>2. DbError => dbErrs' # 0
    BY DEF DbError, TypeOK
  <2>. QED
    BY <2>1, <2>2 DEF Unfailed
<1>2. ASSUME UNCHANGED crashes, dbErrs' = dbErrs \/ DbError
      PROVE  Unfailed /\ Books /\ dbErrs' = dbErrs
  BY <1>1, <1>2 DEF Unfailed
<1>3. CASE Calm
  <2>1. /\ UNCHANGED <<entries, exits, positions, dropped, ledger, risk>> /\ Books
    BY <1>2, <1>3 DEF Calm
  <2>2. \A t \in Tasks : {pc[t], pc'[t]} \cap PayoutPCs # {} => pc'[t] = pc[t] /\ job'[t] = job[t]
    BY <1>3 DEF Calm
  <2>3. Pending' = Pending
    <3>1. Paying(PayoutPCs)' = Paying(PayoutPCs)
      BY <2>2 DEF Paying
    <3>. QED
      BY <2>1, <3>1 DEF Pending, Open
  <2>. QED
    BY <2>1, <2>2, <2>3, BooksFrame DEF PayoutPCs
<1>4. ASSUME NEW tk, HandleTick(tk) PROVE Books'
  <2>1. UNCHANGED <<crashes, dbErrs>>
    BY <1>4, TickTotals
  <2>. QED
    BY <1>2, <1>4, <2>1, BooksTick
<1>5. CASE Enter
  <2>1. UNCHANGED crashes /\ (dbErrs' = dbErrs \/ DbError)
    BY <1>5 DEF Enter, OrderUpsert, EntryFillUpsert, EntryPersistError, OpenPosition, faultVars
  <2>. QED
    BY <1>2, <1>5, <2>1, BooksEnter
<1>6. CASE RehydrateTradeTaken \/ BootstrapDailyPnl
  <2>1. /\ Books /\ UNCHANGED <<entries, exits, positions, dropped, risk, job>>
        /\ pc["main"] \in {"boot_taken", "boot_pnl"} /\ pc'["main"] \in {"boot_pnl", "connect"}
        /\ pc'["wd"] = pc["wd"] \/ pc'["wd"] = "sleep"
    <3>1. UNCHANGED crashes /\ (dbErrs' = dbErrs \/ DbError)
      BY <1>6 DEF RehydrateTradeTaken, BootstrapDailyPnl
    <3>. QED
      BY <1>2, <1>6, <3>1 DEF RehydrateTradeTaken, BootstrapDailyPnl, dbVars, Goto, TypeOK, Tasks
  <2>2. ledger.today = NoDay /\ entries = {} /\ exits = {}
        /\ ledger.daily_pnl = 0 /\ ledger.daily_trades = 0
    BY <2>1 DEF TodayInv, Running, BootPCs, Books, Blank
  <2>3. Pending = {} /\ Unbooked = {}
    <3>1. Pending = {}
      BY <2>1, <2>2, PendingEntered DEF Books
    <3>2. Unbooked = {}
      BY <2>1, <2>2 DEF Books, LedgerStage, Unbooked
    <3>. QED
      BY <3>1, <3>2
  <2>4. /\ ledger'.today = NoDay /\ ledger'.daily_pnl = 0 /\ ledger'.daily_trades = 0
    <3>1. CASE RehydrateTradeTaken
      BY <2>2, <3>1 DEF RehydrateTradeTaken, TypeOK, Ledgers
    <3>2. CASE BootstrapDailyPnl
      <4>1. /\ SettledPnl({e \in exits : e.ts >= now - DayLen}) = 0
            /\ Cardinality({c \in entries : c.ts >= now - DayLen}) = 0
        <5>1. {e \in exits : e.ts >= now - DayLen} = {} /\ {c \in entries : c.ts >= now - DayLen} = {}
          BY <2>2
        <5>. QED
          BY <5>1, SettledPnlEmpty, FS_EmptySet
      <4>2. \/ ledger' = ledger
            \/ ledger' = [ledger EXCEPT !.daily_pnl = 0, !.daily_trades = 0]
        BY <3>2, <4>1 DEF BootstrapDailyPnl
      <4>. QED
        BY <2>2, <4>2 DEF TypeOK, Ledgers
    <3>. QED
      BY <1>6, <3>1, <3>2
  <2>5. pc["wd"] \notin PayoutPCs
    <3>1. ASSUME pc["wd"] \in PayoutPCs PROVE FALSE
      <4>1. job["wd"].coid \in Pending
        BY <3>1 DEF Pending, Paying, Tasks
      <4>. QED
        BY <2>3, <4>1
    <3>. QED
      BY <3>1
  <2>6. \A t \in Tasks : {pc[t], pc'[t]} \cap PayoutPCs = {}
    BY <2>1, <2>5 DEF PayoutPCs, Tasks
  <2>7. Pending' = Pending
    <3>1. Paying(PayoutPCs)' = Paying(PayoutPCs)
      BY <2>6 DEF Paying
    <3>. QED
      BY <2>1, <3>1 DEF Pending, Open
  <2>. QED
    BY <2>1, <2>2, <2>4, <2>6, <2>7, BooksFrame DEF PayoutPCs
<1>7. ASSUME NEW t \in Tasks, Query(t) PROVE Books'
  <2>1. UNCHANGED crashes /\ (dbErrs' = dbErrs \/ DbError)
    BY <1>7, QueryStep
  <2>. QED
    BY <1>2, <1>7, <2>1, BooksQuery
<1>8. ASSUME NEW t \in Tasks, ExitFillUpsert(t) PROVE Books'
  <2>1. UNCHANGED crashes /\ (dbErrs' = dbErrs \/ DbError)
    BY <1>8 DEF ExitFillUpsert
  <2>. QED
    BY <1>2, <1>8, <2>1, BooksExit
<1>9. ASSUME NEW t \in Tasks, BookPnl(t) PROVE Books'
  <2>1. UNCHANGED <<crashes, dbErrs>>
    BY <1>9 DEF BookPnl, faultVars
  <2>. QED
    BY <1>2, <1>9, <2>1, BooksBook
<1>. QED
  BY <1>1, <1>3, <1>4, <1>5, <1>6, <1>7, <1>8, <1>9, StepKinds

DayInv == ClockInv /\ TodayInv /\ (Unfailed => Books)

LEMMA DayHolds ==
    ASSUME OneDay
    PROVE  Spec => [](SafetyInv /\ AccountInv /\ TickTimes /\ DayInv)
<1>1. Init => DayInv
  <2>1. SUFFICES ASSUME Init PROVE DayInv
    OBVIOUS
  <2>2. ClockInv
    BY <2>1, ConstantTypes DEF Init, ClockInv, NoJob, Tasks
  <2>3. risk = RiskInit /\ ledger.today = NoDay /\ ledger.daily_pnl = 0
        /\ ledger.daily_trades = 0 /\ entries = {} /\ exits = {}
    BY <2>1 DEF Init, FreshLedger
  <2>4. TodayInv
    BY <2>1, <2>3, RiskStart DEF Init, TodayInv, EntryPCs, Tasks
  <2>5. Pending = {} /\ exits \ Unbooked = {}
    BY <2>1 DEF Init, Pending, Open, Paying, PayoutPCs, Tasks
  <2>6. LedgerStage
    BY <2>1 DEF Init, LedgerStage, Tasks
  <2>7. Sums
    BY <2>3, <2>5, RiskStart, SettledPnlEmpty, FS_EmptySet DEF Sums
  <2>. QED
    BY <2>2, <2>3, <2>4, <2>6, <2>7 DEF DayInv, Books, Blank
<1>2. SafetyInv /\ AccountInv /\ TickTimes /\ DayInv /\ [Next]_vars => DayInv'
  BY ClockStep, TodayStep, BooksStep DEF DayInv, SafetyInv, TypeInv
<1>. QED
  BY <1>1, <1>2, TimesHold, AccountHolds, PTL DEF Spec

LEMMA ExitsOfToday ==
    ASSUME OneDay, TypeOK, ClockInv
    PROVE  {e \in exits : e.ts >= now - DayLen} = exits
<1>1. SUFFICES ASSUME NEW e \in exits PROVE e.ts >= now - DayLen
  OBVIOUS
<1>2. e.ts \in Nat /\ now \in Nat /\ now <= MaxTime
  BY DEF TypeOK, Exits, ClockInv
<1>. QED
  BY <1>2, ConstantTypes DEF OneDay

\* Within a day, and while nothing has failed, _daily_pnl is the sum of the
\* settle fills in the database, but for a settlement whose row is in and whose
\* pnl is not booked yet.
THEOREM LedgerMatchesDbHolds ==
    ASSUME OneDay
    PROVE  Spec => [](Unfailed => LedgerMatchesDb)
<1>1. SafetyInv /\ DayInv => (Unfailed => LedgerMatchesDb)
  BY ExitsOfToday DEF SafetyInv, TypeInv, DayInv, Books, Sums, LedgerMatchesDb
<1>. QED
  BY <1>1, DayHolds, PTL

\* Within a day, and while nothing has failed, the driver's ledger and the
\* RiskManager's, rolled at different moments by different code, hold the same
\* pnl, and the trades one has counted and the other has not are those that are
\* open, being settled or given up.
THEOREM LedgersAgreeHolds ==
    ASSUME OneDay
    PROVE  Spec => [](Unfailed => LedgersAgree)
<1>1. DayInv => (Unfailed => LedgersAgree)
  BY DEF DayInv, Books, Sums, LedgersAgree, Pending
<1>. QED
  BY <1>1, DayHolds, PTL

\* Within a day without failures no order is submitted once the booked settle
\* fills have reached the daily pause loss, though the gate of _handle_tick
\* reads the driver's own ledger and never the table.
THEOREM NoEntryBelowDailyPauseHolds ==
    ASSUME OneDay, MaxCrashes = 0, MaxDbErrs = 0
    PROVE  Spec => NoEntryBelowDailyPause
<1>1. Init => Unfailed
  BY DEF Init, Unfailed
<1>2. TypeInv /\ Unfailed /\ [Next]_vars => Unfailed'
  <2>1. SUFFICES ASSUME TypeInv, Unfailed, [Next]_vars PROVE Unfailed'
    OBVIOUS
  <2>2. ~Crash /\ ~DbError
    BY <2>1 DEF Crash, DbError, Unfailed
  <2>3. ASSUME UNCHANGED crashes, dbErrs' = dbErrs \/ DbError PROVE Unfailed'
    BY <2>1, <2>2, <2>3 DEF Unfailed
  <2>4. ASSUME NEW tk, HandleTick(tk) PROVE Unfailed'
    BY <2>3, <2>4 DEF HandleTick, TickPaused, TickHolding, TickSettle, TickTaken,
         TickOutOfWindow, TickNoEntry, TickSubmit, faultVars
  <2>5. ASSUME NEW t \in Tasks, Query(t) PROVE Unfailed'
    BY <2>1, <2>3, <2>5, QueryStep DEF TypeInv
  <2>6. CASE Enter
    BY <2>3, <2>6 DEF Enter, OrderUpsert, EntryFillUpsert, EntryPersistError, OpenPosition,
                      faultVars
  <2>7. CASE Calm \/ RehydrateTradeTaken \/ BootstrapDailyPnl
    BY <2>3, <2>7 DEF Calm, RehydrateTradeTaken, BootstrapDailyPnl
  <2>8. ASSUME NEW t \in Tasks, ExitFillUpsert(t) \/ BookPnl(t) PROVE Unfailed'
    BY <2>3, <2>8 DEF ExitFillUpsert, BookPnl, faultVars
  <2>. QED
    BY <2>1, <2>2, <2>4, <2>5, <2>6, <2>7, <2>8, StepKinds DEF TypeInv
<1>3. Spec => []Unfailed
  BY <1>1, <1>2, SafetyHolds, PTL DEF Spec, SafetyInv
<1>4. SafetyInv /\ AccountInv /\ TickTimes /\ DayInv /\ Unfailed /\ [Next]_vars =>
        [pc["main"] = "listen" /\ pc'["main"] = "order" =>
           SettledPnl(exits \ Unbooked) > -DailyPauseLoss]_vars
  <2>1. SUFFICES ASSUME SafetyInv, TickTimes, DayInv, Unfailed, [Next]_vars,
                        pc["main"] = "listen", pc'["main"] = "order"
                 PROVE  SettledPnl(exits \ Unbooked) > -DailyPauseLoss
    OBVIOUS
  <2>2. PICK tk : HandleTick(tk)
    <3>1. TypeOK /\ JobsTyped
      BY <2>1 DEF SafetyInv, TypeInv
    <3>2. ~Calm /\ ~Enter /\ ~Crash /\ ~RehydrateTradeTaken /\ ~BootstrapDailyPnl
      BY <2>1 DEF Calm, Enter, OrderUpsert, EntryFillUpsert, EntryPersistError, OpenPosition,
                  Crash, RehydrateTradeTaken, BootstrapDailyPnl, EntryPCs, Tasks
    <3>3. \A t \in Tasks : ~Query(t)
      <4>1. SUFFICES ASSUME NEW t \in Tasks, Query(t) PROVE FALSE
        OBVIOUS
      <4>2. pc[t] \in QueryPCs /\ (Proceeds(t) \/ GivesUp(t) \/ Pops(t))
        BY <3>1, <4>1, QueryStep
      <4>3. t # "main"
        BY <2>1, <4>2 DEF QueryPCs
      <4>. QED
        BY <2>1, <3>1, <4>2, <4>3 DEF Proceeds, GivesUp, Pops, TypeOK, Tasks
    <3>4. \A t \in Tasks : ~ExitFillUpsert(t) /\ ~BookPnl(t)
      BY <2>1, <3>1 DEF ExitFillUpsert, BookPnl, Goto, TypeOK, Tasks
    <3>. QED
      BY <2>1, <3>1, <3>2, <3>3, <3>4, StepKinds
  <2>3. ~DailyPaused(Gated(tk)) /\ ledger' = Gated(tk)
    BY <2>1, <2>2 DEF HandleTick, TickPaused, TickHolding, TickSettle, TickTaken, Goto,
         TickOutOfWindow, TickNoEntry, TickSubmit, taskVars, SafetyInv, TypeInv, TypeOK, Tasks
  <2>4. ledger'.daily_pnl = IF ledger.today = 0 THEN ledger.daily_pnl ELSE 0
    BY <2>1, <2>2, TickTotals DEF DayInv, SafetyInv, TypeInv
  <2>5. ledger'.daily_pnl = SettledPnl(exits \ Unbooked)
    BY <2>1, <2>4 DEF DayInv, TodayInv, Books, Blank, Sums
  <2>6. SettledPnl(exits \ Unbooked) \in Int
    BY <2>1, FS_Subset, SettledPnlType DEF SafetyInv, TypeInv, FiniteTables
  <2>7. DailyPauseLoss \in Nat
    BY DriverAssumption
  <2>. QED
    BY <2>3, <2>5, <2>6, <2>7 DEF DailyPaused
<1>. QED
  BY <1>3, <1>4, DayHolds, PTL DEF Spec, NoEntryBelowDailyPause
=============================================================================
