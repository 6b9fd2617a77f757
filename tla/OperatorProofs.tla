--------------------------- MODULE OperatorProofs ---------------------------
(***************************************************************************)
(* Proofs about what an operator talks to: backtest jobs (Jobs), the       *)
(* commands of the Telegram bot (BotCommands), the copilot (Copilot) and   *)
(* the pause and resume endpoints (ControlPlane).                          *)
(***************************************************************************)
EXTENDS ControlPlane, Jobs, BotCommands, Copilot, FiniteSetTheorems, SequenceTheorems, TLAPS

JobStatuses == {"none", "queued", "running"} \union Final
JobPlaces == {"none", "start", "waiting", "child", "ended"}

JobTypes ==
    /\ row \in [JobIds -> JobStatuses]
    /\ task \in [JobIds -> JobPlaces]
    /\ result \in [JobIds -> {"none"} \union Final]
    /\ follow \in [JobIds -> [at : Nat, told : JobStatuses \union {"polling", "still_running", "nothing"}]]
    /\ jnow \in Nat /\ childAge \in [JobIds -> Nat]

\* How far each job is: it has no task before its row, only a child that has
\* ended has a result to write, and a task that still runs has not written it.
JobOrder ==
    \A j \in JobIds :
       /\ row[j] = "none" => task[j] = "none"
       /\ j \in finished => row[j] # "none" /\ task[j] = "none"
       /\ task[j] = "ended" => result[j] \in Final
       /\ follow[j].told \in Final => j \in finished

JobsInv == JobTypes /\ JobOrder /\ JobsSound

-----------------------------------------------------------------------------
LEMMA JobsInitial == JobsInit => JobsInv
BY DEF JobsInit, JobsInv, JobTypes, JobOrder, JobsSound, JobStatuses, JobPlaces, Final

\* A poll of the follow-up ends it: with the row's status if that is final.
LEMMA FollowupTells ==
    ASSUME JobTypes, NEW j \in JobIds, Followup(j)
    PROVE  \E t \in Final \union {"still_running", "nothing"} :
              /\ follow' = [follow EXCEPT ![j].told = t]
              /\ t \in Final => t = row[j]
<1>1. CASE row[j] \in Final /\ follow' = [follow EXCEPT ![j].told = row[j]]
  BY <1>1
<1>2. CASE follow' = [follow EXCEPT ![j].told = "still_running"]
  BY <1>2 DEF Final
<1>3. CASE follow' = [follow EXCEPT ![j].told = "nothing"]
  BY <1>3 DEF Final
<1> QED
  BY <1>1, <1>2, <1>3 DEF Followup

LEMMA JobTypesStep ==
    ASSUME JobTypes, JobOrder, [JobsNext]_jobVars
    PROVE  JobTypes'
<1> USE DEF JobTypes, JobStatuses, JobPlaces, Final
<1>1. ASSUME NEW j \in JobIds, Submit(j) PROVE JobTypes'
  BY <1>1 DEF Submit, CreateJob
<1>2. ASSUME NEW j \in JobIds, RunJob(j) PROVE JobTypes'
  BY <1>2 DEF RunJob, WriteStatus, Fault
<1>3. ASSUME NEW j \in JobIds, StartChild(j) PROVE JobTypes'
  BY <1>3 DEF StartChild
<1>4. ASSUME NEW j \in JobIds, ChildEnds(j) PROVE JobTypes'
  BY <1>4 DEF ChildEnds
<1>5. ASSUME NEW j \in JobIds, UpdateJob(j) PROVE JobTypes'
  BY <1>5 DEF UpdateJob, WriteStatus, Fault, JobOrder
<1>6. ASSUME NEW j \in JobIds, Followup(j) PROVE JobTypes'
  <2>1. PICK t \in Final \union {"still_running", "nothing"} :
            follow' = [follow EXCEPT ![j].told = t]
    BY <1>6, FollowupTells
  <2>2. follow' \in [JobIds -> [at : Nat, told : JobStatuses \union {"polling", "still_running", "nothing"}]]
    BY <2>1
  <2> QED
    BY <1>6, <2>2 DEF Followup
<1>7. CASE ApiCrash
  BY <1>7 DEF ApiCrash
<1>8. CASE JobTick
  <2>1. jnow' \in Nat
    BY <1>8, JobsAssumption DEF JobTick
  <2> QED
    BY <1>8, <2>1 DEF JobTick
<1>9. CASE UNCHANGED jobVars
  BY <1>9 DEF jobVars
<1> QED
  BY <1>1, <1>2, <1>3, <1>4, <1>5, <1>6, <1>7, <1>8, <1>9 DEF JobsNext

LEMMA JobsSoundStep ==
    ASSUME JobsInv, [JobsNext]_jobVars
    PROVE  JobOrder' /\ JobsSound'
<1> USE DEF JobsInv, JobTypes, JobOrder, JobsSound, JobPlaces, Final
<1>1. ASSUME NEW j \in JobIds, Submit(j) PROVE JobOrder' /\ JobsSound'
  BY <1>1 DEF Submit, CreateJob
<1>2. ASSUME NEW j \in JobIds, RunJob(j) PROVE JobOrder' /\ JobsSound'
  BY <1>2 DEF RunJob, WriteStatus, Fault
<1>3. ASSUME NEW j \in JobIds, StartChild(j) PROVE JobOrder' /\ JobsSound'
  BY <1>3 DEF StartChild
<1>4. ASSUME NEW j \in JobIds, ChildEnds(j) PROVE JobOrder' /\ JobsSound'
  BY <1>4 DEF ChildEnds
<1>5. ASSUME NEW j \in JobIds, UpdateJob(j) PROVE JobOrder' /\ JobsSound'
  BY <1>5 DEF UpdateJob, WriteStatus, Fault
<1>6. ASSUME NEW j \in JobIds, Followup(j) PROVE JobOrder' /\ JobsSound'
  <2>1. PICK t \in Final \union {"still_running", "nothing"} :
            /\ follow' = [follow EXCEPT ![j].told = t]
            /\ t \in Final => t = row[j]
    BY <1>6, FollowupTells
  <2>2. /\ follow'[j].told = t
        /\ \A i \in JobIds : i # j => follow'[i] = follow[i]
    BY <2>1
  <2>3. UNCHANGED <<row, task, result, finished, abandoned>>
    BY <1>6 DEF Followup
  <2>4. \A i \in JobIds : follow'[i].told \in Final => follow'[i].told = result[i] /\ i \in finished
    BY <2>1, <2>2
  <2> QED
    BY <2>3, <2>4
<1>7. CASE ApiCrash
  BY <1>7 DEF ApiCrash
<1>8. CASE JobTick
  BY <1>8 DEF JobTick
<1>9. CASE UNCHANGED jobVars
  BY <1>9 DEF jobVars
<1> QED
  BY <1>1, <1>2, <1>3, <1>4, <1>5, <1>6, <1>7, <1>8, <1>9 DEF JobsNext

LEMMA JobsStep ==
    ASSUME JobsInv, [JobsNext]_jobVars
    PROVE  JobsInv'
BY JobTypesStep, JobsSoundStep DEF JobsInv

\* Whatever number of jobs, workers, restarts of the API and failing queries:
\* a job run_job has left has the status its child ended with, or was
\* abandoned and never says it is final; _followup_backtest tells the user a
\* result only if it is the child's.
THEOREM JobsAreSound == JobsSpec => []JobsSound
<1>1. JobsInv => JobsSound
  BY DEF JobsInv
<1> QED
  BY <1>1, JobsInitial, JobsStep, PTL DEF JobsSpec

-----------------------------------------------------------------------------
Prompts == [by : Users, at : Nat, life : Nat, upd : Nat]
Armings == [by : Users, prompted : Nat, at : Nat, life : Nat, upd : Nat]

BotTypes ==
    /\ bnow \in Nat \ {0} /\ deaths \in Nat /\ callErrs \in Nat
    /\ updates \in Seq([by : Users, text : Texts])
    /\ runs \in Seq(Nat) /\ Len(runs) = Len(updates)
    /\ pending \in [Users -> Nat] /\ strategyRow \in BOOLEAN
    /\ askKey \in [sid : Nat, until : Nat] /\ sids \in Nat
    /\ prompts \subseteq Prompts /\ armings \subseteq Armings

\* The loop is inside the batch it fetched, which starts after what Telegram
\* has forgotten.
Cursors ==
    /\ {forgotten, offset, batch} \subseteq 0 .. Len(updates)
    /\ batch <= offset /\ (offset > 0 => forgotten <= batch)

\* What is behind the cursor was handled; what is ahead of it was handled in
\* earlier lives only, and lies within the batch.
HandledBehind ==
    \A i \in 1 .. Len(updates) :
       /\ i <= forgotten \/ i <= batch => runs[i] >= 1
       /\ i > batch => runs[i] <= deaths
       /\ runs[i] <= 1 + deaths
       /\ offset > 0 /\ runs[i] > 0 => i <= offset

\* A pending prompt was asked for in this life, by an update already handled.
Prompted == {u \in Users : pending[u] # 0}
PendingBacked ==
    /\ \A u \in Prompted : \E p \in prompts :
          p.by = u /\ p.at = pending[u] /\ p.life = deaths /\ p.upd <= batch
    /\ \A p \in prompts : p.life <= deaths /\ (p.life = deaths => p.upd <= batch)

\* Every arming uses up the prompt of its user.
ArmingsBacked ==
    \A a \in armings :
       /\ a.by \in Authorized /\ a.at - a.prompted < PromptTtl
       /\ \E p \in prompts : p.by = a.by /\ p.at = a.prompted /\ p.life = a.life /\ p.upd < a.upd
ArmingsCounted ==
    /\ IsFiniteSet(armings) /\ IsFiniteSet(prompts) /\ IsFiniteSet(Prompted)
    /\ Cardinality(armings) + Cardinality(Prompted) <= Cardinality(prompts)

\* The row says what the latest switch of this life's replay said, and what
\* the latest of all said when the replay has none to repeat.
SaysPause(upds, S) == \E i \in S : upds[i].text = "/pause" /\ \A j \in S : j <= i
RowOfReplay ==
    callErrs = 0 /\ prompts = {} =>
       /\ (\E i \in Switches : forgotten < i /\ i <= batch) =>
             (strategyRow <=> SaysPause(updates, {i \in Switches : i <= batch}))
       /\ (\A i \in Switches : i <= forgotten) => (strategyRow <=> SaysPause(updates, Switches))

\* The session in the key is not one that was closed.
KeyOpen ==
    /\ closedSids \subseteq 1 .. sids /\ askKey.sid <= sids
    /\ askKey.sid # 0 => askKey.sid \notin closedSids

BotInv ==
    /\ BotTypes /\ Cursors /\ HandledBehind /\ PendingBacked /\ ArmingsBacked
    /\ ArmingsCounted /\ RowOfReplay /\ KeyOpen

-----------------------------------------------------------------------------
\* What handling an update does, handler by handler.
Untouched == UNCHANGED <<pending, strategyRow, askKey, sids, closedSids, armings, prompts, callErrs>>

LEMMA HandleCases ==
    ASSUME HandleUpdate
    PROVE  \/ Current.by \notin Authorized /\ Untouched
           \/ /\ Current.by \in Authorized /\ pending' = AfterText(Current)
              /\ \/ Answers(Current) /\ KillswitchConfirm(Current)
                 \/ ~Answers(Current) /\ Current.text = "/killswitch" /\ KillswitchPrompt(Current)
                 \/ ~Answers(Current) /\ Current.text \in {"/pause", "/resume"} /\ SetPause(Current)
                 \/ ~Answers(Current) /\ Current.text = "/ask" /\ Ask
                 \/ ~Answers(Current) /\ Current.text = "/ask_reset" /\ AskReset
                 \/ /\ ~Answers(Current) /\ Current.text \notin {"/killswitch", "/pause", "/resume"}
                    /\ ReadOnly
<1>1. CASE Current.by \notin Authorized
  BY <1>1 DEF HandleUpdate, Untouched
<1>2. CASE Current.by \in Authorized
  <2>1. Dispatch(Current) /\ pending' = AfterText(Current)
    BY <1>2 DEF HandleUpdate
  <2>2. CASE Answers(Current)
    BY <1>2, <2>1, <2>2 DEF Dispatch
  <2>3. CASE ~Answers(Current)
    <3>1. CASE Current.text = "/killswitch"
      BY <1>2, <2>1, <2>3, <3>1 DEF Dispatch
    <3>2. CASE Current.text \in {"/pause", "/resume"}
      BY <1>2, <2>1, <2>3, <3>2 DEF Dispatch
    <3>3. CASE Current.text = "/ask"
      BY <1>2, <2>1, <2>3, <3>3 DEF Dispatch
    <3>4. CASE Current.text = "/ask_reset"
      BY <1>2, <2>1, <2>3, <3>4 DEF Dispatch
    <3>5. CASE Current.text \notin {"/killswitch", "/pause", "/resume", "/ask", "/ask_reset"}
      BY <1>2, <2>1, <2>3, <3>5 DEF Dispatch
    <3> QED
      BY <3>1, <3>2, <3>3, <3>4, <3>5
  <2> QED
    BY <2>2, <2>3
<1> QED
  BY <1>1, <1>2

\* The update under the loop is one that was sent.
LEMMA CurrentType ==
    ASSUME BotTypes, Cursors, batch < offset
    PROVE  /\ Current \in [by : Users, text : Texts] /\ batch \in Nat
           /\ batch + 1 \in 1 .. Len(updates)
<1>1. batch + 1 \in 1 .. Len(updates)
  BY DEF BotTypes, Cursors
<1>2. batch \in Nat
  BY DEF Cursors
<1>3. updates[batch + 1] \in [by : Users, text : Texts]
  BY <1>1, ElementOfSeq DEF BotTypes
<1> QED
  BY <1>1, <1>2, <1>3 DEF Current

LEMMA BotInitial == BotInit => BotInv
<1> SUFFICES ASSUME BotInit PROVE BotInv
  OBVIOUS
<1>1. BotTypes /\ Cursors /\ HandledBehind
  <2>1. strategyRow \in BOOLEAN
    BY Zenon DEF BotInit
  <2> QED
    BY <2>1 DEF BotInit, BotTypes, Cursors, HandledBehind, NoKey
<1>2. Prompted = {} /\ Switches = {}
  BY DEF BotInit, Prompted, Switches
<1>3. PendingBacked /\ ArmingsBacked
  BY <1>2 DEF BotInit, PendingBacked, ArmingsBacked
<1>4. ArmingsCounted
  BY <1>2, FS_EmptySet DEF BotInit, ArmingsCounted
<1>5. RowOfReplay
  <2>1. strategyRow = FALSE /\ ~SaysPause(updates, Switches)
    BY <1>2 DEF BotInit, SaysPause
  <2> QED
    BY <1>2, <2>1 DEF RowOfReplay
<1>6. KeyOpen
  BY DEF BotInit, KeyOpen, NoKey
<1> QED
  BY <1>1, <1>3, <1>4, <1>5, <1>6 DEF BotInv

LEMMA BotTypesStep ==
    ASSUME BotTypes, Cursors, [BotNext]_botVars
    PROVE  BotTypes'
<1> USE DEF BotTypes
<1>1. ASSUME NEW m \in Mail, SendUpdate(m) PROVE BotTypes'
  <2>1. [by |-> m[1], text |-> m[2]] \in [by : Users, text : Texts]
    BY BotAssumption
  <2>2. updates' \in Seq([by : Users, text : Texts]) /\ runs' \in Seq(Nat) /\ Len(runs') = Len(updates')
    BY <1>1, <2>1 DEF SendUpdate
  <2> QED
    BY <1>1, <2>2 DEF SendUpdate
<1>2. CASE GetUpdates
  BY <1>2 DEF GetUpdates
<1>3. CASE HandleUpdate
  <2>1. Current \in [by : Users, text : Texts] /\ batch + 1 \in 1 .. Len(updates) /\ batch \in Nat
    BY <1>3, CurrentType DEF HandleUpdate
  <2>2. runs' \in Seq(Nat) /\ Len(runs') = Len(updates') /\ UNCHANGED <<bnow, updates, deaths>>
    BY <1>3, <2>1 DEF HandleUpdate
  <2>3. AfterText(Current) \in [Users -> Nat]
    BY <2>1 DEF AfterText
  <2>4. CASE Untouched
    BY <2>2, <2>4 DEF Untouched
  <2>5. ASSUME pending' = AfterText(Current), KillswitchConfirm(Current) PROVE BotTypes'
    <3>1. callErrs' \in Nat /\ armings' \subseteq Armings
      <4>1. \/ Arm(Current.by)
            \/ armings' = armings /\ callErrs' \in {callErrs, callErrs + 1}
        BY <2>5 DEF KillswitchConfirm, CallFails
      <4>2. CASE Arm(Current.by)
        <5>1. pending[Current.by] \in Nat /\ bnow \in Nat /\ deaths \in Nat /\ batch + 1 \in Nat
          BY <2>1
        <5>. DEFINE a == [by |-> Current.by, prompted |-> pending[Current.by], at |-> bnow,
                          life |-> deaths, upd |-> batch + 1]
        <5>2. a \in Armings
          BY <2>1, <5>1 DEF Armings
        <5>3. armings' = armings \union {a} /\ callErrs' = callErrs
          BY <4>2 DEF Arm
        <5>. HIDE DEF a
        <5> QED
          BY <5>2, <5>3
      <4> QED
        BY <4>1, <4>2
    <3> QED
      BY <2>2, <2>3, <2>5, <3>1 DEF KillswitchConfirm
  <2>6. ASSUME pending' = AfterText(Current), KillswitchPrompt(Current) PROVE BotTypes'
    <3>1. prompts' \subseteq Prompts
      BY <2>1, <2>6 DEF KillswitchPrompt, Prompts
    <3> QED
      BY <2>2, <2>3, <2>6, <3>1 DEF KillswitchPrompt
  <2>7. ASSUME pending' = AfterText(Current), SetPause(Current) PROVE BotTypes'
    <3>1. strategyRow' \in BOOLEAN
      BY <2>7 DEF SetPause
    <3>2. callErrs' \in Nat
      BY <2>7 DEF SetPause, CallFails
    <3> QED
      BY <2>2, <2>3, <2>7, <3>1, <3>2 DEF SetPause
  <2>8. ASSUME pending' = AfterText(Current), Ask PROVE BotTypes'
    <3>1. askKey' \in [sid : Nat, until : Nat] /\ sids' \in Nat /\ callErrs' \in Nat
      <4>1. AskTtl \in Nat /\ bnow + AskTtl \in Nat
        BY BotAssumption
      <4>2. CASE KeyLives /\ UNCHANGED callErrs
        BY <2>8, <4>1, <4>2 DEF Ask, CallFails
      <4>3. CASE ~KeyLives /\ UNCHANGED callErrs
        BY <2>8, <4>1, <4>3 DEF Ask, CallFails
      <4>4. CASE CallFails /\ UNCHANGED <<askKey, sids>>
        BY <4>4 DEF CallFails
      <4> QED
        BY <2>8, <4>2, <4>3, <4>4 DEF Ask
    <3> QED
      BY <2>2, <2>3, <2>8, <3>1 DEF Ask
  <2>9. ASSUME pending' = AfterText(Current), AskReset PROVE BotTypes'
    <3>1. askKey' \in [sid : Nat, until : Nat] /\ callErrs' \in Nat
      BY <2>9 DEF AskReset, CallFails, NoKey
    <3> QED
      BY <2>2, <2>3, <2>9, <3>1 DEF AskReset
  <2>10. ASSUME pending' = AfterText(Current), ReadOnly PROVE BotTypes'
    BY <2>2, <2>3, <2>10 DEF ReadOnly
  <2> QED
    BY <1>3, HandleCases, <2>4, <2>5, <2>6, <2>7, <2>8, <2>9, <2>10
<1>4. CASE RestartSelf
  <2>1. batch + 1 \in 1 .. Len(updates) /\ batch \in Nat
    BY <1>4, CurrentType DEF RestartSelf
  <2>2. runs' \in Seq(Nat) /\ Len(runs') = Len(runs)
    BY <1>4, <2>1 DEF RestartSelf
  <2> QED
    BY <1>4, <2>2 DEF RestartSelf, Die
<1>5. CASE BotCrash
  BY <1>5 DEF BotCrash, Die
<1>6. CASE BotTick
  BY <1>6 DEF BotTick
<1>7. CASE UNCHANGED botVars
  BY <1>7 DEF botVars
<1> QED
  BY <1>1, <1>2, <1>3, <1>4, <1>5, <1>6, <1>7 DEF BotNext

\* One more run of the update under the loop.
LEMMA RunsCounted ==
    ASSUME BotTypes, Cursors, batch < offset, runs' = [runs EXCEPT ![batch + 1] = @ + 1]
    PROVE  \A i \in 1 .. Len(updates) :
              runs[i] \in Nat /\ runs'[i] = IF i = batch + 1 THEN runs[i] + 1 ELSE runs[i]
<1>1. batch + 1 \in 1 .. Len(updates) /\ Len(updates) = Len(runs)
  BY CurrentType DEF BotTypes
<1>2. \A i \in 1 .. Len(updates) : runs[i] \in Nat
  BY <1>1, ElementOfSeq DEF BotTypes
<1> QED
  BY <1>1, <1>2, ExceptSeq DEF BotTypes

LEMMA HandledStep ==
    ASSUME BotTypes, Cursors, HandledBehind, [BotNext]_botVars
    PROVE  Cursors' /\ HandledBehind'
<1> USE DEF Cursors, HandledBehind
<1> DEFINE Goal == Cursors' /\ HandledBehind'
<1>0. Len(updates) \in Nat /\ deaths \in Nat /\ \A i \in 1 .. Len(updates) : runs[i] \in Nat
  BY ElementOfSeq DEF BotTypes
<1>1. ASSUME NEW m \in Mail, SendUpdate(m) PROVE Goal
  <2>1. /\ Len(updates') = Len(updates) + 1
        /\ \A i \in 1 .. Len(updates') : runs'[i] = IF i = Len(updates') THEN 0 ELSE runs[i]
    BY <1>1 DEF SendUpdate, BotTypes
  <2>2. UNCHANGED <<forgotten, offset, batch, deaths>>
    BY <1>1 DEF SendUpdate
  <2>3. Cursors'
    BY <1>0, <2>1, <2>2
  <2>4. ASSUME NEW i \in 1 .. Len(updates') PROVE i \in 1 .. Len(updates) \/ i = Len(updates) + 1
    BY <1>0, <2>1
  <2> QED
    BY <1>0, <2>1, <2>2, <2>3, <2>4
<1>2. CASE GetUpdates
  <2>1. UNCHANGED <<updates, runs, deaths>> /\ batch = offset /\ forgotten' = Confirmed
    BY <1>2 DEF GetUpdates
  <2>2. \/ offset' = Len(updates) /\ batch' = Confirmed /\ Len(updates) > Confirmed
        \/ UNCHANGED <<offset, batch>>
    BY <1>2 DEF GetUpdates
  <2>3. Confirmed \in 0 .. Len(updates) /\ batch <= Confirmed
    BY <1>0, <2>1 DEF Confirmed
  <2>4. offset > 0 => Confirmed = batch
    BY <2>1 DEF Confirmed
  <2>5. \A i \in 1 .. Len(updates) : i <= Confirmed => runs[i] >= 1
    BY <1>0, <2>1, <2>3 DEF Confirmed
  <2>6. Cursors'
    BY <1>0, <2>1, <2>2, <2>3, <2>4
  <2> QED
    BY <1>0, <2>1, <2>2, <2>3, <2>5, <2>6
<1>3. CASE HandleUpdate
  <2>1. \A i \in 1 .. Len(updates) : runs'[i] = IF i = batch + 1 THEN runs[i] + 1 ELSE runs[i]
    BY <1>3, RunsCounted DEF HandleUpdate
  <2>2. batch < offset /\ batch' = batch + 1 /\ UNCHANGED <<updates, forgotten, offset, deaths>>
    BY <1>3 DEF HandleUpdate
  <2> QED
    BY <1>0, <2>1, <2>2
<1>4. CASE RestartSelf
  <2>1. \A i \in 1 .. Len(updates) : runs'[i] = IF i = batch + 1 THEN runs[i] + 1 ELSE runs[i]
    BY <1>4, RunsCounted DEF RestartSelf
  <2>2. /\ batch < offset /\ batch' = 0 /\ offset' = 0 /\ deaths' = deaths + 1
        /\ UNCHANGED <<updates, forgotten>>
    BY <1>4 DEF RestartSelf, Die
  <2>3. SUFFICES ASSUME NEW i \in 1 .. Len(updates)
                 PROVE  /\ runs[i] \in Nat /\ runs'[i] <= deaths + 1
                        /\ i <= forgotten => runs'[i] >= 1
    <3>1. \A i \in 1 .. Len(updates) : ~(i <= 0)
      OBVIOUS
    <3>2. ~(0 > 0)
      OBVIOUS
    <3>3. ASSUME \A i \in 1 .. Len(updates) : /\ runs[i] \in Nat /\ runs'[i] <= deaths + 1
                                              /\ i <= forgotten => runs'[i] >= 1
          PROVE  HandledBehind'
      <4>1. \A n : n <= deaths + 1 => n <= 1 + (deaths + 1) \/ n \notin Nat
        BY <1>0
      <4>2. \A i \in 1 .. Len(updates) : runs'[i] \in Nat
        BY <2>1, <3>3
      <4>. QED
        BY <2>2, <3>1, <3>2, <3>3, <4>1, <4>2
    <3>4. Cursors'
      BY <1>0, <2>2
    <3>. HIDE DEF Cursors, HandledBehind
    <3>. QED
      BY <3>3, <3>4
  <2>4. runs[i] \in Nat /\ deaths \in Nat
    BY <1>0
  <2> QED
    BY <1>0, <2>1, <2>2, <2>4
<1>5. CASE BotCrash
  <2>1. /\ batch' = 0 /\ offset' = 0 /\ deaths' = deaths + 1
        /\ UNCHANGED <<updates, forgotten, runs>>
    BY <1>5 DEF BotCrash, Die
  <2> QED
    BY <1>0, <2>1
<1>6. CASE BotTick
  BY <1>6 DEF BotTick
<1>7. CASE UNCHANGED botVars
  BY <1>7 DEF botVars
<1> QED
  BY <1>1, <1>2, <1>3, <1>4, <1>5, <1>6, <1>7 DEF BotNext

LEMMA KeyStep ==
    ASSUME BotTypes, KeyOpen, [BotNext]_botVars
    PROVE  KeyOpen'
<1>0. askKey.sid \in Nat /\ sids \in Nat
  BY DEF BotTypes
<1>1. CASE UNCHANGED <<askKey, sids, closedSids>>
  BY <1>1 DEF KeyOpen
<1>2. CASE Ask
  <2>1. CASE KeyLives
    BY <1>0, <1>2, <2>1 DEF Ask, KeyOpen
  <2>2. CASE ~KeyLives
    <3>1. closedSids' = closedSids
      BY <1>2 DEF Ask
    <3>2. (askKey'.sid = sids + 1 /\ sids' = sids + 1) \/ (askKey' = askKey /\ sids' = sids)
      BY <1>2, <2>2 DEF Ask
    <3>3. sids + 1 \notin closedSids /\ closedSids \subseteq 1 .. sids + 1
      BY <1>0 DEF KeyOpen
    <3> QED
      BY <1>0, <3>1, <3>2, <3>3 DEF KeyOpen
  <2> QED
    BY <2>1, <2>2
<1>3. CASE AskReset
  <2>1. askKey'.sid = 0 /\ sids' = sids
    BY <1>3 DEF AskReset, NoKey
  <2>2. closedSids' = closedSids \/ (askKey.sid # 0 /\ closedSids' = closedSids \union {askKey.sid})
    BY <1>3 DEF AskReset, KeyLives
  <2>3. askKey.sid # 0 => askKey.sid \in 1 .. sids
    BY <1>0 DEF KeyOpen
  <2>4. closedSids' \subseteq 1 .. sids
    <3>1. closedSids \subseteq 1 .. sids
      BY DEF KeyOpen
    <3>2. CASE closedSids' = closedSids
      BY <3>1, <3>2
    <3>3. CASE askKey.sid # 0 /\ closedSids' = closedSids \union {askKey.sid}
      BY <2>3, <3>1, <3>3
    <3> QED
      BY <2>2, <3>2, <3>3
  <2> QED
    BY <1>0, <2>1, <2>4 DEF KeyOpen
<1>4. CASE HandleUpdate
  BY <1>1, <1>2, <1>3, <1>4, HandleCases DEF Untouched, KillswitchConfirm, KillswitchPrompt, SetPause, ReadOnly
<1> QED
  BY <1>1, <1>4 DEF BotNext, SendUpdate, GetUpdates, RestartSelf, BotCrash, Die, BotTick, botVars

-----------------------------------------------------------------------------
\* What handling an update does to prompts and armings: nothing but to consume
\* the prompt of its user, a new prompt, or an arming.
NewPrompt == [by |-> Current.by, at |-> bnow, life |-> deaths, upd |-> batch + 1]
NewArming == [by |-> Current.by, prompted |-> pending[Current.by], at |-> bnow, life |-> deaths,
              upd |-> batch + 1]
Consumed == [pending EXCEPT ![Current.by] = 0]

LEMMA PromptCases ==
    ASSUME HandleUpdate
    PROVE  \/ UNCHANGED <<prompts, armings>> /\ pending' \in {pending, Consumed}
           \/ /\ prompts' = prompts \union {NewPrompt} /\ UNCHANGED armings
              /\ pending' = [pending EXCEPT ![Current.by] = bnow]
           \/ /\ Current.by \in Authorized /\ Answers(Current)
              /\ armings' = armings \union {NewArming} /\ UNCHANGED prompts
              /\ pending' = Consumed
<1>1. CASE Untouched
  BY <1>1 DEF Untouched
<1>2. ASSUME Current.by \in Authorized, pending' = AfterText(Current),
             Answers(Current), KillswitchConfirm(Current)
      PROVE  \/ UNCHANGED <<prompts, armings>> /\ pending' = Consumed
             \/ armings' = armings \union {NewArming} /\ UNCHANGED prompts /\ pending' = Consumed
  BY <1>2 DEF AfterText, Consumed, KillswitchConfirm, Arm, NewArming
<1>3. ASSUME pending' = AfterText(Current), ~Answers(Current),
             Current.text = "/killswitch", KillswitchPrompt(Current)
      PROVE  /\ prompts' = prompts \union {NewPrompt} /\ UNCHANGED armings
             /\ pending' = [pending EXCEPT ![Current.by] = bnow]
  BY <1>3 DEF AfterText, KillswitchPrompt, NewPrompt
<1>4. ASSUME pending' = AfterText(Current), Current.text # "/killswitch",
             SetPause(Current) \/ Ask \/ AskReset \/ ReadOnly
      PROVE  UNCHANGED <<prompts, armings>> /\ pending' = Consumed
  BY <1>4 DEF AfterText, Consumed, SetPause, Ask, AskReset, ReadOnly
<1> QED
  BY <1>1, <1>2, <1>3, <1>4, HandleCases

LEMMA PendingStep ==
    ASSUME BotTypes, Cursors, PendingBacked, [BotNext]_botVars
    PROVE  PendingBacked'
<1> USE DEF PendingBacked, Prompted
<1>0. batch \in Nat /\ deaths \in Nat /\ bnow \in Nat /\ bnow # 0 /\ pending \in [Users -> Nat]
      /\ \A p \in prompts : p.life \in Nat /\ p.upd \in Nat
  BY DEF BotTypes, Cursors, Prompts
<1>1. CASE UNCHANGED <<pending, prompts, deaths, batch>>
  BY <1>1
<1>2. CASE GetUpdates
  <2>1. UNCHANGED <<pending, prompts, deaths>> /\ batch' \in Nat /\ batch <= batch'
    BY <1>2 DEF GetUpdates, Confirmed, Cursors
  <2> QED
    BY <1>0, <2>1
<1>3. CASE HandleUpdate
  <2>1. batch' = batch + 1 /\ deaths' = deaths /\ Current.by \in Users
    BY <1>3, CurrentType DEF HandleUpdate
  <2>2. CASE prompts' = prompts /\ pending' \in {pending, Consumed}
    BY <1>0, <2>1, <2>2 DEF Consumed
  <2>3. CASE /\ prompts' = prompts \union {NewPrompt}
             /\ pending' = [pending EXCEPT ![Current.by] = bnow]
    <3>1. NewPrompt \in prompts' /\ NewPrompt.by = Current.by /\ NewPrompt.at = pending'[Current.by]
          /\ NewPrompt.life = deaths' /\ NewPrompt.upd = batch'
      BY <1>0, <2>1, <2>3 DEF NewPrompt
    <3>2. \A u \in Users : u # Current.by => pending'[u] = pending[u]
      BY <1>0, <2>3
    <3>3. \A p \in prompts : p \in prompts'
      BY <2>3
    <3>4. \A u \in Prompted' : \E p \in prompts' :
             p.by = u /\ p.at = pending'[u] /\ p.life = deaths' /\ p.upd <= batch'
      BY <1>0, <2>1, <3>1, <3>2, <3>3
    <3>5. \A p \in prompts' : p.life <= deaths' /\ (p.life = deaths' => p.upd <= batch')
      BY <1>0, <2>1, <2>3, <3>1
    <3> QED
      BY <3>4, <3>5
  <2> QED
    BY <1>3, <2>2, <2>3, PromptCases
<1>4. CASE Die
  <2>1. deaths' = deaths + 1 /\ prompts' = prompts /\ \A u \in Users : pending'[u] = 0
    BY <1>4 DEF Die
  <2> QED
    BY <1>0, <2>1
<1> QED
  BY <1>1, <1>2, <1>3, <1>4 DEF BotNext, SendUpdate, RestartSelf, BotCrash, BotTick, botVars

LEMMA ArmingsStep ==
    ASSUME BotTypes, Cursors, PendingBacked, ArmingsBacked, [BotNext]_botVars
    PROVE  ArmingsBacked'
<1>1. CASE armings' = armings /\ prompts \subseteq prompts'
  BY <1>1 DEF ArmingsBacked
<1>2. CASE HandleUpdate
  <2>1. Current.by \in Users /\ batch \in Nat /\ bnow \in Nat /\ pending[Current.by] \in Nat
    BY <1>2, CurrentType DEF HandleUpdate, BotTypes
  <2>2. CASE /\ Current.by \in Authorized /\ Answers(Current)
             /\ armings' = armings \union {NewArming} /\ UNCHANGED prompts
    <3>1. PICK p \in prompts : p.by = Current.by /\ p.at = pending[Current.by]
                               /\ p.life = deaths /\ p.upd <= batch
      BY <2>1, <2>2 DEF PendingBacked, Prompted, Answers
    <3>2. p.upd < batch + 1
      BY <2>1, <3>1 DEF BotTypes, Prompts
    <3>3. /\ NewArming.by \in Authorized /\ NewArming.at - NewArming.prompted < PromptTtl
          /\ p.by = NewArming.by /\ p.at = NewArming.prompted /\ p.life = NewArming.life
          /\ p.upd < NewArming.upd
      BY <2>2, <3>1, <3>2 DEF NewArming, Answers
    <3> QED
      BY <2>2, <3>3 DEF ArmingsBacked
  <2> QED
    BY <1>1, <1>2, <2>2, PromptCases
<1> QED
  BY <1>1, <1>2 DEF BotNext, SendUpdate, GetUpdates, RestartSelf, BotCrash, Die, BotTick, botVars

LEMMA CountedStep ==
    ASSUME BotTypes, Cursors, PendingBacked, ArmingsCounted, [BotNext]_botVars
    PROVE  ArmingsCounted'
<1>0. Cardinality(armings) \in Nat /\ Cardinality(prompts) \in Nat /\ Cardinality(Prompted) \in Nat
  BY FS_CardinalityType DEF ArmingsCounted
<1>1. ASSUME armings' = armings, prompts' = prompts, Prompted' \subseteq Prompted
      PROVE  ArmingsCounted'
  <2>1. IsFiniteSet(Prompted') /\ Cardinality(Prompted') <= Cardinality(Prompted)
        /\ Cardinality(Prompted') \in Nat
    BY <1>1, FS_Subset, FS_CardinalityType DEF ArmingsCounted
  <2> QED
    BY <1>0, <1>1, <2>1 DEF ArmingsCounted
<1>2. CASE HandleUpdate
  <2>1. Current.by \in Users /\ batch \in Nat /\ pending \in [Users -> Nat]
    BY <1>2, CurrentType DEF HandleUpdate, BotTypes
  <2>2. CASE UNCHANGED <<prompts, armings>> /\ pending' \in {pending, Consumed}
    BY <1>1, <2>1, <2>2 DEF Consumed, Prompted
  <2>3. CASE /\ prompts' = prompts \union {NewPrompt} /\ UNCHANGED armings
             /\ pending' = [pending EXCEPT ![Current.by] = bnow]
    <3>1. NewPrompt \notin prompts
      <4>1. NewPrompt.life = deaths /\ NewPrompt.upd = batch + 1 /\ ~(batch + 1 <= batch)
        BY <2>1 DEF NewPrompt
      <4> QED
        BY <4>1 DEF PendingBacked
    <3>2. IsFiniteSet(prompts') /\ Cardinality(prompts') = Cardinality(prompts) + 1
      BY <2>3, <3>1, FS_AddElement DEF ArmingsCounted
    <3>3. Prompted' \subseteq Prompted \union {Current.by}
      BY <2>1, <2>3 DEF Prompted
    <3>4. /\ IsFiniteSet(Prompted \union {Current.by})
          /\ Cardinality(Prompted \union {Current.by}) \in {Cardinality(Prompted), Cardinality(Prompted) + 1}
      BY FS_AddElement DEF ArmingsCounted
    <3>5. /\ IsFiniteSet(Prompted') /\ Cardinality(Prompted') \in Nat
          /\ Cardinality(Prompted') <= Cardinality(Prompted \union {Current.by})
      BY <3>3, <3>4, FS_Subset, FS_CardinalityType
    <3> QED
      BY <1>0, <2>3, <3>2, <3>4, <3>5 DEF ArmingsCounted
  <2>4. CASE /\ Answers(Current) /\ armings' = armings \union {NewArming} /\ UNCHANGED prompts
             /\ pending' = Consumed
    <3>1. Current.by \in Prompted /\ Prompted' = Prompted \ {Current.by}
      BY <2>1, <2>4 DEF Answers, Prompted, Consumed
    <3>2. IsFiniteSet(Prompted') /\ Cardinality(Prompted') = Cardinality(Prompted) - 1
      BY <3>1, FS_RemoveElement DEF ArmingsCounted
    <3>3. /\ IsFiniteSet(armings')
          /\ Cardinality(armings') \in {Cardinality(armings), Cardinality(armings) + 1}
      BY <2>4, FS_AddElement DEF ArmingsCounted
    <3> QED
      BY <1>0, <2>4, <3>2, <3>3 DEF ArmingsCounted
  <2> QED
    BY <1>2, <2>2, <2>3, <2>4, PromptCases
<1>3. CASE Die
  <2>1. armings' = armings /\ prompts' = prompts /\ Prompted' = {}
    BY <1>3 DEF Die, Prompted
  <2> QED
    BY <1>1, <2>1
<1>4. CASE UNCHANGED <<armings, prompts, pending>>
  BY <1>1, <1>4 DEF Prompted
<1> QED
  BY <1>2, <1>3, <1>4 DEF BotNext, SendUpdate, GetUpdates, RestartSelf, BotCrash, BotTick, botVars

-----------------------------------------------------------------------------
\* While nothing fails and no one prompts, only /pause and /resume of those who
\* may give them change the row, to what they say.
LEMMA SwitchEffect ==
    ASSUME BotTypes, Cursors, PendingBacked, HandleUpdate, callErrs' = 0, prompts' = {}
    PROVE  /\ callErrs = 0 /\ prompts = {}
           /\ IF Current.by \in Authorized /\ Current.text \in {"/pause", "/resume"}
              THEN strategyRow' = (Current.text = "/pause")
              ELSE strategyRow' = strategyRow
<1>1. prompts = {}
  BY PromptCases
<1>2. Current.by \in Users /\ ~Answers(Current)
  BY <1>1, CurrentType DEF HandleUpdate, PendingBacked, Prompted, Answers
<1>3. callErrs \in Nat
  BY DEF BotTypes
<1>4. ~CallFails
  BY <1>3 DEF CallFails
<1>5. CASE Untouched /\ Current.by \notin Authorized
  BY <1>1, <1>5 DEF Untouched
<1>6. CASE SetPause(Current) /\ Current.text \in {"/pause", "/resume"} /\ Current.by \in Authorized
  BY <1>1, <1>4, <1>6 DEF SetPause
<1>7. CASE Ask /\ Current.text = "/ask"
  BY <1>1, <1>4, <1>7 DEF Ask
<1>8. CASE AskReset /\ Current.text = "/ask_reset"
  BY <1>1, <1>4, <1>8 DEF AskReset
<1>9. CASE ReadOnly /\ Current.text \notin {"/killswitch", "/pause", "/resume"}
  BY <1>1, <1>9 DEF ReadOnly
<1>10. CASE KillswitchPrompt(Current)
  BY <1>10 DEF KillswitchPrompt
<1> QED
  BY <1>2, <1>5, <1>6, <1>7, <1>8, <1>9, <1>10, HandleCases

LEMMA RowStep ==
    ASSUME BotTypes, Cursors, HandledBehind, PendingBacked, RowOfReplay, [BotNext]_botVars
    PROVE  RowOfReplay'
<1> SUFFICES ASSUME callErrs' = 0, prompts' = {} PROVE RowOfReplay'
  BY DEF RowOfReplay
<1>0. /\ Len(updates) \in Nat /\ batch \in Nat /\ forgotten \in Nat /\ offset \in Nat
      /\ callErrs \in Nat /\ \A i \in 1 .. Len(updates) : runs[i] \in Nat
  <2>1. \A i \in 1 .. Len(updates) : runs[i] \in Nat
    BY ElementOfSeq DEF BotTypes
  <2>2. Len(updates) \in Nat
    BY DEF BotTypes
  <2> QED
    BY <2>1, <2>2 DEF BotTypes, Cursors
<1>1. ASSUME callErrs = 0, prompts = {}, Switches' = Switches, strategyRow' = strategyRow,
             \A i \in Switches : updates'[i] = updates[i],
             forgotten' = forgotten, batch' \in {0, batch}
      PROVE  RowOfReplay'
  <2>1. \A S \in SUBSET Switches : SaysPause(updates', S) <=> SaysPause(updates, S)
    BY <1>1 DEF SaysPause
  <2>2. \A i \in Switches : i \in Nat /\ i > 0
    BY <1>0 DEF Switches
  <2>3. SaysPause(updates', Switches') <=> SaysPause(updates, Switches)
    BY <1>1, <2>1
  <2>4. SaysPause(updates', {i \in Switches' : i <= batch}) <=> SaysPause(updates, {i \in Switches : i <= batch})
    BY <1>1, <2>1
  <2>5. CASE batch' = batch
    BY <1>1, <2>3, <2>4, <2>5 DEF RowOfReplay
  <2>6. CASE batch' = 0
    <3>1. ~\E i \in Switches' : forgotten' < i /\ i <= batch'
      BY <1>0, <1>1, <2>2, <2>6
    <3> QED
      BY <1>1, <2>3, <3>1 DEF RowOfReplay
  <2> QED
    BY <1>1, <2>5, <2>6
<1>2. ASSUME NEW m \in Mail, SendUpdate(m) PROVE RowOfReplay'
  <2>1. /\ Len(updates') = Len(updates) + 1 /\ runs'[Len(updates) + 1] = 0
        /\ \A i \in 1 .. Len(updates) : runs'[i] = runs[i] /\ updates'[i] = updates[i]
    BY <1>2 DEF SendUpdate, BotTypes
  <2>2. \A i \in 1 .. Len(updates') : i \in 1 .. Len(updates) \/ i = Len(updates) + 1
    BY <1>0, <2>1
  <2>3. 1 .. Len(updates) \subseteq 1 .. Len(updates')
    BY <1>0, <2>1
  <2>4. Switches' = Switches /\ \A i \in Switches : updates'[i] = updates[i]
    BY <1>0, <2>1, <2>2, <2>3 DEF Switches
  <2> QED
    BY <1>1, <1>2, <2>4 DEF SendUpdate
<1>3. CASE GetUpdates
  <2>1. /\ callErrs = 0 /\ prompts = {} /\ batch = offset /\ forgotten' = Confirmed /\ batch' = Confirmed
        /\ UNCHANGED <<updates, runs, strategyRow>>
    BY <1>0, <1>3 DEF GetUpdates
  <2>2. Switches' = Switches
    BY <2>1 DEF Switches
  <2>3. ~\E i \in Switches' : forgotten' < i /\ i <= batch'
    BY <1>0, <2>1 DEF Switches, Confirmed
  <2>4. ASSUME \A i \in Switches : i <= Confirmed PROVE strategyRow <=> SaysPause(updates, Switches)
    <3>1. CASE offset = 0
      BY <2>1, <2>4, <3>1 DEF Confirmed, RowOfReplay
    <3>2. CASE offset # 0
      <4>1. Confirmed = batch
        BY <1>0, <2>1, <3>2 DEF Confirmed
      <4>2. Switches = {i \in Switches : i <= batch}
        BY <2>4, <4>1
      <4>3. (\E i \in Switches : forgotten < i /\ i <= batch) \/ (\A i \in Switches : i <= forgotten)
        BY <1>0, <2>4, <4>1 DEF Switches
      <4> QED
        BY <2>1, <4>2, <4>3 DEF RowOfReplay
    <3> QED
      BY <3>1, <3>2
  <2> QED
    BY <2>1, <2>2, <2>3, <2>4 DEF RowOfReplay
<1>4. CASE HandleUpdate
  <2>1. /\ batch' = batch + 1 /\ batch < offset /\ UNCHANGED <<updates, forgotten>>
        /\ batch + 1 \in 1 .. Len(updates) /\ forgotten <= batch
    BY <1>0, <1>4, CurrentType DEF HandleUpdate, Cursors
  <2>2. /\ callErrs = 0 /\ prompts = {}
        /\ IF Current.by \in Authorized /\ Current.text \in {"/pause", "/resume"}
           THEN strategyRow' = (Current.text = "/pause")
           ELSE strategyRow' = strategyRow
    BY <1>4, SwitchEffect
  <2>3. \A i \in 1 .. Len(updates) : runs'[i] > 0 <=> runs[i] > 0 \/ i = batch + 1
    <3>1. \A i \in 1 .. Len(updates) : runs'[i] = IF i = batch + 1 THEN runs[i] + 1 ELSE runs[i]
      BY <1>4, RunsCounted DEF HandleUpdate
    <3> QED
      BY <1>0, <3>1
  <2>4. CASE Current.by \in Authorized /\ Current.text \in {"/pause", "/resume"}
    <3>1. Switches' = Switches \union {batch + 1}
      BY <2>1, <2>3, <2>4 DEF Switches, Current
    <3>2. ~\A i \in Switches' : i <= forgotten'
      <4>1. batch + 1 \in Switches' /\ forgotten' = forgotten
        BY <2>1, <3>1
      <4>2. ~(batch + 1 <= forgotten)
        BY <1>0, <2>1
      <4> QED
        BY <4>1, <4>2
    <3> DEFINE S == {i \in Switches' : i <= batch'}
    <3>3. batch + 1 \in S /\ \A i \in S : i <= batch + 1 /\ i \in Nat
      BY <1>0, <2>1, <3>1 DEF Switches
    <3>4. \A i \in S : (\A j \in S : j <= i) <=> i = batch + 1
      BY <1>0, <3>3
    <3>5. SaysPause(updates, S) <=> Current.text = "/pause"
      BY <3>3, <3>4 DEF SaysPause, Current
    <3>6. strategyRow' <=> SaysPause(updates', S)
      BY <2>1, <2>2, <2>4, <3>5
    <3> QED
      BY <3>2, <3>6 DEF RowOfReplay
  <2>5. CASE ~(Current.by \in Authorized /\ Current.text \in {"/pause", "/resume"})
    <3>1. Switches' = Switches /\ batch + 1 \notin Switches
      BY <2>1, <2>3, <2>5 DEF Switches, Current
    <3>2. \A i \in Switches : i <= batch' <=> i <= batch
      BY <1>0, <2>1, <3>1 DEF Switches
    <3>3. {i \in Switches' : i <= batch'} = {i \in Switches : i <= batch}
      BY <3>1, <3>2
    <3> QED
      BY <2>1, <2>2, <2>5, <3>1, <3>2, <3>3 DEF RowOfReplay
  <2> QED
    BY <2>4, <2>5
<1>5. CASE RestartSelf
  <2>1. \A i \in 1 .. Len(updates) : runs'[i] = IF i = batch + 1 THEN runs[i] + 1 ELSE runs[i]
    BY <1>5, RunsCounted DEF RestartSelf
  <2>2. Current.text = "/restart" /\ UNCHANGED <<updates, strategyRow, callErrs, prompts, forgotten>> /\ batch' = 0
    BY <1>5 DEF RestartSelf, Restarts, Die
  <2>3. Switches' = Switches
    BY <2>1, <2>2 DEF Switches, Current
  <2> QED
    BY <1>1, <2>2, <2>3
<1>6. CASE BotCrash
  BY <1>1, <1>6 DEF BotCrash, Die, Switches
<1>7. CASE BotTick \/ UNCHANGED botVars
  BY <1>1, <1>7 DEF BotTick, botVars, Switches
<1> QED
  BY <1>2, <1>3, <1>4, <1>5, <1>6, <1>7 DEF BotNext

LEMMA CommandsStep ==
    ASSUME BotInv, [BotNext]_botVars
    PROVE  BotInv'
BY BotTypesStep, HandledStep, PendingStep, ArmingsStep, CountedStep, RowStep, KeyStep DEF BotInv

LEMMA CommandsSafe ==
    ASSUME BotInv
    PROVE  CommandsSound
<1> USE DEF BotInv
<1>1. AtLeastOnce
  BY DEF AtLeastOnce, HandledBehind
<1>2. ArmedOnlyByAnswer
  <2>1. Cardinality(armings) <= Cardinality(prompts)
    BY FS_CardinalityType DEF ArmingsCounted
  <2> QED
    BY <2>1 DEF ArmedOnlyByAnswer, ArmingsBacked
<1>3. ReplayConverges
  <2> SUFFICES ASSUME offset > 0, batch = offset, callErrs = 0, prompts = {}
               PROVE  strategyRow <=> SaysPause(updates, Switches)
    BY DEF ReplayConverges, SaysPause
  <2>1. \A i \in Switches : i <= batch /\ i \in Nat
    BY DEF Switches, HandledBehind
  <2>2. Switches = {i \in Switches : i <= batch}
    BY <2>1
  <2>3. (\E i \in Switches : forgotten < i /\ i <= batch) \/ (\A i \in Switches : i <= forgotten)
    BY <2>1 DEF Cursors
  <2> QED
    BY <2>2, <2>3 DEF RowOfReplay
<1>4. KeyLives => askKey.sid \notin closedSids
  BY DEF KeyLives, KeyOpen
<1> QED
  BY <1>1, <1>2, <1>3, <1>4 DEF CommandsSound

\* For every set of users and updates, any number of deaths of the bot and of
\* failing calls: CommandPoller loses no update, arms the kill switch only on
\* a prompt of the same user, life and time, ends a replayed batch where it
\* ended before, and never asks a session that /ask_reset has closed.
THEOREM CommandsAreSound == BotSpec => []CommandsSound
BY BotInitial, CommandsStep, CommandsSafe, PTL DEF BotSpec

-----------------------------------------------------------------------------
TurnPlaces == {"idle", "check", "refused", "call", "upsert", "record", "done", "failed"}

CopilotTypes ==
    /\ at \in [Turns -> TurnPlaces] /\ session \in [Turns -> Sessions]
    /\ prior \in [Turns -> Seq(Turns)] /\ conversation \in [Sessions -> Seq(Turns)]
    /\ usage \in [sessions : Nat, cost : Nat]
    /\ peak \in Nat /\ answered \subseteq Turns /\ unrecorded \subseteq Turns

\* Where the turns are: those past the check, the first ones of a session among
\* them, and those that were recorded.
Placed(pc, P) == {t \in Turns : pc[t] \in P}
Passed == Placed(at, {"call", "upsert", "record"})
FirstPassed == {t \in Passed : IsFirst(t)}

\* The places of a turn say whether it was answered and whether it failed.
AnswersPlaced ==
    /\ answered \ unrecorded = Placed(at, {"upsert", "record", "done"})
    /\ answered \subseteq Placed(at, {"upsert", "record", "done", "failed"})
    /\ unrecorded \subseteq answered

\* The cost of the day is that of the recorded turns; the caps bound what was
\* spent together with what is still running.
SpendingBounded ==
    /\ IsFiniteSet(Passed) /\ IsFiniteSet(Placed(at, {"done"}))
    /\ usage.cost = Cardinality(Placed(at, {"done"}))
    /\ \/ usage.cost = 0 /\ Passed = {}
       \/ usage.cost + Cardinality(Passed) + 1 <= CostCap + peak
    /\ \/ usage.sessions = 0 /\ FirstPassed = {}
       \/ usage.sessions + Cardinality(FirstPassed) + 1 <= SessionCap + peak

\* A thread of a session: answered turns of the session, none twice.
Thread(c, s, of, done) ==
    /\ IsInjective(c) /\ Len(c) <= TokenCap
    /\ \A i \in DOMAIN c : of[c[i]] = s /\ c[i] \in done

\* What is stored is a thread, and so is what a turn has read; it does not hold
\* the turn itself and, once the turn is past the check, leaves room for it.
ThreadsKept ==
    /\ \A s \in Sessions :
          /\ Thread(conversation[s], s, session, answered)
          /\ conversation[s] # << >> => Front(conversation[s]) = prior[Last(conversation[s])]
    /\ \A t \in Turns :
          /\ Thread(prior[t], session[t], session, answered)
          /\ \A i \in DOMAIN prior[t] : prior[t][i] # t
          /\ t \in Passed => Len(prior[t]) < TokenCap

CopilotInv == CopilotTypes /\ AnswersPlaced /\ SpendingBounded /\ ThreadsKept

-----------------------------------------------------------------------------
LEMMA TurnMoves ==
    ASSUME CopilotTypes, NEW t \in Turns, NEW pc, Go(t, pc), NEW P
    PROVE  /\ at'[t] = pc /\ \A u \in Turns : u # t => at'[u] = at[u]
           /\ Placed(at', P) = IF pc \in P THEN Placed(at, P) \union {t} ELSE Placed(at, P) \ {t}
<1>1. at'[t] = pc /\ \A u \in Turns : u # t => at'[u] = at[u]
  BY DEF CopilotTypes, Go
<1>2. CASE pc \in P
  BY <1>1, <1>2 DEF Placed
<1>3. CASE pc \notin P
  BY <1>1, <1>3 DEF Placed
<1> QED
  BY <1>1, <1>2, <1>3

LEMMA CopilotInitial == CopilotInit => CopilotInv
<1> SUFFICES ASSUME CopilotInit PROVE CopilotInv
  OBVIOUS
<1>1. CopilotTypes
  BY DEF CopilotInit, CopilotTypes, TurnPlaces
<1>2. /\ Passed = {} /\ Placed(at, {"done"}) = {} /\ FirstPassed = {}
      /\ Placed(at, {"upsert", "record", "done"}) = {}
  BY DEF CopilotInit, Passed, FirstPassed, Placed
<1>3. AnswersPlaced
  BY <1>2 DEF AnswersPlaced, CopilotInit
<1>4. SpendingBounded
  BY <1>2, FS_EmptySet DEF SpendingBounded, CopilotInit
<1>5. \A s : Thread(<< >>, s, session, answered)
  BY CopilotAssumption DEF Thread, IsInjective
<1>6. ThreadsKept
  BY <1>2, <1>5 DEF ThreadsKept, CopilotInit
<1> QED
  BY <1>1, <1>3, <1>4, <1>6 DEF CopilotInv

\* The peak is at least the number of turns past the check.
LEMMA PeakCovers ==
    ASSUME CopilotTypes, SpendingBounded, NEW t \in Turns, CheckBeforeTurn(t)
    PROVE  /\ IsFiniteSet(Passed') /\ peak' \in Nat
           /\ peak' >= peak /\ peak' >= Cardinality(Passed')
<1>1. Passed' = Passed \union {t} \/ Passed' = Passed \ {t}
  <2>1. PICK pc : Go(t, pc)
    BY DEF CheckBeforeTurn
  <2> QED
    BY <2>1, TurnMoves DEF Passed
<1>2. IsFiniteSet(Passed') /\ Cardinality(Passed') \in Nat
  <2>1. IsFiniteSet(Passed')
    BY <1>1, FS_AddElement, FS_RemoveElement DEF SpendingBounded
  <2> QED
    BY <2>1, FS_CardinalityType
<1>3. Running(at') = Cardinality(Passed')
  BY DEF Running, Passed, Placed
<1>4. peak' = IF Cardinality(Passed') > peak THEN Cardinality(Passed') ELSE peak
  BY <1>3 DEF CheckBeforeTurn
<1> QED
  BY <1>2, <1>4 DEF CopilotTypes

LEMMA CopilotTypesStep ==
    ASSUME CopilotTypes, SpendingBounded, [CopilotNext]_copilotVars
    PROVE  CopilotTypes'
<1> USE DEF CopilotTypes, TurnPlaces, Go
<1>1. ASSUME NEW t \in Turns, GetBySession(t) PROVE CopilotTypes'
  BY <1>1 DEF GetBySession
<1>2. ASSUME NEW t \in Turns, CheckBeforeTurn(t) PROVE CopilotTypes'
  <2>1. peak' \in Nat
    BY <1>2, PeakCovers
  <2> QED
    BY <1>2, <2>1 DEF CheckBeforeTurn
<1>3. ASSUME NEW t \in Turns, ChatCompletion(t) PROVE CopilotTypes'
  <2>1. at' \in [Turns -> TurnPlaces]
    BY <1>3 DEF ChatCompletion
  <2>2. answered' \subseteq Turns /\ unrecorded' \subseteq Turns
    BY <1>3 DEF ChatCompletion
  <2> QED
    BY <1>3, <2>1, <2>2 DEF ChatCompletion
<1>4. ASSUME NEW t \in Turns, UpsertTurn(t) PROVE CopilotTypes'
  <2>1. conversation' \in [Sessions -> Seq(Turns)]
    <3>1. Append(prior[t], t) \in Seq(Turns)
      OBVIOUS
    <3> QED
      BY <1>4, <3>1 DEF UpsertTurn
  <2>2. at' \in [Turns -> TurnPlaces] /\ unrecorded' \subseteq Turns
    BY <1>4 DEF UpsertTurn
  <2> QED
    BY <1>4, <2>1, <2>2 DEF UpsertTurn
<1>5. ASSUME NEW t \in Turns, RecordTurn(t) PROVE CopilotTypes'
  <2>1. usage' \in [sessions : Nat, cost : Nat]
    BY <1>5 DEF RecordTurn
  <2> QED
    BY <1>5, <2>1 DEF RecordTurn
<1>6. ASSUME NEW s \in Sessions, Reset(s) PROVE CopilotTypes'
  BY <1>6 DEF Reset
<1>7. CASE UNCHANGED copilotVars
  BY <1>7 DEF copilotVars
<1> QED
  BY <1>1, <1>2, <1>3, <1>4, <1>5, <1>6, <1>7 DEF CopilotNext

LEMMA AnswersStep ==
    ASSUME CopilotTypes, AnswersPlaced, [CopilotNext]_copilotVars
    PROVE  AnswersPlaced'
<1> DEFINE Kept == {"upsert", "record", "done"}
           Paid == {"upsert", "record", "done", "failed"}
<1>0. answered \ unrecorded = Placed(at, Kept) /\ answered \subseteq Placed(at, Paid)
      /\ unrecorded \subseteq answered
  BY DEF AnswersPlaced
<1>1. ASSUME NEW t \in Turns, NEW pc, Go(t, pc), UNCHANGED <<answered, unrecorded>>,
             pc \in Kept <=> at[t] \in Kept, at[t] \in Paid => pc \in Paid
      PROVE  AnswersPlaced'
  <2>1. Placed(at', Kept) = Placed(at, Kept) /\ Placed(at, Paid) \subseteq Placed(at', Paid)
    BY <1>1, TurnMoves DEF Placed
  <2> QED
    BY <1>0, <1>1, <2>1 DEF AnswersPlaced
<1>2. ASSUME NEW t \in Turns, Go(t, "failed"), at[t] \in Kept \union {"call"},
             unrecorded' = unrecorded \union {t}, answered' = answered \union {t}
      PROVE  AnswersPlaced'
  <2>1. Placed(at', Kept) = Placed(at, Kept) \ {t} /\ Placed(at', Paid) = Placed(at, Paid) \union {t}
    BY <1>2, TurnMoves
  <2> QED
    BY <1>0, <1>2, <2>1 DEF AnswersPlaced
<1>3. ASSUME NEW t \in Turns, ChatCompletion(t) PROVE AnswersPlaced'
  <2>0. at[t] = "call" /\ t \notin answered
    BY <1>0, <1>3 DEF ChatCompletion, Placed
  <2>1. CASE Go(t, "upsert") /\ answered' = answered \union {t} /\ UNCHANGED unrecorded
    <3>1. Placed(at', Kept) = Placed(at, Kept) \union {t} /\ Placed(at', Paid) = Placed(at, Paid) \union {t}
      BY <2>1, TurnMoves
    <3> QED
      BY <1>0, <2>0, <2>1, <3>1 DEF AnswersPlaced
  <2>2. CASE Go(t, "failed") /\ UNCHANGED <<answered, unrecorded>>
    BY <1>1, <2>0, <2>2
  <2>3. CASE Go(t, "failed") /\ answered' = answered \union {t} /\ unrecorded' = unrecorded \union {t}
    BY <1>2, <2>0, <2>3
  <2> QED
    BY <1>3, <2>1, <2>2, <2>3 DEF ChatCompletion
<1>4. ASSUME NEW t \in Turns, UpsertTurn(t) PROVE AnswersPlaced'
  <2>1. at[t] = "upsert" /\ t \in answered /\ answered' = answered
    BY <1>0, <1>4 DEF UpsertTurn, Placed
  <2>2. CASE Go(t, "record") /\ UNCHANGED unrecorded
    BY <1>1, <2>1, <2>2
  <2>3. CASE Go(t, "failed") /\ unrecorded' = unrecorded \union {t}
    BY <1>2, <2>1, <2>3
  <2> QED
    BY <1>4, <2>2, <2>3 DEF UpsertTurn
<1>5. ASSUME NEW t \in Turns, RecordTurn(t) PROVE AnswersPlaced'
  <2>1. at[t] = "record" /\ t \in answered /\ answered' = answered
    BY <1>0, <1>5 DEF RecordTurn, Placed
  <2>2. CASE Go(t, "done") /\ UNCHANGED unrecorded
    BY <1>1, <2>1, <2>2
  <2>3. CASE Go(t, "failed") /\ unrecorded' = unrecorded \union {t}
    BY <1>2, <2>1, <2>3
  <2> QED
    BY <1>5, <2>2, <2>3 DEF RecordTurn
<1>6. ASSUME NEW t \in Turns, GetBySession(t) PROVE AnswersPlaced'
  BY <1>1, <1>6 DEF GetBySession
<1>7. ASSUME NEW t \in Turns, CheckBeforeTurn(t) PROVE AnswersPlaced'
  <2>1. PICK pc \in {"refused", "call"} : Go(t, pc)
    BY <1>7 DEF CheckBeforeTurn
  <2> QED
    BY <1>1, <1>7, <2>1 DEF CheckBeforeTurn
<1>8. CASE UNCHANGED <<at, answered, unrecorded>>
  BY <1>8 DEF AnswersPlaced, Placed
<1> QED
  BY <1>3, <1>4, <1>5, <1>6, <1>7, <1>8 DEF CopilotNext, Reset, copilotVars

LEMMA SpendingStep ==
    ASSUME CopilotTypes, SpendingBounded, [CopilotNext]_copilotVars
    PROVE  SpendingBounded'
<1> DEFINE Past == {"call", "upsert", "record"}
           Done == Placed(at, {"done"})
<1>0. /\ Cardinality(Passed) \in Nat /\ Cardinality(FirstPassed) \in Nat /\ Cardinality(Done) \in Nat
      /\ IsFiniteSet(FirstPassed) /\ usage.cost \in Nat /\ usage.sessions \in Nat
      /\ {CostCap, SessionCap, peak} \subseteq Nat
  <2>1. FirstPassed \subseteq Passed
    BY DEF FirstPassed
  <2>2. IsFiniteSet(FirstPassed)
    BY <2>1, FS_Subset DEF SpendingBounded
  <2> QED
    BY <2>2, FS_CardinalityType, CopilotAssumption DEF SpendingBounded, CopilotTypes
\* A step that lets no turn pass and records none spends nothing.
<1>1. ASSUME UNCHANGED <<usage>>, peak' \in Nat, peak' >= peak,
             Passed' \subseteq Passed, Placed(at', {"done"}) = Done,
             \A u \in Passed : prior'[u] = prior[u]
      PROVE  SpendingBounded'
  <2>1. FirstPassed' \subseteq FirstPassed
    BY <1>1 DEF FirstPassed, IsFirst
  <2>2. /\ IsFiniteSet(Passed') /\ Cardinality(Passed') <= Cardinality(Passed)
        /\ Cardinality(FirstPassed') <= Cardinality(FirstPassed)
        /\ Cardinality(Passed') \in Nat /\ Cardinality(FirstPassed') \in Nat
    BY <1>0, <1>1, <2>1, FS_Subset, FS_CardinalityType DEF SpendingBounded
  <2>3. /\ IsFiniteSet(Placed(at', {"done"})) /\ usage'.cost = Cardinality(Placed(at', {"done"}))
    BY <1>1 DEF SpendingBounded
  <2>4. \/ usage'.cost = 0 /\ Passed' = {}
        \/ usage'.cost + Cardinality(Passed') + 1 <= CostCap + peak'
    BY <1>0, <1>1, <2>2 DEF SpendingBounded
  <2>5. \/ usage'.sessions = 0 /\ FirstPassed' = {}
        \/ usage'.sessions + Cardinality(FirstPassed') + 1 <= SessionCap + peak'
    BY <1>0, <1>1, <2>1, <2>2 DEF SpendingBounded
  <2> QED
    BY <2>2, <2>3, <2>4, <2>5 DEF SpendingBounded
<1>2. ASSUME NEW t \in Turns, NEW pc, Go(t, pc), UNCHANGED <<usage, peak>>,
             pc \in Past => at[t] \in Past, pc # "done", at[t] # "done",
             \A u \in Passed : prior'[u] = prior[u]
      PROVE  SpendingBounded'
  <2>1. Passed' \subseteq Passed /\ Placed(at', {"done"}) = Done
    BY <1>2, TurnMoves DEF Passed, Placed
  <2> QED
    BY <1>0, <1>1, <1>2, <2>1
<1>3. ASSUME NEW t \in Turns, CheckBeforeTurn(t), ~OverLimit(t) PROVE SpendingBounded'
  <2>1. /\ Go(t, "call") /\ at[t] = "check" /\ UNCHANGED <<usage, prior>>
        /\ usage.cost < CostCap /\ (IsFirst(t) => usage.sessions < SessionCap)
    BY <1>0, <1>3 DEF CheckBeforeTurn, OverLimit
  <2>2. Passed' = Passed \union {t} /\ Placed(at', {"done"}) = Done
    BY <2>1, TurnMoves DEF Passed, Placed
  <2>3. IsFiniteSet(Passed') /\ peak' \in Nat /\ peak' >= peak /\ peak' >= Cardinality(Passed')
    BY <1>3, PeakCovers
  <2>4. FirstPassed' = IF IsFirst(t) THEN FirstPassed \union {t} ELSE FirstPassed
    <3>1. t \notin Passed
      BY <2>1 DEF Passed, Placed
    <3> QED
      BY <2>1, <2>2, <3>1 DEF FirstPassed, IsFirst
  <2>5. FirstPassed' \subseteq Passed'
    BY DEF FirstPassed
  <2>6. /\ Cardinality(FirstPassed') <= Cardinality(Passed') /\ Cardinality(Passed') \in Nat
        /\ Cardinality(FirstPassed') \in Nat
    BY <2>3, <2>5, FS_Subset, FS_CardinalityType
  <2>7. usage'.cost + Cardinality(Passed') + 1 <= CostCap + peak'
    BY <1>0, <2>1, <2>3, <2>6
  <2>8. \/ usage'.sessions = 0 /\ FirstPassed' = {}
        \/ usage'.sessions + Cardinality(FirstPassed') + 1 <= SessionCap + peak'
    <3>1. CASE IsFirst(t)
      BY <1>0, <2>1, <2>3, <2>6, <3>1
    <3>2. CASE ~IsFirst(t)
      BY <1>0, <2>1, <2>3, <2>4, <3>2 DEF SpendingBounded
    <3> QED
      BY <3>1, <3>2
  <2> QED
    BY <2>1, <2>2, <2>3, <2>7, <2>8 DEF SpendingBounded
<1>4. ASSUME NEW t \in Turns, CheckBeforeTurn(t), OverLimit(t) PROVE SpendingBounded'
  <2>1. Go(t, "refused") /\ at[t] = "check" /\ UNCHANGED <<usage, prior>>
    BY <1>4 DEF CheckBeforeTurn
  <2>2. Passed' \subseteq Passed /\ Placed(at', {"done"}) = Done
    BY <2>1, TurnMoves DEF Passed, Placed
  <2> QED
    BY <1>1, <1>4, <2>1, <2>2, PeakCovers
<1>5. ASSUME NEW t \in Turns, RecordTurn(t), Go(t, "done"),
             usage' = [sessions |-> usage.sessions + (IF IsFirst(t) THEN 1 ELSE 0), cost |-> usage.cost + 1]
      PROVE  SpendingBounded'
  <2>1. at[t] = "record" /\ UNCHANGED <<prior, peak>> /\ t \in Passed /\ t \notin Done
    BY <1>5 DEF RecordTurn, Passed, Placed
  <2>2. Passed' = Passed \ {t} /\ Placed(at', {"done"}) = Done \union {t}
    BY <1>5, TurnMoves DEF Passed
  <2>3. FirstPassed' = FirstPassed \ {t} /\ (t \in FirstPassed <=> IsFirst(t))
    BY <2>1, <2>2 DEF FirstPassed, IsFirst
  <2>4. /\ IsFiniteSet(Passed') /\ Cardinality(Passed') = Cardinality(Passed) - 1
        /\ IsFiniteSet(Placed(at', {"done"})) /\ Cardinality(Placed(at', {"done"})) = Cardinality(Done) + 1
    BY <2>1, <2>2, FS_AddElement, FS_RemoveElement DEF SpendingBounded
  <2>5. Cardinality(FirstPassed') = Cardinality(FirstPassed) - (IF IsFirst(t) THEN 1 ELSE 0)
    <3>1. Cardinality(FirstPassed \ {t}) =
             IF t \in FirstPassed THEN Cardinality(FirstPassed) - 1 ELSE Cardinality(FirstPassed)
      BY <1>0, FS_RemoveElement
    <3> QED
      BY <1>0, <2>3, <3>1
  <2>6. usage'.cost = usage.cost + 1 /\ usage'.sessions = usage.sessions + (IF IsFirst(t) THEN 1 ELSE 0)
    BY <1>5
  <2>7. usage'.cost + Cardinality(Passed') + 1 <= CostCap + peak'
    BY <1>0, <2>1, <2>4, <2>6 DEF SpendingBounded
  <2>8. \/ usage'.sessions = 0 /\ FirstPassed' = {}
        \/ usage'.sessions + Cardinality(FirstPassed') + 1 <= SessionCap + peak'
    <3>1. CASE IsFirst(t)
      BY <1>0, <2>1, <2>3, <2>5, <2>6, <3>1 DEF SpendingBounded
    <3>2. CASE ~IsFirst(t)
      BY <1>0, <2>1, <2>3, <2>5, <2>6, <3>2 DEF SpendingBounded
    <3> QED
      BY <3>1, <3>2
  <2> QED
    BY <2>4, <2>6, <2>7, <2>8 DEF SpendingBounded
<1>6. ASSUME NEW t \in Turns, GetBySession(t) PROVE SpendingBounded'
  <2>1. Go(t, "check") /\ at[t] = "idle" /\ UNCHANGED <<usage, peak>>
    BY <1>6 DEF GetBySession
  <2>2. \A u \in Passed : prior'[u] = prior[u]
    BY <1>6, <2>1 DEF GetBySession, Passed, Placed, CopilotTypes
  <2> QED
    BY <1>2, <2>1, <2>2
<1>7. ASSUME NEW t \in Turns, ChatCompletion(t) PROVE SpendingBounded'
  <2>1. at[t] = "call" /\ UNCHANGED <<usage, peak, prior>> /\ \E pc \in {"upsert", "failed"} : Go(t, pc)
    BY <1>7 DEF ChatCompletion
  <2> QED
    BY <1>2, <2>1
<1>8. ASSUME NEW t \in Turns, UpsertTurn(t) PROVE SpendingBounded'
  <2>1. at[t] = "upsert" /\ UNCHANGED <<usage, peak, prior>> /\ \E pc \in {"record", "failed"} : Go(t, pc)
    BY <1>8 DEF UpsertTurn
  <2> QED
    BY <1>2, <2>1
<1>9. ASSUME NEW t \in Turns, RecordTurn(t) PROVE SpendingBounded'
  <2>1. CASE Go(t, "failed") /\ UNCHANGED usage
    BY <1>2, <1>9, <2>1 DEF RecordTurn
  <2> QED
    BY <1>5, <1>9, <2>1 DEF RecordTurn
<1>10. CASE UNCHANGED <<at, usage, peak, prior>>
  <2>1. Passed' = Passed /\ Placed(at', {"done"}) = Done
    BY <1>10 DEF Passed, Placed
  <2>2. peak' \in Nat /\ peak' >= peak
    BY <1>0, <1>10
  <2> QED
    BY <1>1, <1>10, <2>1, <2>2
<1> QED
  BY <1>3, <1>4, <1>6, <1>7, <1>8, <1>9, <1>10 DEF CopilotNext, Reset, copilotVars

\* What a turn appends to the thread it has read is a thread again, and comes
\* apart into the two.
LEMMA AppendThread ==
    ASSUME NEW c \in Seq(Turns), NEW t \in Turns, IsInjective(c),
           \A i \in DOMAIN c : c[i] # t
    PROVE  LET d == Append(c, t) IN
           /\ IsInjective(d) /\ Len(d) = Len(c) + 1 /\ d # << >>
           /\ \A i \in DOMAIN d : d[i] = t \/ (i \in DOMAIN c /\ d[i] = c[i])
           /\ Front(d) = c /\ Last(d) = t
<1> DEFINE d == Append(c, t)
<1>1. /\ d \in Seq(Turns) /\ Len(d) = Len(c) + 1 /\ Len(c) \in Nat
      /\ DOMAIN d = 1 .. Len(c) + 1 /\ DOMAIN c = 1 .. Len(c)
      /\ \A i \in 1 .. Len(c) : d[i] = c[i] 
      /\ d[Len(c) + 1] = t
  OBVIOUS
<1> HIDE DEF d
<1>2. \A i \in DOMAIN d : i \in DOMAIN c \/ i = Len(c) + 1
  BY <1>1
<1>3. IsInjective(d)
  <2> SUFFICES ASSUME NEW i \in DOMAIN d, NEW j \in DOMAIN d, d[i] = d[j] PROVE i = j
    BY DEF IsInjective
  <2>1. CASE i \in DOMAIN c /\ j \in DOMAIN c
    BY <1>1, <2>1 DEF IsInjective
  <2>2. CASE i = Len(c) + 1 \/ j = Len(c) + 1
    BY <1>1, <1>2, <2>2
  <2> QED
    BY <1>2, <2>1, <2>2
<1>4. d # << >>
  BY <1>1, EmptySeq
<1>5. Front(d) = c
  <2>1. SubSeq(d, 1, Len(c)) \in Seq(Turns) /\ Len(SubSeq(d, 1, Len(c))) = Len(c)
    BY <1>1, SubSeqProperties
  <2>2. \A i \in 1 .. Len(c) : SubSeq(d, 1, Len(c))[i] = c[i]
    BY <1>1, SubSeqProperties
  <2>3. SubSeq(d, 1, Len(c)) = c
    BY <2>1, <2>2, SeqEqual
  <2>4. Len(d) - 1 = Len(c)
    BY <1>1
  <2> QED
    BY <2>3, <2>4 DEF Front
<1>6. Last(d) = t
  BY <1>1 DEF Last
<1> QED
  BY <1>1, <1>2, <1>3, <1>4, <1>5, <1>6 DEF d

\* Threads stay threads while sessions are fixed and answers only come in.
LEMMA ThreadGrows ==
    ASSUME session' = session, answered \subseteq answered', NEW c, NEW s, Thread(c, s, session, answered)
    PROVE  Thread(c, s, session', answered')
BY DEF Thread

LEMMA LastInSeq ==
    ASSUME NEW S, NEW c \in Seq(S), c # << >>
    PROVE  Len(c) \in DOMAIN c /\ Last(c) \in S
<1>1. Len(c) \in Nat /\ Len(c) # 0 /\ DOMAIN c = 1 .. Len(c)
  BY EmptySeq
<1>2. \A n \in Nat : n # 0 => n \in 1 .. n
  OBVIOUS
<1>3. Len(c) \in 1 .. Len(c)
  BY <1>1, <1>2, Zenon
<1> QED
  BY <1>1, <1>3, ElementOfSeq DEF Last

LEMMA ThreadsStep ==
    ASSUME CopilotTypes, AnswersPlaced, ThreadsKept, [CopilotNext]_copilotVars
    PROVE  ThreadsKept'
<1> DEFINE Stored(s) == /\ Thread(conversation[s], s, session, answered)
                        /\ conversation[s] # << >> =>
                              Front(conversation[s]) = prior[Last(conversation[s])]
           HasRead(t) == /\ Thread(prior[t], session[t], session, answered)
                         /\ \A i \in DOMAIN prior[t] : prior[t][i] # t
<1>0. \A s \in Sessions : Stored(s)
  BY DEF ThreadsKept
<1>1. \A t \in Turns : HasRead(t) /\ (t \in Passed => Len(prior[t]) < TokenCap)
  BY DEF ThreadsKept
<1>2. ASSUME session' = session, answered \subseteq answered', prior' = prior,
             Passed' \subseteq Passed, conversation' = conversation
      PROVE  ThreadsKept'
  BY <1>2, ThreadGrows DEF ThreadsKept
<1>3. ASSUME NEW t \in Turns, GetBySession(t) PROVE ThreadsKept'
  <2>1. /\ UNCHANGED <<session, conversation, answered>> /\ Go(t, "check") /\ at[t] = "idle"
        /\ prior'[t] = conversation[session[t]] /\ \A u \in Turns : u # t => prior'[u] = prior[u]
        /\ session[t] \in Sessions
    BY <1>3 DEF GetBySession, CopilotTypes
  <2>2. Passed' \subseteq Passed /\ t \notin answered /\ t \notin Passed'
    BY <2>1, TurnMoves DEF Passed, Placed, AnswersPlaced
  <2>3. \A c, s : Thread(c, s, session, answered) => Thread(c, s, session', answered')
    BY <2>1, ThreadGrows
  <2>4. ASSUME NEW s \in Sessions PROVE Stored(s)'
    <3>1. CASE conversation[s] = << >>
      BY <1>0, <2>1, <2>3, <3>1
    <3>2. CASE conversation[s] # << >>
      <4>1. Last(conversation[s]) \in answered /\ Last(conversation[s]) \in Turns
        <5>1. Len(conversation[s]) \in DOMAIN conversation[s] /\ Last(conversation[s]) \in Turns
          BY <3>2, LastInSeq DEF CopilotTypes
        <5> QED
          BY <1>0, <5>1 DEF Thread, Last
      <4>2. prior'[Last(conversation[s])] = prior[Last(conversation[s])]
        BY <2>1, <2>2, <4>1
      <4> QED
        BY <1>0, <2>1, <2>3, <4>2
    <3> QED
      BY <3>1, <3>2
  <2>5. ASSUME NEW u \in Turns PROVE HasRead(u)'
    <3>1. CASE u = t
      <4>1. Thread(conversation[session[t]], session[t], session, answered)
        BY <1>0, <2>1
      <4>2. \A i \in DOMAIN conversation[session[t]] : conversation[session[t]][i] # t
        BY <2>2, <4>1 DEF Thread
      <4> QED
        BY <2>1, <2>3, <3>1, <4>1, <4>2
    <3>2. CASE u # t
      BY <1>1, <2>1, <2>3, <3>2
    <3> QED
      BY <3>1, <3>2
  <2>6. \A u \in Turns : u \in Passed' => Len(prior'[u]) < TokenCap
    BY <1>1, <2>1, <2>2
  <2> QED
    BY <2>4, <2>5, <2>6 DEF ThreadsKept
<1>4. ASSUME NEW t \in Turns, CheckBeforeTurn(t) PROVE ThreadsKept'
  <2>1. CASE OverLimit(t)
    <3>1. Go(t, "refused") /\ UNCHANGED <<session, prior, conversation, answered>>
      BY <1>4, <2>1 DEF CheckBeforeTurn
    <3>2. Passed' \subseteq Passed
      BY <3>1, TurnMoves DEF Passed
    <3> QED
      BY <1>2, <3>1, <3>2
  <2>2. CASE ~OverLimit(t)
    <3>1. /\ Go(t, "call") /\ UNCHANGED <<session, prior, conversation, answered>>
          /\ ~(Len(prior[t]) >= TokenCap)
      BY <1>4, <2>2 DEF CheckBeforeTurn, OverLimit
    <3>2. Len(prior[t]) < TokenCap
      BY <3>1, CopilotAssumption DEF CopilotTypes
    <3>3. Passed' = Passed \union {t}
      BY <3>1, TurnMoves DEF Passed
    <3> QED
      BY <3>1, <3>2, <3>3, ThreadGrows DEF ThreadsKept
  <2> QED
    BY <2>1, <2>2
<1>5. ASSUME NEW t \in Turns, ChatCompletion(t) PROVE ThreadsKept'
  <2>1. /\ at[t] = "call" /\ \E pc \in {"upsert", "failed"} : Go(t, pc)
        /\ UNCHANGED <<session, prior, conversation>> /\ answered \subseteq answered'
    BY <1>5 DEF ChatCompletion
  <2>2. Passed' \subseteq Passed
    BY <2>1, TurnMoves DEF Passed, Placed
  <2> QED
    BY <1>2, <2>1, <2>2
<1>6. ASSUME NEW t \in Turns, UpsertTurn(t) PROVE ThreadsKept'
  <2>1. /\ at[t] = "upsert" /\ \E pc \in {"record", "failed"} : Go(t, pc)
        /\ UNCHANGED <<session, prior, answered>>
    BY <1>6 DEF UpsertTurn
  <2>2. Passed' \subseteq Passed /\ t \in Passed /\ t \in answered
    BY <2>1, TurnMoves DEF Passed, Placed, AnswersPlaced
  <2>3. CASE conversation' = conversation
    BY <1>2, <2>1, <2>2, <2>3
  <2>4. CASE conversation' = [conversation EXCEPT ![session[t]] = Append(prior[t], t)]
    <3> DEFINE d == Append(prior[t], t)
    <3>1. /\ prior[t] \in Seq(Turns) /\ IsInjective(prior[t]) /\ Len(prior[t]) < TokenCap
          /\ \A i \in DOMAIN prior[t] : prior[t][i] # t
      BY <1>1, <2>2 DEF CopilotTypes, Thread
    <3>2. /\ IsInjective(d) /\ Len(d) = Len(prior[t]) + 1 /\ d # << >>
          /\ \A i \in DOMAIN d : d[i] = t \/ (i \in DOMAIN prior[t] /\ d[i] = prior[t][i])
          /\ Front(d) = prior[t] /\ Last(d) = t
      BY <3>1, AppendThread
    <3> HIDE DEF d
    <3>3. Len(d) <= TokenCap
      BY <3>1, <3>2, CopilotAssumption
    <3>4. \A i \in DOMAIN d : session[d[i]] = session[t] /\ d[i] \in answered
      BY <1>1, <2>2, <3>2 DEF Thread
    <3>5. Thread(d, session[t], session', answered')
      BY <2>1, <3>2, <3>3, <3>4 DEF Thread
    <3>6. /\ conversation'[session[t]] = d
          /\ \A s \in Sessions : s # session[t] => conversation'[s] = conversation[s]
      BY <2>4 DEF CopilotTypes, d
    <3>7. ASSUME NEW s \in Sessions PROVE Stored(s)'
      <4>1. CASE s = session[t]
        BY <2>1, <3>2, <3>5, <3>6, <4>1
      <4>2. CASE s # session[t]
        BY <1>0, <2>1, <3>6, <4>2, ThreadGrows
      <4> QED
        BY <4>1, <4>2
    <3>8. \A u \in Turns : HasRead(u)' /\ (u \in Passed' => Len(prior'[u]) < TokenCap)
      BY <1>1, <2>1, <2>2, ThreadGrows
    <3> QED
      BY <3>7, <3>8 DEF ThreadsKept
  <2> QED
    BY <1>6, <2>3, <2>4 DEF UpsertTurn
<1>7. ASSUME NEW t \in Turns, RecordTurn(t) PROVE ThreadsKept'
  <2>1. /\ at[t] = "record" /\ \E pc \in {"done", "failed"} : Go(t, pc)
        /\ UNCHANGED <<session, prior, conversation, answered>>
    BY <1>7 DEF RecordTurn
  <2>2. Passed' \subseteq Passed
    BY <2>1, TurnMoves DEF Passed
  <2> QED
    BY <1>2, <2>1, <2>2
<1>8. ASSUME NEW s \in Sessions, Reset(s) PROVE ThreadsKept'
  <2>1. /\ UNCHANGED <<at, session, prior, answered>> /\ conversation'[s] = << >>
        /\ \A r \in Sessions : r # s => conversation'[r] = conversation[r]
    BY <1>8 DEF Reset, CopilotTypes
  <2>2. Passed' = Passed
    BY <2>1 DEF Passed, Placed
  <2>3. Thread(<< >>, s, session', answered')
    BY CopilotAssumption DEF Thread, IsInjective
  <2>4. \A r \in Sessions : Stored(r)'
    BY <1>0, <2>1, <2>3, ThreadGrows
  <2>5. \A u \in Turns : HasRead(u)' /\ (u \in Passed' => Len(prior'[u]) < TokenCap)
    BY <1>1, <2>1, <2>2, ThreadGrows
  <2> QED
    BY <2>4, <2>5 DEF ThreadsKept
<1>9. CASE UNCHANGED copilotVars
  BY <1>2, <1>9 DEF copilotVars, Passed, Placed
<1> QED
  BY <1>3, <1>4, <1>5, <1>6, <1>7, <1>8, <1>9 DEF CopilotNext

LEMMA CopilotStep ==
    ASSUME CopilotInv, [CopilotNext]_copilotVars
    PROVE  CopilotInv'
BY CopilotTypesStep, AnswersStep, SpendingStep, ThreadsStep DEF CopilotInv

LEMMA CopilotSafe ==
    ASSUME CopilotInv
    PROVE  CopilotSound
<1> USE DEF CopilotInv
<1> DEFINE U == {t \in Turns : at[t] = "upsert"}
           R == {t \in Turns : at[t] = "record"}
           D == Placed(at, {"done"})
<1>1. usage.cost = Cardinality(answered \ unrecorded) - Count("upsert") - Count("record")
  <2>1. /\ answered \ unrecorded = (U \union R) \union D
        /\ U \intersect R = {} /\ (U \union R) \intersect D = {}
        /\ U \subseteq Passed /\ R \subseteq Passed
    BY DEF AnswersPlaced, Placed, Passed
  <2>2. IsFiniteSet(U) /\ IsFiniteSet(R) /\ IsFiniteSet(D)
    BY <2>1, FS_Subset DEF SpendingBounded
  <2>3. IsFiniteSet(U \union R) /\ Cardinality(U \union R) = Cardinality(U) + Cardinality(R) - Cardinality({})
    BY <2>1, <2>2, FS_Union
  <2>4. Cardinality(answered \ unrecorded) = Cardinality(U \union R) + Cardinality(D) - Cardinality({})
    <3>1. Cardinality((U \union R) \union D)
            = Cardinality(U \union R) + Cardinality(D) - Cardinality((U \union R) \intersect D)
      BY <2>2, <2>3, FS_Union
    <3> QED
      BY <2>1, <3>1
  <2>5. /\ Cardinality(U) \in Nat /\ Cardinality(R) \in Nat /\ Cardinality(D) \in Nat
        /\ Cardinality({}) = 0 /\ usage.cost = Cardinality(D)
    BY <2>2, FS_CardinalityType, FS_EmptySet DEF SpendingBounded
  <2> HIDE DEF U, R, D
  <2>6. usage.cost = Cardinality(answered \ unrecorded) - Cardinality(U) - Cardinality(R)
    BY <2>3, <2>4, <2>5
  <2> QED
    BY <2>6 DEF Count, U, R
<1>2. /\ usage.cost + 1 <= CostCap + peak \/ usage.cost = 0
      /\ usage.sessions + 1 <= SessionCap + peak \/ usage.sessions = 0
  <2>1. FirstPassed \subseteq Passed
    BY DEF FirstPassed
  <2>2. Cardinality(Passed) \in Nat /\ Cardinality(FirstPassed) \in Nat
    BY <2>1, FS_Subset, FS_CardinalityType DEF SpendingBounded
  <2>3. {usage.cost, usage.sessions, CostCap, SessionCap, peak} \subseteq Nat
    BY CopilotAssumption DEF CopilotTypes
  <2> QED
    BY <2>2, <2>3 DEF SpendingBounded
<1> QED
  BY <1>1, <1>2 DEF CopilotSound, ThreadsKept, Thread

\* For any turns side by side, of any sessions, with failures and resets in
\* between: run_turn loses no cost it paid for except those of failed turns,
\* exceeds the caps of check_before_turn by no more than the turns that ran at
\* the same time, and stores only threads some turn really had.
THEOREM CopilotIsSound == CopilotSpec => []CopilotSound
BY CopilotInitial, CopilotStep, CopilotSafe, PTL DEF CopilotSpec

-----------------------------------------------------------------------------
(* The pause control plane. *)

ControlTypes ==
    /\ stateRow \in BOOLEAN /\ paused \in BOOLEAN /\ missed \in BOOLEAN
    /\ stage \in [Requests -> {"idle", "publish", "done", "failed"}]
    /\ op \in [Requests -> BOOLEAN]
    /\ driver \in {"down", "rehydrate", "connect", "listen"}
    /\ chan \in Seq(BOOLEAN)

\* Messages wait only on the socket of a driver that listens.
ChanOfListener == chan # << >> => driver = "listen"

\* One endpoint is between its upsert and its publish, and the row holds its
\* flag.
OneAtATime == \A r, s \in InFlight : r = s
RowOfInFlight == \A r \in InFlight : op[r] = stateRow

\* What the driver will think once it has read its socket.
LastHeard == IF chan = << >> THEN paused ELSE chan[Len(chan)]

\* With no endpoint at work, that is the row, unless a message was lost.
HeardRow ==
    driver \in {"connect", "listen"} /\ InFlight = {} /\ ~missed => LastHeard = stateRow

ControlInv == ControlTypes /\ ChanOfListener /\ OneAtATime /\ RowOfInFlight /\ HeardRow

-----------------------------------------------------------------------------
\* A request that finds fewer than one in flight finds none.
LEMMA NoneInFlight ==
    ASSUME OneAtATime, MaxInFlight <= 1, Cardinality(InFlight) < MaxInFlight
    PROVE  InFlight = {}
<1>1. SUFFICES ASSUME NEW r \in InFlight PROVE FALSE
  OBVIOUS
<1>2. InFlight = {r}
  BY DEF OneAtATime
<1>3. Cardinality(InFlight) = 1
  BY <1>2, FS_Singleton
<1> QED
  BY <1>3, ControlAssumption

\* The last of several waiting messages is still the last after a read.
LEMMA LastOfTail ==
    ASSUME NEW S, NEW s \in Seq(S), Len(s) > 1
    PROVE  Tail(s) # << >> /\ Tail(s)[Len(Tail(s))] = s[Len(s)]
<1>1. Len(s) \in Nat /\ s # << >>
  BY EmptySeq
<1>2. Len(Tail(s)) = Len(s) - 1
  BY <1>1
<1>3. Tail(s)[Len(s) - 1] = s[Len(s) - 1 + 1]
  BY <1>1
<1>4. Tail(s) # << >>
  <2>1. Len(Tail(s)) # 0
    BY <1>1, <1>2
  <2> QED
    BY <2>1, EmptySeq
<1> QED
  BY <1>1, <1>2, <1>3, <1>4

\* Sequences that are neither empty nor of length one are longer.
LEMMA LongSeq ==
    ASSUME NEW S, NEW s \in Seq(S), s # << >>, Len(s) # 1
    PROVE  Len(s) > 1
<1>1. Len(s) \in Nat /\ Len(s) # 0
  BY EmptySeq
<1>2. \A n \in Nat : n # 0 /\ n # 1 => n > 1
  OBVIOUS
<1> QED
  BY <1>1, <1>2, Zenon

LEMMA ControlInitial == ControlInit => ControlInv
<1> SUFFICES ASSUME ControlInit PROVE ControlInv
  OBVIOUS
<1>1. ControlTypes
  <2>1. chan \in Seq(BOOLEAN) /\ stage \in [Requests -> {"idle", "publish", "done", "failed"}]
    BY DEF ControlInit
  <2>2. op \in [Requests -> BOOLEAN] /\ stateRow \in BOOLEAN /\ paused \in BOOLEAN /\ missed \in BOOLEAN
    BY Zenon DEF ControlInit
  <2> QED
    BY <2>1, <2>2 DEF ControlInit, ControlTypes
<1>2. InFlight = {}
  BY DEF ControlInit, InFlight
<1> QED
  BY <1>1, <1>2 DEF ControlInit, ControlInv, ChanOfListener, OneAtATime, RowOfInFlight, HeardRow

LEMMA ControlStep ==
    ASSUME MaxInFlight <= 1, ControlInv, [ControlNext]_controlVars
    PROVE  ControlInv'
<1> USE DEF ControlInv
<1>1. ASSUME NEW r \in Requests, ApiPersist(r) PROVE ControlInv'
  <2>1. InFlight = {}
    BY <1>1, NoneInFlight DEF ApiPersist
  <2>2. PICK b \in BOOLEAN : op' = [op EXCEPT ![r] = b]
    BY <1>1 DEF ApiPersist
  <2>3. ControlTypes' /\ ChanOfListener'
    BY <1>1, <2>2 DEF ApiPersist, ControlTypes, ChanOfListener, IoError
  <2>4. CASE stateRow' = op'[r] /\ stage' = [stage EXCEPT ![r] = "publish"]
    <3>1. InFlight' = {r}
      BY <2>1, <2>4, <1>1 DEF InFlight, ControlTypes
    <3> QED
      BY <2>3, <2>4, <3>1 DEF OneAtATime, RowOfInFlight, HeardRow
  <2>5. CASE stage' = [stage EXCEPT ![r] = "failed"] /\ missed' = (missed \/ stateRow' # stateRow)
    <3>1. InFlight' = {}
      BY <2>1, <2>5 DEF InFlight, ControlTypes
    <3>2. UNCHANGED <<driver, paused, chan>>
      BY <1>1 DEF ApiPersist
    <3>3. HeardRow'
      BY <2>1, <2>5, <3>1, <3>2 DEF HeardRow, LastHeard
    <3> QED
      BY <2>3, <3>1, <3>3 DEF OneAtATime, RowOfInFlight
  <2> QED
    BY <1>1, <2>4, <2>5 DEF ApiPersist
<1>2. ASSUME NEW r \in Requests, ApiPublish(r) PROVE ControlInv'
  <2>1. r \in InFlight /\ op[r] = stateRow
    BY <1>2 DEF ApiPublish, InFlight, RowOfInFlight
  <2>2. InFlight' = {}
    BY <1>2, <2>1 DEF ApiPublish, InFlight, ControlTypes, OneAtATime
  <2>3. ControlTypes' /\ ChanOfListener'
    <3>1. CASE driver = "listen"
      BY <1>2, <3>1 DEF ApiPublish, ControlTypes, ChanOfListener
    <3>2. CASE driver # "listen"
      BY <1>2, <3>2 DEF ApiPublish, ControlTypes, ChanOfListener
    <3> QED
      BY <3>1, <3>2
  <2>4. HeardRow'
    <3>1. CASE driver = "listen"
      <4>1. chan' = Append(chan, op[r]) /\ stateRow' = stateRow
        BY <1>2, <3>1 DEF ApiPublish
      <4>2. LastHeard' = op[r]
        BY <4>1, AppendProperties DEF LastHeard, ControlTypes
      <4> QED
        BY <2>1, <4>1, <4>2 DEF HeardRow
    <3>2. CASE driver # "listen"
      BY <1>2, <3>2 DEF ApiPublish, HeardRow
    <3> QED
      BY <3>1, <3>2
  <2> QED
    BY <2>2, <2>3, <2>4 DEF OneAtATime, RowOfInFlight
<1>3. ASSUME NEW r \in Requests, ApiPublishError(r) PROVE ControlInv'
  <2>1. InFlight' = {}
    BY <1>3 DEF ApiPublishError, InFlight, ControlTypes, OneAtATime
  <2> QED
    BY <1>3, <2>1 DEF ApiPublishError, ControlTypes, ChanOfListener, OneAtATime, RowOfInFlight, HeardRow
<1>4. CASE Start
  BY <1>4 DEF Start, ControlTypes, ChanOfListener, OneAtATime, RowOfInFlight, HeardRow, InFlight
<1>5. CASE Rehydrate
  BY <1>5 DEF Rehydrate, IoError, ControlTypes, ChanOfListener, OneAtATime, RowOfInFlight,
              HeardRow, LastHeard, InFlight
<1>6. CASE Subscribe
  BY <1>6 DEF Subscribe, ControlTypes, ChanOfListener, OneAtATime, RowOfInFlight, HeardRow,
              LastHeard, InFlight
<1>7. CASE HandleControl
  <2>1. ControlTypes' /\ ChanOfListener' /\ OneAtATime' /\ RowOfInFlight'
    BY <1>7, HeadTailProperties DEF HandleControl, ControlTypes, ChanOfListener, OneAtATime, RowOfInFlight, InFlight
  <2>2. chan # << >> /\ chan' = Tail(chan) /\ paused' = chan[1]
    BY <1>7 DEF HandleControl, ControlTypes
  <2>3. LastHeard' = LastHeard
    <3>1. CASE Len(chan) = 1
      <4>1. chan' = << >>
        BY <2>2, <3>1 DEF ControlTypes
      <4> QED
        BY <2>2, <3>1, <4>1 DEF LastHeard
    <3>2. CASE Len(chan) # 1
      <4>1. Len(chan) > 1
        BY <2>2, <3>2, LongSeq DEF ControlTypes
      <4>2. Tail(chan) # << >> /\ Tail(chan)[Len(Tail(chan))] = chan[Len(chan)]
        BY <4>1, LastOfTail DEF ControlTypes
      <4> QED
        BY <2>2, <4>2 DEF LastHeard
    <3> QED
      BY <3>1, <3>2
  <2> QED
    BY <1>7, <2>1, <2>3 DEF HandleControl, HeardRow, InFlight
<1>8. CASE Disconnect
  BY <1>8 DEF Disconnect, ControlTypes, ChanOfListener, OneAtATime, RowOfInFlight, HeardRow,
              LastHeard, InFlight
<1>9. CASE Crash
  <2>1. ControlTypes'
    <3>1. chan' \in Seq(BOOLEAN) /\ driver' \in {"down", "rehydrate", "connect", "listen"}
      BY <1>9 DEF Crash
    <3>2. paused' \in BOOLEAN
      BY <1>9, Zenon DEF Crash
    <3> QED
      BY <1>9, <3>1, <3>2 DEF Crash, ControlTypes
  <2> QED
    BY <1>9, <2>1 DEF Crash, ChanOfListener, OneAtATime, RowOfInFlight, HeardRow, InFlight
<1>10. CASE UNCHANGED controlVars
  BY <1>10 DEF controlVars, ControlTypes, ChanOfListener, OneAtATime, RowOfInFlight, HeardRow,
               LastHeard, InFlight
<1> QED
  BY <1>1, <1>2, <1>3, <1>4, <1>5, <1>6, <1>7, <1>8, <1>9, <1>10 DEF ControlNext, Api, Driver

LEMMA RowFollowed == ControlInv => FollowsRowUnlessMissed
BY DEF ControlInv, HeardRow, LastHeard, FollowsRowUnlessMissed, Quiet

\* With one request at a time (api_pause and api_resume of an operator who
\* waits for the answer), a driver that has booted and has read its socket
\* empty pauses exactly when trading.strategy_state says so, unless a message
\* was lost since it read the row.
THEOREM FollowsRow ==
    ASSUME MaxInFlight <= 1
    PROVE  ControlSpec => []FollowsRowUnlessMissed
<1> QED
  BY RowFollowed, ControlInitial, ControlStep, PTL DEF ControlSpec
==============================================================================
