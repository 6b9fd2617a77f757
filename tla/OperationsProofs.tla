-------------------------- MODULE OperationsProofs ---------------------------
(***************************************************************************)
(* Theorems about the guard of the market maker (MMSafety) and the alerts  *)
(* (Alerts), for any limits, windows and faults.                           *)
(***************************************************************************)
EXTENDS MMSafety, Alerts, FiniteSetTheorems, SequenceTheorems, WellFoundedInduction, TLAPS

\* A set of natural numbers has a least one.
LEMMA LeastOf ==
    ASSUME NEW S, S \subseteq Nat, S # {}
    PROVE  LET m == CHOOSE i \in S : \A j \in S : i <= j IN m \in S /\ \A j \in S : m <= j
<1>. DEFINE less == {ss \in Nat \X Nat : ss[1] < ss[2]}
<1>1. IsWellFoundedOn(less, Nat)
  BY NatLessThanWellFounded DEF OpToRel
<1>. HIDE DEF less
<1>2. PICK x \in S : \A y \in S : <<y, x>> \notin less
  BY <1>1, WFMin
<1>3. \A y \in S : x \in Nat /\ y \in Nat /\ ~(y < x)
  BY <1>2 DEF less
<1>4. \A y \in S : x <= y
  BY <1>3
<1>. QED
  BY <1>4

-----------------------------------------------------------------------------
(* The guard of the market maker: what the pruned deques hold. *)

Sorted(log) == \A i, j \in 1 .. Len(log) : i <= j => log[i] <= log[j]

\* A window is the end of its log, from the cutoff on.
LEMMA WindowShape ==
    ASSUME NEW log \in Seq(Nat), NEW q, NEW c \in Int, InWindow(q, log, c)
    PROVE  /\ q \in Seq(Nat) /\ Len(q) <= Len(log)
           /\ \A i \in 1 .. Len(q) : q[i] = log[Len(log) - Len(q) + i]
           /\ \A i \in 1 .. Len(log) : log[i] >= c <=> i > Len(log) - Len(q)
<1>. DEFINE n == Len(log)
<1>0. n \in Nat /\ \A i \in 1 .. n : log[i] \in Nat
  BY ElementOfSeq
<1>1. PICK k \in 0 .. n : /\ q = SubSeq(log, k + 1, n)
                          /\ \A i \in 1 .. n : log[i] >= c <=> i > k
  BY DEF InWindow
<1>. HIDE DEF n
<1>2. k + 1 \in Int /\ n \in Int /\ k \in Nat /\ k <= n /\ \A i \in k + 1 .. n : i \in 1 .. n
  BY <1>0
<1>3. /\ q \in Seq(Nat) /\ Len(q) = (IF k + 1 <= n THEN n - (k + 1) + 1 ELSE 0)
      /\ \A i \in 1 .. n - (k + 1) + 1 : q[i] = log[k + 1 + i - 1]
  BY <1>0, <1>1, <1>2, SubSeqProperties
<1>4. Len(q) = n - k
  BY <1>0, <1>2, <1>3
<1>5. \A i \in 1 .. n - k : k + 1 + i - 1 = n - (n - k) + i /\ i \in 1 .. n - (k + 1) + 1
  BY <1>0, <1>2
<1>6. Len(q) <= n /\ n - Len(q) = k
  BY <1>0, <1>2, <1>4
<1>7. \A i \in 1 .. Len(q) : q[i] = log[n - Len(q) + i]
  BY <1>3, <1>4, <1>5
<1>8. \A i \in 1 .. n : log[i] >= c <=> i > n - Len(q)
  BY <1>1, <1>6
<1>. QED
  BY <1>3, <1>6, <1>7, <1>8 DEF n

LEMMA WindowFrom ==
    ASSUME NEW log \in Seq(Nat), NEW q \in Seq(Nat), NEW c \in Int, NEW k \in 0 .. Len(log),
           Len(q) = Len(log) - k, \A i \in 1 .. Len(q) : q[i] = log[k + i],
           \A i \in 1 .. Len(log) : log[i] >= c <=> i > k
    PROVE  InWindow(q, log, c)
<1>. DEFINE n == Len(log)
            s == SubSeq(log, k + 1, n)
<1>0. n \in Nat /\ \A i \in 1 .. n : log[i] \in Nat
  BY ElementOfSeq
<1>1. k + 1 \in Int /\ n \in Int /\ k \in Nat /\ k <= n /\ \A i \in k + 1 .. n : i \in 1 .. n
  BY <1>0
<1>2. /\ s \in Seq(Nat) /\ Len(s) = (IF k + 1 <= n THEN n - (k + 1) + 1 ELSE 0)
      /\ \A i \in 1 .. n - (k + 1) + 1 : s[i] = log[k + 1 + i - 1]
  <2>. HIDE DEF n
  <2>. QED
    BY <1>0, <1>1, SubSeqProperties
<1>. HIDE DEF s
<1>3. Len(s) = n - k /\ \A i \in 1 .. n - k : k + 1 + i - 1 = k + i /\ i \in 1 .. n - (k + 1) + 1
  BY <1>0, <1>1, <1>2
<1>4. q = s
  <2>1. Len(q) = Len(s) /\ \A i \in 1 .. Len(q) : q[i] = s[i]
    BY <1>2, <1>3
  <2>. QED
    BY <1>2, <2>1, SeqEqual
<1>. QED
  BY <1>4 DEF s, InWindow

\* What is appended to the log goes into the window.
LEMMA WindowAppend ==
    ASSUME NEW log \in Seq(Nat), NEW q, NEW c \in Int, InWindow(q, log, c),
           NEW x \in Nat, x >= c
    PROVE  InWindow(Append(q, x), Append(log, x), c)
<1>1. /\ q \in Seq(Nat) /\ Len(q) <= Len(log)
      /\ \A i \in 1 .. Len(q) : q[i] = log[Len(log) - Len(q) + i]
      /\ \A i \in 1 .. Len(log) : log[i] >= c <=> i > Len(log) - Len(q)
  BY WindowShape
<1>. DEFINE l == Append(log, x)
            p == Append(q, x)
            k == Len(log) - Len(q)
<1>2. /\ l \in Seq(Nat) /\ Len(l) = Len(log) + 1 /\ l[Len(log) + 1] = x
      /\ \A i \in 1 .. Len(log) : l[i] = log[i]
  BY AppendProperties
<1>3. /\ p \in Seq(Nat) /\ Len(p) = Len(q) + 1 /\ p[Len(q) + 1] = x
      /\ \A i \in 1 .. Len(q) : p[i] = q[i]
  BY <1>1, AppendProperties
<1>4. Len(log) \in Nat /\ Len(q) \in Nat
  BY <1>1
<1>. HIDE DEF l, p
<1>5. k \in 0 .. Len(l) /\ Len(p) = Len(l) - k
  BY <1>1, <1>2, <1>3, <1>4
<1>6. \A i \in 1 .. Len(p) : p[i] = l[k + i]
  <2>1. SUFFICES ASSUME NEW i \in 1 .. Len(q) + 1 PROVE p[i] = l[k + i]
    BY <1>3
  <2>2. CASE i \in 1 .. Len(q)
    <3>1. k + i \in 1 .. Len(log)
      BY <1>1, <1>4, <2>2
    <3>. QED
      BY <1>1, <1>2, <1>3, <2>2, <3>1
  <2>3. CASE i = Len(q) + 1
    <3>1. k + i = Len(log) + 1
      BY <1>4, <2>3
    <3>. QED
      BY <1>2, <1>3, <2>3, <3>1
  <2>. QED
    BY <1>4, <2>1, <2>2, <2>3
<1>7. \A i \in 1 .. Len(l) : l[i] >= c <=> i > k
  <2>1. SUFFICES ASSUME NEW i \in 1 .. Len(log) + 1 PROVE l[i] >= c <=> i > k
    BY <1>2
  <2>2. CASE i \in 1 .. Len(log)
    BY <1>1, <1>2, <2>2
  <2>3. CASE i = Len(log) + 1
    BY <1>1, <1>2, <1>4, <2>3
  <2>. QED
    BY <1>4, <2>1, <2>2, <2>3
<1>. HIDE DEF k
<1>8. InWindow(p, l, c)
  BY <1>2, <1>3, <1>5, <1>6, <1>7, WindowFrom
<1>. QED
  BY <1>8 DEF p, l

\* The popleft loop narrows a window to a later cutoff.
LEMMA WindowPrune ==
    ASSUME NEW log \in Seq(Nat), Sorted(log), NEW q, NEW c \in Int, NEW d \in Int, c <= d,
           InWindow(q, log, c)
    PROVE  InWindow(PruneOld(q, d), log, d)
<1>1. /\ q \in Seq(Nat) /\ Len(q) <= Len(log)
      /\ \A i \in 1 .. Len(q) : q[i] = log[Len(log) - Len(q) + i]
      /\ \A i \in 1 .. Len(log) : log[i] >= c <=> i > Len(log) - Len(q)
  BY WindowShape
<1>. DEFINE n == Len(log)
            k == Len(log) - Len(q)
            kept == {i \in 1 .. Len(q) : \E j \in 1 .. i : q[j] >= d}
<1>2. n \in Nat /\ Len(q) \in Nat /\ k \in Nat /\ \A i \in 1 .. n : log[i] \in Nat
  BY <1>1, ElementOfSeq
<1>3. \A i \in 1 .. k : i \in 1 .. n /\ ~(log[i] >= d)
  <2>1. SUFFICES ASSUME NEW i \in 1 .. k PROVE i \in 1 .. n /\ ~(log[i] >= d)
    OBVIOUS
  <2>2. i \in 1 .. n /\ ~(i > k)
    BY <1>1, <1>2
  <2>3. ~(log[i] >= c) /\ log[i] \in Nat
    BY <1>1, <1>2, <2>2
  <2>. QED
    BY <2>2, <2>3
<1>4. \A i \in k + 1 .. n : i - k \in 1 .. Len(q) /\ log[i] = q[i - k]
  <2>1. SUFFICES ASSUME NEW i \in k + 1 .. n PROVE i - k \in 1 .. Len(q) /\ log[i] = q[i - k]
    OBVIOUS
  <2>2. i - k \in 1 .. Len(q) /\ k + (i - k) = i
    BY <1>2
  <2>. QED
    BY <1>1, <2>2
<1>5. CASE kept = {}
  <2>1. PruneOld(q, d) = << >>
    BY <1>5 DEF PruneOld
  <2>2. \A i \in 1 .. n : log[i] >= d <=> i > n
    <3>1. SUFFICES ASSUME NEW i \in 1 .. n PROVE ~(log[i] >= d)
      BY <1>2
    <3>2. CASE i \in 1 .. k
      BY <1>3, <3>2
    <3>3. CASE i \in k + 1 .. n
      <4>1. i - k \in 1 .. Len(q) /\ i - k \in 1 .. (i - k) /\ log[i] = q[i - k]
        BY <1>2, <1>4, <3>3
      <4>. QED
        BY <1>5, <4>1
    <3>. QED
      BY <1>2, <3>2, <3>3
  <2>3. << >> \in Seq(Nat) /\ Len(<< >>) = n - n /\ n \in 0 .. n /\ 1 .. Len(<< >>) = {}
    BY <1>2
  <2>. HIDE DEF kept, k
  <2>4. InWindow(<< >>, log, d)
    BY <2>2, <2>3, WindowFrom
  <2>. QED
    BY <2>1, <2>4
<1>6. CASE kept # {}
  <2>. DEFINE m == CHOOSE i \in kept : \A j \in kept : i <= j
  <2>1. kept \subseteq Nat
    BY <1>2
  <2>2. m \in kept /\ \A j \in kept : m <= j
    <3>. HIDE DEF kept
    <3>. QED
      BY <1>6, <2>1, LeastOf
  <2>3. PruneOld(q, d) = SubSeq(q, m, Len(q))
    BY <1>6 DEF PruneOld
  <2>. HIDE DEF m
  <2>4. m \in 1 .. Len(q) /\ q[m] >= d
    <3>1. m \in 1 .. Len(q)
      BY <2>2
    <3>2. PICK j \in 1 .. m : q[j] >= d
      BY <2>2
    <3>3. j \in 1 .. Len(q) /\ j \in 1 .. j
      BY <1>2, <3>1
    <3>4. j \in kept
      BY <3>2, <3>3
    <3>5. m <= j
      BY <2>2, <3>4
    <3>6. j = m
      BY <1>2, <3>1, <3>5
    <3>. QED
      BY <3>1, <3>2, <3>6
  <2>5. \A i \in 1 .. m - 1 : ~(q[i] >= d)
    <3>1. SUFFICES ASSUME NEW i \in 1 .. m - 1, q[i] >= d PROVE FALSE
      OBVIOUS
    <3>2. i \in 1 .. Len(q) /\ i \in 1 .. i /\ ~(m <= i)
      BY <1>2, <2>4
    <3>. QED
      BY <2>2, <3>1, <3>2
  <2>. HIDE DEF kept
  <2>. DEFINE h == k + m - 1
              s == SubSeq(q, m, Len(q))
  <2>6. m \in Nat \ {0} /\ m <= Len(q) /\ h \in 0 .. n /\ k + m \in k + 1 .. n
    BY <1>1, <1>2, <2>4
  <2>7. /\ s \in Seq(Nat) /\ Len(s) = (IF m <= Len(q) THEN Len(q) - m + 1 ELSE 0)
        /\ \A i \in 1 .. Len(q) - m + 1 : s[i] = q[m + i - 1]
    <3>1. \A i \in m .. Len(q) : q[i] \in Nat
      <4>1. \A i \in m .. Len(q) : i \in 1 .. Len(q)
        BY <1>2, <2>6
      <4>. QED
        BY <1>1, <4>1, ElementOfSeq
    <3>2. m \in Int /\ Len(q) \in Int
      BY <1>2, <2>6
    <3>. HIDE DEF k
    <3>. QED
      BY <1>1, <3>1, <3>2, SubSeqProperties
  <2>. HIDE DEF s
  <2>8. Len(s) = n - h
    BY <1>2, <2>6, <2>7
  <2>9. \A i \in 1 .. Len(s) : s[i] = log[h + i]
    <3>1. SUFFICES ASSUME NEW i \in 1 .. n - h PROVE s[i] = log[h + i]
      BY <2>8
    <3>2. /\ i \in 1 .. Len(q) - m + 1 /\ m + i - 1 \in 1 .. Len(q) /\ k + (m + i - 1) = h + i
      BY <1>2, <2>6
    <3>. QED
      BY <1>1, <2>7, <3>2
  <2>10. \A i \in 1 .. n : log[i] >= d <=> i > h
    <3>1. SUFFICES ASSUME NEW i \in 1 .. n PROVE log[i] >= d <=> i > h
      OBVIOUS
    <3>2. CASE i \in 1 .. k
      BY <1>2, <1>3, <2>6, <3>2
    <3>3. CASE i \in k + 1 .. h
      <4>1. i - k \in 1 .. m - 1 /\ i \in k + 1 .. n /\ ~(i > h)
        BY <1>2, <2>6, <3>3
      <4>. QED
        BY <1>4, <2>5, <4>1
    <3>4. CASE i \in h + 1 .. n
      <4>1. k + m \in 1 .. n /\ k + m <= i /\ i > h
        BY <1>2, <2>6, <3>4
      <4>2. log[k + m] = q[m]
        BY <1>1, <2>4
      <4>3. log[k + m] <= log[i]
        BY <3>1, <4>1 DEF Sorted
      <4>4. log[k + m] \in Nat /\ log[i] \in Nat /\ log[k + m] >= d
        BY <1>2, <2>4, <3>1, <4>1, <4>2
      <4>. QED
        BY <4>1, <4>3, <4>4
    <3>. QED
      BY <1>2, <2>6, <3>2, <3>3, <3>4
  <2>. HIDE DEF h, k
  <2>11. InWindow(s, log, d)
    BY <2>6, <2>7, <2>8, <2>9, <2>10, WindowFrom
  <2>. QED
    BY <2>3, <2>11 DEF s
<1>. QED
  BY <1>5, <1>6

TimeLog(log, now) == log \in Seq(Nat) /\ Sorted(log) /\ \A i \in 1 .. Len(log) : log[i] <= now

LEMMA LogAppend ==
    ASSUME NEW log, NEW now \in Nat, TimeLog(log, now)
    PROVE  TimeLog(Append(log, now), now)
<1>. DEFINE l == Append(log, now)
<1>1. /\ l \in Seq(Nat) /\ Len(l) = Len(log) + 1 /\ l[Len(log) + 1] = now /\ Len(log) \in Nat
      /\ \A i \in 1 .. Len(log) : l[i] = log[i] /\ log[i] \in Nat
  BY AppendProperties, ElementOfSeq DEF TimeLog
<1>. HIDE DEF l
<1>2. \A i \in 1 .. Len(l) : i \in 1 .. Len(log) \/ i = Len(log) + 1
  BY <1>1
<1>3. \A i \in 1 .. Len(l) : l[i] <= now
  BY <1>1, <1>2 DEF TimeLog
<1>4. Sorted(l)
  <2>1. SUFFICES ASSUME NEW i \in 1 .. Len(l), NEW j \in 1 .. Len(l), i <= j PROVE l[i] <= l[j]
    BY DEF Sorted
  <2>2. CASE j \in 1 .. Len(log)
    <3>1. i \in 1 .. Len(log)
      BY <1>1, <2>1, <2>2
    <3>. QED
      BY <1>1, <2>1, <2>2, <3>1 DEF TimeLog, Sorted
  <2>3. CASE j = Len(log) + 1
    BY <1>1, <1>3, <2>3
  <2>. QED
    BY <1>2, <2>2, <2>3
<1>. QED
  BY <1>1, <1>3, <1>4 DEF l, TimeLog

GuardTypes ==
    /\ gnow \in Nat /\ gcAt \in Nat /\ gcAt <= gnow
    /\ TimeLog(cancelLog, gnow) /\ TimeLog(fillLog, gnow) /\ TimeLog(breachLog, gnow)
    /\ st \in [cancels : Seq(Nat), fills : Seq(Nat), breach_events : Seq(Nat), killed_until : Int]

\* A kill in force is that of a breach that called for it, and no such breach
\* outlasts it.
KillBacked ==
    /\ st.killed_until # Never =>
          \E j \in 1 .. Len(breachLog) : Kills(j) /\ st.killed_until = breachLog[j] + ResumeAfter
    /\ \A j \in 1 .. Len(breachLog) : Kills(j) =>
          \/ breachLog[j] + ResumeAfter <= st.killed_until
          \/ breachLog[j] + ResumeAfter <= gnow

GuardInv == GuardTypes /\ WindowsExact /\ KillBacked

LEMMA GuardStart == SafetyInit => GuardInv
<1>1. SUFFICES ASSUME SafetyInit PROVE GuardInv
  OBVIOUS
<1>2. << >> \in Seq(Nat) /\ Len(<< >>) = 0 /\ 1 .. 0 = {}
  BY EmptySeq
<1>3. TimeLog(<< >>, 0)
  BY <1>2 DEF TimeLog, Sorted
<1>4. \A c \in Int : InWindow(<< >>, << >>, c)
  <2>1. 0 \in 0 .. Len(<< >>) /\ Len(<< >>) = Len(<< >>) - 0
    BY <1>2
  <2>. QED
    BY <1>2, <2>1, WindowFrom
<1>5. 0 - RatioWindow \in Int /\ 0 - KillWindow \in Int
  BY SafetyAssumption
<1>6. GuardTypes
  BY <1>1, <1>2, <1>3 DEF SafetyInit, GuardTypes, Never
<1>7. WindowsExact
  BY <1>1, <1>4, <1>5 DEF SafetyInit, WindowsExact
<1>8. KillBacked
  BY <1>1, <1>2 DEF SafetyInit, KillBacked
<1>. QED
  BY <1>6, <1>7, <1>8 DEF GuardInv

\* gc_window, after an event is added to one deque or not.
LEMMA Pruned ==
    ASSUME GuardTypes, WindowsExact
    PROVE  /\ gnow - RatioWindow \in Int /\ gnow - KillWindow \in Int
           /\ InWindow(PruneOld(st.cancels, gnow - RatioWindow), cancelLog, gnow - RatioWindow)
           /\ InWindow(PruneOld(Append(st.cancels, gnow), gnow - RatioWindow),
                       Append(cancelLog, gnow), gnow - RatioWindow)
           /\ InWindow(PruneOld(st.fills, gnow - RatioWindow), fillLog, gnow - RatioWindow)
           /\ InWindow(PruneOld(Append(st.fills, gnow), gnow - RatioWindow),
                       Append(fillLog, gnow), gnow - RatioWindow)
           /\ InWindow(PruneOld(st.breach_events, gnow - KillWindow), breachLog, gnow - KillWindow)
<1>1. /\ gnow \in Nat /\ gcAt - RatioWindow \in Int /\ gnow - RatioWindow \in Int
      /\ gcAt - RatioWindow <= gnow - RatioWindow /\ gnow >= gcAt - RatioWindow
      /\ gcAt - KillWindow \in Int /\ gnow - KillWindow \in Int
      /\ gcAt - KillWindow <= gnow - KillWindow
  <2>1. gnow \in Nat /\ gcAt \in Nat /\ gcAt <= gnow /\ RatioWindow \in Nat /\ KillWindow \in Nat
    BY SafetyAssumption DEF GuardTypes
  <2>. QED
    BY <2>1
<1>2. \A log, q : TimeLog(log, gnow) /\ InWindow(q, log, gcAt - RatioWindow) =>
         /\ InWindow(PruneOld(q, gnow - RatioWindow), log, gnow - RatioWindow)
         /\ InWindow(PruneOld(Append(q, gnow), gnow - RatioWindow), Append(log, gnow),
                     gnow - RatioWindow)
  <2>1. SUFFICES ASSUME NEW log, NEW q, TimeLog(log, gnow), InWindow(q, log, gcAt - RatioWindow)
                 PROVE  /\ InWindow(PruneOld(q, gnow - RatioWindow), log, gnow - RatioWindow)
                        /\ InWindow(PruneOld(Append(q, gnow), gnow - RatioWindow),
                                    Append(log, gnow), gnow - RatioWindow)
    OBVIOUS
  <2>2. log \in Seq(Nat) /\ Sorted(log)
    BY <2>1 DEF TimeLog
  <2>3. Append(log, gnow) \in Seq(Nat) /\ Sorted(Append(log, gnow))
    BY <1>1, <2>1, LogAppend DEF TimeLog
  <2>4. InWindow(Append(q, gnow), Append(log, gnow), gcAt - RatioWindow)
    BY <1>1, <2>1, <2>2, WindowAppend
  <2>5. InWindow(PruneOld(q, gnow - RatioWindow), log, gnow - RatioWindow)
    BY <1>1, <2>1, <2>2, WindowPrune
  <2>6. InWindow(PruneOld(Append(q, gnow), gnow - RatioWindow), Append(log, gnow),
                 gnow - RatioWindow)
    BY <1>1, <2>3, <2>4, WindowPrune
  <2>. QED
    BY <2>5, <2>6
<1>3. InWindow(PruneOld(st.breach_events, gnow - KillWindow), breachLog, gnow - KillWindow)
  <2>1. breachLog \in Seq(Nat) /\ Sorted(breachLog)
    BY DEF GuardTypes, TimeLog
  <2>2. InWindow(st.breach_events, breachLog, gcAt - KillWindow)
    BY DEF WindowsExact
  <2>. QED
    BY <1>1, <2>1, <2>2, WindowPrune
<1>. QED
  BY <1>1, <1>2, <1>3 DEF GuardTypes, WindowsExact

\* Earlier breaches are judged as before.
LEMMA KillsStay ==
    ASSUME GuardTypes, NEW j \in 1 .. Len(breachLog), breachLog' = Append(breachLog, gnow)
    PROVE  (Kills(j) <=> Kills(j)') /\ breachLog'[j] = breachLog[j]
<1>1. breachLog \in Seq(Nat) /\ gnow \in Nat /\ Len(breachLog) \in Nat
  BY DEF GuardTypes, TimeLog
<1>2. \A i \in 1 .. Len(breachLog) : breachLog'[i] = breachLog[i]
  BY <1>1, AppendProperties
<1>3. j >= KillThreshold => j - KillThreshold + 1 \in 1 .. Len(breachLog)
  BY <1>1, SafetyAssumption
<1>. QED
  BY <1>2, <1>3 DEF Kills

\* The newest breach kills when the deque holds enough of them.
LEMMA NewestKills ==
    ASSUME NEW log \in Seq(Nat), Sorted(log), Len(log) > 0, log[Len(log)] = gnow, gnow \in Nat,
           NEW q, InWindow(q, log, gnow - KillWindow)
    PROVE  Len(q) >= KillThreshold <=>
              /\ Len(log) >= KillThreshold
              /\ log[Len(log)] - log[Len(log) - KillThreshold + 1] <= KillWindow
<1>0. KillThreshold \in Nat \ {0} /\ KillWindow \in Nat /\ gnow - KillWindow \in Int
      /\ Len(log) \in Nat
  BY SafetyAssumption
<1>1. /\ q \in Seq(Nat) /\ Len(q) <= Len(log) /\ Len(q) \in Nat
      /\ \A i \in 1 .. Len(log) : log[i] >= gnow - KillWindow <=> i > Len(log) - Len(q)
  BY <1>0, WindowShape
<1>. DEFINE h == Len(log) - KillThreshold + 1
<1>2. Len(log) >= KillThreshold => h \in 1 .. Len(log) /\ log[h] \in Nat
  <2>1. Len(log) >= KillThreshold => h \in 1 .. Len(log)
    BY <1>0
  <2>. QED
    BY <2>1, ElementOfSeq
<1>3. Len(q) >= KillThreshold <=> Len(log) >= KillThreshold /\ h > Len(log) - Len(q)
  BY <1>0, <1>1
<1>. HIDE DEF h
<1>4. Len(log) >= KillThreshold => (h > Len(log) - Len(q) <=> log[h] >= gnow - KillWindow)
  BY <1>1, <1>2
<1>5. Len(log) >= KillThreshold => (log[h] >= gnow - KillWindow <=> gnow - log[h] <= KillWindow)
  BY <1>0, <1>2
<1>. QED
  BY <1>3, <1>4, <1>5 DEF h

\* Clearing a kill leaves the deques alone.
LEMMA KillCleared ==
    ASSUME NEW S, NEW T, NEW r \in [cancels : S, fills : S, breach_events : S, killed_until : T], NEW x
    PROVE  [r EXCEPT !.killed_until = x] = [cancels |-> r.cancels, fills |-> r.fills,
                 breach_events |-> r.breach_events, killed_until |-> x]
OBVIOUS

LEMMA GuardStep ==
    ASSUME GuardInv, [SafetyNext]_safetyVars
    PROVE  GuardInv'
<1>. USE DEF GuardInv
<1>0. /\ gnow \in Nat /\ ResumeAfter \in Nat /\ AutoKill \in BOOLEAN /\ st.killed_until \in Int
      /\ TimeLog(cancelLog, gnow) /\ TimeLog(fillLog, gnow) /\ TimeLog(breachLog, gnow)
      /\ cancelLog \in Seq(Nat) /\ fillLog \in Seq(Nat) /\ breachLog \in Seq(Nat)
      /\ st \in [cancels : Seq(Nat), fills : Seq(Nat), breach_events : Seq(Nat), killed_until : Int]
  BY SafetyAssumption DEF GuardTypes, TimeLog
<1>1. CASE RecordCancel
  <2>. DEFINE cs == PruneOld(Append(st.cancels, gnow), gnow - RatioWindow)
              fs == PruneOld(st.fills, gnow - RatioWindow)
              bs == PruneOld(st.breach_events, gnow - KillWindow)
              pruned == [cancels |-> cs, fills |-> fs, breach_events |-> bs,
                         killed_until |-> st.killed_until]
  <2>1. GcWindow([st EXCEPT !.cancels = Append(@, gnow)]) = pruned
    <3>. DEFINE s == [st EXCEPT !.cancels = Append(@, gnow)]
    <3>1. /\ s.cancels = Append(st.cancels, gnow) /\ s.fills = st.fills
          /\ s.breach_events = st.breach_events /\ s.killed_until = st.killed_until
      BY <1>0
    <3>2. GcWindow(s) = [cancels |-> PruneOld(s.cancels, gnow - RatioWindow),
                         fills |-> PruneOld(s.fills, gnow - RatioWindow),
                         breach_events |-> PruneOld(s.breach_events, gnow - KillWindow),
                         killed_until |-> s.killed_until]
      BY DEF GcWindow
    <3>. QED
      BY <3>1, <3>2, Zenon
  <2>2. /\ InWindow(cs, Append(cancelLog, gnow), gnow - RatioWindow)
        /\ InWindow(fs, fillLog, gnow - RatioWindow)
        /\ InWindow(bs, breachLog, gnow - KillWindow)
        /\ gnow - RatioWindow \in Int /\ gnow - KillWindow \in Int
    BY Pruned
  <2>3. TimeLog(Append(cancelLog, gnow), gnow) /\ Append(cancelLog, gnow) \in Seq(Nat)
    BY <1>0, LogAppend DEF TimeLog
  <2>. HIDE DEF cs, fs, bs
  <2>4. cs \in Seq(Nat) /\ fs \in Seq(Nat) /\ bs \in Seq(Nat)
    BY <1>0, <2>2, <2>3, WindowShape
  <2>5. /\ st' = MaybeBreach(pruned)
        /\ breachLog' = (IF IsBreach(pruned) THEN Append(breachLog, gnow) ELSE breachLog)
        /\ cancelLog' = Append(cancelLog, gnow) /\ gcAt' = gnow /\ UNCHANGED <<gnow, fillLog>>
    BY <1>1, <2>1 DEF RecordCancel
  <2>6. CASE ~IsBreach(pruned)
    <3>1. st' = pruned /\ breachLog' = breachLog
      BY <2>5, <2>6 DEF MaybeBreach
    <3>2. GuardTypes'
      BY <1>0, <2>3, <2>4, <2>5, <3>1 DEF GuardTypes
    <3>3. WindowsExact'
      BY <2>2, <2>5, <3>1 DEF WindowsExact
    <3>4. KillBacked'
      BY <2>5, <3>1 DEF KillBacked, Kills
    <3>. QED
      BY <3>2, <3>3, <3>4
  <2>7. CASE IsBreach(pruned)
    <3>. DEFINE es == Append(bs, gnow)
                until == IF Len(es) >= KillThreshold /\ AutoKill THEN gnow + ResumeAfter
                         ELSE st.killed_until
    <3>0. PICK n \in Nat \ {0} : n = Len(breachLog) + 1
      BY <1>0
    <3>1. /\ st' = [cancels |-> cs, fills |-> fs, breach_events |-> es, killed_until |-> until]
          /\ breachLog' = Append(breachLog, gnow)
      BY <2>5, <2>7 DEF MaybeBreach
    <3>2. /\ TimeLog(breachLog', gnow) /\ breachLog' \in Seq(Nat) /\ Len(breachLog') = n
          /\ breachLog'[n] = gnow /\ n \in Nat \ {0}
          /\ \A j \in 1 .. n : j \in 1 .. Len(breachLog) \/ j = n
          /\ \A j \in 1 .. Len(breachLog) : breachLog[j] \in Nat /\ breachLog[j] <= gnow
      <4>1. TimeLog(breachLog', gnow) /\ breachLog' \in Seq(Nat)
        BY <1>0, <3>1, LogAppend DEF TimeLog
      <4>2. Len(breachLog') = n /\ breachLog'[n] = gnow
        BY <1>0, <3>0, <3>1, AppendProperties
      <4>3. \A j \in 1 .. n : j \in 1 .. Len(breachLog) \/ j = n
        BY <1>0, <3>0
      <4>4. \A j \in 1 .. Len(breachLog) : breachLog[j] \in Nat /\ breachLog[j] <= gnow
        BY <1>0, ElementOfSeq DEF TimeLog
      <4>. QED
        BY <4>1, <4>2, <4>3, <4>4
    <3>3. InWindow(es, breachLog', gnow - KillWindow) /\ es \in Seq(Nat)
      <4>1. gnow >= gnow - KillWindow
        BY <1>0, SafetyAssumption
      <4>2. es \in Seq(Nat)
        BY <1>0, <2>4, AppendProperties
      <4>. QED
        BY <1>0, <2>2, <3>1, <4>1, <4>2, WindowAppend
    <3>4. Kills(n)' <=> AutoKill /\ Len(es) >= KillThreshold
      <4>1. Sorted(breachLog')
        BY <3>2 DEF TimeLog
      <4>2. Len(es) >= KillThreshold <=>
               /\ Len(breachLog') >= KillThreshold
               /\ breachLog'[Len(breachLog')] - breachLog'[Len(breachLog') - KillThreshold + 1] <= KillWindow
        <5>. HIDE DEF es
        <5>1. Len(breachLog') > 0 /\ breachLog'[Len(breachLog')] = gnow
          BY <3>2
        <5>. QED
          BY <1>0, <3>2, <3>3, <4>1, <5>1, NewestKills
      <4>3. Kills(n)' <=> /\ AutoKill /\ n >= KillThreshold
                          /\ breachLog'[n] - breachLog'[n - KillThreshold + 1] <= KillWindow
        BY DEF Kills
      <4>. QED
        BY <3>2, <4>2, <4>3
    <3>5. \A j \in 1 .. Len(breachLog) : (Kills(j) <=> Kills(j)') /\ breachLog'[j] = breachLog[j]
      BY <3>1, KillsStay
    <3>6. until \in Int
      BY <1>0
    <3>7. GuardTypes' /\ WindowsExact'
      <4>. HIDE DEF until, es
      <4>1. st' \in [cancels : Seq(Nat), fills : Seq(Nat), breach_events : Seq(Nat), killed_until : Int]
        BY <2>4, <3>1, <3>3, <3>6
      <4>2. st'.cancels = cs /\ st'.fills = fs /\ st'.breach_events = es
        BY <3>1
      <4>3. GuardTypes'
        BY <1>0, <2>3, <2>5, <3>2, <4>1 DEF GuardTypes
      <4>4. WindowsExact'
        BY <2>2, <2>5, <3>3, <4>2 DEF WindowsExact
      <4>. QED
        BY <4>3, <4>4
    <3>8. KillBacked'
      <4>1. st'.killed_until = until
        BY <3>1
      <4>2. CASE Len(es) >= KillThreshold /\ AutoKill
        <5>1. until = gnow + ResumeAfter
          BY <4>2
        <5>2. Kills(n)' /\ n \in 1 .. n
          BY <3>2, <3>4, <4>2
        <5>3. \A j \in 1 .. n : breachLog'[j] + ResumeAfter <= until
          <6>1. \A t \in Nat : t <= gnow => t + ResumeAfter <= until
            BY <1>0, <5>1
          <6>2. \A j \in 1 .. n : breachLog'[j] \in Nat /\ breachLog'[j] <= gnow
            <7>. SUFFICES ASSUME NEW j \in 1 .. n PROVE breachLog'[j] \in Nat /\ breachLog'[j] <= gnow
              OBVIOUS
            <7>1. CASE j = n
              BY <1>0, <3>2, <7>1
            <7>2. CASE j \in 1 .. Len(breachLog)
              BY <3>2, <3>5, <7>2
            <7>. QED
              BY <3>2, <7>1, <7>2
          <6>. QED
            BY <6>1, <6>2
        <5>. QED
          BY <3>2, <4>1, <5>1, <5>2, <5>3 DEF KillBacked
      <4>3. CASE ~(Len(es) >= KillThreshold /\ AutoKill)
        <5>1. until = st.killed_until /\ ~Kills(n)'
          BY <3>4, <4>3
        <5>2. \A j \in 1 .. Len(breachLog) : j \in 1 .. n
          BY <1>0, <3>0
        <5>3. until # Never => \E j \in 1 .. n : Kills(j)' /\ until = breachLog'[j] + ResumeAfter
          BY <3>5, <5>1, <5>2 DEF KillBacked
        <5>4. \A j \in 1 .. n : Kills(j)' =>
                 breachLog'[j] + ResumeAfter <= until \/ breachLog'[j] + ResumeAfter <= gnow
          BY <3>2, <3>5, <5>1 DEF KillBacked
        <5>. HIDE DEF until
        <5>. QED
          BY <2>5, <3>2, <4>1, <5>3, <5>4 DEF KillBacked
      <4>. QED
        BY <4>2, <4>3
    <3>. QED
      BY <3>7, <3>8
  <2>. QED
    BY <2>6, <2>7
<1>2. CASE RecordFill
  <2>. DEFINE cs == PruneOld(st.cancels, gnow - RatioWindow)
              fs == PruneOld(Append(st.fills, gnow), gnow - RatioWindow)
              bs == PruneOld(st.breach_events, gnow - KillWindow)
  <2>1. GcWindow([st EXCEPT !.fills = Append(@, gnow)]) =
           [cancels |-> cs, fills |-> fs, breach_events |-> bs, killed_until |-> st.killed_until]
    <3>. DEFINE s == [st EXCEPT !.fills = Append(@, gnow)]
    <3>1. /\ s.fills = Append(st.fills, gnow) /\ s.cancels = st.cancels
          /\ s.breach_events = st.breach_events /\ s.killed_until = st.killed_until
      BY <1>0
    <3>2. GcWindow(s) = [cancels |-> PruneOld(s.cancels, gnow - RatioWindow),
                         fills |-> PruneOld(s.fills, gnow - RatioWindow),
                         breach_events |-> PruneOld(s.breach_events, gnow - KillWindow),
                         killed_until |-> s.killed_until]
      BY DEF GcWindow
    <3>. QED
      BY <3>1, <3>2, Zenon
  <2>2. /\ InWindow(cs, cancelLog, gnow - RatioWindow)
        /\ InWindow(fs, Append(fillLog, gnow), gnow - RatioWindow)
        /\ InWindow(bs, breachLog, gnow - KillWindow)
        /\ gnow - RatioWindow \in Int /\ gnow - KillWindow \in Int
    BY Pruned
  <2>3. TimeLog(Append(fillLog, gnow), gnow) /\ Append(fillLog, gnow) \in Seq(Nat)
    BY <1>0, LogAppend DEF TimeLog
  <2>. HIDE DEF cs, fs, bs
  <2>4. cs \in Seq(Nat) /\ fs \in Seq(Nat) /\ bs \in Seq(Nat)
    BY <1>0, <2>2, <2>3, WindowShape
  <2>5. /\ st' = [cancels |-> cs, fills |-> fs, breach_events |-> bs, killed_until |-> st.killed_until]
        /\ fillLog' = Append(fillLog, gnow) /\ gcAt' = gnow /\ UNCHANGED <<gnow, cancelLog, breachLog>>
    BY <1>2, <2>1 DEF RecordFill
  <2>6. GuardTypes'
    BY <1>0, <2>3, <2>4, <2>5 DEF GuardTypes
  <2>7. WindowsExact'
    BY <2>2, <2>5 DEF WindowsExact
  <2>8. KillBacked'
    BY <2>5 DEF KillBacked, Kills
  <2>. QED
    BY <2>6, <2>7, <2>8
<1>3. CASE IsMarketKilled
  <2>1. UNCHANGED <<gnow, cancelLog, fillLog, breachLog, gcAt>>
    BY <1>3 DEF IsMarketKilled
  <2>2. CASE ~(gnow >= st.killed_until)
    <3>1. st' = st
      BY <1>3, <2>2 DEF IsMarketKilled
    <3>. QED
      BY <2>1, <3>1 DEF GuardTypes, WindowsExact, KillBacked, Kills
  <2>3. CASE gnow >= st.killed_until
    <3>1. st' = [st EXCEPT !.killed_until = Never]
      BY <1>3, <2>3 DEF IsMarketKilled
    <3>2. /\ st' \in [cancels : Seq(Nat), fills : Seq(Nat), breach_events : Seq(Nat), killed_until : Int]
          /\ st'.cancels = st.cancels /\ st'.fills = st.fills
          /\ st'.breach_events = st.breach_events /\ st'.killed_until = Never
      <4>1. st' = [cancels |-> st.cancels, fills |-> st.fills, breach_events |-> st.breach_events,
                   killed_until |-> Never]
        BY <1>0, <3>1, KillCleared
      <4>2. st.cancels \in Seq(Nat) /\ st.fills \in Seq(Nat) /\ st.breach_events \in Seq(Nat)
        BY <1>0
      <4>. QED
        BY <4>1, <4>2 DEF Never
    <3>3. GuardTypes' /\ WindowsExact'
      BY <2>1, <3>2 DEF GuardTypes, WindowsExact
    <3>4. \A j \in 1 .. Len(breachLog) : breachLog[j] \in Nat
      BY <1>0, ElementOfSeq
    <3>5. KillBacked'
      <4>1. \A j \in 1 .. Len(breachLog) : Kills(j) => breachLog[j] + ResumeAfter <= gnow
        BY <1>0, <2>3, <3>4 DEF KillBacked
      <4>. QED
        BY <2>1, <3>2, <4>1 DEF KillBacked, Kills
    <3>. QED
      BY <3>3, <3>5
  <2>. QED
    BY <2>2, <2>3
<1>4. CASE SafetyTick
  <2>1. gnow' = gnow + 1 /\ UNCHANGED <<st, cancelLog, fillLog, breachLog, gcAt>>
    BY <1>4 DEF SafetyTick
  <2>2. gnow' \in Nat /\ \A t \in Nat : t <= gnow => t <= gnow'
    BY <1>0, <2>1
  <2>3. \A log : TimeLog(log, gnow) => TimeLog(log, gnow')
    BY <2>2, ElementOfSeq DEF TimeLog
  <2>4. GuardTypes'
    BY <1>0, <2>1, <2>2, <2>3 DEF GuardTypes
  <2>5. \A j \in 1 .. Len(breachLog) : breachLog[j] + ResumeAfter \in Nat
    BY <1>0, ElementOfSeq
  <2>6. WindowsExact' /\ KillBacked'
    BY <2>1, <2>2, <2>5 DEF WindowsExact, KillBacked, Kills
  <2>. QED
    BY <2>4, <2>6
<1>5. CASE UNCHANGED safetyVars
  BY <1>5 DEF safetyVars, GuardTypes, WindowsExact, KillBacked, Kills
<1>. QED
  BY <1>1, <1>2, <1>3, <1>4, <1>5 DEF SafetyNext

LEMMA GuardSafe == GuardInv => GuardSound
<1>1. SUFFICES ASSUME GuardInv PROVE KilledIffBreached
  BY DEF GuardInv, GuardSound
<1>2. /\ gnow \in Nat /\ ResumeAfter \in Nat /\ st.killed_until \in Int
      /\ \A j \in 1 .. Len(breachLog) : breachLog[j] \in Nat
  BY <1>1, SafetyAssumption, ElementOfSeq DEF GuardInv, GuardTypes, TimeLog
<1>3. ASSUME st.killed_until # Never, gnow < st.killed_until
      PROVE  \E j \in 1 .. Len(breachLog) : Kills(j) /\ gnow < breachLog[j] + ResumeAfter
  BY <1>1, <1>3 DEF GuardInv, KillBacked
<1>4. ASSUME NEW j \in 1 .. Len(breachLog), Kills(j), gnow < breachLog[j] + ResumeAfter
      PROVE  st.killed_until # Never /\ gnow < st.killed_until
  <2>1. breachLog[j] + ResumeAfter <= st.killed_until
    BY <1>1, <1>2, <1>4 DEF GuardInv, KillBacked
  <2>. QED
    BY <1>2, <1>4, <2>1 DEF Never
<1>. QED
  BY <1>3, <1>4 DEF KilledIffBreached

\* Whatever the order of record_cancel, record_fill and is_market_killed, the
\* guard's deques are the events of the last minutes, and a market is refused
\* quotes at exactly the moments its whole history of breaches calls for, for
\* any thresholds and windows.
THEOREM GuardSoundHolds == SafetySpec => []GuardSound
<1>. QED
  BY GuardStart, GuardStep, GuardSafe, PTL DEF SafetySpec

-----------------------------------------------------------------------------
(* Alerts: two loops that share a client. *)

Fates == {"none", "sending", "posted", "dropped"}

AlertTypes ==
    /\ anow \in Nat /\ anow >= BreakerWindow /\ sentWindow \in Seq(Nat)
    /\ killFile \in BOOLEAN /\ staleNow \in BOOLEAN /\ killSeen \in BOOLEAN
    /\ flag \in [Flags -> BOOLEAN] /\ fate \in [Conditions -> Fates]
    /\ sending \in [Loops -> Kinds \union {"none"}]

Busy == (IF sending["heartbeat"] = "none" THEN 0 ELSE 1) + (IF sending["control"] = "none" THEN 0 ELSE 1)

\* A loop that has passed the breaker holds a place in the window.
BreakerHolds == Len(sentWindow) + Busy <= BreakerMax + 1

\* An alert that is on its way is in the loop of its flag.
InItsLoop ==
    \A c \in Conditions :
       fate[c] = "sending" => sending[IF c = "lost" THEN "heartbeat" ELSE "control"] = KindOf(c)

FlaggedHandedOver ==
    /\ \A f \in Flags : flag[f] => fate[f] # "none"
    /\ pnlDay # 0 => fate["pnl"] # "none"

AlertsInv == AlertTypes /\ BreakerHolds /\ InItsLoop /\ FlaggedHandedOver

LEMMA KindsDiffer ==
    /\ \A c \in Conditions : KindOf(c) \in Kinds /\ KindOf(c) # "none"
    /\ \A c, d \in Conditions : KindOf(c) = KindOf(d) => c = d
    /\ "lost" \in Flags /\ KindOf("lost") = "HEARTBEAT_LOST"
    /\ Flags \subseteq Conditions /\ "pnl" \in Conditions /\ "pnl" \notin Flags
BY DEF KindOf, Kinds, Conditions, Flags

LEMMA AlertsStart == AlertsInit => AlertsInv
<1>1. SUFFICES ASSUME AlertsInit PROVE AlertsInv
  OBVIOUS
<1>2. << >> \in Seq(Nat) /\ Len(<< >>) = 0
  BY EmptySeq
<1>3. AlertTypes
  <2>1. anow \in Nat /\ anow >= BreakerWindow
    BY <1>1, AlertsAssumption DEF AlertsInit, Start0
  <2>2. /\ killFile \in BOOLEAN /\ staleNow \in BOOLEAN /\ killSeen \in BOOLEAN
        /\ flag \in [Flags -> BOOLEAN]
    BY <1>1, Zenon DEF AlertsInit
  <2>3. sentWindow \in Seq(Nat)
    BY <1>1, <1>2 DEF AlertsInit
  <2>4. fate \in [Conditions -> Fates] /\ sending \in [Loops -> Kinds \union {"none"}]
    BY <1>1 DEF AlertsInit, Fates
  <2>. QED
    BY <2>1, <2>2, <2>3, <2>4 DEF AlertTypes
<1>4. BreakerHolds /\ InItsLoop /\ FlaggedHandedOver
  BY <1>1, <1>2, KindsDiffer, AlertsAssumption
  DEF AlertsInit, BreakerHolds, Busy, InItsLoop, FlaggedHandedOver, Loops
<1>. QED
  BY <1>3, <1>4 DEF AlertsInv

\* What passes the breaker finds room.
LEMMA SendHolds ==
    ASSUME AlertTypes, BreakerHolds, NEW l \in Loops, NEW k \in Kinds,
           sending[l] = "none", Send(l, k)
    PROVE  /\ sending' \in [Loops -> Kinds \union {"none"}] /\ sentWindow' = sentWindow
           /\ sending'[l] = (IF AtOnce(k) = "sending" THEN k ELSE "none")
           /\ \A m \in Loops \ {l} : sending'[m] = sending[m]
           /\ BreakerHolds'
<1>1. sending' = [sending EXCEPT ![l] = IF Duplicate(k) \/ CircuitOpen THEN "none" ELSE k]
      /\ sentWindow' = sentWindow
  BY DEF Send
<1>2. AtOnce(k) = "sending" <=> ~(Duplicate(k) \/ CircuitOpen)
  BY DEF AtOnce
<1>3. /\ sending' \in [Loops -> Kinds \union {"none"}]
      /\ sending'[l] = (IF AtOnce(k) = "sending" THEN k ELSE "none")
      /\ \A m \in Loops \ {l} : sending'[m] = sending[m]
  BY <1>1, <1>2 DEF AlertTypes
<1>4. Len(sentWindow) \in Nat /\ BreakerMax \in Nat
  BY AlertsAssumption DEF AlertTypes
<1>5. BreakerHolds'
  <2>1. CASE Duplicate(k) \/ CircuitOpen
    <3>1. \A m \in Loops : sending'[m] = sending[m]
      BY <1>1, <1>2, <1>3, <2>1
    <3>. QED
      BY <1>1, <3>1 DEF BreakerHolds, Busy, Loops
  <2>2. CASE ~(Duplicate(k) \/ CircuitOpen)
    <3>1. ~(Len(sentWindow) >= BreakerMax)
      BY <2>2 DEF CircuitOpen, Tripping
    <3>2. Busy' \in 0 .. 2
      BY DEF Busy
    <3>3. Len(sentWindow) + 2 <= BreakerMax + 1
      BY <1>4, <3>1
    <3>. HIDE DEF Busy
    <3>. QED
      BY <1>1, <1>4, <3>2, <3>3 DEF BreakerHolds
  <2>. QED
    BY <2>1, <2>2
<1>. QED
  BY <1>1, <1>3, <1>5

\* The control loop hands over the alert of a condition.
LEMMA ControlSends ==
    ASSUME AlertTypes, BreakerHolds, InItsLoop, sending["control"] = "none",
           NEW c \in Conditions \ {"lost"},
           Send("control", KindOf(c)), fate' = [fate EXCEPT ![c] = AtOnce(KindOf(c))]
    PROVE  /\ sending' \in [Loops -> Kinds \union {"none"}] /\ sentWindow' = sentWindow
           /\ BreakerHolds' /\ InItsLoop' /\ fate' \in [Conditions -> Fates] /\ fate'[c] # "none"
           /\ \A d \in Conditions \ {c} : fate'[d] = fate[d]
<1>1. "control" \in Loops /\ KindOf(c) \in Kinds /\ AtOnce(KindOf(c)) \in {"sending", "dropped"}
  BY KindsDiffer DEF Loops, AtOnce
<1>2. /\ sending' \in [Loops -> Kinds \union {"none"}] /\ sentWindow' = sentWindow
      /\ sending'["control"] = (IF AtOnce(KindOf(c)) = "sending" THEN KindOf(c) ELSE "none")
      /\ \A m \in Loops \ {"control"} : sending'[m] = sending[m]
      /\ BreakerHolds'
  BY <1>1, SendHolds
<1>3. /\ fate' \in [Conditions -> Fates] /\ fate'[c] = AtOnce(KindOf(c))
      /\ \A d \in Conditions \ {c} : fate'[d] = fate[d]
  BY <1>1 DEF AlertTypes, Fates
<1>4. \A d \in Conditions \ {"lost"} : fate[d] # "sending"
  BY KindsDiffer DEF InItsLoop
<1>5. sending'["heartbeat"] = sending["heartbeat"]
  BY <1>2 DEF Loops
<1>6. InItsLoop'
  BY <1>2, <1>3, <1>4, <1>5 DEF InItsLoop
<1>. QED
  BY <1>1, <1>2, <1>3, <1>6

LEMMA AlertsStep ==
    ASSUME AlertsInv, [AlertsNext]_alertVars
    PROVE  AlertsInv'
<1>. USE DEF AlertsInv, client, world, control
<1>0. /\ anow \in Nat /\ anow >= BreakerWindow /\ sentWindow \in Seq(Nat) /\ Len(sentWindow) \in Nat
      /\ flag \in [Flags -> BOOLEAN] /\ fate \in [Conditions -> Fates]
      /\ sending \in [Loops -> Kinds \union {"none"}] /\ BreakerMax \in Nat /\ BreakerWindow \in Nat
  BY AlertsAssumption DEF AlertTypes
<1>1. CASE Beat \/ Toggle
  <2>1. /\ UNCHANGED <<anow, flag, control, sending, client, fate>>
        /\ killFile' \in {killFile, ~killFile} /\ staleNow' \in {staleNow, ~staleNow}
    BY <1>1 DEF Beat, Toggle
  <2>2. killFile' \in BOOLEAN /\ staleNow' \in BOOLEAN /\ killSeen' \in BOOLEAN
    BY <2>1, Zenon DEF AlertTypes
  <2>. QED
    BY <2>1, <2>2 DEF AlertTypes, BreakerHolds, Busy, InItsLoop, FlaggedHandedOver
<1>2. CASE RunHeartbeat
  <2>1. PICK kind \in {"HEARTBEAT_LOST", "HEARTBEAT_RECOVERED"} :
           /\ Send("heartbeat", kind)
           /\ Lost => kind = "HEARTBEAT_LOST"
           /\ fate' = [fate EXCEPT !["lost"] = IF Lost THEN AtOnce(kind) ELSE "none"]
    BY <1>2 DEF RunHeartbeat
  <2>2. /\ sending["heartbeat"] = "none" /\ flag' = [flag EXCEPT !["lost"] = Lost]
        /\ UNCHANGED <<anow, world, control>>
    BY <1>2 DEF RunHeartbeat
  <2>3. kind \in Kinds /\ "heartbeat" \in Loops /\ "lost" \in Flags /\ "lost" \in Conditions
    BY DEF Kinds, Loops, Flags, Conditions
  <2>4. /\ sending' \in [Loops -> Kinds \union {"none"}] /\ sentWindow' = sentWindow
        /\ sending'["heartbeat"] = (IF AtOnce(kind) = "sending" THEN kind ELSE "none")
        /\ \A m \in Loops \ {"heartbeat"} : sending'[m] = sending[m]
        /\ BreakerHolds'
    BY <2>1, <2>2, <2>3, SendHolds
  <2>5. AtOnce(kind) \in {"sending", "dropped"}
    BY DEF AtOnce
  <2>6. /\ fate' \in [Conditions -> Fates] /\ fate'["lost"] = (IF Lost THEN AtOnce(kind) ELSE "none")
        /\ \A c \in Conditions \ {"lost"} : fate'[c] = fate[c]
    BY <1>0, <2>1, <2>3, <2>5 DEF Fates
  <2>7. /\ flag' \in [Flags -> BOOLEAN] /\ (flag'["lost"] <=> Lost)
        /\ \A f \in Flags \ {"lost"} : flag'[f] = flag[f]
    <3>1. Lost \in BOOLEAN
      BY DEF Lost
    <3>. HIDE DEF Lost
    <3>2. flag' \in [Flags -> BOOLEAN] /\ (flag'["lost"] <=> Lost)
      BY <1>0, <2>2, <2>3, <3>1, Zenon
    <3>3. \A f \in Flags \ {"lost"} : flag'[f] = flag[f]
      BY <1>0, <2>2, <2>3, <3>1
    <3>. QED
      BY <3>2, <3>3
  <2>8. sending'["control"] = sending["control"]
    BY <2>4 DEF Loops
  <2>9. InItsLoop'
    BY <2>1, <2>4, <2>6, <2>8, KindsDiffer DEF InItsLoop
  <2>10. FlaggedHandedOver'
    BY <2>2, <2>5, <2>6, <2>7, KindsDiffer DEF FlaggedHandedOver
  <2>11. killFile' \in BOOLEAN /\ staleNow' \in BOOLEAN /\ killSeen' \in BOOLEAN
    BY <2>2, Zenon DEF AlertTypes
  <2>. QED
    BY <1>0, <2>2, <2>4, <2>6, <2>7, <2>9, <2>10, <2>11 DEF AlertTypes
<1>3. ASSUME NEW f \in Flags \ {"lost"}, NEW condition \in BOOLEAN, sending["control"] = "none",
             Observe(f, condition), anow' = anow, pnlDay' = pnlDay
      PROVE  /\ flag' \in [Flags -> BOOLEAN] /\ fate' \in [Conditions -> Fates]
             /\ sending' \in [Loops -> Kinds \union {"none"}] /\ sentWindow' = sentWindow
             /\ BreakerHolds' /\ InItsLoop' /\ FlaggedHandedOver'
  <2>1. f \in Conditions \ {"lost"} /\ f # "pnl" /\ "pnl" \in Conditions
    BY KindsDiffer
  <2>2. flag' = [flag EXCEPT ![f] = condition]
    BY <1>3 DEF Observe
  <2>3. flag' \in [Flags -> BOOLEAN] /\ (flag'[f] <=> condition)
    BY <1>0, <2>2, Zenon
  <2>4. \A g \in Flags \ {f} : flag'[g] = flag[g]
    BY <1>0, <2>2
  <2>5. CASE condition /\ ~flag[f]
    <3>1. Send("control", KindOf(f)) /\ fate' = [fate EXCEPT ![f] = AtOnce(KindOf(f))]
      BY <1>3, <2>5 DEF Observe
    <3>2. /\ sending' \in [Loops -> Kinds \union {"none"}] /\ sentWindow' = sentWindow
          /\ BreakerHolds' /\ InItsLoop' /\ fate' \in [Conditions -> Fates] /\ fate'[f] # "none"
          /\ \A d \in Conditions \ {f} : fate'[d] = fate[d]
      BY <1>3, <2>1, <3>1, ControlSends
    <3>3. FlaggedHandedOver'
      BY <1>3, <2>1, <2>4, <3>2, KindsDiffer DEF FlaggedHandedOver
    <3>. QED
      BY <2>3, <3>2, <3>3
  <2>6. CASE ~(condition /\ ~flag[f])
    <3>1. /\ fate' = IF condition THEN fate ELSE [fate EXCEPT ![f] = "none"]
          /\ UNCHANGED <<sending, client>>
      BY <1>3, <2>6 DEF Observe
    <3>2. /\ fate' \in [Conditions -> Fates] /\ \A d \in Conditions \ {f} : fate'[d] = fate[d]
          /\ fate'[f] \in {fate[f], "none"} /\ (condition => fate'[f] = fate[f])
      BY <1>0, <2>1, <3>1 DEF Fates
    <3>3. InItsLoop' /\ BreakerHolds'
      BY <3>1, <3>2 DEF InItsLoop, BreakerHolds, Busy
    <3>4. FlaggedHandedOver'
      BY <1>3, <2>1, <2>3, <2>4, <2>6, <3>2, KindsDiffer DEF FlaggedHandedOver
    <3>. QED
      BY <1>0, <2>3, <3>1, <3>2, <3>3, <3>4
  <2>. QED
    BY <2>5, <2>6
<1>4. CASE ObserveOnce
  <2>1. CASE ObserveDown
    <3>1. /\ sending["control"] = "none" /\ Observe("down", EngineDown) /\ killSeen' = killFile
          /\ UNCHANGED <<anow, world, pnlDay>>
      BY <2>1 DEF ObserveDown
    <3>2. EngineDown \in BOOLEAN /\ "down" \in Flags \ {"lost"}
      BY DEF EngineDown, Flags, Conditions
    <3>3. killFile' \in BOOLEAN /\ staleNow' \in BOOLEAN /\ killSeen' \in BOOLEAN
      BY <3>1, Zenon DEF AlertTypes
    <3>. HIDE DEF EngineDown
    <3>4. /\ flag' \in [Flags -> BOOLEAN] /\ fate' \in [Conditions -> Fates]
          /\ sending' \in [Loops -> Kinds \union {"none"}] /\ sentWindow' = sentWindow
          /\ BreakerHolds' /\ InItsLoop' /\ FlaggedHandedOver'
      BY <1>3, <3>1, <3>2
    <3>. QED
      BY <1>0, <3>1, <3>3, <3>4 DEF AlertTypes
  <2>2. CASE ObserveKill
    <3>1. /\ sending["control"] = "none" /\ Observe("kill", killSeen)
          /\ UNCHANGED <<anow, world, pnlDay, killSeen>>
      BY <2>2 DEF ObserveKill
    <3>2. killSeen \in BOOLEAN /\ "kill" \in Flags \ {"lost"}
      BY DEF AlertTypes, Flags, Conditions
    <3>3. killFile' \in BOOLEAN /\ staleNow' \in BOOLEAN /\ killSeen' \in BOOLEAN
      BY <3>1, Zenon DEF AlertTypes
    <3>4. /\ flag' \in [Flags -> BOOLEAN] /\ fate' \in [Conditions -> Fates]
          /\ sending' \in [Loops -> Kinds \union {"none"}] /\ sentWindow' = sentWindow
          /\ BreakerHolds' /\ InItsLoop' /\ FlaggedHandedOver'
      BY <1>3, <3>1, <3>2
    <3>. QED
      BY <1>0, <3>1, <3>3, <3>4 DEF AlertTypes
  <2>3. CASE ObservePnl
    <3>1. sending["control"] = "none" /\ UNCHANGED <<anow, world, flag, killSeen>>
      BY <2>3 DEF ObservePnl
    <3>2. killFile' \in BOOLEAN /\ staleNow' \in BOOLEAN /\ killSeen' \in BOOLEAN
      BY <3>1, Zenon DEF AlertTypes
    <3>3. CASE /\ Send("control", KindOf("pnl"))
               /\ fate' = [fate EXCEPT !["pnl"] = AtOnce(KindOf("pnl"))]
      <4>1. "pnl" \in Conditions \ {"lost"}
        BY KindsDiffer
      <4>2. /\ sending' \in [Loops -> Kinds \union {"none"}] /\ sentWindow' = sentWindow
            /\ BreakerHolds' /\ InItsLoop' /\ fate' \in [Conditions -> Fates] /\ fate'["pnl"] # "none"
            /\ \A d \in Conditions \ {"pnl"} : fate'[d] = fate[d]
        BY <3>1, <3>3, <4>1, ControlSends
      <4>3. FlaggedHandedOver'
        BY <3>1, <4>2, KindsDiffer DEF FlaggedHandedOver
      <4>. QED
        BY <1>0, <3>1, <3>2, <4>2, <4>3 DEF AlertTypes
    <3>4. CASE UNCHANGED <<pnlDay, sending, client, fate>>
      BY <1>0, <3>1, <3>2, <3>4 DEF AlertTypes, BreakerHolds, Busy, InItsLoop, FlaggedHandedOver
    <3>. QED
      BY <2>3, <3>3, <3>4 DEF ObservePnl
  <2>4. CASE ObserveStale
    <3>1. /\ sending["control"] = "none" /\ UNCHANGED <<anow, world, pnlDay, killSeen>>
          /\ Observe("stale", staleNow) \/ UNCHANGED <<flag, fate, sending, client>>
      BY <2>4 DEF ObserveStale
    <3>2. staleNow \in BOOLEAN /\ "stale" \in Flags \ {"lost"}
      BY DEF AlertTypes, Flags, Conditions
    <3>3. killFile' \in BOOLEAN /\ staleNow' \in BOOLEAN /\ killSeen' \in BOOLEAN
      BY <3>1, Zenon DEF AlertTypes
    <3>4. CASE Observe("stale", staleNow)
      <4>1. /\ flag' \in [Flags -> BOOLEAN] /\ fate' \in [Conditions -> Fates]
            /\ sending' \in [Loops -> Kinds \union {"none"}] /\ sentWindow' = sentWindow
            /\ BreakerHolds' /\ InItsLoop' /\ FlaggedHandedOver'
        BY <1>3, <3>1, <3>2, <3>4
      <4>. QED
        BY <1>0, <3>1, <3>3, <4>1 DEF AlertTypes
    <3>5. CASE UNCHANGED <<flag, fate, sending, client>>
      BY <1>0, <3>1, <3>3, <3>5 DEF AlertTypes, BreakerHolds, Busy, InItsLoop, FlaggedHandedOver
    <3>. QED
      BY <3>1, <3>4, <3>5
  <2>. QED
    BY <1>4, <2>1, <2>2, <2>3, <2>4 DEF ObserveOnce
<1>5. CASE Posted
  <2>1. PICK l \in Loops :
           /\ sending[l] # "none" /\ sending' = [sending EXCEPT ![l] = "none"]
           /\ \/ sentWindow' = Append(sentWindow, anow) /\ Settle(sending[l], "posted")
              \/ sentWindow' = sentWindow /\ Settle(sending[l], "dropped")
    BY <1>5 DEF Posted
  <2>2. UNCHANGED <<anow, world, flag, control>>
    BY <1>5 DEF Posted
  <2>3. /\ sending' \in [Loops -> Kinds \union {"none"}] /\ sending'[l] = "none"
        /\ \A m \in Loops \ {l} : sending'[m] = sending[m]
    BY <1>0, <2>1
  <2>4. PICK outcome \in {"posted", "dropped"} :
           fate' = [c \in Conditions |-> IF KindOf(c) = sending[l] /\ fate[c] = "sending" THEN outcome
                                          ELSE fate[c]]
    BY <2>1 DEF Settle
  <2>5. /\ fate' \in [Conditions -> Fates] /\ \A c \in Conditions : fate[c] # "none" => fate'[c] # "none"
        /\ \A c \in Conditions : fate'[c] = "sending" => fate[c] = "sending" /\ KindOf(c) # sending[l]
    BY <1>0, <2>4 DEF Fates
  <2>6. InItsLoop'
    BY <2>3, <2>5 DEF InItsLoop, Loops
  <2>7. /\ sentWindow' \in Seq(Nat) /\ Len(sentWindow') \in Nat
        /\ Len(sentWindow') <= Len(sentWindow) + 1
    BY <1>0, <2>1, AppendProperties
  <2>8. Busy = Busy' + 1 /\ Busy' \in Nat
    BY <2>1, <2>3 DEF Busy, Loops
  <2>9. BreakerHolds'
    <3>. HIDE DEF Busy
    <3>. QED
      BY <1>0, <2>7, <2>8 DEF BreakerHolds
  <2>10. FlaggedHandedOver'
    BY <2>2, <2>5, KindsDiffer DEF FlaggedHandedOver
  <2>11. killFile' \in BOOLEAN /\ staleNow' \in BOOLEAN /\ killSeen' \in BOOLEAN
    BY <2>2, Zenon DEF AlertTypes
  <2>. QED
    BY <1>0, <2>2, <2>3, <2>5, <2>6, <2>7, <2>9, <2>10, <2>11 DEF AlertTypes
<1>6. CASE AlertTick
  <2>1. /\ anow' = anow + 1 /\ sentWindow' = Posts(sentWindow, anow' - BreakerWindow)
        /\ UNCHANGED <<world, flag, control, sending, fate>>
    BY <1>6 DEF AlertTick
  <2>2. anow' \in Nat /\ anow' >= BreakerWindow
    BY <1>0, <2>1
  <2>3. sentWindow' \in Seq(Nat) /\ Len(sentWindow') \in Nat /\ Len(sentWindow') <= Len(sentWindow)
    <3>. DEFINE old == {i \in DOMAIN sentWindow : sentWindow[i] <= anow' - BreakerWindow}
                k == Cardinality(old)
    <3>1. DOMAIN sentWindow = 1 .. Len(sentWindow) /\ IsFiniteSet(1 .. Len(sentWindow))
      BY <1>0, FS_Interval
    <3>2. IsFiniteSet(old) /\ k \in Nat
      BY <3>1, FS_Subset, FS_CardinalityType
    <3>3. sentWindow' = SubSeq(sentWindow, k + 1, Len(sentWindow))
      BY <2>1 DEF Posts
    <3>. HIDE DEF k
    <3>4. \A i \in k + 1 .. Len(sentWindow) : sentWindow[i] \in Nat
      <4>1. \A i \in k + 1 .. Len(sentWindow) : i \in 1 .. Len(sentWindow)
        BY <1>0, <3>2
      <4>. QED
        BY <1>0, <4>1, ElementOfSeq
    <3>5. k + 1 \in Int /\ Len(sentWindow) \in Int
      BY <1>0, <3>2
    <3>6. /\ sentWindow' \in Seq(Nat)
          /\ Len(sentWindow') = IF k + 1 <= Len(sentWindow) THEN Len(sentWindow) - (k + 1) + 1 ELSE 0
      BY <3>3, <3>4, <3>5, SubSeqProperties
    <3>. QED
      BY <1>0, <3>2, <3>6
  <2>4. BreakerHolds'
    <3>1. Busy' = Busy /\ Busy \in Nat
      BY <2>1 DEF Busy
    <3>. HIDE DEF Busy
    <3>. QED
      BY <1>0, <2>3, <3>1 DEF BreakerHolds
  <2>5. InItsLoop' /\ FlaggedHandedOver'
    BY <2>1 DEF InItsLoop, FlaggedHandedOver
  <2>6. killFile' \in BOOLEAN /\ staleNow' \in BOOLEAN /\ killSeen' \in BOOLEAN
    BY <2>1, Zenon DEF AlertTypes
  <2>. QED
    BY <1>0, <2>1, <2>2, <2>3, <2>4, <2>5, <2>6 DEF AlertTypes
<1>7. CASE UNCHANGED alertVars
  BY <1>7 DEF alertVars, AlertTypes, BreakerHolds, Busy, InItsLoop, FlaggedHandedOver
<1>. QED
  BY <1>1, <1>2, <1>4, <1>5, <1>6, <1>7 DEF AlertsNext

LEMMA AlertsSafe == AlertsInv => AlertsSound
<1>1. SUFFICES ASSUME AlertsInv PROVE AlertsSound
  OBVIOUS
<1>2. Cardinality(Loops) = 2
  <2>1. Loops = {"heartbeat"} \union {"control"} /\ "control" \notin {"heartbeat"}
    BY DEF Loops
  <2>2. IsFiniteSet({"heartbeat"}) /\ Cardinality({"heartbeat"}) = 1
    BY FS_Singleton
  <2>. QED
    BY <2>1, <2>2, FS_AddElement
<1>3. Len(sentWindow) <= BreakerMax + Cardinality(Loops) - 1
  <2>1. Busy \in Nat
    BY DEF Busy
  <2>2. Len(sentWindow) \in Nat /\ BreakerMax \in Nat
    BY <1>1, AlertsAssumption DEF AlertsInv, AlertTypes
  <2>. HIDE DEF Busy
  <2>. QED
    BY <1>1, <1>2, <2>1, <2>2 DEF AlertsInv, BreakerHolds
<1>4. \A c \in Conditions : fate[c] = "sending" => \E l \in Loops : sending[l] = KindOf(c)
  BY <1>1 DEF AlertsInv, InItsLoop, Loops
<1>. QED
  BY <1>1, <1>3, <1>4 DEF AlertsInv, AlertsSound, FlaggedHandedOver

\* For any limits, windows and failures: although both loops of the watcher can
\* pass TelegramClient's breaker before either has posted, a window never sees
\* more than one post above the limit; a condition flagged, or latched for its
\* day, was handed to the client, and an alert being posted is in a loop that
\* waits for its answer.
THEOREM AlertsSoundHolds == AlertsSpec => []AlertsSound
<1>. QED
  BY AlertsStart, AlertsStep, AlertsSafe, PTL DEF AlertsSpec

=============================================================================
