-------------------------- MODULE FilesTimerProofs --------------------------
(***************************************************************************)
(* Proofs about the timer and about the files of a process, two components *)
(* that share no state and are proved one after the other.                 *)
(*                                                                         *)
(* Timer, for every set of threads and every tick: the sleep list is exact *)
(* and ordered (SleepListExact), no timer interrupt is lost (NoLostTimer)  *)
(* and no sleep ends early (NoEarlyWake).                                  *)
(*                                                                         *)
(* Files, for every number of processes, descriptors, files and devices,   *)
(* as long as no process ends while another one refers to its objects      *)
(* (~SharedExit): descriptors lead to open objects (DescriptorIntact) and  *)
(* the descriptors implement IoRef; and, whatever processes share, that    *)
(* fork returns the number wait wants (ForkNamesChild).                    *)
(***************************************************************************)
EXTENDS Timer, Files, FiniteSetTheorems, WellFoundedInduction, TLAPS

(* Lists: length and elements, what \o and SubSeq do.                         *)
LEMMA ListLen ==
  ASSUME NEW S, NEW s \in Seq(S)
  PROVE  /\ Len(s) \in Nat /\ \A i \in 1 .. Len(s) : s[i] \in S
         /\ s # <<>> <=> Len(s) # 0
         /\ <<>> \in Seq(S) /\ Len(<<>>) = 0
  OBVIOUS

LEMMA ListConcat ==
  ASSUME NEW S, NEW s \in Seq(S), NEW t \in Seq(S)
  PROVE  /\ s \o t \in Seq(S) /\ Len(s \o t) = Len(s) + Len(t)
         /\ \A i \in 1 .. Len(s) + Len(t) :
              (s \o t)[i] = IF i <= Len(s) THEN s[i] ELSE t[i - Len(s)]
  OBVIOUS

LEMMA ListPart ==
  ASSUME NEW S, NEW s \in Seq(S), NEW m \in 1 .. Len(s) + 1, NEW n \in 0 .. Len(s),
         m <= n + 1
  PROVE  /\ SubSeq(s, m, n) \in Seq(S) /\ Len(SubSeq(s, m, n)) = n - m + 1
         /\ \A i \in 1 .. n - m + 1 : SubSeq(s, m, n)[i] = s[m + i - 1]
  OBVIOUS
-----------------------------------------------------------------------------
(* The timer.                                                                *)

TimerTypeInv ==
  /\ {mtime, mtcmp, next_tick, tcnt, now} \subseteq Nat
  /\ mtie \in BOOLEAN /\ stip \in BOOLEAN
  /\ sleep_list \in Seq(Thread) /\ twake \in [Thread -> Nat]
  /\ st \in [Thread -> {"ready", "run", "sleep", "woken"}]
  /\ tp \in Thread \cup {NoThread}
  /\ tpc \in {"sched", "user", "alarm_sleep", "insert", "rearm", "wait"}
  /\ hpc \in {"none", "handle", "rearm"}

(* The current thread runs, nothing else does, and the S-mode handler        *)
(* interrupts neither a system call nor itself.                              *)
HartInv ==
  /\ tpc = "sched" <=> tp = NoThread
  /\ \A t \in Thread : st[t] = "run" <=> t = tp
  /\ hpc # "none" => tpc \in {"user", "sched"}

(* The M-mode interrupt is masked exactly while the S-mode one is pending,   *)
(* and mtcmp is no later than the first alarm when that one comes before the *)
(* next tick, and no later than the tick otherwise (next_tick is 0 until the *)
(* first one).                                                               *)
CompareInv ==
  /\ mtie <=> ~stip
  /\ mtcmp <= next_tick \/ mtcmp <= TICK_PERIOD
  /\ sleep_list # <<>> /\ twake[sleep_list[1]] < next_tick =>
       mtcmp <= twake[sleep_list[1]]

TimeInv == now <= mtime /\ NoEarlyWake

TimerInv == TimerTypeInv /\ HartInv /\ CompareInv /\ TimeInv /\ SleepListExact
-----------------------------------------------------------------------------
(* The operators: least elements, insertion and the alarms that are due.     *)

LEMMA LeastExists ==
  ASSUME NEW S \in SUBSET Nat, S # {}
  PROVE  \E z \in S : \A y \in S : z <= y
<1> DEFINE R == OpToRel(<, Nat)
<1>1. IsWellFoundedOn(R, Nat)
  BY NatLessThanWellFounded, Zenon
<1>2. \E x \in S : \A y \in S : ~(<<y, x>> \in R)
  BY <1>1, WFMin, Zenon
<1>3. \A x, y \in Nat : <<x, y>> \in R <=> x < y
  BY Zenon DEF OpToRel
<1> HIDE DEF R
<1>4. PICK x \in S : \A y \in S : ~(<<y, x>> \in R)
  BY Zenon, <1>2
<1>5. \A y \in S : ~(y < x)
  BY <1>3, <1>4, ZenonT(60), SMT
<1> QED BY <1>5

LEMMA MinIn ==
  ASSUME NEW S \in SUBSET Nat, S # {}
  PROVE  Min(S) \in S /\ \A y \in S : Min(S) <= y
  BY LeastExists, Zenon DEF Min

(* The larger of two times, as NoLostTimer uses it. *)
LEMMA MaxOfTwo ==
  ASSUME NEW a \in Nat, NEW b \in Nat, NEW c \in Nat, c >= Max({a, b})
  PROVE  c >= a /\ c >= b
<1>1. \E x \in {a, b} : \A y \in {a, b} : x >= y
  OBVIOUS
<1>2. Max({a, b}) \in {a, b} /\ \A y \in {a, b} : Max({a, b}) >= y
  BY <1>1, Zenon DEF Max
<1> QED BY <1>2

(* alarm_sleep puts an alarm behind the earlier ones and before the others.  *)
LEMMA InsertFacts ==
  ASSUME twake \in [Thread -> Nat], NEW list \in Seq(Thread), NEW t \in Thread
  PROVE  /\ InsertAlarm(list, t) \in Seq(Thread)
         /\ Len(InsertAlarm(list, t)) = Len(list) + 1
         /\ \E k \in 1 .. Len(list) + 1 :
              /\ InsertAlarm(list, t)[k] = t
              /\ \A i \in 1 .. k - 1 : /\ InsertAlarm(list, t)[i] = list[i]
                                       /\ twake[list[i]] < twake[t]
              /\ \A i \in k + 1 .. Len(list) + 1 : InsertAlarm(list, t)[i] = list[i - 1]
              /\ k <= Len(list) => twake[t] <= twake[list[k]]
<1> DEFINE after == {i \in 1 .. Len(list) : twake[t] <= twake[list[i]]}
           k == Min(after \cup {Len(list) + 1})
           a == SubSeq(list, 1, k - 1)
           b == SubSeq(list, k, Len(list))
<1>0. Len(list) \in Nat /\ \A i \in 1 .. Len(list) : list[i] \in Thread
  BY Zenon, ListLen
<1>1. /\ k \in after \cup {Len(list) + 1}
      /\ \A y \in after \cup {Len(list) + 1} : k <= y
  <2>1. after \cup {Len(list) + 1} \in SUBSET Nat
    BY <1>0
  <2> HIDE DEF after
  <2> QED BY Zenon, <2>1, MinIn
<1>2. /\ k \in 1 .. Len(list) + 1
      /\ \A i \in 1 .. k - 1 : twake[list[i]] < twake[t]
      /\ k <= Len(list) => twake[t] <= twake[list[k]]
  <2> HIDE DEF k
  <2>1. k \in 1 .. Len(list) + 1 /\ (k <= Len(list) => twake[t] <= twake[list[k]])
    BY <1>0, <1>1
  <2>2. ASSUME NEW i \in 1 .. k - 1 PROVE twake[list[i]] < twake[t]
    <3>1. i \in 1 .. Len(list) /\ i \notin after
      BY <1>0, <1>1, <2>1
    <3>2. twake[list[i]] \in Nat /\ twake[t] \in Nat
      BY Zenon, <1>0, <3>1
    <3> QED BY <3>1, <3>2
  <2> QED BY Zenon, <2>1, <2>2
<1>3. InsertAlarm(list, t) = a \o <<t>> \o b
  BY Zenon DEF InsertAlarm
<1> HIDE DEF k, after
<1>4. /\ a \in Seq(Thread) /\ Len(a) = k - 1 /\ \A i \in 1 .. k - 1 : a[i] = list[i]
  BY <1>0, <1>2, ListPart
<1>5. /\ b \in Seq(Thread) /\ Len(b) = Len(list) - k + 1
      /\ \A i \in 1 .. Len(list) - k + 1 : b[i] = list[k + i - 1]
  BY <1>0, <1>2, ListPart
<1> HIDE DEF a, b
<1>6. /\ a \o <<t>> \in Seq(Thread) /\ Len(a \o <<t>>) = k
      /\ \A i \in 1 .. k : (a \o <<t>>)[i] = IF i < k THEN list[i] ELSE t
  BY <1>0, <1>2, <1>4
<1> DEFINE c == a \o <<t>>
<1>7. c \in Seq(Thread) /\ Len(c) = k /\ \A i \in 1 .. k : c[i] = IF i < k THEN list[i] ELSE t
  BY Zenon, <1>6
<1>8. InsertAlarm(list, t) = c \o b
  BY Zenon, <1>3
<1> HIDE DEF c
<1> DEFINE n == InsertAlarm(list, t)
<1>9. /\ n \in Seq(Thread) /\ Len(n) = Len(list) + 1
      /\ \A i \in 1 .. Len(list) + 1 : n[i] = IF i <= k THEN c[i] ELSE b[i - k]
  <2>1. /\ n \in Seq(Thread) /\ Len(n) = Len(c) + Len(b)
        /\ \A i \in 1 .. Len(c) + Len(b) : n[i] = IF i <= Len(c) THEN c[i] ELSE b[i - Len(c)]
    <3>1. c \in Seq(Thread) /\ b \in Seq(Thread)
      BY Zenon, <1>5, <1>7
    <3>2. /\ c \o b \in Seq(Thread) /\ Len(c \o b) = Len(c) + Len(b)
          /\ \A i \in 1 .. Len(c) + Len(b) :
               (c \o b)[i] = IF i <= Len(c) THEN c[i] ELSE b[i - Len(c)]
      BY Zenon, <3>1, ListConcat
    <3> QED BY <1>8, <3>2, Zenon
  <2>2. Len(c) = k /\ Len(c) + Len(b) = Len(list) + 1
    BY <1>0, <1>2, <1>5, <1>7
  <2> HIDE DEF n
  <2> QED BY Zenon, <2>1, <2>2
<1> HIDE DEF n
<1>10. /\ n \in Seq(Thread) /\ Len(n) = Len(list) + 1 /\ n[k] = t
       /\ \A i \in 1 .. k - 1 : n[i] = list[i]
  BY <1>0, <1>2, <1>7, <1>9
<1>11. ASSUME NEW i \in k + 1 .. Len(list) + 1 PROVE n[i] = list[i - 1]
  <2>1. i \in 1 .. Len(list) + 1 /\ ~(i <= k) /\ i - k \in 1 .. Len(list) - k + 1
    BY <1>0, <1>2
  <2>2. b[i - k] = list[k + (i - k) - 1]
    BY Zenon, <1>5, <2>1
  <2>3. k + (i - k) - 1 = i - 1
    BY <1>0, <1>2
  <2>4. n[i] = b[i - k]
    BY Zenon, <1>9, <2>1
  <2> QED BY Zenon, <2>2, <2>3, <2>4
<1> QED BY Zenon, <1>2, <1>10, <1>11 DEF n

(* The alarms due are a prefix of the list, as long as their number. *)
LEMMA PrefixCardinality ==
  ASSUME NEW n \in Nat, NEW S \in SUBSET (1 .. n),
         \A i \in S : \A j \in 1 .. i : j \in S
  PROVE  Cardinality(S) \in 0 .. n /\ S = 1 .. Cardinality(S)
<1> DEFINE M == {i \in Nat : i + 1 \notin S}
           m == Min(M)
<1>1. M \in SUBSET Nat /\ n \in M
  OBVIOUS
<1>2. m \in M /\ \A y \in M : m <= y
  <2> HIDE DEF M
  <2> QED BY Zenon, <1>1, MinIn
<1>3. m \in Nat /\ m + 1 \notin S /\ m <= n
  <2> HIDE DEF m
  <2> QED BY Zenon, <1>1, <1>2
<1>4. ASSUME NEW i \in S PROVE i \in 1 .. m
  <2>1. i \in 1 .. n /\ (i > m => m + 1 \in 1 .. i)
    BY <1>3
  <2> QED BY <1>3, <2>1
<1>5. ASSUME NEW i \in 1 .. m PROVE i \in S
  <2>1. i - 1 \in Nat /\ ~(m <= i - 1)
    BY <1>3
  <2>2. i - 1 \notin M
    BY Zenon, <1>2, <2>1
  <2>3. i - 1 + 1 \in S
    BY Zenon, <2>1, <2>2
  <2> QED BY <2>3
<1>6. S = 1 .. m
  BY Zenon, <1>3, <1>4, <1>5
<1>7. Cardinality(1 .. m) = m
  BY <1>3, FS_Interval
<1>8. Cardinality(S) = m
  BY <1>6, <1>7, Zenon
<1> HIDE DEF m
<1> QED BY <1>3, <1>6, <1>8
-----------------------------------------------------------------------------
(* The steps.                                                                *)

(* The current thread runs user code or a system call, and unless it is past *)
(* AlarmInsert its alarm is not on the list.                                 *)
LEMMA CurrentFacts ==
  ASSUME TimerInv
  PROVE  /\ tpc # "sched" => tp \in Thread /\ st[tp] = "run"
         /\ tpc \notin {"rearm", "wait"} =>
              \A i \in 1 .. Len(sleep_list) : st[sleep_list[i]] = "sleep"
         /\ Len(sleep_list) \in Nat
         /\ \A i \in 1 .. Len(sleep_list) : sleep_list[i] \in Thread
         /\ sleep_list # <<>> => 1 \in 1 .. Len(sleep_list)
<1>1. TimerTypeInv /\ HartInv /\ SleepListExact
  BY Zenon DEF TimerInv
<1>2. /\ Len(sleep_list) \in Nat /\ \A i \in 1 .. Len(sleep_list) : sleep_list[i] \in Thread
      /\ sleep_list # <<>> => 1 \in 1 .. Len(sleep_list)
  BY <1>1 DEF TimerTypeInv
<1>3. tpc # "sched" => tp \in Thread /\ st[tp] = "run"
  BY Zenon, <1>1, TimerAssumption DEF TimerTypeInv, HartInv
<1>4. ASSUME tpc \notin {"rearm", "wait"}, NEW i \in 1 .. Len(sleep_list)
      PROVE  st[sleep_list[i]] = "sleep"
  BY Zenon, <1>1, <1>4 DEF SleepListExact
<1> QED BY Zenon, <1>2, <1>3, <1>4

(* A step that moves no alarm. *)
LEMMA ListKept ==
  ASSUME SleepListExact, sleep_list' = sleep_list,
         \A i \in 1 .. Len(sleep_list) : twake'[sleep_list[i]] = twake[sleep_list[i]],
         \A t \in Thread :
           (st'[t] = "sleep" \/ (t = tp' /\ tpc' \in {"rearm", "wait"})) <=>
           (st[t] = "sleep" \/ (t = tp /\ tpc \in {"rearm", "wait"}))
  PROVE  SleepListExact'
<1>1. \A i, j \in 1 .. Len(sleep_list) : i < j =>
        /\ sleep_list[i] # sleep_list[j]
        /\ twake'[sleep_list[i]] <= twake'[sleep_list[j]]
  BY Zenon DEF SleepListExact
<1>2. {t \in Thread : st'[t] = "sleep" \/ (t = tp' /\ tpc' \in {"rearm", "wait"})} =
      {t \in Thread : st[t] = "sleep" \/ (t = tp /\ tpc \in {"rearm", "wait"})}
  BY Zenon
<1> QED BY <1>1, <1>2, ZenonT(30) DEF SleepListExact

(* The wake-up time of an alarm that is not on the list changes. *)
LEMMA AlarmStep ==
  ASSUME TimerInv, (\E us \in Us : Usleep(us)) \/ AlarmSleep
  PROVE  TimerInv'
<1>1. /\ TimerTypeInv /\ HartInv /\ CompareInv /\ TimeInv /\ SleepListExact
      /\ UNCHANGED <<clock, next_tick, sleep_list, st, tp, handler>>
      /\ tpc \in {"user", "alarm_sleep"} /\ tpc' \in {"user", "alarm_sleep", "insert"}
      /\ hpc = "none"
  BY Zenon DEF TimerInv, HartInv, TimerTypeInv, Usleep, AlarmSleep
<1>2. UNCHANGED <<mtime, mtcmp, mtie, stip, hpc, now>>
  BY Zenon, <1>1 DEF clock, handler
<1>3. /\ tp \in Thread /\ st[tp] = "run"
      /\ \A i \in 1 .. Len(sleep_list) : sleep_list[i] # tp /\ sleep_list[i] \in Thread
      /\ sleep_list # <<>> => 1 \in 1 .. Len(sleep_list)
  BY Zenon, <1>1, CurrentFacts
<1>4. tcnt' \in Nat /\ \E w \in Nat : twake' = [twake EXCEPT ![tp] = w]
  <2>1. ASSUME NEW us \in Us, Usleep(us) PROVE tcnt' \in Nat
    <3>1. us \in Nat /\ TIMER_FREQ \in Nat /\ UINT64_MAX + 1 \in Nat \ {0} /\ MICRO \in Nat \ {0}
      BY TimerAssumption
    <3>2. us * TIMER_FREQ \in Nat
      BY <3>1
    <3> DEFINE x == us * TIMER_FREQ
               m == UINT64_MAX + 1
    <3>3. x \in Nat /\ m \in Nat \ {0} /\ tcnt' = (x % m) \div MICRO
      BY Zenon, <2>1, <3>1, <3>2 DEF Usleep
    <3> HIDE DEF x, m
    <3>4. x % m \in Nat
      BY <3>3
    <3> QED BY <3>1, <3>3, <3>4
  <2>2. ASSUME NEW us \in Us, Usleep(us) PROVE \E w \in Nat : twake' = [twake EXCEPT ![tp] = w]
    BY Zenon, <1>1, <2>2 DEF Usleep, TimerTypeInv
  <2>3. ASSUME AlarmSleep PROVE tcnt' \in Nat /\ \E w \in Nat : twake' = [twake EXCEPT ![tp] = w]
    <3>1. {twake[tp] + tcnt, UINT64_MAX} \in SUBSET Nat
      BY <1>1, <1>3, TimerAssumption DEF TimerTypeInv
    <3>2. Min({twake[tp] + tcnt, UINT64_MAX}) \in Nat
      BY Zenon, <3>1, MinIn
    <3> QED BY Zenon, <2>3, <3>2 DEF AlarmSleep
  <2> QED BY Zenon, <2>1, <2>2, <2>3
<1>5. /\ twake' \in [Thread -> Nat]
      /\ \A t \in Thread \ {tp} : twake'[t] = twake[t]
  BY <1>1, <1>3, <1>4 DEF TimerTypeInv
<1>6. TimerTypeInv'
  BY Zenon, <1>1, <1>2, <1>4, <1>5 DEF TimerTypeInv
<1>7. HartInv'
  BY Zenon, <1>1, <1>2 DEF HartInv
<1>8. CompareInv'
  BY Zenon, <1>1, <1>2, <1>3, <1>5 DEF CompareInv
<1>9. TimeInv'
  BY Zenon, <1>1, <1>2, <1>3, <1>5 DEF TimeInv, NoEarlyWake
<1>10. SleepListExact'
  BY Zenon, <1>1, <1>3, <1>5, ListKept
<1> QED BY Zenon, <1>6, <1>7, <1>8, <1>9, <1>10 DEF TimerInv

LEMMA InsertStep ==
  ASSUME TimerInv, AlarmInsert
  PROVE  TimerInv'
<1> DEFINE n == sleep_list'
<1>1. /\ TimerTypeInv /\ HartInv /\ CompareInv /\ TimeInv /\ SleepListExact
      /\ UNCHANGED <<mtime, mtie, stip, next_tick, twake, st, tp, tcnt, hpc, now>>
      /\ tpc = "insert" /\ tpc' \in {"rearm", "wait"} /\ hpc = "none"
      /\ n = InsertAlarm(sleep_list, tp)
      /\ IF Head(n) = tp /\ twake[tp] < next_tick THEN mtcmp' = twake[tp] ELSE mtcmp' = mtcmp
  BY Zenon DEF TimerInv, HartInv, TimerTypeInv, AlarmInsert, handler
<1>2. /\ tp \in Thread /\ st[tp] = "run"
      /\ \A i \in 1 .. Len(sleep_list) : sleep_list[i] # tp /\ sleep_list[i] \in Thread
      /\ Len(sleep_list) \in Nat
  BY Zenon, <1>1, CurrentFacts
<1>3. n \in Seq(Thread) /\ Len(n) = Len(sleep_list) + 1
  BY Zenon, <1>1, <1>2, InsertFacts DEF TimerTypeInv
<1>4. PICK k \in 1 .. Len(sleep_list) + 1 :
        /\ n[k] = tp
        /\ \A i \in 1 .. k - 1 : n[i] = sleep_list[i] /\ twake[sleep_list[i]] < twake[tp]
        /\ \A i \in k + 1 .. Len(sleep_list) + 1 : n[i] = sleep_list[i - 1]
        /\ k <= Len(sleep_list) => twake[tp] <= twake[sleep_list[k]]
  <2>1. twake \in [Thread -> Nat] /\ sleep_list \in Seq(Thread) /\ tp \in Thread
    BY Zenon, <1>1, <1>2 DEF TimerTypeInv
  <2> DEFINE m == InsertAlarm(sleep_list, tp)
  <2>2. \E k \in 1 .. Len(sleep_list) + 1 :
          /\ m[k] = tp
          /\ \A i \in 1 .. k - 1 : m[i] = sleep_list[i] /\ twake[sleep_list[i]] < twake[tp]
          /\ \A i \in k + 1 .. Len(sleep_list) + 1 : m[i] = sleep_list[i - 1]
          /\ k <= Len(sleep_list) => twake[tp] <= twake[sleep_list[k]]
    BY Zenon, <2>1, InsertFacts
  <2>3. n = m
    BY Zenon, <1>1
  <2> HIDE DEF m, n
  <2> QED BY Zenon, <2>2, <2>3
<1>5. /\ \A i, j \in 1 .. Len(sleep_list) : i < j =>
           sleep_list[i] # sleep_list[j] /\ twake[sleep_list[i]] <= twake[sleep_list[j]]
      /\ \A t \in Thread : twake[t] \in Nat
  BY Zenon, <1>1 DEF SleepListExact, TimerTypeInv
<1>6. \A i \in k .. Len(sleep_list) : twake[tp] <= twake[sleep_list[i]]
  BY <1>2, <1>4, <1>5
<1>7. TimerTypeInv'
  <2>1. mtcmp' \in Nat
    BY Zenon, <1>1, <1>2, <1>5 DEF TimerTypeInv
  <2> QED BY Zenon, <1>1, <1>3, <2>1 DEF TimerTypeInv
<1>8. HartInv'
  BY Zenon, <1>1 DEF HartInv
<1>9. TimeInv'
  BY Zenon, <1>1 DEF TimeInv, NoEarlyWake
<1>10. CompareInv'
  <2>1. n # <<>> /\ Head(n) = n[1]
    BY <1>2, <1>3
  <2>2. CASE k = 1
    <3>1. n[1] = tp
      BY Zenon, <1>4, <2>2
    <3> QED BY SMTT(30), <1>1, <1>2, <1>5, <2>1, <3>1, TimerAssumption DEF CompareInv, TimerTypeInv
  <2>3. CASE k # 1
    <3>1. n[1] = sleep_list[1] /\ 1 \in 1 .. Len(sleep_list) /\ sleep_list # <<>>
      BY <1>2, <1>4, <2>3
    <3> QED BY Zenon, <1>1, <1>2, <2>1, <3>1 DEF CompareInv
  <2> QED BY Zenon, <2>2, <2>3
<1>11. SleepListExact'
  <2> HIDE DEF n
  <2>1. ASSUME NEW i \in 1 .. Len(n), NEW j \in 1 .. Len(n), i < j
        PROVE  n[i] # n[j] /\ twake[n[i]] <= twake[n[j]]
    <3>1. CASE j < k
      <4>1. /\ i \in 1 .. Len(sleep_list) /\ j \in 1 .. Len(sleep_list)
            /\ i \in 1 .. k - 1 /\ j \in 1 .. k - 1
        BY <1>2, <1>3, <2>1, <3>1
      <4> QED BY Zenon, <1>4, <1>5, <2>1, <4>1
    <3>2. CASE j = k
      <4>1. i \in 1 .. k - 1 /\ i \in 1 .. Len(sleep_list)
        BY <1>2, <1>3, <2>1, <3>2
      <4> QED BY <1>2, <1>4, <1>5, <3>2, <4>1
    <3>3. CASE j > k
      <4>1. /\ j \in k + 1 .. Len(sleep_list) + 1 /\ j - 1 \in 1 .. Len(sleep_list)
            /\ j - 1 \in k .. Len(sleep_list)
        BY <1>2, <1>3, <2>1, <3>3
      <4>2. n[j] = sleep_list[j - 1]
        BY Zenon, <1>4, <4>1
      <4>3. CASE i < k
        <5>1. i \in 1 .. k - 1 /\ i \in 1 .. Len(sleep_list) /\ i < j - 1
          BY <1>2, <1>3, <2>1, <3>3, <4>3
        <5> QED BY ZenonT(30), <1>4, <1>5, <4>1, <4>2, <5>1
      <4>4. CASE i = k
        BY Zenon, <1>2, <1>4, <1>6, <4>1, <4>2, <4>4
      <4>5. CASE i > k
        <5>1. /\ i \in k + 1 .. Len(sleep_list) + 1 /\ i - 1 \in 1 .. Len(sleep_list)
              /\ i - 1 < j - 1
          BY <1>2, <1>3, <2>1, <4>5
        <5>2. n[i] = sleep_list[i - 1]
          BY Zenon, <1>4, <5>1
        <5> QED BY Zenon, <1>5, <4>1, <4>2, <5>1, <5>2
      <4> QED BY <4>3, <4>4, <4>5
    <3> QED BY <1>3, <3>1, <3>2, <3>3
  <2>2. {n[i] : i \in 1 .. Len(n)} = {sleep_list[i] : i \in 1 .. Len(sleep_list)} \cup {tp}
    <3>1. ASSUME NEW i \in 1 .. Len(n)
          PROVE  n[i] = tp \/ \E j \in 1 .. Len(sleep_list) : n[i] = sleep_list[j]
      <4>1. CASE i < k
        <5>1. i \in 1 .. k - 1 /\ i \in 1 .. Len(sleep_list)
          BY <1>2, <1>3, <4>1
        <5> QED BY Zenon, <1>4, <5>1
      <4>2. CASE i > k
        <5>1. i \in k + 1 .. Len(sleep_list) + 1 /\ i - 1 \in 1 .. Len(sleep_list)
          BY <1>2, <1>3, <4>2
        <5> QED BY Zenon, <1>4, <5>1
      <4> QED BY <1>3, <1>4, <4>1, <4>2
    <3>2. ASSUME NEW j \in 1 .. Len(sleep_list)
          PROVE  \E i \in 1 .. Len(n) : n[i] = sleep_list[j]
      <4>1. CASE j < k
        <5>1. j \in 1 .. k - 1 /\ j \in 1 .. Len(n)
          BY <1>2, <1>3, <4>1
        <5> QED BY Zenon, <1>4, <5>1
      <4>2. CASE j >= k
        <5>1. j + 1 \in k + 1 .. Len(sleep_list) + 1 /\ j + 1 \in 1 .. Len(n) /\ j + 1 - 1 = j
          BY <1>2, <1>3, <4>2
        <5> QED BY <1>4, <5>1
      <4> QED BY <1>2, <4>1, <4>2
    <3>3. k \in 1 .. Len(n) /\ n[k] = tp
      BY Zenon, <1>3, <1>4
    <3>4. ASSUME NEW x \in {n[i] : i \in 1 .. Len(n)}
          PROVE  x \in {sleep_list[i] : i \in 1 .. Len(sleep_list)} \cup {tp}
      BY Zenon, <3>1
    <3>5. ASSUME NEW x \in {sleep_list[i] : i \in 1 .. Len(sleep_list)} \cup {tp}
          PROVE  x \in {n[i] : i \in 1 .. Len(n)}
      BY Zenon, <3>2, <3>3
    <3> QED BY <3>4, <3>5, Zenon
  <2>3. {t \in Thread : st'[t] = "sleep" \/ (t = tp' /\ tpc' \in {"rearm", "wait"})} =
        {t \in Thread : st[t] = "sleep" \/ (t = tp /\ tpc \in {"rearm", "wait"})} \cup {tp}
    BY Zenon, <1>1, <1>2
  <2>4. {n[i] : i \in 1 .. Len(n)} =
          {t \in Thread : st'[t] = "sleep" \/ (t = tp' /\ tpc' \in {"rearm", "wait"})}
    BY <1>1, <2>2, <2>3, Zenon DEF SleepListExact
  <2> QED BY Zenon, <1>1, <2>1, <2>4 DEF SleepListExact, n
<1> QED BY Zenon, <1>7, <1>8, <1>9, <1>10, <1>11 DEF TimerInv

(* timer_intr_handler takes a prefix off the list and wakes its threads. *)
LEMMA HandleStep ==
  ASSUME TimerInv, TimerHandle
  PROVE  TimerInv'
<1> DEFINE c == Cardinality(Due)
           n == SubSeq(sleep_list, c + 1, Len(sleep_list))
           due == {sleep_list[i] : i \in Due}
<1>1. /\ TimerTypeInv /\ HartInv /\ CompareInv /\ TimeInv /\ SleepListExact
      /\ UNCHANGED <<mtime, mtie, stip, twake, tp, tpc, tcnt>>
      /\ tpc \in {"user", "sched"} /\ hpc' = "rearm" /\ now' = 0
      /\ sleep_list' = n
      /\ st' = [t \in Thread |-> IF t \in due /\ st[t] = "sleep" THEN "woken" ELSE st[t]]
      /\ next_tick' = IF next_tick < now THEN next_tick + TICK_PERIOD ELSE next_tick
      /\ mtcmp' = IF n # <<>> /\ twake[Head(n)] < next_tick' THEN twake[Head(n)] ELSE next_tick'
  <2>1. /\ TimerTypeInv /\ HartInv /\ CompareInv /\ TimeInv /\ SleepListExact
        /\ UNCHANGED <<mtime, mtie, stip, twake, tp, tpc, tcnt>>
        /\ hpc = "handle" /\ hpc' = "rearm" /\ now' = 0
    BY Zenon DEF TimerInv, TimerHandle
  <2>2. tpc \in {"user", "sched"}
    BY <2>1 DEF HartInv
  <2>3. /\ sleep_list' = n
        /\ st' = [t \in Thread |-> IF t \in due /\ st[t] = "sleep" THEN "woken" ELSE st[t]]
        /\ next_tick' = IF next_tick < now THEN next_tick + TICK_PERIOD ELSE next_tick
        /\ mtcmp' = IF n # <<>> /\ twake[Head(n)] < next_tick' THEN twake[Head(n)] ELSE next_tick'
    BY DEF TimerHandle
  <2> QED BY Zenon, <2>1, <2>2, <2>3
<1>2. /\ \A i \in 1 .. Len(sleep_list) : /\ st[sleep_list[i]] = "sleep"
                                         /\ sleep_list[i] \in Thread
      /\ Len(sleep_list) \in Nat
  BY Zenon, <1>1, CurrentFacts
<1>3. /\ \A i, j \in 1 .. Len(sleep_list) : i < j =>
           sleep_list[i] # sleep_list[j] /\ twake[sleep_list[i]] <= twake[sleep_list[j]]
      /\ \A t \in Thread : twake[t] \in Nat
      /\ \A t \in Thread : st[t] = "sleep" => \E i \in 1 .. Len(sleep_list) : sleep_list[i] = t
  <2>1. \A t \in Thread : st[t] = "sleep" => t \in {sleep_list[i] : i \in 1 .. Len(sleep_list)}
    BY <1>1, Zenon DEF SleepListExact
  <2>2. \A i, j \in 1 .. Len(sleep_list) : i < j =>
          sleep_list[i] # sleep_list[j] /\ twake[sleep_list[i]] <= twake[sleep_list[j]]
    BY <1>1, Zenon DEF SleepListExact
  <2>3. \A t \in Thread : twake[t] \in Nat
    BY Zenon, <1>1 DEF TimerTypeInv
  <2>4. \A t \in Thread : st[t] = "sleep" => \E i \in 1 .. Len(sleep_list) : sleep_list[i] = t
    BY Zenon, <2>1
  <2> QED BY Zenon, <2>2, <2>3, <2>4
<1>4. c \in 0 .. Len(sleep_list) /\ Due = 1 .. c
  <2>1. Due \in SUBSET (1 .. Len(sleep_list)) /\ \A i \in Due : \A j \in 1 .. i : j \in Due
    BY <1>2 DEF Due
  <2> QED BY Zenon, <1>2, <2>1, PrefixCardinality
<1>5. \A i \in 1 .. c : twake[sleep_list[i]] <= now
  BY <1>2, <1>4 DEF Due
<1>6. due = {sleep_list[i] : i \in 1 .. c}
  BY <1>4, Zenon
<1> HIDE DEF c, due
<1>7. /\ n \in Seq(Thread) /\ Len(n) = Len(sleep_list) - c
      /\ \A i \in 1 .. Len(sleep_list) - c : n[i] = sleep_list[c + i]
  <2>1. \A i \in c + 1 .. Len(sleep_list) : sleep_list[i] \in Thread
    BY <1>2, <1>4
  <2>2. /\ n \in Seq(Thread)
        /\ Len(n) = IF c + 1 <= Len(sleep_list) THEN Len(sleep_list) - (c + 1) + 1 ELSE 0
        /\ \A i \in 1 .. Len(sleep_list) - (c + 1) + 1 : n[i] = sleep_list[c + 1 + i - 1]
    BY <1>2, <1>4, <2>1, ListPart
  <2> HIDE DEF n
  <2> QED BY <1>2, <1>4, <2>2
<1> HIDE DEF n
<1>8. \A t \in Thread : /\ st'[t] = "sleep" <=> st[t] = "sleep" /\ t \notin due
                        /\ st'[t] = "run" <=> st[t] = "run"
                        /\ st'[t] = "woken" => st[t] = "woken" \/ t \in due
  BY Zenon, <1>1
<1>9. n # <<>> => Head(n) = n[1] /\ n[1] \in Thread
  BY <1>7
<1>10. TimerTypeInv'
  <2>1. next_tick' \in Nat
    BY <1>1, TimerAssumption DEF TimerTypeInv
  <2>2. mtcmp' \in Nat
    BY Zenon, <1>1, <1>3, <1>9, <2>1
  <2>3. st' \in [Thread -> {"ready", "run", "sleep", "woken"}]
    BY Zenon, <1>1 DEF TimerTypeInv
  <2> QED BY <1>1, <1>7, <2>1, <2>2, <2>3 DEF TimerTypeInv
<1>11. HartInv'
  BY Zenon, <1>1, <1>8 DEF HartInv
<1>12. CompareInv'
  <2>1. next_tick' \in Nat /\ mtcmp' \in Nat
    BY Zenon, <1>10 DEF TimerTypeInv
  <2> QED BY <1>1, <1>3, <1>9, <2>1 DEF CompareInv
<1>13. TimeInv'
  <2>1. now' <= mtime' /\ now <= mtime /\ mtime \in Nat /\ now \in Nat
    BY <1>1 DEF TimeInv, TimerTypeInv
  <2>2. ASSUME NEW t \in Thread, st'[t] = "woken" PROVE mtime' >= twake'[t]
    <3>1. CASE st[t] = "woken"
      BY Zenon, <1>1, <3>1 DEF TimeInv, NoEarlyWake
    <3>2. CASE t \in due
      <4>1. PICK i \in 1 .. c : t = sleep_list[i]
        BY Zenon, <1>6, <3>2
      <4> QED BY <1>1, <1>3, <1>5, <2>1, <4>1
    <3> QED BY Zenon, <1>8, <2>2, <3>1, <3>2
  <2> QED BY Zenon, <2>1, <2>2 DEF TimeInv, NoEarlyWake
<1>14. SleepListExact'
  <2>1. ASSUME NEW i \in 1 .. Len(n), NEW j \in 1 .. Len(n), i < j
        PROVE  n[i] # n[j] /\ twake[n[i]] <= twake[n[j]]
    <3>1. c + i \in 1 .. Len(sleep_list) /\ c + j \in 1 .. Len(sleep_list) /\ c + i < c + j
      BY <1>2, <1>4, <1>7, <2>1
    <3> QED BY SMTT(30), <1>3, <1>7, <3>1
  <2>2. ASSUME NEW x \in {n[i] : i \in 1 .. Len(n)} PROVE x \in Thread /\ st'[x] = "sleep"
    <3>1. PICK i \in 1 .. Len(n) : x = n[i]
      BY Zenon
    <3>2. c + i \in 1 .. Len(sleep_list) /\ x = sleep_list[c + i]
      BY <1>2, <1>4, <1>7, <3>1
    <3>3. ASSUME NEW j \in 1 .. c PROVE x # sleep_list[j]
      <4>1. j \in 1 .. Len(sleep_list) /\ j < c + i
        BY <1>2, <1>4, <1>7, <3>1
      <4> QED BY Zenon, <1>3, <3>2, <4>1
    <3> QED BY Zenon, <1>2, <1>6, <1>8, <3>2, <3>3
  <2>3. ASSUME NEW x \in Thread, st'[x] = "sleep" PROVE x \in {n[i] : i \in 1 .. Len(n)}
    <3>1. PICK i \in 1 .. Len(sleep_list) : sleep_list[i] = x
      BY Zenon, <1>3, <1>8, <2>3
    <3>2. i \notin 1 .. c
      BY Zenon, <1>6, <1>8, <2>3, <3>1
    <3>3. i - c \in 1 .. Len(n) /\ c + (i - c) = i
      BY <1>2, <1>4, <1>7, <3>1, <3>2
    <3>4. n[i - c] = x
      BY Zenon, <1>7, <3>1, <3>3
    <3> QED BY Zenon, <3>3, <3>4
  <2>4. {n[i] : i \in 1 .. Len(n)} =
          {t \in Thread : st'[t] = "sleep" \/ (t = tp' /\ tpc' \in {"rearm", "wait"})}
    <3>1. tpc' \notin {"rearm", "wait"}
      BY Zenon, <1>1
    <3> QED BY <2>2, <2>3, <3>1, Zenon
  <2> QED BY <1>1, <2>1, <2>4 DEF SleepListExact
<1> QED BY Zenon, <1>10, <1>11, <1>12, <1>13, <1>14 DEF TimerInv

LEMMA TimerStep ==
  ASSUME TimerInv, [TimerNext]_TimerVars
  PROVE  TimerInv'
<1>0. TimerTypeInv /\ HartInv /\ CompareInv /\ TimeInv /\ SleepListExact
  BY Zenon DEF TimerInv
<1>1. CASE UNCHANGED TimerVars \/ ClockEnds
  <2>1. UNCHANGED <<mtime, mtcmp, mtie, stip, next_tick, sleep_list, twake, st, tp, tpc, tcnt,
                    hpc, now>>
    BY Zenon, <1>1 DEF ClockEnds, TimerVars, clock, alarms, threads, handler
  <2> QED BY <1>0, <2>1 DEF TimerInv, TimerTypeInv, HartInv, CompareInv, TimeInv, NoEarlyWake,
                            SleepListExact
<1>2. CASE Tick \/ MTimerIntr
  <2>1. /\ UNCHANGED <<mtcmp, next_tick, sleep_list, twake, st, tp, tpc, tcnt, hpc, now>>
        /\ mtime' \in {mtime, mtime + 1}
    BY Zenon, <1>0, <1>2 DEF Tick, MTimerIntr, alarms, threads, handler
  <2>a. (mtie' <=> ~stip') /\ mtie' \in BOOLEAN /\ stip' \in BOOLEAN
    <3>1. (mtie <=> ~stip) /\ mtie \in BOOLEAN /\ stip \in BOOLEAN
      BY Zenon, <1>0 DEF CompareInv, TimerTypeInv
    <3>2. UNCHANGED <<mtie, stip>> \/ (mtie' = FALSE /\ stip' = TRUE)
      BY <1>2, Zenon DEF Tick, MTimerIntr
    <3>3. CASE UNCHANGED <<mtie, stip>>
      BY Zenon, <3>1, <3>3
    <3> QED BY Zenon, <3>2, <3>3
  <2>2. TimerTypeInv'
    BY <1>0, <2>1, <2>a DEF TimerTypeInv
  <2>3. HartInv' /\ CompareInv'
    BY Zenon, <1>0, <2>1, <2>a DEF HartInv, CompareInv
  <2>4. TimeInv'
    BY <1>0, <2>1 DEF TimeInv, NoEarlyWake, TimerTypeInv
  <2>5. SleepListExact'
    BY Zenon, <1>0, <2>1, ListKept
  <2> QED BY Zenon, <2>2, <2>3, <2>4, <2>5 DEF TimerInv
<1>3. CASE AlarmRearm \/ AlarmWait \/ TimerIntr \/ TimerRearm
  <2>0. tpc # "sched" => tp \in Thread
    BY Zenon, CurrentFacts
  <2>1. /\ UNCHANGED <<mtime, mtcmp, next_tick, sleep_list, twake, tcnt>>
        /\ now' \in {now, mtime} /\ hpc' \in {"none", "handle", "rearm"}
    BY Zenon, <1>0, <1>3 DEF AlarmRearm, AlarmWait, TimerIntr, TimerRearm, alarms, threads,
                      handler, clock, TimerTypeInv
  <2>a. (mtie' <=> ~stip') /\ mtie' \in BOOLEAN /\ stip' \in BOOLEAN
    <3>1. (mtie <=> ~stip) /\ mtie \in BOOLEAN /\ stip \in BOOLEAN
      BY <1>0 DEF CompareInv, TimerTypeInv
    <3>2. UNCHANGED <<mtie, stip>> \/ (mtie' = TRUE /\ stip' = FALSE)
      BY <1>3, Zenon DEF AlarmRearm, AlarmWait, TimerIntr, TimerRearm, Rearm, clock
    <3>3. CASE UNCHANGED <<mtie, stip>>
      BY <3>1, <3>3
    <3> QED BY Zenon, <3>2, <3>3
  <2>2. /\ tpc' \in {"sched", "user", "wait"} /\ tp' \in {tp, NoThread}
        /\ hpc' # "none" => tpc' \in {"user", "sched"}
        /\ tpc' = "sched" <=> tp' = NoThread
    BY Zenon, <1>0, <1>3, <2>0, TimerAssumption
       DEF AlarmRearm, AlarmWait, TimerIntr, TimerRearm, threads, handler, HartInv
  <2>3. \/ UNCHANGED <<st, tp>> /\ (tpc' \in {"rearm", "wait"} <=> tpc \in {"rearm", "wait"})
        \/ /\ tpc = "wait" /\ tpc' = "sched" /\ tp' = NoThread
           /\ st' = [st EXCEPT ![tp] = "sleep"]
        \/ /\ tpc = "user" /\ tpc' = "sched" /\ tp' = NoThread
           /\ st' = [st EXCEPT ![tp] = "ready"]
    BY Zenon, <1>0, <1>3 DEF AlarmRearm, AlarmWait, TimerIntr, TimerRearm, threads, HartInv
  <2>4. /\ st' \in [Thread -> {"ready", "run", "sleep", "woken"}]
        /\ \A t \in Thread : /\ st'[t] = "run" <=> t = tp'
                             /\ st'[t] = "woken" => st[t] = "woken"
        /\ \A t \in Thread :
             (st'[t] = "sleep" \/ (t = tp' /\ tpc' \in {"rearm", "wait"})) <=>
             (st[t] = "sleep" \/ (t = tp /\ tpc \in {"rearm", "wait"}))
    BY Zenon, <1>0, <2>0, <2>3, TimerAssumption DEF TimerTypeInv, HartInv
  <2>5. TimerTypeInv'
    BY Zenon, <1>0, <2>1, <2>a, <2>2, <2>4 DEF TimerTypeInv
  <2>6. HartInv' /\ CompareInv'
    BY Zenon, <1>0, <2>1, <2>a, <2>2, <2>4 DEF HartInv, CompareInv
  <2>7. TimeInv'
    BY <1>0, <2>1, <2>4 DEF TimeInv, NoEarlyWake, TimerTypeInv
  <2>8. SleepListExact'
    BY Zenon, <1>0, <2>1, <2>4, ListKept
  <2> QED BY <2>5, <2>6, <2>7, <2>8 DEF TimerInv
<1>4. ASSUME NEW t \in Thread, Schedule(t) PROVE TimerInv'
  <2>1. /\ UNCHANGED <<mtime, mtcmp, mtie, stip, next_tick, sleep_list, tcnt, hpc, now>>
        /\ hpc = "none" /\ tpc = "sched" /\ tpc' = "user" /\ tp' = t
        /\ st[t] # "sleep"
        /\ st' = [st EXCEPT ![t] = "run"] /\ twake' = [twake EXCEPT ![t] = 0]
    BY Zenon, <1>4 DEF Schedule, clock, handler
  <2>2. /\ st' \in [Thread -> {"ready", "run", "sleep", "woken"}] /\ twake' \in [Thread -> Nat]
        /\ \A s \in Thread \ {t} : st'[s] = st[s] /\ twake'[s] = twake[s]
        /\ st'[t] = "run" /\ tp = NoThread
    BY Zenon, <1>0, <2>1 DEF TimerTypeInv, HartInv
  <2>3. /\ \A i \in 1 .. Len(sleep_list) : sleep_list[i] # t /\ sleep_list[i] \in Thread
        /\ sleep_list # <<>> => 1 \in 1 .. Len(sleep_list)
    BY Zenon, <2>1, CurrentFacts
  <2>4. TimerTypeInv'
    BY Zenon, <1>0, <2>1, <2>2 DEF TimerTypeInv
  <2>5. HartInv'
    BY Zenon, <1>0, <2>1, <2>2, TimerAssumption DEF HartInv
  <2>6. CompareInv'
    BY Zenon, <1>0, <2>1, <2>2, <2>3 DEF CompareInv
  <2>7. TimeInv'
    BY Zenon, <1>0, <2>1, <2>2 DEF TimeInv, NoEarlyWake
  <2>8. SleepListExact'
    BY Zenon, <1>0, <2>1, <2>2, <2>3, ListKept
  <2> QED BY Zenon, <2>4, <2>5, <2>6, <2>7, <2>8 DEF TimerInv
<1> QED BY Zenon, <1>1, <1>2, <1>3, <1>4, AlarmStep, InsertStep, HandleStep DEF TimerNext

LEMMA TimerInitInv == TimerInit => TimerInv
<1> SUFFICES ASSUME TimerInit PROVE TimerInv
  BY Zenon
<1>1. TimerTypeInv
  <2>1. mtie \in BOOLEAN /\ stip \in BOOLEAN
    BY Zenon DEF TimerInit
  <2> QED BY <2>1, TimerAssumption DEF TimerInit, TimerTypeInv
<1>2. HartInv /\ CompareInv /\ TimeInv
  BY TimerAssumption DEF TimerInit, HartInv, CompareInv, TimeInv, NoEarlyWake
<1>3. SleepListExact
  BY TimerAssumption DEF TimerInit, SleepListExact
<1> QED BY Zenon, <1>1, <1>2, <1>3 DEF TimerInv
-----------------------------------------------------------------------------
(* For any number of sleepers, the list holds exactly the sleeping alarms,   *)
(* in the order of their times and none twice, although alarms come and go   *)
(* from sysusleep and from the interrupt handler.                            *)
THEOREM SleepListCorrect == TimerSpec => []SleepListExact
<1>1. TimerInv => SleepListExact
  BY Zenon DEF TimerInv
<1> QED BY TimerInitInv, TimerStep, <1>1, PTL DEF TimerSpec

(* No wake-up is lost: once the first alarm (and the first tick) is due, an  *)
(* interrupt is pending or mtcmp has been reached with the interrupt         *)
(* unmasked, although alarm_sleep clears a pending interrupt.                *)
THEOREM TimerCorrect == TimerSpec => []NoLostTimer
<1>1. TimerInv => NoLostTimer
  <2> SUFFICES ASSUME TimerInv, sleep_list # <<>>,
                      mtime >= Max({twake[sleep_list[1]], TICK_PERIOD})
               PROVE  stip \/ (mtie /\ mtime >= mtcmp)
    BY Zenon DEF NoLostTimer
  <2>1. /\ twake[sleep_list[1]] \in Nat /\ TICK_PERIOD \in Nat /\ mtime \in Nat
        /\ mtcmp \in Nat /\ next_tick \in Nat
    BY Zenon, CurrentFacts, TimerAssumption DEF TimerInv, TimerTypeInv
  <2>2. mtime >= twake[sleep_list[1]] /\ mtime >= TICK_PERIOD
    BY Zenon, <2>1, MaxOfTwo
  <2> QED BY <2>1, <2>2 DEF TimerInv, CompareInv
<1> QED BY TimerInitInv, TimerStep, <1>1, PTL DEF TimerSpec

(* usleep never returns before its time. *)
THEOREM NoEarlyWakeCorrect == TimerSpec => []NoEarlyWake
<1>1. TimerInv => NoEarlyWake
  BY Zenon DEF TimerInv, TimeInv
<1> QED BY TimerInitInv, TimerStep, <1>1, PTL DEF TimerSpec
-----------------------------------------------------------------------------
(* The places that refer to o, in a table like iotab. *)
Places(tab, o) == {x \in Pid \X FdNo : tab[x[1]][x[2]] = o}
Tab == [Pid -> [FdNo -> Obj \cup {NULL}]]

TypeInv ==
  /\ proctab \in [Pid -> BOOLEAN] /\ iotab \in Tab
  /\ name \in [Pid -> [FdNo -> File \cup {"dev", NoFile}]]
  /\ using \in [Pid -> Obj \cup {NULL}]
  /\ open \in [Obj -> BOOLEAN] /\ refcnt \in [Obj -> 0 .. REFMOD - 1]
  /\ lost \in [Obj -> Nat] /\ inode \in [FileObj -> File \cup {NoFile}]

(* A process holds an object under one descriptor only, and a free slot of   *)
(* proctab holds nothing.                                                    *)
TableInv ==
  /\ \A p \in Pid, x, y \in FdNo : iotab[p][x] = iotab[p][y] /\ iotab[p][x] # NULL => x = y
  /\ \A p \in Pid : ~proctab[p] => iotab[p] = NoTab /\ using[p] = NULL

(* refcnt counts the descriptors and the lost references. *)
CountInv == \A o \in Obj : open[o] => refcnt[o] = Refs(o) + lost[o]

(* An object in use by a call is still referred to, or its reference is lost. *)
UsingInv ==
  \A p \in Pid : using[p] # NULL =>
    lost[using[p]] > 0 \/ \E fd \in FdNo : iotab[p][fd] = using[p]

Inv == TypeInv /\ TableInv /\ CountInv /\ UsingInv /\ DescriptorIntact
-----------------------------------------------------------------------------
LEMMA NullNoObj == NULL \notin Obj
  BY FilesAssumption DEF NULL, Obj, FileObj, Dev

LEMMA LowestIn ==
  ASSUME NEW S \in SUBSET Nat, S # {}
  PROVE  Lowest(S) \in S /\ \A y \in S : Lowest(S) <= y
  BY LeastExists, Zenon DEF Lowest

LEMMA PlacesFinite ==
  ASSUME NEW tab, NEW o
  PROVE  IsFiniteSet(Places(tab, o)) /\ Cardinality(Places(tab, o)) \in Nat
<1>0. NPROC - 1 \in Int /\ PROCESS_IOMAX - 1 \in Int
  BY FilesAssumption
<1>1. IsFiniteSet(Pid) /\ IsFiniteSet(FdNo)
  BY <1>0, FS_Interval DEF Pid, FdNo
<1>2. IsFiniteSet(Pid \X FdNo)
  BY Zenon, <1>1, FS_Product
<1>3. IsFiniteSet(Places(tab, o))
  BY Zenon, <1>2, FS_Subset DEF Places
<1> QED BY Zenon, <1>3, FS_CardinalityType

(* The table changes at one place. *)
LEMMA PlacesAdd ==
  ASSUME NEW tab, NEW new, NEW o, NEW z,
         z \notin Places(tab, o), Places(new, o) = Places(tab, o) \cup {z}
  PROVE  Cardinality(Places(new, o)) = Cardinality(Places(tab, o)) + 1
<1>1. IsFiniteSet(Places(tab, o))
  BY Zenon, PlacesFinite
<1> QED BY Zenon, <1>1, FS_AddElement

LEMMA PlacesSame ==
  ASSUME NEW tab, NEW new, NEW o,
         \A q \in Pid, x \in FdNo : new[q][x] = o <=> tab[q][x] = o
  PROVE  Cardinality(Places(new, o)) = Cardinality(Places(tab, o))
<1>1. Places(new, o) = Places(tab, o)
  BY Zenon DEF Places
<1> QED BY Zenon, <1>1

LEMMA PlacesNone ==
  ASSUME NEW tab, NEW o
  PROVE  Cardinality(Places(tab, o)) = 0 <=> \A q \in Pid, x \in FdNo : tab[q][x] # o
<1>1. ASSUME NEW q \in Pid, NEW x \in FdNo
      PROVE  <<q, x>> \in Places(tab, o) <=> tab[q][x] = o
  BY Zenon DEF Places
<1>2. ASSUME NEW z \in Places(tab, o)
      PROVE  \E q \in Pid, x \in FdNo : z = <<q, x>>
  BY DEF Places
<1>3. Places(tab, o) = {} <=> \A q \in Pid, x \in FdNo : tab[q][x] # o
  <2>1. ASSUME Places(tab, o) = {}, NEW q \in Pid, NEW x \in FdNo PROVE tab[q][x] # o
    BY Zenon, <1>1, <2>1
  <2>2. ASSUME \A q \in Pid, x \in FdNo : tab[q][x] # o, NEW z \in Places(tab, o) PROVE FALSE
    <3>1. PICK q \in Pid, x \in FdNo : z = <<q, x>>
      BY Zenon, <1>2
    <3> QED BY Zenon, <1>1, <2>2, <3>1
  <2> QED BY Zenon, <2>1, <2>2
<1>4. IsFiniteSet(Places(tab, o))
  BY Zenon, PlacesFinite
<1>5. Cardinality(Places(tab, o)) = 0 <=> Places(tab, o) = {}
  BY <1>4, FS_EmptySet, Zenon
<1> QED BY Zenon, <1>3, <1>5
-----------------------------------------------------------------------------
(* How the references to an object change. *)
LEMMA RefsIs ==
  /\ \A o : Refs(o) = Cardinality(Places(iotab, o)) /\ Refs(o) \in Nat
  /\ \A o : Refs(o)' = Cardinality(Places(iotab', o)) /\ Refs(o)' \in Nat
<1>1. \A o : Refs(o) = Cardinality(Places(iotab, o))
  BY DEF Refs, Places
<1>2. \A o : Refs(o)' = Cardinality(Places(iotab', o))
  BY DEF Refs, Places
<1> QED BY Zenon, <1>1, <1>2, PlacesFinite

LEMMA RefsOfHolder ==
  ASSUME NEW p \in Pid, NEW fd \in FdNo
  PROVE  Refs(iotab[p][fd]) > 0
  BY RefsIs, PlacesNone

LEMMA ClosedUnused ==
  ASSUME Inv, NEW o \in Obj, ~open[o]
  PROVE  /\ Refs(o) = 0
         /\ \A p \in Pid, fd \in FdNo : iotab[p][fd] # o
         /\ \A p \in Pid : using[p] # o
<1>1. /\ \A p \in Pid, fd \in FdNo : iotab[p][fd] # o
      /\ \A p \in Pid : using[p] # o
  BY NullNoObj DEF Inv, DescriptorIntact
<1> QED BY Zenon, <1>1, RefsIs, PlacesNone

LEMMA RefsSame ==
  ASSUME NEW o, \A q \in Pid, x \in FdNo : iotab'[q][x] = o <=> iotab[q][x] = o
  PROVE  Refs(o)' = Refs(o)
<1>1. Cardinality(Places(iotab', o)) = Cardinality(Places(iotab, o))
  BY PlacesSame
<1> QED BY Zenon, <1>1, RefsIs

LEMMA RefsAdd ==
  ASSUME NEW o, NEW p \in Pid, NEW fd \in FdNo, iotab[p][fd] # o, iotab'[p][fd] = o,
         \A q \in Pid, x \in FdNo : <<q, x>> # <<p, fd>> => (iotab'[q][x] = o <=> iotab[q][x] = o)
  PROVE  Refs(o)' = Refs(o) + 1
<1>1. Places(iotab', o) = Places(iotab, o) \cup {<<p, fd>>} /\ <<p, fd>> \notin Places(iotab, o)
  BY DEF Places
<1>2. Cardinality(Places(iotab', o)) = Cardinality(Places(iotab, o)) + 1
  BY ZenonT(30), <1>1, PlacesAdd
<1> QED BY Zenon, <1>2, RefsIs

LEMMA RefsRemove ==
  ASSUME NEW o, NEW p \in Pid, NEW fd \in FdNo, iotab'[p][fd] # o, iotab[p][fd] = o,
         \A q \in Pid, x \in FdNo : <<q, x>> # <<p, fd>> => (iotab'[q][x] = o <=> iotab[q][x] = o)
  PROVE  Refs(o) = Refs(o)' + 1
<1>1. Places(iotab, o) = Places(iotab', o) \cup {<<p, fd>>} /\ <<p, fd>> \notin Places(iotab', o)
  BY DEF Places
<1>2. Cardinality(Places(iotab, o)) = Cardinality(Places(iotab', o)) + 1
  BY ZenonT(30), <1>1, PlacesAdd
<1> QED BY Zenon, <1>2, RefsIs

LEMMA InstallRefs ==
  ASSUME Inv, NEW o \in Obj, ~open[o], NEW p \in Pid, NEW fd \in FdNo, iotab[p][fd] = NULL,
         iotab' = [iotab EXCEPT ![p][fd] = o]
  PROVE  Refs(o)' = 1 /\ \A u \in Obj \ {o} : Refs(u)' = Refs(u)
<1>1. Refs(o)' = Refs(o) + 1
  <2>1. /\ iotab[p][fd] # o /\ iotab'[p][fd] = o
        /\ \A q \in Pid, x \in FdNo : <<q, x>> # <<p, fd>> => (iotab'[q][x] = o <=> iotab[q][x] = o)
    BY Zenon, NullNoObj DEF Inv, TypeInv, Tab
  <2> QED BY Zenon, <2>1, RefsAdd
<1>2. ASSUME NEW u \in Obj \ {o} PROVE Refs(u)' = Refs(u)
  <2>1. \A q \in Pid, x \in FdNo : iotab'[q][x] = u <=> iotab[q][x] = u
    BY Zenon, NullNoObj DEF Inv, TypeInv, Tab
  <2> QED BY Zenon, <2>1, RefsSame
<1> QED BY <1>1, <1>2, ClosedUnused

LEMMA RemoveRefs ==
  ASSUME Inv, NEW p \in Pid, NEW fd \in FdNo, NEW o \in Obj, iotab[p][fd] = o,
         iotab' = [iotab EXCEPT ![p][fd] = NULL]
  PROVE  Refs(o) = Refs(o)' + 1 /\ \A u \in Obj \ {o} : Refs(u)' = Refs(u)
<1>1. Refs(o) = Refs(o)' + 1
  <2>1. /\ iotab'[p][fd] # o
        /\ \A q \in Pid, x \in FdNo : <<q, x>> # <<p, fd>> => (iotab'[q][x] = o <=> iotab[q][x] = o)
    BY Zenon, NullNoObj DEF Inv, TypeInv, Tab
  <2> QED BY <2>1, RefsRemove
<1>2. ASSUME NEW u \in Obj \ {o} PROVE Refs(u)' = Refs(u)
  <2>1. \A q \in Pid, x \in FdNo : iotab'[q][x] = u <=> iotab[q][x] = u
    BY Zenon, NullNoObj DEF Inv, TypeInv, Tab
  <2> QED BY Zenon, <2>1, RefsSame
<1> QED BY Zenon, <1>1, <1>2

LEMMA ForkRefs ==
  ASSUME Inv, NEW p \in Pid, NEW c \in Pid, ~proctab[c],
         iotab' = [iotab EXCEPT ![c] = iotab[p]]
  PROVE  \A o \in Obj : Refs(o)' = IF o \in Inherited(p) THEN Refs(o) + 1 ELSE Refs(o)
<1>0. \A x \in FdNo : iotab[c][x] = NULL
  BY Zenon DEF Inv, TableInv, NoTab
<1>1. ASSUME NEW o \in Obj, o \in Inherited(p) PROVE Refs(o)' = Refs(o) + 1
  <2>1. PICK fd \in FdNo : iotab[p][fd] = o
    BY Zenon, <1>1 DEF Inherited
  <2>2. \A x \in FdNo : x # fd => iotab[p][x] # o
    BY Zenon, <2>1, NullNoObj DEF Inv, TableInv
  <2>3. /\ iotab[c][fd] # o /\ iotab'[c][fd] = o
        /\ \A q \in Pid, x \in FdNo : <<q, x>> # <<c, fd>> => (iotab'[q][x] = o <=> iotab[q][x] = o)
    BY Zenon, <1>0, <2>1, <2>2, NullNoObj DEF Inv, TypeInv, Tab
  <2> QED BY <2>3, RefsAdd
<1>2. ASSUME NEW o \in Obj, o \notin Inherited(p) PROVE Refs(o)' = Refs(o)
  <2>1. \A x \in FdNo : iotab[p][x] # o
    BY Zenon, <1>2, NullNoObj DEF Inherited
  <2>2. \A q \in Pid, x \in FdNo : iotab'[q][x] = o <=> iotab[q][x] = o
    BY Zenon, <1>0, <2>1, NullNoObj DEF Inv, TypeInv, Tab
  <2> QED BY Zenon, <2>2, RefsSame
<1> QED BY Zenon, <1>1, <1>2

LEMMA ExitRefs ==
  ASSUME Inv, NEW p \in Pid, iotab' = [iotab EXCEPT ![p] = NoTab],
         \A q \in Pid \ {p} : Inherited(p) \cap Inherited(q) = {}
  PROVE  \A o \in Obj : IF o \in Inherited(p) THEN Refs(o) = 1 /\ Refs(o)' = 0
                                             ELSE Refs(o)' = Refs(o)
<1>0. \A x \in FdNo : iotab'[p][x] = NULL
  BY Zenon DEF Inv, TypeInv, Tab, NoTab
<1>1. ASSUME NEW o \in Obj, o \in Inherited(p) PROVE Refs(o) = 1 /\ Refs(o)' = 0
  <2>1. PICK fd \in FdNo : iotab[p][fd] = o
    BY Zenon, <1>1 DEF Inherited
  <2>2. \A x \in FdNo : x # fd => iotab[p][x] # o
    BY Zenon, <2>1, NullNoObj DEF Inv, TableInv
  <2>3. \A q \in Pid \ {p}, x \in FdNo : iotab[q][x] # o
    BY Zenon, <1>1, NullNoObj DEF Inherited
  <2>4. \A q \in Pid, x \in FdNo : iotab'[q][x] # o
    BY Zenon, <1>0, <2>3, NullNoObj DEF Inv, TypeInv, Tab
  <2>5. Refs(o)' = 0
    BY Zenon, <2>4, PlacesNone, RefsIs
  <2>6. /\ iotab'[p][fd] # o
        /\ \A q \in Pid, x \in FdNo : <<q, x>> # <<p, fd>> => (iotab'[q][x] = o <=> iotab[q][x] = o)
    BY Zenon, <2>2, <2>3, <2>4
  <2>7. Refs(o) = Refs(o)' + 1
    BY <2>1, <2>6, RefsRemove
  <2> QED BY <2>5, <2>7
<1>2. ASSUME NEW o \in Obj, o \notin Inherited(p) PROVE Refs(o)' = Refs(o)
  <2>1. \A x \in FdNo : iotab[p][x] # o
    BY Zenon, <1>2, NullNoObj DEF Inherited
  <2>2. \A q \in Pid, x \in FdNo : iotab'[q][x] = o <=> iotab[q][x] = o
    BY Zenon, <1>0, <2>1, NullNoObj DEF Inv, TypeInv, Tab
  <2> QED BY Zenon, <2>2, RefsSame
<1> QED BY Zenon, <1>1, <1>2
-----------------------------------------------------------------------------
(* Every call preserves Inv. *)
LEMMA RefMod ==
  /\ REFMOD \in Nat /\ REFMOD > 1 /\ MAXREFS \in Nat /\ MAXREFS < REFMOD - 1
  /\ \A k \in 1 .. REFMOD - 1 : (k - 1) % REFMOD = k - 1
  /\ (0 - 1) % REFMOD = REFMOD - 1
  /\ \A k \in 0 .. REFMOD - 1 : k < MAXREFS => (k + 1) % REFMOD = k + 1
<1>1. REFMOD \in Nat /\ REFMOD > 1 /\ MAXREFS \in Nat /\ MAXREFS < REFMOD - 1
  BY FilesAssumption
<1>2. \A k \in 0 .. REFMOD - 1 : k % REFMOD = k
  BY <1>1, SMTT(30)
<1>3. (0 - 1) % REFMOD = REFMOD - 1
  BY <1>1, SMTT(30)
<1> QED BY <1>1, <1>2, <1>3

LEMMA InitInv == Init => Inv
<1> SUFFICES ASSUME Init PROVE Inv
  OBVIOUS
<1>1. TypeInv
  BY RefMod DEF Init, TypeInv, Tab, NoTab
<1>2. TableInv
  BY Zenon DEF Init, TableInv, NoTab
<1>3. CountInv
  BY Zenon DEF Init, CountInv
<1>4. UsingInv
  BY Zenon DEF Init, UsingInv
<1>5. DescriptorIntact
  BY Zenon DEF Init, DescriptorIntact, NoTab
<1> QED BY Zenon, <1>1, <1>2, <1>3, <1>4, <1>5 DEF Inv

LEMMA InstallInv ==
  ASSUME Inv, NEW p \in Pid, Runs(p), NEW fd \in FdNo, iotab[p][fd] = NULL,
         NEW o \in Obj, ~open[o], NEW f, Install(p, fd, o, f), UNCHANGED <<proctab, using>>,
         IF o \in FileObj THEN f \in File /\ inode' = [inode EXCEPT ![o] = f]
                          ELSE f = "dev" /\ inode' = inode
  PROVE  Inv'
<1> USE NullNoObj DEF Install
<1>0. /\ \A q \in Pid, x \in FdNo : iotab[q][x] # o
      /\ \A q \in Pid : using[q] # o
  BY Zenon, ClosedUnused
<1>1. TypeInv'
  BY SMTT(30), RefMod DEF Inv, TypeInv, Tab
<1>2. TableInv'
  BY Zenon, <1>0 DEF Inv, TypeInv, Tab, TableInv, Runs
<1>3. CountInv'
  <2>1. Refs(o)' = 1 /\ \A u \in Obj \ {o} : Refs(u)' = Refs(u)
    BY Zenon, InstallRefs
  <2> QED BY <2>1 DEF Inv, TypeInv, CountInv
<1>4. UsingInv'
  BY Zenon, <1>0 DEF Inv, TypeInv, Tab, UsingInv, Runs
<1>5. DescriptorIntact'
  BY <1>0 DEF Inv, TypeInv, Tab, DescriptorIntact
<1> QED BY Zenon, <1>1, <1>2, <1>3, <1>4, <1>5 DEF Inv

LEMMA DevopenInv ==
  ASSUME Inv, NEW p \in Pid, NEW d \in Dev, NEW fd, sysdevopen(p, d, fd)
  PROVE  Inv'
<1>0. d \in Obj /\ d \notin FileObj
  BY FilesAssumption DEF Dev, Obj, FileObj
<1>1. CASE \E x \in FdsFor(p, fd) : Install(p, x, d, "dev") /\ UNCHANGED inode
  <2>1. PICK x \in FdsFor(p, fd) : Install(p, x, d, "dev") /\ UNCHANGED inode
    BY Zenon, <1>1
  <2>2. x \in FdNo /\ iotab[p][x] = NULL
    BY Zenon DEF FdsFor
  <2> QED BY Zenon, <1>0, <2>1, <2>2, InstallInv DEF sysdevopen, procs
<1>2. CASE /\ refcnt' = [refcnt EXCEPT ![d] = (@ - 1) % REFMOD]
           /\ open' = [open EXCEPT ![d] = (refcnt[d] # 1)]
           /\ lost' = [lost EXCEPT ![d] = IF refcnt[d] # 1 THEN refcnt'[d] ELSE @]
           /\ UNCHANGED <<inode, tabs>>
  <2>0. ~open[d] /\ UNCHANGED <<proctab, using, iotab, name, inode>>
    BY Zenon, <1>2 DEF sysdevopen, procs, tabs
  <2>1. Refs(d) = 0 /\ \A u \in Obj : Refs(u)' = Refs(u)
    BY Zenon, <1>0, <2>0, ClosedUnused, RefsSame
  <2>2. refcnt[d] \in 0 .. REFMOD - 1 /\ (refcnt[d] - 1) % REFMOD \in 0 .. REFMOD - 1
    BY <1>0, RefMod DEF Inv, TypeInv
  <2>3. TypeInv'
    BY <1>0, <1>2, <2>0, <2>2 DEF Inv, TypeInv
  <2>4. TableInv'
    BY Zenon, <2>0 DEF Inv, TableInv
  <2>5. CountInv'
    <3>1. open'[d] => refcnt'[d] = Refs(d)' + lost'[d]
      <4>1. open'[d] => lost'[d] = refcnt'[d]
        BY Zenon, <1>0, <1>2 DEF Inv, TypeInv
      <4>2. refcnt'[d] \in Nat
        BY <1>0, <2>3, RefMod DEF TypeInv
      <4> QED BY <1>0, <2>1, <4>1, <4>2
    <3>2. ASSUME NEW u \in Obj \ {d}, open'[u] PROVE refcnt'[u] = Refs(u)' + lost'[u]
      BY Zenon, <1>2, <2>1, <3>2 DEF Inv, TypeInv, CountInv
    <3> QED BY Zenon, <3>1, <3>2 DEF CountInv
  <2>6. \A q \in Pid : using[q] # d /\ \A x \in FdNo : iotab[q][x] # d
    BY Zenon, <1>0, <2>0, ClosedUnused
  <2>7. UsingInv'
    BY Zenon, <1>2, <2>0, <2>6 DEF Inv, TypeInv, UsingInv
  <2>8. DescriptorIntact'
    BY <1>2, <2>0, <2>6, NullNoObj DEF Inv, TypeInv, Tab, DescriptorIntact
  <2> QED BY Zenon, <2>3, <2>4, <2>5, <2>7, <2>8 DEF Inv
<1> QED BY Zenon, <1>1, <1>2 DEF sysdevopen

LEMMA FreeSlot ==
  LET free == {o \in FileObj : ~open[o]}
  IN free # {} => Lowest(free) \in FileObj /\ ~open[Lowest(free)]
<1> DEFINE free == {o \in FileObj : ~open[o]}
<1>1. free \in SUBSET Nat
  BY FilesAssumption DEF FileObj
<1>2. free # {} => Lowest(free) \in free
  BY Zenon, <1>1, LowestIn
<1> QED BY Zenon, <1>2

LEMMA FsopenInv ==
  ASSUME Inv, NEW p \in Pid, NEW f \in File, NEW fd, sysfsopen(p, f, fd)
  PROVE  Inv'
<1> DEFINE o == Lowest({u \in FileObj : ~open[u]})
<1>1. o \in FileObj /\ o \in Obj /\ ~open[o]
  BY Zenon, FreeSlot DEF sysfsopen, Obj
<1>2. PICK x \in FdsFor(p, fd) : Install(p, x, o, f) /\ inode' = [inode EXCEPT ![o] = f]
  BY Zenon DEF sysfsopen
<1>3. x \in FdNo /\ iotab[p][x] = NULL /\ Runs(p) /\ UNCHANGED <<proctab, using>>
  BY Zenon DEF FdsFor, sysfsopen, procs
<1> HIDE DEF o
<1> QED BY Zenon, <1>1, <1>2, <1>3, InstallInv

(* What a call finds behind a descriptor that is not NULL. *)
LEMMA Behind ==
  ASSUME Inv, NEW p \in Pid, NEW fd \in FdNo, iotab[p][fd] # NULL
  PROVE  /\ iotab[p][fd] \in Obj /\ open[iotab[p][fd]]
         /\ refcnt[iotab[p][fd]] = Refs(iotab[p][fd]) + lost[iotab[p][fd]]
  BY DEF Inv, TypeInv, Tab, DescriptorIntact, CountInv

(* sysclose closes the object when it removes the last reference to it, and  *)
(* then nobody else refers to it or uses it.                                 *)
LEMMA CloseInv ==
  ASSUME Inv, NEW p \in Pid, NEW fd \in FdNo, sysclose(p, fd)
  PROVE  Inv'
<1>0. PICK o \in Obj : o = iotab[p][fd]
  BY Zenon, Behind DEF sysclose
<1>1. open[o] /\ refcnt[o] = Refs(o) + lost[o]
  BY Zenon, <1>0, Behind, NullNoObj
<1>2. Refs(o) = Refs(o)' + 1 /\ \A u \in Obj \ {o} : Refs(u)' = Refs(u)
  BY Zenon, <1>0, RemoveRefs DEF sysclose
<1>3. Refs(o) \in Nat /\ Refs(o)' \in Nat /\ lost[o] \in Nat /\ refcnt[o] \in 1 .. REFMOD - 1
  BY <1>1, <1>2, RefsIs, RefMod DEF Inv, TypeInv
<1>4. /\ iotab' = [iotab EXCEPT ![p][fd] = NULL] /\ name' = [name EXCEPT ![p][fd] = NoFile]
      /\ UNCHANGED <<proctab, using, lost>> /\ using[p] = NULL
  BY Zenon DEF sysclose, procs, Runs
<1>5. refcnt' = [refcnt EXCEPT ![o] = refcnt[o] - 1]
  BY Zenon, <1>0, <1>3, RefMod DEF sysclose, ioclose, Inv, TypeInv
<1>6. IF refcnt[o] = 1 THEN Close(o) ELSE UNCHANGED <<open, inode>>
  BY Zenon, <1>0 DEF sysclose, ioclose
<1>7. ASSUME refcnt[o] = 1
      PROVE  /\ \A q \in Pid, x \in FdNo : iotab'[q][x] # o
             /\ \A q \in Pid : using[q] # o
  <2>1. Refs(o)' = 0 /\ lost[o] = 0
    BY <1>1, <1>2, <1>3, <1>7
  <2>2. \A q \in Pid, x \in FdNo : iotab'[q][x] # o
    BY Zenon, <2>1, RefsIs, PlacesNone
  <2>3. ASSUME NEW q \in Pid, using[q] = o PROVE FALSE
    BY <1>1, <1>4, <2>1, <2>2, <2>3, NullNoObj DEF Inv, TypeInv, Tab, UsingInv
  <2> QED BY Zenon, <2>2, <2>3
<1>8. TypeInv'
  <2>1. open' \in [Obj -> BOOLEAN] /\ inode' \in [FileObj -> File \cup {NoFile}]
    BY Zenon, <1>6 DEF Inv, TypeInv, Close
  <2>2. refcnt[o] - 1 \in 0 .. REFMOD - 1
    BY <1>3, RefMod
  <2>3. refcnt' \in [Obj -> 0 .. REFMOD - 1]
    BY Zenon, <1>5, <2>2 DEF Inv, TypeInv
  <2> QED BY Zenon, <1>4, <2>1, <2>3 DEF Inv, TypeInv, Tab
<1>9. TableInv'
  BY Zenon, <1>4 DEF Inv, TypeInv, Tab, TableInv, NoTab
<1>10. CountInv'
  <2>1. refcnt'[o] = Refs(o)' + lost'[o]
    BY <1>1, <1>2, <1>3, <1>4, <1>5 DEF Inv, TypeInv
  <2>2. ASSUME NEW u \in Obj \ {o}, open'[u] PROVE refcnt'[u] = Refs(u)' + lost'[u]
    BY Zenon, <1>2, <1>4, <1>5, <1>6, <2>2 DEF Inv, TypeInv, CountInv, Close
  <2> QED BY Zenon, <2>1, <2>2 DEF CountInv
<1>11. UsingInv'
  BY Zenon, <1>4 DEF Inv, TypeInv, Tab, UsingInv
<1>12. DescriptorIntact'
  <2>1. CASE refcnt[o] = 1
    BY SMTT(30), <1>4, <1>6, <1>7, <2>1 DEF Inv, TypeInv, Tab, DescriptorIntact, Close
  <2>2. CASE refcnt[o] # 1
    BY <1>4, <1>6, <2>2 DEF Inv, TypeInv, Tab, DescriptorIntact
  <2> QED BY Zenon, <2>1, <2>2
<1> QED BY Zenon, <1>8, <1>9, <1>10, <1>11, <1>12 DEF Inv

LEMMA BeginIoInv ==
  ASSUME Inv, NEW p \in Pid, NEW fd \in FdNo, BeginIo(p, fd)
  PROVE  Inv'
<1> USE DEF BeginIo, procs, tabs, objs
<1>1. iotab[p][fd] \in Obj /\ open[iotab[p][fd]] /\ proctab[p]
  BY Zenon, Behind DEF Runs
<1>2. TypeInv'
  BY Zenon, <1>1 DEF Inv, TypeInv
<1>3. TableInv'
  BY Zenon, <1>1 DEF Inv, TypeInv, TableInv
<1>4. CountInv'
  BY Zenon DEF Inv, CountInv, Refs
<1>5. UsingInv'
  BY Zenon DEF Inv, TypeInv, UsingInv
<1>6. DescriptorIntact'
  BY <1>1 DEF Inv, TypeInv, DescriptorIntact
<1> QED BY Zenon, <1>2, <1>3, <1>4, <1>5, <1>6 DEF Inv

LEMMA EndIoInv ==
  ASSUME Inv, NEW p \in Pid, EndIo(p)
  PROVE  Inv'
<1> USE DEF EndIo, procs, tabs, objs
<1>1. TypeInv'
  BY Zenon DEF Inv, TypeInv
<1>2. TableInv'
  BY Zenon DEF Inv, TypeInv, TableInv
<1>3. CountInv'
  BY Zenon DEF Inv, CountInv, Refs
<1>4. UsingInv'
  BY Zenon DEF Inv, TypeInv, UsingInv
<1>5. DescriptorIntact'
  BY DEF Inv, TypeInv, DescriptorIntact
<1> QED BY Zenon, <1>1, <1>2, <1>3, <1>4, <1>5 DEF Inv

(* sysexec loses a reference, which keeps the object open. *)
LEMMA ExecInv ==
  ASSUME Inv, NEW p \in Pid, NEW fd \in FdNo, sysexec(p, fd)
  PROVE  Inv'
<1>0. PICK o \in Obj : o = iotab[p][fd]
  BY Zenon, Behind DEF sysexec
<1>1. open[o] /\ refcnt[o] = Refs(o) + lost[o] /\ proctab[p] /\ using[p] = NULL
  BY Zenon, <1>0, Behind, NullNoObj DEF sysexec, Runs
<1>2. Refs(o) = Refs(o)' + 1 /\ \A u \in Obj \ {o} : Refs(u)' = Refs(u)
  BY Zenon, <1>0, RemoveRefs DEF sysexec
<1>3. Refs(o)' \in Nat /\ lost[o] \in Nat
  BY Zenon, <1>1, RefsIs DEF Inv, TypeInv
<1>4. /\ iotab' = [iotab EXCEPT ![p][fd] = NULL] /\ name' = [name EXCEPT ![p][fd] = NoFile]
      /\ using' = [using EXCEPT ![p] = o] /\ lost' = [lost EXCEPT ![o] = lost[o] + 1]
      /\ UNCHANGED <<proctab, open, refcnt, inode>>
  BY Zenon, <1>0 DEF sysexec, procs, Inv, TypeInv
<1>5. TypeInv'
  BY <1>1, <1>3, <1>4 DEF Inv, TypeInv, Tab
<1>6. TableInv'
  BY Zenon, <1>1, <1>4 DEF Inv, TypeInv, Tab, TableInv, NoTab
<1>7. CountInv'
  <2>1. refcnt'[o] = Refs(o)' + lost'[o]
    BY <1>1, <1>2, <1>3, <1>4 DEF Inv, TypeInv
  <2>2. ASSUME NEW u \in Obj \ {o}, open'[u] PROVE refcnt'[u] = Refs(u)' + lost'[u]
    BY Zenon, <1>2, <1>4, <2>2 DEF Inv, TypeInv, CountInv
  <2> QED BY <2>1, <2>2 DEF CountInv
<1>8. UsingInv'
  BY SMTT(30), <1>1, <1>3, <1>4 DEF Inv, TypeInv, Tab, UsingInv
<1>9. DescriptorIntact'
  BY <1>1, <1>4 DEF Inv, TypeInv, Tab, DescriptorIntact
<1> QED BY <1>5, <1>6, <1>7, <1>8, <1>9 DEF Inv

LEMMA ForkInv ==
  ASSUME Inv, NEW p \in Pid, sysfork(p)
  PROVE  Inv'
<1>0. PICK c \in Pid : c = Lowest(FreePids) /\ ~proctab[c]
  <2>1. FreePids \in SUBSET Nat /\ FreePids # {}
    BY FilesAssumption DEF FreePids, Pid, sysfork
  <2>2. Lowest(FreePids) \in FreePids
    BY Zenon, <2>1, LowestIn
  <2> QED BY Zenon, <2>2 DEF FreePids
<1>1. /\ Runs(p) /\ proctab' = [proctab EXCEPT ![c] = TRUE]
      /\ iotab' = [iotab EXCEPT ![c] = iotab[p]] /\ name' = [name EXCEPT ![c] = name[p]]
      /\ UNCHANGED <<using, open, inode, lost>>
  BY Zenon, <1>0 DEF sysfork
<1>2. /\ \A o \in Inherited(p) : refcnt[o] < MAXREFS
      /\ refcnt' = [o \in Obj |-> IF o \in Inherited(p) THEN (refcnt[o] + 1) % REFMOD ELSE refcnt[o]]
  BY Zenon DEF sysfork
<1>3. refcnt' = [o \in Obj |-> IF o \in Inherited(p) THEN refcnt[o] + 1 ELSE refcnt[o]]
  BY Zenon, <1>2, RefMod DEF Inv, TypeInv
<1>4. \A o \in Obj : Refs(o)' = IF o \in Inherited(p) THEN Refs(o) + 1 ELSE Refs(o)
  BY Zenon, <1>0, <1>1, ForkRefs
<1>5. \A x \in FdNo : iotab[c][x] = NULL
  BY Zenon, <1>0 DEF Inv, TableInv, NoTab
<1>6. TypeInv'
  <2>1. ASSUME NEW o \in Obj PROVE refcnt'[o] \in 0 .. REFMOD - 1
    BY <1>2, <1>3, RefMod DEF Inv, TypeInv
  <2>2. refcnt' \in [Obj -> 0 .. REFMOD - 1]
    BY Zenon, <1>3, <2>1
  <2> QED BY Zenon, <1>1, <2>2 DEF Inv, TypeInv, Tab
<1>7. TableInv'
  BY Zenon, <1>0, <1>1 DEF Inv, TypeInv, Tab, TableInv
<1>8. CountInv'
  <2>1. ASSUME NEW o \in Obj, open'[o] PROVE refcnt'[o] = Refs(o)' + lost'[o]
    <3>1. refcnt[o] = Refs(o) + lost[o] /\ refcnt[o] \in Int /\ lost[o] \in Nat /\ Refs(o) \in Nat
      BY <1>1, <2>1, RefsIs, RefMod DEF Inv, TypeInv, CountInv
    <3> QED BY <1>1, <1>3, <1>4, <3>1
  <2> QED BY Zenon, <2>1 DEF CountInv
<1>9. UsingInv'
  BY Zenon, <1>0, <1>1, <1>5 DEF Inv, TypeInv, Tab, UsingInv, TableInv
<1>10. DescriptorIntact'
  BY <1>1 DEF Inv, TypeInv, Tab, DescriptorIntact
<1> QED BY Zenon, <1>6, <1>7, <1>8, <1>9, <1>10 DEF Inv

(* process_exit closes objects to which nobody else refers. *)
LEMMA ExitInv ==
  ASSUME Inv, ~SharedExit, NEW p \in Pid, sysexit(p)
  PROVE  Inv'
<1>1. /\ Runs(p) /\ iotab' = [iotab EXCEPT ![p] = NoTab]
      /\ name' = [name EXCEPT ![p] = [fd \in FdNo |-> NoFile]]
      /\ proctab' = [proctab EXCEPT ![p] = FALSE] /\ UNCHANGED <<using, refcnt>>
  BY Zenon DEF sysexit
<1>2. /\ open' = [o \in Obj |-> open[o] /\ o \notin Inherited(p)]
      /\ inode' = [o \in FileObj |-> IF o \in Inherited(p) THEN NoFile ELSE inode[o]]
      /\ lost' = [o \in Obj |-> IF o \in Inherited(p) THEN 0 ELSE lost[o]]
  BY Zenon DEF sysexit
<1>3. \A q \in Pid \ {p} : Inherited(p) \cap (Inherited(q) \cup {using[q]}) = {}
  BY Zenon DEF sysexit
<1>4. \A o \in Obj : o \notin Inherited(p) => Refs(o)' = Refs(o)
  BY Zenon, <1>1, <1>3, ExitRefs
<1>5. TypeInv'
  BY Zenon, <1>1, <1>2 DEF Inv, TypeInv, Tab, NoTab
<1>6. TableInv'
  BY Zenon, <1>1 DEF Inv, TypeInv, Tab, TableInv, NoTab, Runs
<1>7. CountInv'
  BY Zenon, <1>1, <1>2, <1>4 DEF Inv, CountInv
<1>8. UsingInv'
  BY Zenon, <1>1, <1>2, <1>3 DEF Inv, TypeInv, Tab, UsingInv, Runs
<1>9. \A q \in Pid \ {p}, x \in FdNo : iotab[q][x] # NULL => iotab[q][x] \notin Inherited(p)
  BY Zenon, <1>3 DEF Inherited
<1>10. DescriptorIntact'
  <2>1. ASSUME NEW q \in Pid, NEW x \in FdNo, iotab'[q][x] # NULL
        PROVE  /\ open'[iotab'[q][x]]
               /\ iotab'[q][x] \in FileObj => inode'[iotab'[q][x]] = name'[q][x]
    <3>1. q # p /\ iotab'[q][x] = iotab[q][x] /\ name'[q][x] = name[q][x]
      BY Zenon, <1>1, <2>1 DEF Inv, TypeInv, Tab, NoTab
    <3> QED BY <1>2, <1>9, <2>1, <3>1 DEF Inv, TypeInv, Tab, DescriptorIntact
  <2>2. ASSUME NEW q \in Pid, using'[q] # NULL PROVE open'[using'[q]]
    <3>1. q # p /\ using[q] \in Obj /\ open[using[q]]
      BY <1>1, <2>2 DEF Inv, TypeInv, DescriptorIntact, Runs
    <3>2. using[q] \notin Inherited(p)
      BY Zenon, <1>3, <3>1
    <3> QED BY Zenon, <1>1, <1>2, <3>1, <3>2
  <2> QED BY Zenon, <2>1, <2>2 DEF DescriptorIntact
<1> QED BY Zenon, <1>5, <1>6, <1>7, <1>8, <1>10 DEF Inv

LEMMA QuietInv ==
  ASSUME Inv, UNCHANGED <<proctab, tabs, using, objs>>
  PROVE  Inv'
  BY DEF Inv, TypeInv, TableInv, CountInv, Refs, UsingInv, DescriptorIntact, tabs, objs

LEMMA NextInv == Inv /\ ~SharedExit /\ [Next]_vars => Inv'
<1> SUFFICES ASSUME Inv, ~SharedExit, [Next]_vars PROVE Inv'
  BY Zenon
<1>1. ASSUME NEW p \in Pid, NEW arg, syswait(p, arg) PROVE Inv'
  BY Zenon, <1>1, QuietInv DEF syswait
<1>2. CASE UNCHANGED vars
  BY Zenon, <1>2, QuietInv DEF vars, procs
<1> QED
  BY Zenon, <1>1, <1>2, DevopenInv, FsopenInv, CloseInv, BeginIoInv, ExecInv, EndIoInv, ForkInv,
     ExitInv DEF Next

LEMMA InvHolds == ~SharedExit => (Spec => []Inv)
<1> SUFFICES ASSUME ~SharedExit PROVE Spec => []Inv
  BY Zenon
<1>1. Inv /\ [Next]_vars => Inv'
  BY Zenon, NextInv
<1> QED BY <1>1, InitInv, PTL DEF Spec

(* As long as no process ends while another refers to its objects, every      *)
(* descriptor leads to an open object that stands for the file opened there,  *)
(* and so does every call that waits in one.                                  *)
THEOREM DescriptorIntactHolds == ~SharedExit => (Spec => []DescriptorIntact)
  BY InvHolds, PTL DEF Inv
-----------------------------------------------------------------------------
(* Files implements IoRef: every step of a process is a step of the          *)
(* reference counting it promises, or changes nothing of it.                 *)

OpenObjs == {o \in Obj : open[o]}
Held == [o \in Obj |-> Refs(o)]

LEMMA InitIo == Init => Io!Init
<1> SUFFICES ASSUME Init PROVE Io!Init
  OBVIOUS
<1>1. ASSUME NEW o \in Obj PROVE Refs(o) = 0
  BY Zenon, RefsIs, PlacesNone, NullNoObj DEF Init, NoTab
<1> QED BY Zenon, <1>1 DEF Init, Io!Init

LEMMA InstallIo ==
  ASSUME Inv, NEW p \in Pid, NEW fd \in FdNo, iotab[p][fd] = NULL,
         NEW o \in Obj, ~open[o], NEW f, Install(p, fd, o, f)
  PROVE  Io!Open(o)
<1>1. Refs(o)' = 1 /\ \A u \in Obj \ {o} : Refs(u)' = Refs(u)
  BY Zenon, InstallRefs DEF Install
<1>2. Held' = [Held EXCEPT ![o] = 1]
  BY Zenon, <1>1 DEF Held
<1>3. OpenObjs' = OpenObjs \cup {o} /\ o \notin OpenObjs
  BY Zenon DEF Install, OpenObjs, Inv, TypeInv
<1> QED BY Zenon, <1>2, <1>3 DEF Io!Open, Install, Held, OpenObjs

LEMMA DevopenIo ==
  ASSUME Inv, NEW p \in Pid, NEW d \in Dev, NEW fd, sysdevopen(p, d, fd)
  PROVE  Io!Open(d) \/ Io!Abandon(d) \/ UNCHANGED Io!vars
<1>0. d \in Obj /\ ~open[d]
  BY Zenon DEF Obj, sysdevopen
<1>1. CASE \E x \in FdsFor(p, fd) : Install(p, x, d, "dev")
  <2>1. PICK x \in FdsFor(p, fd) : Install(p, x, d, "dev")
    BY Zenon, <1>1
  <2>2. x \in FdNo /\ iotab[p][x] = NULL
    BY DEF FdsFor
  <2> QED BY Zenon, <1>0, <2>1, <2>2, InstallIo
<1>2. CASE /\ refcnt' = [refcnt EXCEPT ![d] = (@ - 1) % REFMOD]
           /\ open' = [open EXCEPT ![d] = (refcnt[d] # 1)]
           /\ lost' = [lost EXCEPT ![d] = IF refcnt[d] # 1 THEN refcnt'[d] ELSE @]
           /\ UNCHANGED <<inode, tabs>>
  <2>1. Held' = Held
    BY Zenon, <1>2, RefsSame DEF Held, tabs
  <2>2. refcnt[d] \in 0 .. REFMOD - 1 /\ refcnt'[d] = (refcnt[d] - 1) % REFMOD
    BY Zenon, <1>0, <1>2 DEF Inv, TypeInv
  <2>3. CASE refcnt[d] # 1
    <3>1. refcnt'[d] # 0
      BY <2>2, <2>3, RefMod
    <3>2. lost' = [lost EXCEPT ![d] = refcnt'[d]] /\ lost'[d] = refcnt'[d]
      BY Zenon, <1>0, <1>2, <2>3 DEF Inv, TypeInv
    <3>3. OpenObjs' = OpenObjs \cup {d} /\ d \notin OpenObjs
      BY Zenon, <1>0, <1>2, <2>3 DEF OpenObjs, Inv, TypeInv
    <3> QED BY Zenon, <2>1, <3>1, <3>2, <3>3 DEF Io!Abandon, Held, OpenObjs
  <2>4. CASE refcnt[d] = 1
    <3>1. lost' = lost /\ OpenObjs' = OpenObjs
      BY Zenon, <1>0, <1>2, <2>4 DEF OpenObjs, Inv, TypeInv
    <3> QED BY Zenon, <2>1, <3>1 DEF Io!vars, Held, OpenObjs
  <2> QED BY Zenon, <2>3, <2>4
<1> QED BY Zenon, <1>1, <1>2 DEF sysdevopen

LEMMA FsopenIo ==
  ASSUME Inv, NEW p \in Pid, NEW f \in File, NEW fd, sysfsopen(p, f, fd)
  PROVE  \E o \in Obj : Io!Open(o)
<1>1. PICK o \in Obj : o = Lowest({u \in FileObj : ~open[u]}) /\ ~open[o]
  BY Zenon, FreeSlot DEF sysfsopen, Obj
<1>2. PICK x \in FdsFor(p, fd) : Install(p, x, o, f)
  BY Zenon, <1>1 DEF sysfsopen
<1>3. x \in FdNo /\ iotab[p][x] = NULL
  BY Zenon DEF FdsFor
<1> QED BY Zenon, <1>1, <1>2, <1>3, InstallIo

LEMMA HeldLess ==
  ASSUME NEW o \in Obj, Refs(o) = Refs(o)' + 1, \A u \in Obj \ {o} : Refs(u)' = Refs(u)
  PROVE  Held' = [Held EXCEPT ![o] = @ - 1] /\ Held[o] > 0
<1>1. Refs(o)' = Refs(o) - 1 /\ Refs(o) > 0
  <2>1. Refs(o) \in Nat /\ Refs(o)' \in Nat
    BY Zenon, RefsIs
  <2> QED BY <2>1
<1>2. \A u \in Obj : Held'[u] = IF u = o THEN Held[u] - 1 ELSE Held[u]
  BY Zenon, <1>1 DEF Held
<1>3. Held' = [u \in Obj |-> Held'[u]] /\ Held = [u \in Obj |-> Held[u]]
  BY Zenon DEF Held
<1>4. Held[o] > 0
  BY Zenon, <1>1 DEF Held
<1> HIDE DEF Held
<1> QED BY Zenon, <1>2, <1>3, <1>4

LEMMA CloseIo ==
  ASSUME Inv, NEW p \in Pid, NEW fd \in FdNo, sysclose(p, fd)
  PROVE  \E o \in Obj : Io!Drop(o)
<1>0. PICK o \in Obj : o = iotab[p][fd]
  BY Behind DEF sysclose
<1>1. open[o] /\ refcnt[o] = Refs(o) + lost[o]
  BY <1>0, Behind, NullNoObj
<1>2. Refs(o) = Refs(o)' + 1 /\ \A u \in Obj \ {o} : Refs(u)' = Refs(u)
  BY Zenon, <1>0, RemoveRefs DEF sysclose
<1>3. Refs(o) \in Nat /\ Refs(o)' \in Nat /\ lost[o] \in Nat
  BY Zenon, RefsIs DEF Inv, TypeInv
<1>4. Held' = [Held EXCEPT ![o] = @ - 1] /\ Held[o] > 0
  BY Zenon, <1>2, HeldLess
<1>5. refcnt[o] = 1 <=> Held[o] = 1 /\ lost[o] = 0
  BY <1>1, <1>2, <1>3 DEF Held
<1>6. IF refcnt[o] = 1 THEN Close(o) ELSE UNCHANGED open
  BY Zenon, <1>0 DEF sysclose, ioclose
<1>7. OpenObjs' = IF Held[o] = 1 /\ lost[o] = 0 THEN OpenObjs \ {o} ELSE OpenObjs
  BY Zenon, <1>5, <1>6 DEF OpenObjs, Close, Inv, TypeInv
<1>8. Io!Drop(o)
  BY Zenon, <1>4, <1>7 DEF Io!Drop, sysclose, Held, OpenObjs
<1> QED BY Zenon, <1>8

LEMMA ExecIo ==
  ASSUME Inv, NEW p \in Pid, NEW fd \in FdNo, sysexec(p, fd)
  PROVE  \E o \in Obj : Io!Forget(o)
<1>0. PICK o \in Obj : o = iotab[p][fd]
  BY Behind DEF sysexec
<1>1. Refs(o) = Refs(o)' + 1 /\ \A u \in Obj \ {o} : Refs(u)' = Refs(u)
  BY Zenon, <1>0, RemoveRefs DEF sysexec
<1>2. Held' = [Held EXCEPT ![o] = @ - 1] /\ Held[o] > 0
  BY <1>1, HeldLess
<1>3. lost' = [lost EXCEPT ![o] = @ + 1] /\ OpenObjs' = OpenObjs
  BY Zenon, <1>0 DEF sysexec, OpenObjs
<1>4. Io!Forget(o)
  BY Zenon, <1>2, <1>3 DEF Io!Forget, Held, OpenObjs
<1> QED BY <1>4

LEMMA ForkIo ==
  ASSUME Inv, NEW p \in Pid, sysfork(p)
  PROVE  Io!Share(Inherited(p)) /\ Inherited(p) \subseteq Obj
<1>0. PICK c \in Pid : c = Lowest(FreePids) /\ ~proctab[c]
  <2>1. FreePids \in SUBSET Nat /\ FreePids # {}
    BY FilesAssumption DEF FreePids, Pid, sysfork
  <2>2. Lowest(FreePids) \in FreePids
    BY <2>1, LowestIn
  <2> QED BY <2>2 DEF FreePids
<1>1. iotab' = [iotab EXCEPT ![c] = iotab[p]]
  BY Zenon, <1>0 DEF sysfork
<1>2. \A o \in Obj : Refs(o)' = IF o \in Inherited(p) THEN Refs(o) + 1 ELSE Refs(o)
  BY Zenon, <1>0, <1>1, ForkRefs
<1>3. Held' = [o \in Obj |-> IF o \in Inherited(p) THEN Held[o] + 1 ELSE Held[o]]
  BY Zenon, <1>2 DEF Held
<1>4. ASSUME NEW o \in Inherited(p) PROVE o \in Obj /\ Held[o] > 0
  <2>1. o \in Obj
    BY DEF Inherited, Inv, TypeInv, Tab
  <2>2. Refs(o) > 0
    BY Zenon, RefsOfHolder DEF Inherited
  <2> QED BY Zenon, <2>1, <2>2 DEF Held
<1>5. OpenObjs' = OpenObjs /\ lost' = lost
  BY Zenon DEF sysfork, OpenObjs
<1> QED BY Zenon, <1>3, <1>4, <1>5 DEF Io!Share, Held, OpenObjs

LEMMA ExitIo ==
  ASSUME Inv, ~SharedExit, NEW p \in Pid, sysexit(p)
  PROVE  \E S \in SUBSET Obj : Io!End(S)
<1>1. iotab' = [iotab EXCEPT ![p] = NoTab]
  BY Zenon DEF sysexit
<1>2. \A q \in Pid \ {p} : Inherited(p) \cap Inherited(q) = {}
  BY Zenon DEF sysexit
<1>3. \A o \in Obj : IF o \in Inherited(p) THEN Refs(o) = 1 /\ Refs(o)' = 0
                                           ELSE Refs(o)' = Refs(o)
  BY Zenon, <1>1, <1>2, ExitRefs
<1>4. Inherited(p) \subseteq Obj
  BY DEF Inherited, Inv, TypeInv, Tab
<1>5. Held' = [o \in Obj |-> IF o \in Inherited(p) THEN 0 ELSE Held[o]]
  BY Zenon, <1>3 DEF Held
<1>6. \A o \in Inherited(p) : Held[o] = 1
  BY Zenon, <1>3, <1>4 DEF Held
<1>7. /\ OpenObjs' = OpenObjs \ Inherited(p)
      /\ lost' = [o \in Obj |-> IF o \in Inherited(p) THEN 0 ELSE lost[o]]
  BY Zenon DEF sysexit, OpenObjs
<1>8. PICK S \in SUBSET Obj : S = Inherited(p)
  BY Zenon, <1>4
<1>9. Io!End(S)
  BY Zenon, <1>5, <1>6, <1>7, <1>8 DEF Io!End, Held, OpenObjs
<1> QED BY Zenon, <1>9

LEMMA QuietIo ==
  ASSUME UNCHANGED <<tabs, objs>>
  PROVE  UNCHANGED Io!vars
<1>1. Held' = Held
  BY Zenon, RefsSame DEF Held, tabs
<1>2. OpenObjs' = OpenObjs /\ lost' = lost
  BY Zenon DEF OpenObjs, objs
<1> QED BY Zenon, <1>1, <1>2 DEF Io!vars, Held, OpenObjs

LEMMA NextIo == Inv /\ ~SharedExit /\ [Next]_vars => [Io!Next]_(Io!vars)
<1> SUFFICES ASSUME Inv, ~SharedExit, [Next]_vars PROVE Io!Next \/ UNCHANGED Io!vars
  BY Zenon
<1>1. ASSUME NEW p \in Pid, NEW d \in Dev, NEW fd, sysdevopen(p, d, fd)
      PROVE  Io!Next \/ UNCHANGED Io!vars
  <2>1. d \in Obj
    BY Zenon DEF Obj
  <2> QED BY Zenon, <1>1, <2>1, DevopenIo DEF Io!Next
<1>2. ASSUME NEW p \in Pid, NEW f \in File, NEW fd, sysfsopen(p, f, fd) PROVE Io!Next
  BY Zenon, <1>2, FsopenIo DEF Io!Next
<1>3. ASSUME NEW p \in Pid, NEW fd \in FdNo, sysclose(p, fd) PROVE Io!Next
  BY Zenon, <1>3, CloseIo DEF Io!Next
<1>4. ASSUME NEW p \in Pid, NEW fd \in FdNo, sysexec(p, fd) PROVE Io!Next
  BY Zenon, <1>4, ExecIo DEF Io!Next
<1>5. ASSUME NEW p \in Pid, sysfork(p) PROVE Io!Next
  BY Zenon, <1>5, ForkIo DEF Io!Next
<1>6. ASSUME NEW p \in Pid, sysexit(p) PROVE Io!Next
  <2>1. PICK S \in SUBSET Obj : Io!End(S)
    BY Zenon, <1>6, ExitIo
  <2> QED BY <2>1, Zenon DEF Io!Next
<1>7. ASSUME NEW p \in Pid, NEW fd \in FdNo, BeginIo(p, fd) PROVE UNCHANGED Io!vars
  BY Zenon, <1>7, QuietIo DEF BeginIo
<1>8. ASSUME NEW p \in Pid, EndIo(p) PROVE UNCHANGED Io!vars
  BY Zenon, <1>8, QuietIo DEF EndIo
<1>9. ASSUME NEW p \in Pid, NEW arg, syswait(p, arg) PROVE UNCHANGED Io!vars
  BY Zenon, <1>9, QuietIo DEF syswait
<1>10. CASE UNCHANGED vars
  BY Zenon, <1>10, QuietIo DEF vars
<1> QED
  BY Zenon, <1>1, <1>2, <1>3, <1>4, <1>5, <1>6, <1>7, <1>8, <1>9, <1>10 DEF Next

(* The descriptors implement reference counting for every number of          *)
(* processes, descriptors and objects: an object is closed by the call that  *)
(* removes its last reference, and by no earlier one.                        *)
THEOREM ImplementsIoRefHolds == ~SharedExit => (Spec => ImplementsIoRef)
<1> SUFFICES ASSUME ~SharedExit PROVE Spec => ImplementsIoRef
  BY Zenon
<1>1. Inv /\ [Next]_vars => [Io!Next]_(Io!vars)
  BY Zenon, NextIo
<1>2. Spec => []Inv
  BY Zenon, InvHolds
<1> QED BY <1>1, <1>2, InitIo, PTL DEF Spec, ImplementsIoRef, Io!Spec
-----------------------------------------------------------------------------
(* Process ids and thread ids. ForkNamesChild is not inductive: that the      *)
(* lowest free process id is the lowest free thread id rests on every live    *)
(* thread being the thread of the process with its number.                    *)
NameInv ==
  /\ thrtab \in [Tid -> [st : {"free", "live", "exited"}, parent : {0} \cup Tid]]
  /\ tid \in [Pid -> {0} \cup Tid] /\ proctab \in [Pid -> BOOLEAN] /\ zombie \in BOOLEAN
  /\ tid[MAIN_PID] = 0 /\ (proctab[MAIN_PID] \/ halted)
  /\ ~zombie =>
       /\ \A c \in Pid \ {MAIN_PID} :
            proctab[c] => c \in Tid /\ tid[c] = c /\ thrtab[c].st = "live"
       /\ \A t \in Tid : thrtab[t].st = "live" => t \in Pid /\ proctab[t]

(* The two searches of sysfork find the same number. *)
LEMMA SameNumber ==
  ASSUME NameInv, ~zombie, ~halted, \A u \in Tid : thrtab[u].st # "exited",
         FreePids # {}, FreeTids # {}
  PROVE  Lowest(FreePids) = Lowest(FreeTids)
<1> DEFINE c == Lowest(FreePids)
           t == Lowest(FreeTids)
<1>1. FreePids \in SUBSET Nat /\ FreeTids \in SUBSET Nat
  BY FilesAssumption DEF FreePids, FreeTids, Pid, Tid
<1>2. c \in FreePids /\ (\A y \in FreePids : c <= y) /\ t \in FreeTids /\ \A y \in FreeTids : t <= y
  BY Zenon, <1>1, LowestIn
<1> HIDE DEF c, t
<1>3. /\ c \in 1 .. NPROC - 1 /\ ~proctab[c]
      /\ t \in 1 .. NTHR - 2 /\ thrtab[t].st = "free"
  BY <1>2, FilesAssumption DEF FreePids, FreeTids, NameInv, MAIN_PID, Pid, Tid
<1>4. c \in Tid => c \in FreeTids
  BY <1>3 DEF NameInv, FreeTids
<1>5. t \in Pid => t \in FreePids
  BY <1>3 DEF NameInv, FreePids, Pid, Tid, MAIN_PID
<1>6. t <= c
  BY <1>2, <1>3, <1>4, FilesAssumption DEF Tid
<1>7. t \in Pid
  BY <1>3, <1>6, FilesAssumption DEF Pid
<1>8. c <= t
  BY Zenon, <1>2, <1>5, <1>7
<1>9. c = t
  BY <1>3, <1>6, <1>8, FilesAssumption
<1> QED BY Zenon, <1>9 DEF c, t

LEMMA NameFork ==
  ASSUME NameInv, NEW p \in Pid, sysfork(p)
  PROVE  NameInv'
<1> DEFINE c == Lowest(FreePids)
           t == Lowest(FreeTids)
<1>1. /\ Runs(p) /\ FreePids # {} /\ FreeTids # {}
      /\ proctab' = [proctab EXCEPT ![c] = TRUE] /\ tid' = [tid EXCEPT ![c] = t]
      /\ thrtab' = [thrtab EXCEPT ![t] = [st |-> "live", parent |-> tid[p]]]
      /\ zombie' = (zombie \/ \E u \in Tid : thrtab[u].st = "exited") /\ halted' = halted
  BY Zenon DEF sysfork
<1>2. c \in Pid \ {MAIN_PID} /\ t \in Tid /\ ~halted
  <2>1. FreePids \in SUBSET Nat /\ FreeTids \in SUBSET Nat
    BY FilesAssumption DEF FreePids, FreeTids, Pid, Tid
  <2>2. c \in FreePids /\ t \in FreeTids
    BY Zenon, <1>1, <2>1, LowestIn
  <2> HIDE DEF c, t
  <2> QED BY Zenon, <1>1, <2>2 DEF FreePids, FreeTids, Runs, NameInv
<1>3. ~zombie' => ~zombie /\ \A u \in Tid : thrtab[u].st # "exited"
  BY <1>1, Zenon
<1>4. ~zombie' => c = t
  BY Zenon, <1>1, <1>2, <1>3, SameNumber
<1> HIDE DEF c, t
<1>5. /\ thrtab' \in [Tid -> [st : {"free", "live", "exited"}, parent : {0} \cup Tid]]
      /\ tid' \in [Pid -> {0} \cup Tid] /\ proctab' \in [Pid -> BOOLEAN] /\ zombie' \in BOOLEAN
  <2>1. zombie' \in BOOLEAN
    BY <1>1, Zenon
  <2> QED BY Zenon, <1>1, <1>2, <2>1 DEF NameInv
<1>6. tid'[MAIN_PID] = 0 /\ (proctab'[MAIN_PID] \/ halted')
  BY SMTT(30), <1>1, <1>2 DEF NameInv
<1>7. ASSUME ~zombie', NEW d \in Pid \ {MAIN_PID}, proctab'[d]
      PROVE  d \in Tid /\ tid'[d] = d /\ thrtab'[d].st = "live"
  BY SMTT(30), <1>1, <1>2, <1>3, <1>4, <1>7 DEF NameInv
<1>8. ASSUME ~zombie', NEW u \in Tid, thrtab'[u].st = "live" PROVE u \in Pid /\ proctab'[u]
  BY <1>1, <1>2, <1>3, <1>4, <1>8 DEF NameInv
<1> QED BY Zenon, <1>5, <1>6, <1>7, <1>8 DEF NameInv

LEMMA NameExit ==
  ASSUME NameInv, NEW p \in Pid, sysexit(p)
  PROVE  NameInv'
<1>1. /\ Runs(p) /\ proctab' = [proctab EXCEPT ![p] = FALSE] /\ tid' = [tid EXCEPT ![p] = 0]
      /\ IF tid[p] = 0
         THEN halted' = TRUE /\ UNCHANGED thrtab
         ELSE thrtab' = [thrtab EXCEPT ![tid[p]].st = "exited"] /\ UNCHANGED halted
      /\ zombie' = zombie
  BY Zenon DEF sysexit
<1>2. \A t \in Tid : thrtab'[t].st = IF t = tid[p] /\ tid[p] # 0 THEN "exited" ELSE thrtab[t].st
  BY <1>1 DEF NameInv
<1>3. thrtab' \in [Tid -> [st : {"free", "live", "exited"}, parent : {0} \cup Tid]]
  BY <1>1 DEF NameInv
<1>4. /\ tid' \in [Pid -> {0} \cup Tid] /\ proctab' \in [Pid -> BOOLEAN] /\ zombie' \in BOOLEAN
      /\ tid'[MAIN_PID] = 0 /\ (proctab'[MAIN_PID] \/ halted')
  BY <1>1, FilesAssumption DEF NameInv, Pid, MAIN_PID
<1>5. 0 \notin Tid
  BY DEF Tid
<1>6. ASSUME ~zombie', NEW d \in Pid \ {MAIN_PID}, proctab'[d]
      PROVE  d \in Tid /\ tid'[d] = d /\ thrtab'[d].st = "live"
  <2>1. d # p /\ proctab[d] /\ tid'[d] = tid[d]
    BY Zenon, <1>1, <1>6 DEF NameInv
  <2>2. d \in Tid /\ tid[d] = d /\ thrtab[d].st = "live"
    BY Zenon, <1>1, <1>6, <2>1 DEF NameInv
  <2>3. tid[p] # d
    BY Zenon, <1>1, <1>5, <1>6, <2>1, <2>2 DEF NameInv, Runs
  <2> QED BY Zenon, <1>2, <2>1, <2>2, <2>3
<1>7. ASSUME ~zombie', NEW u \in Tid, thrtab'[u].st = "live" PROVE u \in Pid /\ proctab'[u]
  <2>1. thrtab[u].st = "live" /\ u # tid[p]
    BY Zenon, <1>2, <1>5, <1>7
  <2>2. u \in Pid /\ proctab[u]
    BY Zenon, <1>1, <1>7, <2>1 DEF NameInv
  <2>3. u # p
    BY Zenon, <1>1, <1>5, <1>7, <2>1 DEF NameInv, Runs, MAIN_PID
  <2> QED BY Zenon, <1>1, <2>2, <2>3 DEF NameInv
<1> QED BY Zenon, <1>3, <1>4, <1>6, <1>7 DEF NameInv

LEMMA NameWait ==
  ASSUME NameInv, NEW p \in Pid, NEW arg, syswait(p, arg)
  PROVE  NameInv'
<1>1. UNCHANGED <<proctab, tid, halted, zombie>>
  BY Zenon DEF syswait
<1>2. PICK t \in Tid : /\ thrtab[t] = [st |-> "exited", parent |-> tid[p]]
                       /\ thrtab' = [u \in Tid |->
                            CASE u = t -> FreeThread
                              [] u # t /\ thrtab[u].st # "free" /\ thrtab[u].parent = t ->
                                   [thrtab[u] EXCEPT !.parent = tid[p]]
                              [] OTHER -> thrtab[u]]
  BY Zenon DEF syswait
<1>3. ASSUME NEW u \in Tid
      PROVE  /\ thrtab'[u] \in [st : {"free", "live", "exited"}, parent : {0} \cup Tid]
             /\ thrtab'[u].st = IF u = t THEN "free" ELSE thrtab[u].st
  <2>1. thrtab[u] \in [st : {"free", "live", "exited"}, parent : {0} \cup Tid] /\ tid[p] \in {0} \cup Tid
    BY Zenon DEF NameInv
  <2>2. CASE u = t
    BY Zenon, <1>2, <2>2 DEF FreeThread
  <2>3. CASE u # t /\ thrtab[u].st # "free" /\ thrtab[u].parent = t
    <3>1. thrtab'[u] = [thrtab[u] EXCEPT !.parent = tid[p]]
      BY Zenon, <1>2, <2>3
    <3> QED BY Zenon, <2>1, <2>3, <3>1
  <2>4. CASE u # t /\ ~(thrtab[u].st # "free" /\ thrtab[u].parent = t)
    <3>1. thrtab'[u] = thrtab[u]
      BY Zenon, <1>2, <2>4
    <3> QED BY Zenon, <2>1, <2>4, <3>1
  <2> QED BY Zenon, <2>2, <2>3, <2>4
<1>4. thrtab' \in [Tid -> [st : {"free", "live", "exited"}, parent : {0} \cup Tid]]
  <2>1. DOMAIN thrtab' = Tid /\ thrtab' = [u \in Tid |-> thrtab'[u]]
    BY Zenon, <1>2
  <2> QED BY Zenon, <1>3, <2>1
<1>5. thrtab[t].st = "exited"
  BY <1>2
<1> QED BY Zenon, <1>1, <1>3, <1>4, <1>5 DEF NameInv

LEMMA NameStep ==
  ASSUME NameInv, [Next]_vars
  PROVE  NameInv'
<1>1. CASE UNCHANGED procs
  BY Zenon, <1>1 DEF procs, NameInv
<1>2. \/ UNCHANGED procs
      \/ \E p \in Pid : sysfork(p) \/ sysexit(p) \/ \E arg \in {0} \cup Tid : syswait(p, arg)
  BY Zenon DEF Next, vars, sysdevopen, sysfsopen, sysclose, BeginIo, sysexec, EndIo
<1> QED BY Zenon, <1>1, <1>2, NameFork, NameExit, NameWait

LEMMA NameInit == Init => NameInv
<1> SUFFICES ASSUME Init PROVE NameInv
  OBVIOUS
<1>1. /\ thrtab \in [Tid -> [st : {"free", "live", "exited"}, parent : {0} \cup Tid]]
      /\ tid \in [Pid -> {0} \cup Tid] /\ proctab \in [Pid -> BOOLEAN] /\ zombie \in BOOLEAN
  <2>1. zombie \in BOOLEAN /\ proctab \in [Pid -> BOOLEAN]
    BY Zenon DEF Init
  <2>2. FreeThread \in [st : {"free", "live", "exited"}, parent : {0} \cup Tid]
    BY Zenon DEF FreeThread
  <2>3. /\ thrtab \in [Tid -> [st : {"free", "live", "exited"}, parent : {0} \cup Tid]]
        /\ tid \in [Pid -> {0} \cup Tid]
    BY <2>2, Zenon DEF Init
  <2> QED BY Zenon, <2>1, <2>3
<1>2. tid[MAIN_PID] = 0 /\ proctab[MAIN_PID]
  <2>1. MAIN_PID \in Pid
    BY FilesAssumption DEF Pid, MAIN_PID
  <2> QED BY <2>1, Zenon DEF Init
<1>3. /\ \A c \in Pid \ {MAIN_PID} : ~proctab[c]
      /\ \A t \in Tid : thrtab[t].st = "free"
  BY Zenon DEF Init, FreeThread
<1> QED BY Zenon, <1>1, <1>2, <1>3 DEF NameInv

(* The number fork returns to the parent names the child's thread for wait,  *)
(* for any number of processes and threads, as long as no fork happens while *)
(* an ended process has not been waited for.                                 *)
THEOREM ForkNamesChildHolds == Spec => []ForkNamesChild
<1>1. NameInv => ForkNamesChild
  BY Zenon DEF NameInv, ForkNamesChild, ForkValue
<1> QED BY NameInit, NameStep, <1>1, PTL DEF Spec
=============================================================================
