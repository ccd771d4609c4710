------------------------- MODULE StrategyCycleProofs -------------------------
(* Theorems about StrategyCycle, for any symbols, queue and bounds.        *)
EXTENDS StrategyCycle, FiniteSetTheorems, TLAPS

\* A job that a stopped bot still runs is the only one that can be late.
LateInv ==
  /\ pc \in {"idle", "generate", "risk", "execute"}
  /\ enabled \in BOOLEAN
  /\ late \in 0..1
  /\ ~enabled /\ pc # "idle" => late = 0
  /\ shadow \in BOOLEAN
  /\ shadow => pc # "execute"

\* A step that leaves the bot and the entries alone.
LEMMA LateKept ==
  ASSUME LateInv, UNCHANGED <<enabled, shadow, late>>,
         \/ pc' \in {pc, "idle"}
         \/ pc # "idle" /\ pc' \in {"generate", "risk"}
         \/ pc # "idle" /\ ~shadow /\ pc' = "execute"
         \/ enabled /\ pc' = "generate"
  PROVE  LateInv'
BY DEF LateInv

LEMMA LateStep == LateInv /\ [Next]_vars => LateInv'
<1> SUFFICES ASSUME LateInv, [Next]_vars PROVE LateInv'
  OBVIOUS
<1>1. ASSUME Start PROVE LateInv'
  BY <1>1 DEF Start, LateInv, worker
<1>2. ASSUME Stop PROVE LateInv'
  <2>2. enabled' = FALSE /\ pc' = pc /\ shadow' = shadow /\ late' = 0
    BY <1>2 DEF Stop
  <2>3. late' \in 0..1 /\ (pc' # "idle" => late' = 0)
    BY <2>2 DEF LateInv
  <2>4. QED
    BY <2>2, <2>3 DEF LateInv
<1>3. ASSUME NEW s \in Symbol, CandleClose(s) \/ CandleAgain(s)
      PROVE  LateInv'
  BY <1>3, LateKept DEF CandleClose, CandleAgain, worker, bot
<1>4. ASSUME Take PROVE LateInv'
  BY <1>4, LateKept DEF Take, bot
<1>5. ASSUME Generate PROVE LateInv'
  <2>1. UNCHANGED <<enabled, shadow, late>> /\ pc # "idle" /\ pc' \in {"idle", "risk"}
    BY <1>5 DEF Generate, Done, Throws, Goto, NothingElse, bot
  <2>2. QED
    BY <2>1, LateKept
<1>6. ASSUME Risk PROVE LateInv'
  <2>1. UNCHANGED <<enabled, shadow, late>> /\ pc # "idle"
        /\ (pc' = "idle" \/ (~shadow /\ pc' = "execute"))
    BY <1>6 DEF Risk, Done, Throws, Goto, NothingElse, bot
  <2>2. QED
    BY <2>1, LateKept
<1>7. ASSUME Execute PROVE LateInv'
  <2>1. UNCHANGED <<enabled, shadow>> /\ pc = "execute" /\ pc' = "idle"
        /\ late' \in {late, IF enabled THEN late ELSE late + 1}
    BY <1>7 DEF Execute, Entered, Done, Throws, bot
  <2>2. ~shadow
    BY <2>1 DEF LateInv
  <2>3. QED
    BY <2>1, <2>2 DEF LateInv
<1>8. ASSUME Crash PROVE LateInv'
  <2>1. /\ enabled' = FALSE /\ pc' = "idle" /\ shadow' \in BOOLEAN
        /\ late' = late \/ (pc = "execute" /\ Entered)
    BY <1>8 DEF Crash
  <2>2. late' \in 0..1
    BY <2>1 DEF LateInv, Entered
  <2>3. QED
    BY <2>1, <2>2 DEF LateInv
<1>9. ASSUME UNCHANGED vars PROVE LateInv'
  BY <1>9, LateKept DEF vars, bot, worker
<1>10. QED
  BY <1>1, <1>2, <1>3, <1>4, <1>5, <1>6, <1>7, <1>8, <1>9 DEF Next

LEMMA LateAlways == Spec => []LateInv
<1>1. Init => LateInv
  <2> SUFFICES ASSUME Init PROVE LateInv
    OBVIOUS
  <2>1. pc = "idle" /\ enabled = FALSE /\ late = 0 /\ shadow \in BOOLEAN
    BY DEF Init
  <2>2. late \in 0..1 /\ pc # "execute"
    BY <2>1
  <2>3. QED
    BY <2>1, <2>2 DEF LateInv
<1>2. QED
  BY <1>1, LateStep, PTL DEF Spec

\* A stopped bot places at most one more entry, whatever waits in the queue,
\* however often it is switched, and across crashes.
THEOREM OneLateEntry == Spec => []LateEntries
<1>1. LateInv => LateEntries
  BY DEF LateInv, LateEntries
<1>2. QED
  BY <1>1, LateAlways, PTL

\* In shadow mode no order is ever placed, whatever the mode was before.
THEOREM ShadowIsSafe == Spec => ShadowPlacesNothing
<1>1. LateInv /\ [Next]_vars => (entries' # entries => ~shadow)
  <2> SUFFICES ASSUME LateInv, [Next]_vars, entries' # entries PROVE pc = "execute"
    BY DEF LateInv
  <2>1. CASE Execute \/ Crash
    BY <2>1 DEF Execute, Crash
  <2>2. CASE \/ Start \/ Stop \/ Take \/ Generate \/ Risk
             \/ \E s \in Symbol : CandleClose(s) \/ CandleAgain(s)
             \/ UNCHANGED vars
    BY <2>2
       DEF Start, Stop, Take, Generate, Risk, CandleClose, CandleAgain,
           worker, vars
  <2>3. QED
    BY <2>1, <2>2 DEF Next
<1>2. QED
  BY <1>1, LateAlways, PTL DEF Spec, ShadowPlacesNothing

-----------------------------------------------------------------------------
(* One entry per candle, as long as the queue remembers every job.         *)

Distinct(q) == \A m, n \in DOMAIN q : q[m] = q[n] => m = n

LEMMA Appended ==
  ASSUME NEW q \in Seq(Job), NEW j \in Job, Distinct(q), j \notin Elements(q)
  PROVE  /\ Append(q, j) \in Seq(Job) /\ Distinct(Append(q, j))
         /\ Elements(Append(q, j)) = Elements(q) \cup {j}
<1>1. /\ Append(q, j) \in Seq(Job) /\ Len(Append(q, j)) = Len(q) + 1
      /\ DOMAIN Append(q, j) = 1..(Len(q) + 1) /\ DOMAIN q = 1..Len(q)
      /\ \A n \in 1..Len(q) : Append(q, j)[n] = q[n]
      /\ Append(q, j)[Len(q) + 1] = j /\ Len(q) \in Nat
  OBVIOUS
<1>2. Distinct(Append(q, j))
  BY <1>1 DEF Distinct, Elements
<1>3. Elements(Append(q, j)) = Elements(q) \cup {j}
  BY <1>1 DEF Elements
<1> QED BY <1>1, <1>2, <1>3

LEMMA Prepended ==
  ASSUME NEW q \in Seq(Job), NEW j \in Job, Distinct(q), j \notin Elements(q)
  PROVE  /\ <<j>> \o q \in Seq(Job) /\ Distinct(<<j>> \o q)
         /\ Elements(<<j>> \o q) = Elements(q) \cup {j}
<1> DEFINE r == <<j>> \o q
<1>1. /\ r \in Seq(Job) /\ Len(r) = Len(q) + 1 /\ Len(q) \in Nat
      /\ DOMAIN r = 1..(Len(q) + 1) /\ DOMAIN q = 1..Len(q)
      /\ r[1] = j /\ \A n \in 2..(Len(q) + 1) : r[n] = q[n - 1]
  OBVIOUS
<1> HIDE DEF r
<1>2. Distinct(r)
  <2> SUFFICES ASSUME NEW m \in DOMAIN r, NEW n \in DOMAIN r, r[m] = r[n] PROVE m = n
    BY DEF Distinct
  <2>1. \A k \in DOMAIN r : k # 1 => k - 1 \in DOMAIN q /\ r[k] = q[k - 1]
    BY <1>1
  <2>2. \A k \in DOMAIN r : k # 1 => r[k] # j
    BY <2>1 DEF Elements
  <2>3. CASE m = 1 \/ n = 1
    BY <1>1, <2>2, <2>3
  <2>4. CASE m # 1 /\ n # 1
    <3>1. m - 1 \in DOMAIN q /\ n - 1 \in DOMAIN q /\ q[m - 1] = q[n - 1]
      BY <2>1, <2>4
    <3>2. m - 1 = n - 1
      BY <3>1 DEF Distinct
    <3> QED BY <1>1, <3>2
  <2> QED BY <2>3, <2>4
<1>3. \A n \in 1..Len(q) : n + 1 \in 2..(Len(q) + 1) /\ (n + 1) - 1 = n
  BY <1>1
<1>4. Elements(r) = Elements(q) \cup {j}
  <2>1. Elements(r) \subseteq Elements(q) \cup {j}
    BY <1>1 DEF Elements
  <2>2. j \in Elements(r)
    BY <1>1 DEF Elements
  <2>3. ASSUME NEW n \in DOMAIN q PROVE q[n] \in Elements(r)
    <3>1. n + 1 \in DOMAIN r /\ r[n + 1] = q[n]
      BY <1>1, <1>3
    <3> QED BY <3>1 DEF Elements
  <2> QED BY <2>1, <2>2, <2>3 DEF Elements
<1> QED BY <1>1, <1>2, <1>4 DEF r

LEMMA Taken ==
  ASSUME NEW q \in Seq(Job), q # <<>>, Distinct(q)
  PROVE  /\ Head(q) \in Job /\ Tail(q) \in Seq(Job) /\ Distinct(Tail(q))
         /\ Head(q) \in Elements(q) /\ Elements(Tail(q)) = Elements(q) \ {Head(q)}
<1> DEFINE r == Tail(q)
<1>1. /\ r \in Seq(Job) /\ Len(q) \in Nat \ {0} /\ Len(r) = Len(q) - 1
      /\ DOMAIN q = 1..Len(q) /\ DOMAIN r = 1..(Len(q) - 1)
      /\ Head(q) = q[1] /\ \A n \in 1..(Len(q) - 1) : r[n] = q[n + 1]
  OBVIOUS
<1> HIDE DEF r
<1>2. Distinct(r)
  <2> SUFFICES ASSUME NEW m \in DOMAIN r, NEW n \in DOMAIN r, r[m] = r[n] PROVE m = n
    BY DEF Distinct
  <2>1. m + 1 \in DOMAIN q /\ n + 1 \in DOMAIN q /\ q[m + 1] = q[n + 1]
    BY <1>1
  <2>2. m + 1 = n + 1
    BY <2>1 DEF Distinct
  <2> QED BY <1>1, <2>2
<1>3. Elements(r) \subseteq Elements(q) \ {Head(q)}
  BY <1>1 DEF Elements, Distinct
<1>4. ASSUME NEW n \in DOMAIN q, q[n] # Head(q) PROVE q[n] \in Elements(r)
  <2>1. n # 1 /\ n \in 1..Len(q)
    BY <1>1, <1>4
  <2>2. n - 1 \in 1..(Len(q) - 1) /\ (n - 1) + 1 = n
    BY <1>1, <2>1
  <2>3. n - 1 \in DOMAIN r /\ r[n - 1] = q[n]
    BY <1>1, <2>2
  <2> QED BY <2>3 DEF Elements
<1>5. Head(q) \in Job /\ Head(q) \in Elements(q)
  BY <1>1 DEF Elements
<1>6. Elements(r) = Elements(q) \ {Head(q)}
  BY <1>3, <1>4 DEF Elements
<1> QED BY <1>1, <1>2, <1>5, <1>6 DEF r

\* A list of different jobs is never longer than there are jobs, so none is dropped.
LEMMA AllKept ==
  ASSUME NEW q \in Seq(Job), Distinct(q), NEW n \in Nat, Cardinality(Job) <= n
  PROVE  LastOf(q, n) = q
<1>1. IsFiniteSet(Job)
  <2>1. IsFiniteSet(1..MaxCandle)
    BY CycleAssumption, FS_Interval
  <2> QED BY <2>1, CycleAssumption, FS_Product DEF Job
<1>2. Len(q) \in Nat /\ DOMAIN q = 1..Len(q) /\ q \in [1..Len(q) -> Job]
  OBVIOUS
<1>3. IsFiniteSet(1..Len(q)) /\ Cardinality(1..Len(q)) = Len(q)
  <2>1. 1 \in Int /\ Len(q) \in Int
    BY <1>2
  <2>2. /\ IsFiniteSet(1..Len(q))
        /\ Cardinality(1..Len(q)) = IF 1 > Len(q) THEN 0 ELSE Len(q) - 1 + 1
    BY <2>1, FS_Interval
  <2> QED BY <1>2, <2>2
<1>4. q \in Injection(1..Len(q), Job)
  BY <1>2 DEF Distinct, Injection, IsInjective
<1>5. Len(q) <= Cardinality(Job)
  BY <1>1, <1>3, <1>4, FS_Injection
<1>6. ~(Len(q) > n)
  BY <1>1, <1>2, <1>5, FS_CardinalityType
<1>7. LastOf(q, n) = SubSeq(q, 1, Len(q))
  BY <1>6 DEF LastOf
<1> QED BY <1>7

\* The queue's lists and the worker, and who is where.
OnceTypes ==
  /\ queue \in Seq(Job) /\ completed \in Seq(Job) /\ failed \in Seq(Job)
  /\ job \in Job \cup {NoJob} /\ (job = NoJob <=> pc = "idle")
  /\ closes \in [Symbol -> 0..MaxCandle]
  /\ entries \in [Job -> Nat] /\ stalled \subseteq Job

\* A job is in one place and there once.
OnePlace ==
  /\ Distinct(queue) /\ Distinct(completed) /\ Distinct(failed)
  /\ Elements(queue) \cap Elements(completed) = {}
  /\ Elements(queue) \cap Elements(failed) = {}
  /\ Elements(completed) \cap Elements(failed) = {}
  /\ job \notin Elements(queue) \cup Elements(completed) \cup Elements(failed)

\* What a job may have entered: nothing before the queue knows it; once for each
\* time it was interrupted while it waits or runs; once more when it has ended.
Allowed(j) == IF j \in stalled THEN 1 ELSE 0
Counted ==
  \A j \in Job : /\ entries[j] <= Allowed(j) + 1
                 /\ j \in Elements(queue) \cup {job} => entries[j] <= Allowed(j)
                 /\ ~Known(j) => entries[j] = 0

OnceInv == OnceTypes /\ OnePlace /\ Counted

\* The queue remembers as many jobs as there are.
Remembers == Cardinality(Job) <= Kept /\ Cardinality(Job) <= KeptFailed

LEMMA OneMore ==
  ASSUME NEW f \in [Job -> Nat], NEW j
  PROVE  [f EXCEPT ![j] = @ + 1] \in [Job -> Nat]
<1>1. \A n \in Nat : n + 1 \in Nat
  OBVIOUS
<1> QED BY <1>1

LEMMA NoJobIsNone == NoJob \notin Job
  BY CycleAssumption DEF Job

\* A job that has ended is in one of the lists, and nothing else has moved.
LEMMA Finished ==
  ASSUME Remembers, OnceTypes, OnePlace, NEW j \in Job,
         j \notin Elements(completed) \cup Elements(failed)
  PROVE  /\ LET c == LastOf(Append(completed, j), Kept)
            IN c \in Seq(Job) /\ Distinct(c) /\ Elements(c) = Elements(completed) \cup {j}
         /\ LET f == LastOf(Append(failed, j), KeptFailed)
            IN f \in Seq(Job) /\ Distinct(f) /\ Elements(f) = Elements(failed) \cup {j}
<1>1. /\ Append(completed, j) \in Seq(Job) /\ Distinct(Append(completed, j))
      /\ Elements(Append(completed, j)) = Elements(completed) \cup {j}
  BY Appended DEF OnceTypes, OnePlace
<1>2. /\ Append(failed, j) \in Seq(Job) /\ Distinct(Append(failed, j))
      /\ Elements(Append(failed, j)) = Elements(failed) \cup {j}
  BY Appended DEF OnceTypes, OnePlace
<1>3. LastOf(Append(completed, j), Kept) = Append(completed, j)
  BY <1>1, AllKept, CycleAssumption DEF Remembers
<1>4. LastOf(Append(failed, j), KeptFailed) = Append(failed, j)
  BY <1>2, AllKept, CycleAssumption DEF Remembers
<1> QED BY <1>1, <1>2, <1>3, <1>4

\* The worker ends its job, with one more entry or none.
LEMMA Ended ==
  ASSUME Remembers, OnceInv, job \in Job, Done \/ Throws,
         UNCHANGED <<closes, queue, stalled>>,
         entries' = entries \/ entries' = [entries EXCEPT ![job] = @ + 1]
  PROVE  OnceInv'
<1> USE DEF OnceInv
<1>1. /\ completed' \in Seq(Job) /\ Distinct(completed')
      /\ failed' \in Seq(Job) /\ Distinct(failed')
      /\ \/ /\ Elements(completed') = Elements(completed) \cup {job}
            /\ Elements(failed') = Elements(failed)
         \/ /\ Elements(completed') = Elements(completed)
            /\ Elements(failed') = Elements(failed) \cup {job}
  <2>1. CASE Done
    BY <2>1, Finished DEF Done, OnceTypes, OnePlace
  <2>2. CASE Throws
    BY <2>2, Finished DEF Throws, OnceTypes, OnePlace
  <2> QED BY <2>1, <2>2
<1>2. job' = NoJob /\ pc' = "idle"
  BY DEF Done, Throws
<1>3. OnceTypes'
  <2>1. entries' \in [Job -> Nat]
    <3>1. entries \in [Job -> Nat]
      BY DEF OnceTypes
    <3>2. [entries EXCEPT ![job] = @ + 1] \in [Job -> Nat]
      BY <3>1, OneMore
    <3> QED BY <3>1, <3>2
  <2> QED BY <1>1, <1>2, <2>1 DEF OnceTypes
<1>4. OnePlace'
  <2>1. job' \notin Job /\ Elements(queue') \cup Elements(completed') \cup Elements(failed') \subseteq Job
    BY <1>2, <1>3, NoJobIsNone DEF OnceTypes, Elements
  <2>2. /\ Elements(queue') = Elements(queue) /\ Distinct(queue')
        /\ job \notin Elements(queue)
    BY DEF OnePlace
  <2> QED BY <1>1, <2>1, <2>2 DEF OnePlace
<1>5. Counted'
  <2> SUFFICES ASSUME NEW j \in Job
               PROVE  /\ entries'[j] <= Allowed(j) + 1
                      /\ j \in Elements(queue) => entries'[j] <= Allowed(j)
                      /\ ~Known(j)' => entries'[j] = 0
    BY <1>2, NoJobIsNone DEF Counted, Allowed
  <2>1. CASE j = job
    <3>1. Known(j)' /\ job \notin Elements(queue)
      BY <1>1, <2>1 DEF Known, OnePlace
    <3>2. entries[j] <= Allowed(j) /\ entries[j] \in Nat /\ Allowed(j) \in Nat
      BY <2>1 DEF Counted, OnceTypes, Allowed
    <3>3. entries'[j] \in {entries[j], entries[j] + 1}
      BY <2>1 DEF OnceTypes
    <3> QED BY <2>1, <3>1, <3>2, <3>3
  <2>2. CASE j # job
    <3>1. entries'[j] = entries[j]
      BY <2>2 DEF OnceTypes
    <3>2. Known(j) => Known(j)'
      BY <1>1, <2>2 DEF Known
    <3> QED BY <3>1, <3>2 DEF Counted
  <2> QED BY <2>1, <2>2
<1> QED BY <1>3, <1>4, <1>5

\* Nothing of the queue or the worker's job moves.
LEMMA OnceKept ==
  ASSUME OnceInv, UNCHANGED <<queue, completed, failed, job, entries, stalled>>,
         closes' \in [Symbol -> 0..MaxCandle], pc' = pc \/ (pc # "idle" /\ pc' # "idle")
  PROVE  OnceInv'
<1>1. OnceTypes' /\ OnePlace'
  BY DEF OnceInv, OnceTypes, OnePlace
<1>2. Counted'
  BY DEF OnceInv, Counted, Allowed, Known
<1> QED BY <1>1, <1>2 DEF OnceInv

\* A candle, delivered for the first time or again.
LEMMA OnceEnqueued ==
  ASSUME OnceInv, NEW j \in Job, Enqueue(j), closes' \in [Symbol -> 0..MaxCandle],
         UNCHANGED <<completed, failed, job, pc, entries, stalled>>
  PROVE  OnceInv'
<1>1. CASE queue' = queue
  BY <1>1, OnceKept
<1>2. CASE queue' = Append(queue, j) /\ ~Known(j)
  <2>1. j \notin Elements(queue) \cup Elements(completed) \cup Elements(failed) \cup {job}
    BY <1>2 DEF Known
  <2>2. /\ queue' \in Seq(Job) /\ Distinct(queue')
        /\ Elements(queue') = Elements(queue) \cup {j}
    BY <1>2, <2>1, Appended DEF OnceInv, OnceTypes, OnePlace
  <2>3. OnceTypes'
    BY <2>2 DEF OnceInv, OnceTypes
  <2>4. OnePlace'
    BY <2>1, <2>2 DEF OnceInv, OnePlace
  <2>5. Counted'
    <3> SUFFICES ASSUME NEW k \in Job
                 PROVE  /\ entries[k] <= Allowed(k) + 1
                        /\ k \in Elements(queue') \cup {job} => entries[k] <= Allowed(k)
                        /\ ~Known(k)' => entries[k] = 0
      BY DEF Counted, Allowed
    <3>1. entries[j] = 0 /\ Allowed(j) \in Nat
      BY <1>2 DEF OnceInv, Counted, Allowed
    <3>2. Known(k) => Known(k)'
      BY <2>2 DEF Known
    <3> QED BY <2>2, <3>1, <3>2 DEF OnceInv, Counted
  <2> QED BY <2>3, <2>4, <2>5 DEF OnceInv
<1> QED BY <1>1, <1>2 DEF Enqueue

LEMMA OnceTaken == Remembers /\ OnceInv /\ Take => OnceInv'
<1> SUFFICES ASSUME Remembers, OnceInv, Take PROVE OnceInv'
  OBVIOUS
<1> DEFINE j == Head(queue)
<1>1. /\ job = NoJob /\ queue # <<>> /\ queue' = Tail(queue) /\ closes' = closes
      /\ UNCHANGED <<failed, entries, stalled>>
  BY DEF Take
<1>2. /\ j \in Job /\ queue' \in Seq(Job) /\ Distinct(queue')
      /\ j \in Elements(queue) /\ Elements(queue') = Elements(queue) \ {j}
  BY <1>1, Taken DEF OnceInv, OnceTypes, OnePlace
<1>3. j \notin Elements(completed) \cup Elements(failed) /\ j # NoJob
  BY <1>2, NoJobIsNone DEF OnceInv, OnePlace
<1>4. CASE job' = j /\ pc' = "generate" /\ completed' = completed
  <2>1. OnceTypes'
    BY <1>1, <1>2, <1>3, <1>4 DEF OnceInv, OnceTypes
  <2>2. OnePlace'
    BY <1>1, <1>2, <1>3, <1>4 DEF OnceInv, OnePlace
  <2>3. \A k \in Job : (Known(k)' <=> Known(k)) /\ Allowed(k)' = Allowed(k)
    BY <1>1, <1>2, <1>4, NoJobIsNone DEF Known, Allowed
  <2>4. Elements(queue') \cup {job'} \subseteq Elements(queue)
    BY <1>2, <1>4
  <2>5. Counted'
    BY <1>1, <2>3, <2>4 DEF OnceInv, Counted
  <2> QED BY <2>1, <2>2, <2>5 DEF OnceInv
<1>5. CASE completed' = LastOf(Append(completed, j), Kept) /\ UNCHANGED <<job, pc>>
  <2>1. /\ completed' \in Seq(Job) /\ Distinct(completed')
        /\ Elements(completed') = Elements(completed) \cup {j}
    BY <1>2, <1>3, <1>5, Finished DEF OnceInv
  <2>2. OnceTypes'
    BY <1>1, <1>2, <1>5, <2>1 DEF OnceInv, OnceTypes
  <2>3. OnePlace'
    BY <1>1, <1>2, <1>3, <1>5, <2>1 DEF OnceInv, OnePlace
  <2>4. \A k \in Job : (Known(k)' <=> Known(k)) /\ Allowed(k)' = Allowed(k)
    BY <1>1, <1>2, <1>5, <2>1 DEF Known, Allowed
  <2>5. Elements(queue') \cup {job'} \subseteq Elements(queue) \cup {job}
    BY <1>2, <1>5
  <2>6. Counted'
    BY <1>1, <2>4, <2>5 DEF OnceInv, Counted
  <2> QED BY <2>2, <2>3, <2>6 DEF OnceInv
<1> QED BY <1>4, <1>5 DEF Take

\* A crash in the middle of a job: it waits again, or has failed for good.
LEMMA OnceCrashed == Remembers /\ OnceInv /\ Crash => OnceInv'
<1> SUFFICES ASSUME Remembers, OnceInv, Crash PROVE OnceInv'
  OBVIOUS
<1>1. /\ job' = NoJob /\ pc' = "idle" /\ UNCHANGED <<closes, completed>>
      /\ \/ entries' = entries
         \/ pc = "execute" /\ entries' = [entries EXCEPT ![job] = @ + 1]
  BY DEF Crash, Entered
<1>2. CASE job = NoJob
  <2>1. UNCHANGED <<queue, failed, stalled, job, pc, entries>>
    BY <1>1, <1>2 DEF Crash, OnceInv, OnceTypes
  <2> QED BY <1>1, <2>1, OnceKept DEF OnceInv, OnceTypes
<1>3. CASE job # NoJob /\ job \in stalled
  <2>1. Throws /\ UNCHANGED <<closes, queue, stalled>> /\ job \in Job
    BY <1>1, <1>3 DEF Crash, Throws, OnceInv, OnceTypes
  <2> QED BY <1>1, <2>1, Ended
<1>4. CASE job # NoJob /\ job \notin stalled
  <2>1. /\ queue' = <<job>> \o queue /\ stalled' = stalled \cup {job} /\ failed' = failed
        /\ job \in Job
    BY <1>4 DEF Crash, OnceInv, OnceTypes
  <2>2. /\ queue' \in Seq(Job) /\ Distinct(queue')
        /\ Elements(queue') = Elements(queue) \cup {job}
    BY <2>1, Prepended DEF OnceInv, OnceTypes, OnePlace
  <2>3. OnceTypes'
    <3>1. entries' \in [Job -> Nat]
      <4>1. entries \in [Job -> Nat]
        BY DEF OnceInv, OnceTypes
      <4>2. [entries EXCEPT ![job] = @ + 1] \in [Job -> Nat]
        BY <4>1, OneMore
      <4> QED BY <1>1, <4>1, <4>2
    <3> QED BY <1>1, <2>1, <2>2, <3>1 DEF OnceInv, OnceTypes
  <2>4. OnePlace'
    <3>1. NoJob \notin Elements(queue') \cup Elements(completed) \cup Elements(failed)
      BY <2>3, NoJobIsNone, <1>1, <2>1 DEF OnceTypes, Elements
    <3> QED BY <1>1, <2>1, <2>2, <3>1 DEF OnceInv, OnePlace
  <2>5. Counted'
    <3> SUFFICES ASSUME NEW k \in Job
                 PROVE  /\ entries'[k] <= Allowed(k)' + 1
                        /\ k \in Elements(queue') => entries'[k] <= Allowed(k)'
                        /\ ~Known(k)' => entries'[k] = 0
      BY <1>1, NoJobIsNone DEF Counted
    <3>1. CASE k = job
      <4>1. Allowed(k) = 0 /\ Allowed(k)' = 1 /\ Known(k)'
        BY <1>4, <2>1, <2>2, <3>1 DEF Allowed, Known
      <4>2. entries[k] <= 0 /\ entries[k] \in Nat
        BY <3>1, <4>1 DEF OnceInv, Counted, OnceTypes
      <4>3. entries'[k] \in {entries[k], entries[k] + 1}
        BY <1>1, <3>1 DEF OnceInv, OnceTypes
      <4> QED BY <4>1, <4>2, <4>3
    <3>2. CASE k # job
      <4>1. entries'[k] = entries[k] /\ Allowed(k)' = Allowed(k)
        BY <1>1, <2>1, <3>2 DEF OnceInv, OnceTypes, Allowed
      <4>2. Known(k) => Known(k)'
        BY <1>1, <2>1, <2>2, <3>2 DEF Known
      <4>3. k \in Elements(queue') => k \in Elements(queue)
        BY <2>2, <3>2
      <4> QED BY <4>1, <4>2, <4>3 DEF OnceInv, Counted
    <3> QED BY <3>1, <3>2
  <2> QED BY <2>3, <2>4, <2>5 DEF OnceInv
<1> QED BY <1>2, <1>3, <1>4

LEMMA OnceStep == Remembers /\ OnceInv /\ [Next]_vars => OnceInv'
<1> SUFFICES ASSUME Remembers, OnceInv, [Next]_vars PROVE OnceInv'
  OBVIOUS
<1>1. closes \in [Symbol -> 0..MaxCandle]
  BY DEF OnceInv, OnceTypes
<1>2. ASSUME Start \/ UNCHANGED vars PROVE OnceInv'
  BY <1>1, <1>2, OnceKept DEF Start, vars, jobs, worker
<1>3. ASSUME Stop PROVE OnceInv'
  BY <1>1, <1>3, OnceKept DEF Stop, jobs
<1>4. ASSUME NEW s \in Symbol, CandleClose(s) PROVE OnceInv'
  <2>1. closes[s] + 1 \in 1..MaxCandle
    BY <1>1, <1>4, CycleAssumption DEF CandleClose
  <2>2. closes' \in [Symbol -> 0..MaxCandle]
    BY <1>1, <1>4, <2>1 DEF CandleClose
  <2>3. <<s, closes[s] + 1>> \in Job
    BY <2>1 DEF Job
  <2> QED BY <1>4, <2>2, <2>3, OnceEnqueued DEF CandleClose, worker
<1>5. ASSUME NEW s \in Symbol, CandleAgain(s) PROVE OnceInv'
  <2>1. closes[s] \in 1..MaxCandle
    BY <1>1, <1>5, CycleAssumption DEF CandleAgain
  <2>2. <<s, closes[s]>> \in Job
    BY <2>1 DEF Job
  <2> QED BY <1>1, <1>5, <2>2, OnceEnqueued DEF CandleAgain, worker
<1>6. ASSUME Take PROVE OnceInv'
  BY <1>6, OnceTaken
<1>7. ASSUME Generate \/ Risk PROVE OnceInv'
  <2>1. /\ pc # "idle" /\ UNCHANGED <<closes, queue, stalled, entries>>
        /\ Done \/ Throws \/ (pc' # "idle" /\ UNCHANGED <<job, completed, failed>>)
    BY <1>7 DEF Generate, Risk, NothingElse, Goto
  <2>2. job \in Job
    BY <2>1 DEF OnceInv, OnceTypes
  <2> QED BY <1>1, <2>1, <2>2, Ended, OnceKept
<1>8. ASSUME Execute PROVE OnceInv'
  <2>1. /\ pc # "idle" /\ UNCHANGED <<closes, queue, stalled>> /\ (Done \/ Throws)
        /\ entries' = entries \/ entries' = [entries EXCEPT ![job] = @ + 1]
    BY <1>8 DEF Execute, Entered
  <2>2. job \in Job
    BY <2>1 DEF OnceInv, OnceTypes
  <2> QED BY <2>1, <2>2, Ended
<1>9. ASSUME Crash PROVE OnceInv'
  BY <1>9, OnceCrashed
<1> QED BY <1>2, <1>3, <1>4, <1>5, <1>6, <1>7, <1>8, <1>9 DEF Next

LEMMA OnceInit == Init => OnceInv
<1> SUFFICES ASSUME Init PROVE OnceInv
  OBVIOUS
<1>1. queue = <<>> /\ completed = <<>> /\ failed = <<>> /\ job = NoJob /\ pc = "idle"
  BY DEF Init
<1>2. entries = [j \in Job |-> 0] /\ stalled = {} /\ closes = [s \in Symbol |-> 0]
  BY DEF Init
<1>3. Elements(<<>>) = {} /\ Distinct(<<>>) /\ <<>> \in Seq(Job)
  BY DEF Elements, Distinct
<1>4. OnceTypes
  BY <1>1, <1>2, <1>3, CycleAssumption DEF OnceTypes
<1>5. OnePlace
  BY <1>1, <1>3 DEF OnePlace
<1>6. Counted
  BY <1>1, <1>2, <1>3 DEF Counted, Allowed
<1> QED BY <1>4, <1>5, <1>6 DEF OnceInv

\* One entry per candle, and one more if a crash interrupted its job, for any number
\* of symbols, candles, repetitions, switches and crashes: as long as the queue
\* remembers every job.
THEOREM EntriesCounted ==
  ASSUME Remembers
  PROVE  Spec => []OneEntryPerCandle
<1>1. OnceInv => OneEntryPerCandle
  <2> SUFFICES ASSUME OnceInv, NEW j \in Job
               PROVE  entries[j] <= IF j \in stalled THEN 2 ELSE 1
    BY DEF OneEntryPerCandle
  <2> QED BY DEF OnceInv, Counted, Allowed
<1>2. OnceInv /\ [Next]_vars => OnceInv'
  BY OnceStep
<1> QED
  BY <1>1, <1>2, OnceInit, PTL DEF Spec
-----------------------------------------------------------------------------
(* Types, also when the queue forgets.                                     *)

LEMMA LastOfJobs ==
  ASSUME NEW q \in Seq(Job), NEW n \in Nat
  PROVE  LastOf(q, n) \in Seq(Job)
<1>1. Len(q) \in Nat /\ DOMAIN q = 1..Len(q) /\ \A i \in 1..Len(q) : q[i] \in Job
  OBVIOUS
<1>2. ASSUME NEW m \in 1..(Len(q) + 1) PROVE SubSeq(q, m, Len(q)) \in Seq(Job)
  BY <1>1
<1>3. (IF Len(q) > n THEN Len(q) - n + 1 ELSE 1) \in 1..(Len(q) + 1)
  BY <1>1
<1> QED BY <1>2, <1>3 DEF LastOf

\* The worker has ended its job.
LEMMA EndedJobs ==
  ASSUME TypeOK, NEW j \in Job
  PROVE  /\ LastOf(Append(completed, j), Kept) \in Seq(Job)
         /\ LastOf(Append(failed, j), KeptFailed) \in Seq(Job)
<1>1. Append(completed, j) \in Seq(Job) /\ Append(failed, j) \in Seq(Job)
  BY DEF TypeOK
<1> QED BY <1>1, LastOfJobs, CycleAssumption

LEMMA WorkerEnds ==
  ASSUME TypeOK, job \in Job, Done \/ Throws
  PROVE  /\ completed' \in Seq(Job) /\ failed' \in Seq(Job)
         /\ job' = NoJob /\ pc' = "idle"
  BY EndedJobs DEF Done, Throws, TypeOK

LEMMA EntryTypes ==
  ASSUME TypeOK, job \in Job, Entered
  PROVE  entries' \in [Job -> Nat] /\ late' \in Nat
<1>1. entries' \in [Job -> Nat]
  BY OneMore DEF Entered, TypeOK
<1>2. late' \in Nat
  BY DEF Entered, TypeOK
<1> QED BY <1>1, <1>2 DEF Entered, TypeOK

LEMMA EnqueueTypes ==
  ASSUME TypeOK, NEW j \in Job, Enqueue(j)
  PROVE  queue' \in Seq(Job)
<1>1. queue \in Seq(Job) /\ Append(queue, j) \in Seq(Job)
  BY DEF TypeOK
<1>2. queue' \in {queue, Append(queue, j)}
  BY DEF Enqueue
<1> QED BY <1>1, <1>2

LEMMA TakeTypes == TypeOK /\ Take => TypeOK'
<1> SUFFICES ASSUME TypeOK, Take PROVE TypeOK'
  OBVIOUS
<1>1. Head(queue) \in Job /\ Tail(queue) \in Seq(Job)
  BY DEF Take, TypeOK
<1>2. LastOf(Append(completed, Head(queue)), Kept) \in Seq(Job)
  BY <1>1, EndedJobs
<1>3. job' \in Job \cup {NoJob} /\ (job' = NoJob <=> pc' = "idle")
      /\ pc' \in {"idle", "generate", "risk", "execute"}
  BY <1>1, NoJobIsNone DEF Take, TypeOK
<1>4. queue' \in Seq(Job) /\ completed' \in Seq(Job) /\ failed' \in Seq(Job)
  BY <1>1, <1>2 DEF Take, TypeOK
<1> QED BY <1>3, <1>4 DEF Take, TypeOK, bot

\* A step of the worker within its job.
LEMMA WorkerTypes == TypeOK /\ (Generate \/ Risk \/ Execute) => TypeOK'
<1> SUFFICES ASSUME TypeOK, Generate \/ Risk \/ Execute PROVE TypeOK'
  OBVIOUS
<1>1. job \in Job
  BY DEF TypeOK, Generate, Risk, Execute
<1>2. \/ Done \/ Throws
      \/ pc' \in {"risk", "execute"} /\ UNCHANGED <<job, completed, failed>>
  BY DEF Generate, Risk, Execute, Goto
<1>3. /\ completed' \in Seq(Job) /\ failed' \in Seq(Job)
      /\ job' \in Job \cup {NoJob} /\ (job' = NoJob <=> pc' = "idle")
      /\ pc' \in {"idle", "generate", "risk", "execute"}
  BY <1>1, <1>2, WorkerEnds, NoJobIsNone DEF TypeOK
<1>4. Entered \/ UNCHANGED <<entries, late>>
  BY DEF Generate, Risk, Execute, NothingElse
<1>5. entries' \in [Job -> Nat] /\ late' \in Nat
  BY <1>1, <1>4, EntryTypes DEF TypeOK
<1>6. signal' \in {"none", "PENDING", "REJECTED", "APPROVED", "SHADOW_EXECUTED", "EXECUTED"}
  BY DEF Generate, Risk, Execute, TypeOK
<1>7. UNCHANGED <<bot, closes, queue, stalled, crashes>>
  BY DEF Generate, Risk, Execute, NothingElse
<1> QED BY <1>3, <1>5, <1>6, <1>7 DEF TypeOK, bot

LEMMA CrashTypes == TypeOK /\ Crash => TypeOK'
<1> SUFFICES ASSUME TypeOK, Crash PROVE TypeOK'
  OBVIOUS
<1>1. /\ queue' \in Seq(Job) /\ failed' \in Seq(Job) /\ stalled' \subseteq Job
  <2>1. CASE job = NoJob
    BY <2>1 DEF Crash, TypeOK
  <2>2. CASE job # NoJob
    <3>1. job \in Job
      BY <2>2 DEF TypeOK
    <3>2. <<job>> \o queue \in Seq(Job)
      BY <3>1 DEF TypeOK
    <3> QED BY <2>2, <3>1, <3>2, EndedJobs DEF Crash, TypeOK
  <2> QED BY <2>1, <2>2
<1>2. entries' \in [Job -> Nat] /\ late' \in Nat
  <2>1. pc = "execute" => job \in Job
    BY DEF TypeOK
  <2> QED BY <2>1, EntryTypes DEF Crash, TypeOK
<1>3. crashes' \in 0..MaxCrashes
  BY CycleAssumption DEF Crash, TypeOK
<1> QED BY <1>1, <1>2, <1>3 DEF Crash, TypeOK

LEMMA TypeStep == TypeOK /\ [Next]_vars => TypeOK'
<1> SUFFICES ASSUME TypeOK, [Next]_vars PROVE TypeOK'
  OBVIOUS
<1>1. CASE Start
  <2>1. /\ enabled' = TRUE /\ symbols' \subseteq Symbol /\ switches' \in 0..MaxSwitches
        /\ UNCHANGED shadow
    BY <1>1, CycleAssumption DEF Start, TypeOK
  <2> QED BY <1>1, <2>1 DEF Start, TypeOK, jobs, worker
<1>2. CASE Stop
  BY <1>2 DEF Stop, TypeOK, jobs
<1>3. ASSUME NEW s \in Symbol, CandleClose(s) \/ CandleAgain(s) PROVE TypeOK'
  <2>1. closes[s] \in 0..MaxCandle /\ closes \in [Symbol -> 0..MaxCandle]
    BY DEF TypeOK
  <2>2. closes' \in [Symbol -> 0..MaxCandle] /\ \E j \in Job : Enqueue(j)
    <3>1. CASE CandleClose(s)
      <4>1. closes[s] + 1 \in 1..MaxCandle /\ closes[s] + 1 \in 0..MaxCandle
        BY <2>1, <3>1, CycleAssumption DEF CandleClose
      <4>2. <<s, closes[s] + 1>> \in Job
        BY <4>1 DEF Job
      <4> QED BY <2>1, <3>1, <4>1, <4>2 DEF CandleClose
    <3>2. CASE CandleAgain(s)
      <4>1. closes[s] \in 1..MaxCandle
        BY <2>1, <3>2, CycleAssumption DEF CandleAgain
      <4>2. <<s, closes[s]>> \in Job
        BY <4>1 DEF Job
      <4> QED BY <2>1, <3>2, <4>2 DEF CandleAgain
    <3> QED BY <1>3, <3>1, <3>2
  <2>3. queue' \in Seq(Job)
    BY <2>2, EnqueueTypes
  <2>4. UNCHANGED <<bot, completed, failed, worker, stalled, crashes>>
    BY <1>3 DEF CandleClose, CandleAgain
  <2> QED BY <2>2, <2>3, <2>4 DEF TypeOK, bot, worker
<1>4. CASE UNCHANGED vars
  BY <1>4 DEF TypeOK, vars, bot, jobs, worker
<1> QED BY <1>1, <1>2, <1>3, <1>4, TakeTypes, WorkerTypes, CrashTypes DEF Next

\* Whatever is queued, taken, dropped or handed out again, the queue's lists hold
\* jobs, and the worker has a job exactly while process() runs.
THEOREM TypeCorrect == Spec => []TypeOK
<1>1. Init => TypeOK
  <2> SUFFICES ASSUME Init PROVE TypeOK
    OBVIOUS
  <2>1. closes \in [Symbol -> 0..MaxCandle] /\ switches \in 0..MaxSwitches
        /\ crashes \in 0..MaxCrashes
    BY CycleAssumption DEF Init
  <2>2. queue \in Seq(Job) /\ completed \in Seq(Job) /\ failed \in Seq(Job)
        /\ entries \in [Job -> Nat]
    BY DEF Init
  <2> QED BY <2>1, <2>2 DEF Init, TypeOK
<1>2. QED
  BY <1>1, TypeStep, PTL DEF Spec
=============================================================================
