---------------------------- MODULE WorkProofs ----------------------------
(***************************************************************************)
(* Proofs about the work that goes on behind the requests: the worker pool *)
(* keeps its jobs, a batch accounts for its items, the operators end where *)
(* the manifests point, and secrets come from their source.                *)
(***************************************************************************)
EXTENDS MCBackground, SequenceTheorems, NaturalsInduction, FiniteSetTheorems,
        TLAPS

-----------------------------------------------------------------------------
(* Sequences without doubles, and the order of the queue of core/batch/job_queue.py. *)

JobTables == [Jobs -> [status : Statuses, prio : Priorities, attempts : Nat]]

LEMMA RemoveAtProperties ==
    ASSUME NEW S, NEW s \in Seq(S), NEW i \in 1..Len(s)
    PROVE  /\ RemoveAt(s, i) \in Seq(S)
           /\ Len(RemoveAt(s, i)) = Len(s) - 1
           /\ \A k \in 1..(Len(s) - 1) : RemoveAt(s, i)[k] = IF k < i THEN s[k] ELSE s[k + 1]
<1> DEFINE a == SubSeq(s, 1, i - 1)
           b == SubSeq(s, i + 1, Len(s))
<1>0. Len(s) \in Nat /\ i \in Nat
  OBVIOUS
<1>1. /\ a \in Seq(S) /\ Len(a) = i - 1
      /\ \A k \in 1..(i - 1) : a[k] = s[k]
  BY SubSeqProperties
<1>2. /\ b \in Seq(S) /\ Len(b) = Len(s) - i
      /\ \A k \in 1..(Len(s) - i) : b[k] = s[k + i]
  BY SubSeqProperties
<1>3. RemoveAt(s, i) = a \o b
  BY DEF RemoveAt
<1> HIDE DEF a, b
<1>4. /\ a \o b \in Seq(S) /\ Len(a \o b) = Len(a) + Len(b)
      /\ \A k \in 1..(Len(a) + Len(b)) : (a \o b)[k] = IF k <= Len(a) THEN a[k] ELSE b[k - Len(a)]
  BY <1>1, <1>2, ConcatProperties
<1>5. ASSUME NEW k \in 1..(Len(s) - 1)
      PROVE  (a \o b)[k] = IF k < i THEN s[k] ELSE s[k + 1]
  <2>1. CASE k < i
    BY <1>0, <1>1, <1>2, <1>4, <2>1
  <2>2. CASE ~(k < i)
    <3>1. k - (i - 1) \in 1..(Len(s) - i) /\ (k - (i - 1)) + i = k + 1
      BY <1>0, <2>2
    <3>2. b[k - (i - 1)] = s[k + 1]
      BY <1>2, <3>1
    <3>3. (a \o b)[k] = b[k - (i - 1)]
      BY <1>0, <1>1, <1>2, <1>4, <2>2
    <3> QED BY <2>2, <3>2, <3>3
  <2> QED BY <2>1, <2>2
<1> QED BY <1>0, <1>1, <1>2, <1>3, <1>4, <1>5

\* No element occurs twice.
Distinct(s) == \A k, m \in 1..Len(s) : k # m => s[k] # s[m]

\* What leaves a sequence without doubles is no longer in it, and the rest is.
LEMMA RemoveAtDistinct ==
    ASSUME NEW S, NEW s \in Seq(S), NEW i \in 1..Len(s), Distinct(s)
    PROVE  /\ RemoveAt(s, i) \in Seq(S)
           /\ Distinct(RemoveAt(s, i))
           /\ Range(RemoveAt(s, i)) = Range(s) \ {s[i]}
<1> DEFINE r == RemoveAt(s, i)
<1>1. /\ r \in Seq(S) /\ Len(r) = Len(s) - 1
      /\ \A k \in 1..(Len(s) - 1) : r[k] = IF k < i THEN s[k] ELSE s[k + 1]
  BY RemoveAtProperties
<1> HIDE DEF r
<1>2. ASSUME NEW m \in 1..Len(s), m # i PROVE \E k \in 1..Len(r) : r[k] = s[m]
  <2>1. CASE m < i
    BY <1>1, <2>1
  <2>2. CASE m > i
    <3>1. m - 1 \in 1..Len(r) /\ (m - 1) + 1 = m /\ ~(m - 1 < i)
      BY <1>1, <2>2
    <3>2. r[m - 1] = s[(m - 1) + 1]
      BY <1>1, <3>1
    <3> QED BY <3>1, <3>2
  <2> QED BY <1>2, <2>1, <2>2
<1>0. i \in 1..Len(s) /\ Len(s) \in Nat /\ Len(r) = Len(s) - 1
  BY <1>1
<1>3. ASSUME NEW k \in 1..Len(r) PROVE r[k] # s[i] /\ \E m \in 1..Len(s) : r[k] = s[m]
  <2>1. CASE k < i
    BY <1>0, <1>1, <2>1 DEF Distinct
  <2>2. CASE ~(k < i)
    <3>1. k + 1 \in 1..Len(s) /\ k + 1 # i /\ r[k] = s[k + 1]
      BY <1>0, <1>1, <2>2
    <3> QED BY <1>0, <3>1 DEF Distinct
  <2> QED BY <2>1, <2>2
<1>4. Range(r) = Range(s) \ {s[i]}
  <2>1. /\ Range(r) = {r[k] : k \in 1..Len(r)}
        /\ Range(s) = {s[k] : k \in 1..Len(s)}
    BY <1>1, RangeEquality
  <2>2. ASSUME NEW e \in Range(r) PROVE e \in Range(s) \ {s[i]}
    BY <1>3, <2>1
  <2>3. ASSUME NEW e \in Range(s) \ {s[i]} PROVE e \in Range(r)
    BY <1>2, <2>1
  <2> QED BY <2>2, <2>3
<1>5. Distinct(r)
  <2> DEFINE from(k) == IF k < i THEN k ELSE k + 1
  <2>1. \A k \in 1..Len(r) : from(k) \in 1..Len(s) /\ r[k] = s[from(k)]
    BY <1>0, <1>1
  <2>2. \A k, m \in 1..Len(r) : k # m => from(k) # from(m)
    BY <1>0
  <2> HIDE DEF from
  <2> QED BY <2>1, <2>2 DEF Distinct
<1> QED BY <1>1, <1>4, <1>5 DEF r

\* What is put at the end of a sequence in which it is not.
LEMMA AppendDistinct ==
    ASSUME NEW S, NEW s \in Seq(S), NEW e \in S, Distinct(s)
    PROVE  /\ Append(s, e) \in Seq(S)
           /\ Range(Append(s, e)) = Range(s) \cup {e}
           /\ e \notin Range(s) => Distinct(Append(s, e))
<1>1. /\ Append(s, e) \in Seq(S) /\ Len(Append(s, e)) = Len(s) + 1
      /\ \A k \in 1..Len(s) : Append(s, e)[k] = s[k]
      /\ Append(s, e)[Len(s) + 1] = e
  BY AppendProperties
<1> QED BY <1>1 DEF Range, Distinct

\* A set of natural numbers that is not empty has a least element.
LEMMA LeastOf ==
    ASSUME NEW T, T \subseteq Nat, T # {}
    PROVE  \E i \in T : \A k \in T : i <= k
<1>1. PICK i \in T : \A k \in T : ~(<<k, i>> \in OpToRel(<, Nat))
  BY WFMin, NatLessThanWellFounded
<1>2. \A k \in T : k < i => <<k, i>> \in OpToRel(<, Nat)
  BY DEF OpToRel
<1>3. \A k \in T : ~(k < i)
  BY <1>1, <1>2
<1> QED BY <1>3

\* The order of the queue is total: it has a first entry.
LEMMA BestExists ==
    ASSUME NEW jobs \in JobTables, NEW q \in Seq(Jobs), q # <<>>
    PROVE  /\ best(jobs, q) \in 1..Len(q)
           /\ \A k \in 1..Len(q) : before(jobs, q, best(jobs, q), k)
<1> DEFINE Of(p) == {i \in 1..Len(q) : jobs[q[i]].prio = p}
<1>1. /\ \A i \in 1..Len(q) : jobs[q[i]].prio \in 0..2
      /\ 1 \in 1..Len(q)
  BY DEF JobTables, Priorities
<1>2. ASSUME NEW p \in 0..2, Of(p) # {}, \A i \in 1..Len(q) : jobs[q[i]].prio >= p
      PROVE  \E i \in 1..Len(q) : \A k \in 1..Len(q) : before(jobs, q, i, k)
  <2>1. PICK i \in Of(p) : \A k \in Of(p) : i <= k
    BY <1>2, LeastOf, Of(p) \subseteq Nat
  <2>2. ASSUME NEW k \in 1..Len(q) PROVE before(jobs, q, i, k)
    <3>1. jobs[q[i]].prio = p /\ jobs[q[k]].prio >= p /\ jobs[q[k]].prio \in Int
      BY <1>1, <1>2
    <3>2. jobs[q[k]].prio = p => i <= k
      BY <2>1
    <3> QED BY <3>1, <3>2 DEF before
  <2> QED BY <2>2
<1>3. \E i \in 1..Len(q) : \A k \in 1..Len(q) : before(jobs, q, i, k)
  <2>1. CASE Of(0) # {}
    <3>1. \A i \in 1..Len(q) : jobs[q[i]].prio >= 0
      BY <1>1
    <3> QED BY <1>2, <2>1, <3>1
  <2>2. CASE Of(0) = {} /\ Of(1) # {}
    <3>1. \A i \in 1..Len(q) : jobs[q[i]].prio >= 1
      BY <1>1, <2>2
    <3> QED BY <1>2, <2>2, <3>1
  <2>3. CASE Of(0) = {} /\ Of(1) = {}
    <3>1. \A i \in 1..Len(q) : jobs[q[i]].prio >= 2
      BY <1>1, <2>3
    <3>2. Of(2) # {}
      BY <1>1, <3>1
    <3> QED BY <1>2, <3>1, <3>2
  <2> QED BY <2>1, <2>2, <2>3
<1>4. DOMAIN q = 1..Len(q)
  OBVIOUS
<1>5. best(jobs, q) = CHOOSE i \in 1..Len(q) : \A k \in 1..Len(q) : before(jobs, q, i, k)
  BY <1>4, Zenon DEF best
<1> QED BY <1>3, <1>5, Zenon

-----------------------------------------------------------------------------
(* The invariant of the worker pool, and what take() does to it.           *)

Crews == [Workers -> [at : Places, job : Jobs \cup {NoJob}]]

Attempts(js) == \A j \in Jobs :
    /\ js[j].attempts <= MaxAttempts
    /\ js[j].status = "failed" => js[j].attempts = MaxAttempts
    /\ js[j].status = "pending" => js[j].attempts < MaxAttempts

\* No two workers hold the same job.
Apart(wk) == \A v, w \in Workers : v # w /\ wk[v].job # NoJob => wk[v].job # wk[w].job

\* The invariant, on a job table, a queue and the workers: a pending job is
\* queued and one in progress held, none twice and none both; and a job that
\* was never submitted is nowhere and has not been tried.
Sound(js, q, wk) ==
    /\ js \in JobTables
    /\ q \in Seq(Jobs)
    /\ wk \in Crews
    /\ \A w \in Workers : wk[w].at = "handling" <=> wk[w].job # NoJob
    /\ \A j \in Jobs : js[j].status = "pending" => j \in Range(q)
    /\ \A j \in Jobs : js[j].status = "in_progress" => \E w \in Workers : wk[w].job = j
    /\ Distinct(q)
    /\ Apart(wk)
    /\ \A w \in Workers : wk[w].job \notin Range(q)
    /\ Attempts(js)
    /\ \A j \in Jobs : js[j].status = "new" =>
         js[j].attempts = 0 /\ j \notin Range(q) /\ \A w \in Workers : wk[w].job # j

PoolInv == running \in BOOLEAN /\ Sound(job, pending, worker)

\* Worker w, which holds no job, takes the pending job j out of the queue: what
\* becomes of the tables js, q and wk.
Taken(js, q, wk, w, j, js2, r, wk2) ==
    /\ wk[w].job = NoJob
    /\ js[j].status = "pending"
    /\ r \in Seq(Jobs) /\ Distinct(r) /\ Range(r) = Range(q) \ {j}
    /\ js2 \in JobTables
    /\ js2[j].status = "in_progress" /\ js2[j].attempts = js[j].attempts + 1
    /\ \A i \in Jobs \ {j} : js2[i] = js[i]
    /\ wk2 \in Crews
    /\ wk2[w].job = j /\ wk2[w].at = "handling" /\ \A v \in Workers \ {w} : wk2[v] = wk[v]

LEMMA TakeKeeps ==
    ASSUME NEW js, NEW q, NEW wk, Sound(js, q, wk), NEW w \in Workers, NEW j \in Jobs,
           NEW js2, NEW r, NEW wk2, Taken(js, q, wk, w, j, js2, r, wk2)
    PROVE  Sound(js2, r, wk2)
<1>0. /\ wk[w].job = NoJob
      /\ js[j].status = "pending"
      /\ r \in Seq(Jobs) /\ Distinct(r) /\ Range(r) = Range(q) \ {j}
      /\ js2 \in JobTables
      /\ js2[j].status = "in_progress" /\ js2[j].attempts = js[j].attempts + 1
      /\ \A i \in Jobs \ {j} : js2[i] = js[i]
      /\ wk2 \in Crews
      /\ wk2[w].job = j /\ wk2[w].at = "handling" /\ \A v \in Workers \ {w} : wk2[v] = wk[v]
  BY DEF Taken
<1>1. /\ js[j].attempts < MaxAttempts
      /\ \A v \in Workers : wk[v].job # j
  BY <1>0 DEF Sound, Attempts
<1>2. Attempts(js2)
  <2>1. js[j].attempts \in Nat /\ MaxAttempts \in Nat
    BY <1>0, QueueAssumption DEF Sound, JobTables
  <2>2. ASSUME NEW i \in Jobs
        PROVE  /\ js2[i].attempts <= MaxAttempts
               /\ js2[i].status = "failed" => js2[i].attempts = MaxAttempts
               /\ js2[i].status = "pending" => js2[i].attempts < MaxAttempts
    BY <1>0, <1>1, <2>1 DEF Sound, Attempts
  <2> QED BY <2>2 DEF Attempts
<1>3. \A i \in Jobs : js2[i].status = "pending" => i \in Range(r)
  BY <1>0 DEF Sound
<1>4. \A i \in Jobs : js2[i].status = "in_progress" => \E v \in Workers : wk2[v].job = i
  BY <1>0, PoolAssumption DEF Sound
<1>5. /\ \A v \in Workers : wk2[v].at = "handling" <=> wk2[v].job # NoJob
      /\ \A v \in Workers : wk2[v].job \notin Range(r)
  BY <1>0, <1>1, PoolAssumption DEF Sound
<1>6. Apart(wk2)
  BY <1>0, <1>1, PoolAssumption DEF Sound, Apart
<1>7. \A i \in Jobs : js2[i].status = "new" =>
         js2[i].attempts = 0 /\ i \notin Range(r) /\ \A v \in Workers : wk2[v].job # i
  BY <1>0 DEF Sound
<1> QED BY <1>0, <1>2, <1>3, <1>4, <1>5, <1>6, <1>7 DEF Sound

\* What take() does to the tables, in the names of the lemma above.
LEMMA TakeDone ==
    ASSUME NEW js \in JobTables, NEW q \in Seq(Jobs), takes(js, q), Distinct(q)
    PROVE  \E b \in 1..Len(q), j \in Jobs :
             /\ b = best(js, q) /\ j = q[b] /\ js[j].status = "pending"
             /\ \A k \in 1..Len(q) : before(js, q, b, k)
             /\ take_job(js, q) \in JobTables
             /\ take_job(js, q)[j].status = "in_progress"
             /\ take_job(js, q)[j].attempts = js[j].attempts + 1
             /\ \A i \in Jobs \ {j} : take_job(js, q)[i] = js[i]
             /\ take_queue(js, q) \in Seq(Jobs) /\ Distinct(take_queue(js, q))
             /\ Range(take_queue(js, q)) = Range(q) \ {j}
<1>1. q # <<>> /\ js[q[best(js, q)]].status = "pending"
  BY DEF takes
<1>2. PICK b \in 1..Len(q) : b = best(js, q) /\ \A k \in 1..Len(q) : before(js, q, b, k)
  BY <1>1, BestExists
<1>3. PICK j \in Jobs : j = q[b]
  OBVIOUS
<1>4. PICK js2 : /\ js2 = take_job(js, q)
                 /\ js2 = [js EXCEPT ![j].status = "in_progress", ![j].attempts = @ + 1]
  BY <1>2, <1>3 DEF take_job
<1>5. /\ js2 \in JobTables
      /\ js2[j].status = "in_progress" /\ js2[j].attempts = js[j].attempts + 1
      /\ \A i \in Jobs \ {j} : js2[i] = js[i]
  BY <1>4 DEF JobTables, Statuses
<1>6. /\ take_job(js, q) \in JobTables
      /\ take_job(js, q)[j].status = "in_progress"
      /\ take_job(js, q)[j].attempts = js[j].attempts + 1
      /\ \A i \in Jobs \ {j} : take_job(js, q)[i] = js[i]
  BY <1>4, <1>5
<1>7. /\ take_queue(js, q) \in Seq(Jobs) /\ Distinct(take_queue(js, q))
      /\ Range(take_queue(js, q)) = Range(q) \ {j}
  <2>1. take_queue(js, q) = RemoveAt(q, b)
    BY <1>1, <1>2 DEF take_queue
  <2> QED BY <1>3, <2>1, RemoveAtDistinct
<1> QED BY <1>1, <1>2, <1>3, <1>6, <1>7

\* An entry whose job is not pending is dropped.
LEMMA DropKeeps ==
    ASSUME NEW js, NEW q, NEW wk, Sound(js, q, wk), q # <<>>, ~takes(js, q)
    PROVE  Sound(js, take_queue(js, q), wk)
<1>1. PICK b \in 1..Len(q) : b = best(js, q)
  BY BestExists DEF Sound
<1>2. PICK j \in Jobs : j = q[b] /\ js[j].status # "pending"
  BY <1>1 DEF takes, Sound
<1>3. PICK r \in Seq(Jobs) :
        r = take_queue(js, q) /\ Distinct(r) /\ Range(r) = Range(q) \ {j}
  <2>1. take_queue(js, q) = RemoveAt(q, b)
    BY <1>1 DEF take_queue
  <2> QED BY <1>1, <1>2, <2>1, RemoveAtDistinct DEF Sound
<1> QED BY <1>2, <1>3 DEF Sound

\* Only the jobs of the workers matter, and what they do when they have none.
LEMMA OtherPlace ==
    ASSUME NEW js, NEW q, NEW wk, Sound(js, q, wk), NEW w \in Workers, wk[w].job = NoJob,
           NEW p \in Places \ {"handling"}
    PROVE  Sound(js, q, [wk EXCEPT ![w] = At(p)])
<1>1. PICK wk2 : wk2 = [wk EXCEPT ![w] = At(p)]
  OBVIOUS
<1>2. /\ wk2 \in Crews
      /\ wk2[w].at = p /\ \A v \in Workers : wk2[v].job = wk[v].job
      /\ \A v \in Workers \ {w} : wk2[v] = wk[v]
  BY <1>1 DEF Sound, Crews, At
<1>3. Apart(wk2)
  BY <1>2 DEF Sound, Apart
<1> QED BY <1>1, <1>2, <1>3 DEF Sound

\* What the loop of a worker does, from tables in which it holds no job.
LEMMA LoopTopKeeps ==
    ASSUME NEW w \in Workers, NEW js, NEW q, worker \in Crews,
           Sound(js, q, [worker EXCEPT ![w] = At("none")]), LoopTop(w, js, q)
    PROVE  Sound(job', pending', worker')
<1>1. PICK idle \in Crews :
      /\ idle = [worker EXCEPT ![w] = At("none")]
      /\ idle[w].job = NoJob /\ \A v \in Workers \ {w} : idle[v] = worker[v]
      /\ Sound(js, q, idle)
  BY DEF Crews, Places, At
<1>2. \A p \in Places : [worker EXCEPT ![w] = At(p)] = [idle EXCEPT ![w] = At(p)]
  BY <1>1 DEF Crews
<1>3. CASE ~running
  BY <1>1, <1>3 DEF LoopTop
<1>4. CASE running /\ takes(js, q)
  <2>1. /\ job' = take_job(js, q) /\ pending' = take_queue(js, q)
        /\ worker' = [worker EXCEPT ![w] = [at |-> "handling", job |-> q[best(js, q)]]]
    BY <1>4 DEF LoopTop
  <2>2. js \in JobTables /\ q \in Seq(Jobs) /\ Distinct(q)
    BY <1>1 DEF Sound
  <2>3. PICK j \in Jobs :
          /\ j = q[best(js, q)] /\ js[j].status = "pending"
          /\ job' \in JobTables
          /\ job'[j].status = "in_progress" /\ job'[j].attempts = js[j].attempts + 1
          /\ \A i \in Jobs \ {j} : job'[i] = js[i]
          /\ pending' \in Seq(Jobs) /\ Distinct(pending')
          /\ Range(pending') = Range(q) \ {j}
    BY <1>4, <2>1, <2>2, TakeDone
  <2>4. /\ worker' \in Crews
        /\ worker'[w].at = "handling" /\ worker'[w].job = j
        /\ \A v \in Workers \ {w} : worker'[v] = idle[v]
    BY <1>1, <2>1, <2>3 DEF Crews, Places
  <2>5. Taken(js, q, idle, w, j, job', pending', worker')
    BY <1>1, <2>3, <2>4 DEF Taken
  <2> QED BY <1>1, <2>5, TakeKeeps
<1>5. CASE running /\ ~takes(js, q)
  <2>1. /\ job' = js /\ pending' = take_queue(js, q)
        /\ worker' = [idle EXCEPT ![w] = At("polling")]
    BY <1>2, <1>5 DEF LoopTop, take_job, Places
  <2>2. CASE q = <<>>
    BY <1>1, <2>1, <2>2, OtherPlace DEF Places, take_queue
  <2>3. CASE q # <<>>
    BY <1>1, <1>5, <2>1, <2>3, DropKeeps, OtherPlace DEF Places
  <2> QED BY <2>2, <2>3
<1> QED BY <1>3, <1>4, <1>5

-----------------------------------------------------------------------------
(* What complete() and fail() do to it.                                    *)

\* Worker w lets go of its job j, which completes, fails, is put back or was
\* removed: what becomes of the tables js, q and wk.
Released(js, q, wk, w, j, js2, r, wk2) ==
    /\ wk[w].job = j
    /\ js2 \in JobTables /\ js2[j].attempts = js[j].attempts
    /\ js2[j].status \notin {"new", "in_progress"}
    /\ js2[j].status = "failed" => js2[j].attempts = MaxAttempts
    /\ js2[j].status = "pending" => js2[j].attempts < MaxAttempts /\ j \in Range(r)
    /\ \A i \in Jobs \ {j} : js2[i] = js[i]
    /\ r \in Seq(Jobs) /\ Distinct(r)
    /\ Range(q) \subseteq Range(r) /\ Range(r) \subseteq Range(q) \cup {j}
    /\ wk2 \in Crews
    /\ wk2[w] = At("none") /\ \A v \in Workers \ {w} : wk2[v] = wk[v]

LEMMA ReleaseKeeps ==
    ASSUME NEW js, NEW q, NEW wk, Sound(js, q, wk), NEW w \in Workers, NEW j \in Jobs,
           NEW js2, NEW r, NEW wk2, Released(js, q, wk, w, j, js2, r, wk2)
    PROVE  Sound(js2, r, wk2)
<1>0. /\ wk[w].job = j
      /\ js2 \in JobTables /\ js2[j].attempts = js[j].attempts
      /\ js2[j].status \notin {"new", "in_progress"}
      /\ js2[j].status = "failed" => js2[j].attempts = MaxAttempts
      /\ js2[j].status = "pending" => js2[j].attempts < MaxAttempts /\ j \in Range(r)
      /\ \A i \in Jobs \ {j} : js2[i] = js[i]
      /\ r \in Seq(Jobs) /\ Distinct(r)
      /\ Range(q) \subseteq Range(r) /\ Range(r) \subseteq Range(q) \cup {j}
      /\ wk2 \in Crews
      /\ wk2[w].at = "none" /\ wk2[w].job = NoJob
      /\ \A v \in Workers \ {w} : wk2[v] = wk[v]
  BY DEF Released, At
<1>1. \A v \in Workers \ {w} : wk2[v].job # j
  BY <1>0, PoolAssumption DEF Sound, Apart
<1>2. Attempts(js2)
  BY <1>0 DEF Sound, Attempts
<1>3. \A i \in Jobs : js2[i].status = "pending" => i \in Range(r)
  BY <1>0 DEF Sound
<1>4. \A i \in Jobs : js2[i].status = "in_progress" => \E v \in Workers : wk2[v].job = i
  BY <1>0 DEF Sound
<1>5. /\ \A v \in Workers : wk2[v].at = "handling" <=> wk2[v].job # NoJob
      /\ \A v \in Workers : wk2[v].job \notin Range(r)
  <2>1. NoJob \notin Range(r)
    BY <1>0, RangeOfSeq, PoolAssumption
  <2> QED BY <1>0, <1>1, <2>1 DEF Sound
<1>6. Apart(wk2)
  BY <1>0 DEF Sound, Apart
<1>7. \A i \in Jobs : js2[i].status = "new" =>
         js2[i].attempts = 0 /\ i \notin Range(r) /\ \A v \in Workers : wk2[v].job # i
  BY <1>0, PoolAssumption DEF Sound
<1> QED BY <1>0, <1>2, <1>3, <1>4, <1>5, <1>6, <1>7 DEF Sound

\* complete() and fail(), from the point of view of the worker that calls them.
LEMMA CompleteReleases ==
    ASSUME NEW w \in Workers, Sound(job, pending, worker), worker[w].at = "handling"
    PROVE  Sound(complete(job, worker[w].job), pending, [worker EXCEPT ![w] = At("none")])
<1>1. PICK j \in Jobs : j = worker[w].job
  BY DEF Sound, Crews
<1>2. PICK js2 : js2 = complete(job, j)
  OBVIOUS
<1>3. PICK wk2 : wk2 = [worker EXCEPT ![w] = At("none")]
  OBVIOUS
<1>4. job \in JobTables /\ job[j].status # "new"
  BY <1>1 DEF Sound
<1>5. /\ js2 \in JobTables /\ js2[j].attempts = job[j].attempts
      /\ js2[j].status \in {"completed", "removed"}
      /\ \A i \in Jobs \ {j} : js2[i] = job[i]
  <2>1. CASE Known(job, j)
    <3>1. js2 = [job EXCEPT ![j].status = "completed"]
      BY <1>2, <2>1 DEF complete
    <3> QED BY <1>4, <3>1 DEF JobTables, Statuses
  <2>2. CASE ~Known(job, j)
    <3>1. js2 = job
      BY <1>2, <2>2 DEF complete
    <3> QED BY <1>4, <2>2, <3>1 DEF Known
  <2> QED BY <2>1, <2>2
<1>6. /\ wk2 \in Crews
      /\ wk2[w] = At("none") /\ \A v \in Workers \ {w} : wk2[v] = worker[v]
  BY <1>3 DEF Sound, Crews, Places, At
<1>7. Released(job, pending, worker, w, j, js2, pending, wk2)
  BY <1>1, <1>5, <1>6 DEF Released, Sound
<1> QED BY <1>1, <1>2, <1>3, <1>7, ReleaseKeeps

LEMMA FailReleases ==
    ASSUME NEW w \in Workers, Sound(job, pending, worker), worker[w].at = "handling"
    PROVE  Sound(fail_job(job, worker[w].job), fail_queue(job, pending, worker[w].job),
                 [worker EXCEPT ![w] = At("none")])
<1>1. PICK j \in Jobs : j = worker[w].job
  BY DEF Sound, Crews
<1>2. PICK js2, r : js2 = fail_job(job, j) /\ r = fail_queue(job, pending, j)
  OBVIOUS
<1>3. PICK wk2 : wk2 = [worker EXCEPT ![w] = At("none")]
  OBVIOUS
<1>4. /\ job \in JobTables /\ job[j].status # "new"
      /\ job[j].attempts \in Nat /\ job[j].attempts <= MaxAttempts
      /\ pending \in Seq(Jobs) /\ Distinct(pending) /\ j \notin Range(pending)
  BY <1>1 DEF Sound, Attempts, JobTables
<1>5. /\ wk2 \in Crews
      /\ wk2[w] = At("none") /\ \A v \in Workers \ {w} : wk2[v] = worker[v]
  BY <1>3 DEF Sound, Crews, Places, At
<1>6. CASE retried(job, j)
  <2>1. js2 = [job EXCEPT ![j].status = "pending"] /\ r = Append(pending, j)
    BY <1>2, <1>6 DEF fail_job, fail_queue, retried
  <2>2. /\ js2 \in JobTables /\ js2[j].attempts = job[j].attempts
        /\ js2[j].status = "pending" /\ js2[j].attempts < MaxAttempts
        /\ \A i \in Jobs \ {j} : js2[i] = job[i]
    BY <1>4, <1>6, <2>1 DEF JobTables, Statuses, retried
  <2>3. r \in Seq(Jobs) /\ Distinct(r) /\ Range(r) = Range(pending) \cup {j}
    BY <1>4, <2>1, AppendDistinct
  <2>4. Released(job, pending, worker, w, j, js2, r, wk2)
    BY <1>1, <1>5, <2>2, <2>3 DEF Released
  <2> QED BY <1>1, <1>2, <1>3, <2>4, ReleaseKeeps
<1>7. CASE ~retried(job, j)
  <2>1. /\ js2 \in JobTables /\ js2[j].attempts = job[j].attempts
        /\ \A i \in Jobs \ {j} : js2[i] = job[i]
        /\ \/ js2[j].status = "removed"
           \/ js2[j].status = "failed" /\ js2[j].attempts = MaxAttempts
    <3>1. CASE Known(job, j)
      <4>1. js2 = [job EXCEPT ![j].status = "failed"]
        BY <1>2, <1>7, <3>1 DEF fail_job
      <4>2. job[j].attempts = MaxAttempts
        BY <1>4, <1>7, <3>1, QueueAssumption DEF retried
      <4> QED BY <1>4, <4>1, <4>2 DEF JobTables, Statuses
    <3>2. CASE ~Known(job, j)
      <4>1. js2 = job
        BY <1>2, <3>2 DEF fail_job
      <4> QED BY <1>4, <3>2, <4>1 DEF Known
    <3> QED BY <3>1, <3>2
  <2>2. r = pending
    BY <1>2, <1>7 DEF fail_queue
  <2>3. Released(job, pending, worker, w, j, js2, r, wk2)
    BY <1>1, <1>4, <1>5, <2>1, <2>2 DEF Released
  <2> QED BY <1>1, <1>2, <1>3, <2>3, ReleaseKeeps
<1> QED BY <1>6, <1>7

-----------------------------------------------------------------------------
(* One lemma per action.                                                   *)

LEMMA PoolInit == Init => PoolInv
<1> SUFFICES ASSUME Init PROVE PoolInv
  OBVIOUS
<1>1. /\ job \in JobTables /\ worker \in Crews /\ pending = <<>>
      /\ \A j \in Jobs : job[j].status = "new" /\ job[j].attempts = 0
      /\ \A w \in Workers : worker[w].at = "none" /\ worker[w].job = NoJob
  BY DEF Init, QInit, At, JobTables, Crews, Places, Statuses, Priorities
<1>2. Range(pending) = {} /\ Distinct(pending) /\ pending \in Seq(Jobs)
  BY <1>1 DEF Range, Distinct
<1>3. Attempts(job) /\ Apart(worker)
  BY <1>1, QueueAssumption DEF Attempts, Apart
<1> QED BY <1>1, <1>2, <1>3, PoolAssumption DEF PoolInv, Sound, Init

LEMMA SubmitKeeps ==
    ASSUME PoolInv, NEW j \in Jobs, NEW p \in Priorities, Submit(j, p), UNCHANGED pvars
    PROVE  PoolInv'
<1>1. /\ job[j].status = "new" /\ job[j].attempts = 0 /\ j \notin Range(pending)
      /\ \A w \in Workers : worker[w].job # j
  BY DEF Submit, PoolInv, Sound
<1>2. /\ job' \in JobTables
      /\ job'[j].status = "pending" /\ job'[j].attempts = 0
      /\ \A i \in Jobs \ {j} : job'[i] = job[i]
  <2>1. job \in JobTables /\ job' = [job EXCEPT ![j].status = "pending", ![j].prio = p]
    BY DEF Submit, PoolInv, Sound
  <2> QED BY <1>1, <2>1 DEF JobTables, Statuses
<1>3. /\ pending' \in Seq(Jobs) /\ Distinct(pending')
      /\ Range(pending') = Range(pending) \cup {j}
  BY <1>1, AppendDistinct DEF Submit, PoolInv, Sound
<1>4. Attempts(job')
  BY <1>2, QueueAssumption DEF PoolInv, Sound, Attempts
<1> QED BY <1>1, <1>2, <1>3, <1>4 DEF PoolInv, Sound, pvars

\* Jobs leave the table or are ended from outside; their entries stay.
LEMMA EndedKeeps ==
    ASSUME PoolInv, UNCHANGED <<pvars, pending>>, job' \in JobTables,
           \A j \in Jobs : \/ job'[j] = job[j]
                           \/ /\ job'[j].status \in {"cancelled", "expired"}
                              /\ job'[j].attempts = job[j].attempts
                              /\ job[j].status # "new"
    PROVE  PoolInv'
<1>1. Attempts(job')
  BY DEF PoolInv, Sound, Attempts
<1> QED BY <1>1 DEF PoolInv, Sound, pvars

LEMMA CancelKeeps ==
    ASSUME PoolInv, NEW j \in Jobs, Cancel(j), UNCHANGED pvars
    PROVE  PoolInv'
<1>1. /\ job' \in JobTables
      /\ job'[j].status = "cancelled" /\ job'[j].attempts = job[j].attempts
      /\ \A i \in Jobs \ {j} : job'[i] = job[i]
  BY DEF Cancel, PoolInv, Sound, JobTables, Statuses
<1> QED BY <1>1, EndedKeeps DEF Cancel

LEMMA ExpireStaleKeeps ==
    ASSUME PoolInv, NEW S \in SUBSET (WithStatus("pending") \cup WithStatus("in_progress")),
           ExpireStale(S), UNCHANGED pvars
    PROVE  PoolInv'
<1>1. /\ job' \in JobTables
      /\ \A j \in S : job'[j].status = "expired" /\ job'[j].attempts = job[j].attempts
      /\ \A j \in Jobs \ S : job'[j] = job[j]
  <2>1. job \in JobTables /\ S \subseteq Jobs
    BY DEF PoolInv, Sound, WithStatus
  <2>2. job' = [j \in Jobs |-> IF j \in S THEN [job[j] EXCEPT !.status = "expired"] ELSE job[j]]
    BY DEF ExpireStale
  <2> QED BY <2>1, <2>2 DEF JobTables, Statuses
<1> QED BY <1>1, EndedKeeps DEF ExpireStale, WithStatus

LEMMA ClearKeeps ==
    ASSUME PoolInv, Clear, UNCHANGED pvars
    PROVE  PoolInv'
<1>1. /\ job' \in JobTables
      /\ \A j \in Jobs : \/ job'[j] = job[j] /\ job[j].status \in {"new", "removed"}
                         \/ /\ job'[j].status = "removed"
                            /\ job'[j].attempts = job[j].attempts
                            /\ job[j].status # "new"
  BY DEF Clear, Known, PoolInv, Sound, JobTables, Statuses
<1>2. pending' \in Seq(Jobs) /\ Distinct(pending') /\ Range(pending') = {}
  BY DEF Clear, Distinct, Range
<1>3. Attempts(job')
  BY <1>1 DEF PoolInv, Sound, Attempts
<1> QED BY <1>1, <1>2, <1>3 DEF PoolInv, Sound, pvars

LEMMA StartKeeps ==
    ASSUME PoolInv, Start
    PROVE  PoolInv'
<1>1. PICK new \in kSubset(WorkerCount, Spare) :
        worker' = [w \in Workers |-> IF w \in new THEN At("ready") ELSE worker[w]]
  BY Zenon DEF Start
<1>6. new \subseteq Workers /\ \A w \in new : worker[w].at = "none"
  BY DEF Spare, kSubset
<1>2. worker \in Crews /\ Apart(worker)
      /\ \A w \in Workers : worker[w].at = "handling" <=> worker[w].job # NoJob
  BY DEF PoolInv, Sound
<1>3. /\ worker' \in Crews
      /\ \A w \in Workers : /\ worker'[w].job = worker[w].job
                            /\ worker'[w].at = "handling" <=> worker'[w].job # NoJob
  BY <1>1, <1>2, <1>6 DEF Crews, Places, At
<1>4. Apart(worker')
  BY <1>2, <1>3 DEF Apart
<1>5. job' = job /\ pending' = pending /\ running' \in BOOLEAN
  BY DEF Start, qvars
<1> QED BY <1>3, <1>4, <1>5 DEF PoolInv, Sound

LEMMA ResumeKeeps ==
    ASSUME PoolInv, NEW w \in Workers, Resume(w)
    PROVE  PoolInv'
<1>1. worker \in Crews /\ worker[w].job = NoJob
  BY DEF PoolInv, Sound, Resume
<1>2. Sound(job, pending, [worker EXCEPT ![w] = At("none")])
  BY <1>1, OtherPlace DEF PoolInv, Places
<1> QED BY <1>1, <1>2, LoopTopKeeps DEF Resume, PoolInv

LEMMA HandlerReturnsKeeps ==
    ASSUME PoolInv, NEW w \in Workers, HandlerReturns(w)
    PROVE  PoolInv'
<1> DEFINE js == complete(job, worker[w].job)
           idle == [worker EXCEPT ![w] = At("none")]
<1>1. /\ Sound(js, pending, idle) /\ worker \in Crews
      /\ idle[w].job = NoJob
      /\ [worker EXCEPT ![w] = At("callback")] = [idle EXCEPT ![w] = At("callback")]
  BY CompleteReleases DEF HandlerReturns, PoolInv, Sound, Crews, At
<1>2. CASE LoopTop(w, js, pending)
  BY <1>1, <1>2, LoopTopKeeps DEF HandlerReturns, PoolInv
<1>3. CASE job' = js /\ worker' = [worker EXCEPT ![w] = At("callback")] /\ UNCHANGED pending
  <2>1. Sound(js, pending, [idle EXCEPT ![w] = At("callback")])
    BY <1>1, OtherPlace DEF Places
  <2> HIDE DEF idle, js
  <2> QED BY <1>1, <1>3, <2>1 DEF HandlerReturns, PoolInv
<1> QED BY <1>2, <1>3 DEF HandlerReturns

LEMMA HandlerRaisesKeeps ==
    ASSUME PoolInv, NEW w \in Workers, HandlerRaises(w)
    PROVE  PoolInv'
<1> DEFINE js == fail_job(job, worker[w].job)
           q == fail_queue(job, pending, worker[w].job)
           idle == [worker EXCEPT ![w] = At("none")]
<1>1. /\ Sound(js, q, idle) /\ worker \in Crews
      /\ idle[w].job = NoJob
      /\ [worker EXCEPT ![w] = At("backoff")] = [idle EXCEPT ![w] = At("backoff")]
  BY FailReleases DEF HandlerRaises, PoolInv, Sound, Crews, At
<1>2. CASE LoopTop(w, js, q)
  BY <1>1, <1>2, LoopTopKeeps DEF HandlerRaises, PoolInv
<1>3. CASE job' = js /\ worker' = [worker EXCEPT ![w] = At("backoff")] /\ pending' = q
  <2>1. Sound(js, q, [idle EXCEPT ![w] = At("backoff")])
    BY <1>1, OtherPlace DEF Places
  <2> HIDE DEF idle, js, q
  <2> QED BY <1>1, <1>3, <2>1 DEF HandlerRaises, PoolInv
<1> QED BY <1>2, <1>3 DEF HandlerRaises

LEMMA PoolStep == PoolInv /\ [Next]_vars => PoolInv'
<1> SUFFICES ASSUME PoolInv, [Next]_vars PROVE PoolInv'
  OBVIOUS
<1>1. ASSUME NEW w \in Workers, WorkerStep(w) PROVE PoolInv'
  BY <1>1, ResumeKeeps, HandlerReturnsKeeps, HandlerRaisesKeeps DEF WorkerStep
<1>2. ASSUME ClientStep, UNCHANGED pvars PROVE PoolInv'
  BY <1>2, SubmitKeeps, CancelKeeps, ExpireStaleKeeps, ClearKeeps DEF ClientStep
<1>3. CASE Start
  BY <1>3, StartKeeps
<1>4. CASE Stop
  BY <1>4 DEF Stop, PoolInv
<1>5. CASE UNCHANGED vars
  BY <1>5 DEF vars, PoolInv
<1> QED BY <1>1, <1>2, <1>3, <1>4, <1>5 DEF Next

-----------------------------------------------------------------------------
(* Priorities.                                                             *)

\* take() takes no job while a pending one of a higher priority is queued.
LEMMA TakesMostUrgent ==
    ASSUME NEW js, NEW q, NEW wk, Sound(js, q, wk), NEW i \in Jobs, NEW j \in Jobs,
           js[i].status = "pending", take_job(js, q)[i].status = "in_progress",
           js[j].status = "pending"
    PROVE  js[i].prio <= js[j].prio
<1>1. takes(js, q) /\ js \in JobTables /\ q \in Seq(Jobs) /\ Distinct(q) /\ j \in Range(q)
  BY DEF Sound, take_job
<1>2. PICK b \in 1..Len(q) :
        /\ \A k \in 1..Len(q) : before(js, q, b, k)
        /\ \A k \in Jobs \ {q[b]} : take_job(js, q)[k] = js[k]
  BY <1>1, TakeDone
<1>3. i = q[b]
  BY <1>2
<1>4. PICK k \in 1..Len(q) : q[k] = j
  BY <1>1, RangeEquality
<1>5. before(js, q, b, k) /\ js[i].prio \in Int /\ js[j].prio \in Int
  BY <1>1, <1>2, <1>4 DEF JobTables, Priorities
<1> QED BY <1>3, <1>4, <1>5 DEF before

\* The same of the loop of a worker, when the tables it starts from have the
\* pending jobs and the priorities of the job table before the step.
LEMMA LoopTopMostUrgent ==
    ASSUME NEW w \in Workers, NEW js, NEW q, NEW wk, Sound(js, q, wk), LoopTop(w, js, q),
           NEW i \in Jobs, NEW j \in Jobs,
           js[i] = job[i], job[i].status = "pending", job'[i].status = "in_progress",
           js[j] = job[j], job[j].status = "pending"
    PROVE  job[i].prio <= job[j].prio
<1>1. CASE job' = js
  BY <1>1
<1>2. CASE job' = take_job(js, q)
  BY <1>2, TakesMostUrgent
<1> QED BY <1>1, <1>2 DEF LoopTop

\* What complete() and fail() leave of the other jobs.
LEMMA OthersLeft ==
    ASSUME NEW i \in Jobs, NEW j \in Jobs, i # j
    PROVE  complete(job, j)[i] = job[i] /\ fail_job(job, j)[i] = job[i]
  BY DEF complete, fail_job

LEMMA PriorityStep ==
    ASSUME PoolInv, [Next]_vars, NEW i \in Jobs, NEW j \in Jobs,
           job[i].status = "pending", job'[i].status = "in_progress",
           job[j].status = "pending"
    PROVE  job[i].prio <= job[j].prio
<1>0. Sound(job, pending, worker)
  BY DEF PoolInv
<1>1. ASSUME NEW w \in Workers, worker[w].at = "handling"
      PROVE  worker[w].job \in Jobs /\ worker[w].job # i /\ worker[w].job # j
  BY <1>0, <1>1 DEF Sound, Crews
<1>2. ASSUME NEW w \in Workers, Resume(w) PROVE job[i].prio <= job[j].prio
  BY <1>0, <1>2, LoopTopMostUrgent DEF Resume
<1>3. ASSUME NEW w \in Workers, HandlerReturns(w) PROVE job[i].prio <= job[j].prio
  <2>1. PICK js : /\ js = complete(job, worker[w].job)
                  /\ js[i] = job[i] /\ js[j] = job[j]
    BY <1>1, <1>3, OthersLeft DEF HandlerReturns
  <2>2. job' # js
    BY <2>1
  <2>3. LoopTop(w, js, pending)
    BY <1>3, <2>1, <2>2 DEF HandlerReturns
  <2>4. Sound(js, pending, [worker EXCEPT ![w] = At("none")])
    BY <1>0, <1>3, <2>1, CompleteReleases DEF HandlerReturns
  <2> QED BY <2>1, <2>3, <2>4, LoopTopMostUrgent
<1>4. ASSUME NEW w \in Workers, HandlerRaises(w) PROVE job[i].prio <= job[j].prio
  <2>1. PICK js, q : /\ js = fail_job(job, worker[w].job)
                     /\ q = fail_queue(job, pending, worker[w].job)
                     /\ js[i] = job[i] /\ js[j] = job[j]
    BY <1>1, <1>4, OthersLeft DEF HandlerRaises
  <2>2. job' # js
    BY <2>1
  <2>3. LoopTop(w, js, q)
    BY <1>4, <2>1, <2>2 DEF HandlerRaises
  <2>4. Sound(js, q, [worker EXCEPT ![w] = At("none")])
    BY <1>0, <1>4, <2>1, FailReleases DEF HandlerRaises
  <2> QED BY <2>1, <2>3, <2>4, LoopTopMostUrgent
<1>5. ASSUME ClientStep PROVE FALSE
  <2>0. job \in JobTables
    BY <1>0 DEF Sound
  <2>1. ASSUME NEW k \in Jobs, NEW p \in Priorities, Submit(k, p) PROVE FALSE
    <3>1. job' = [job EXCEPT ![k].status = "pending", ![k].prio = p]
      BY <2>1 DEF Submit
    <3>2. job'[i].status \in {job[i].status, "pending"}
      BY <2>0, <3>1 DEF JobTables
    <3> QED BY <3>2
  <2>2. ASSUME NEW k \in Jobs, Cancel(k) PROVE FALSE
    BY <2>0, <2>2 DEF Cancel, JobTables
  <2>3. ASSUME NEW S, ExpireStale(S) PROVE FALSE
    <3>1. job'[i] = IF i \in S THEN [job[i] EXCEPT !.status = "expired"] ELSE job[i]
      BY <2>3 DEF ExpireStale
    <3> QED BY <2>0, <3>1 DEF JobTables
  <2>4. ASSUME Clear PROVE FALSE
    BY <2>0, <2>4 DEF Clear, JobTables
  <2> QED BY <1>5, <2>1, <2>2, <2>3, <2>4 DEF ClientStep
<1>6. job' # job
  OBVIOUS
<1> QED BY <1>2, <1>3, <1>4, <1>5, <1>6 DEF Next, WorkerStep, Start, Stop, qvars, vars

-----------------------------------------------------------------------------

LEMMA PoolInvariant == Spec => []PoolInv
<1> QED BY PoolInit, PoolStep, PTL DEF Spec

LEMMA PoolInvImplies == PoolInv => InOnePlace /\ AttemptsBounded /\ TypeOK
<1> SUFFICES ASSUME PoolInv PROVE InOnePlace /\ AttemptsBounded /\ TypeOK
  OBVIOUS
<1>1. /\ pending \in Seq(Jobs)
      /\ \A j \in Jobs : j \in Range(pending) <=> \E i \in DOMAIN pending : pending[i] = j
      /\ \A i \in DOMAIN pending : pending[i] \in Range(pending)
      /\ DOMAIN pending = 1..Len(pending)
  BY DEF PoolInv, Sound, Range
<1>2. InOnePlace
  BY <1>1 DEF PoolInv, Sound, InOnePlace, Distinct, Apart
<1>3. TypeOK
  BY DEF PoolInv, Sound, TypeOK, JobTables, Crews
<1> QED BY <1>2, <1>3 DEF PoolInv, Sound, AttemptsBounded, Attempts

\* No job is lost or doubled, none is tried more often than it may be, and no
\* worker takes one while a more urgent one waits: for any jobs, workers, bound
\* of the queue and number of attempts, whatever fails or is cancelled, and also while a
\* pool that is started again still has workers of before.
THEOREM JobsSafe == Spec => JobsKept
<1>1. PoolInv /\ [Next]_vars =>
        [\A i, j \in Jobs :
          (job[i].status = "pending" /\ job'[i].status = "in_progress"
           /\ job[j].status = "pending" /\ job'[j].status = "pending")
          => job[i].prio <= job[j].prio]_vars
  BY PriorityStep
<1> QED BY <1>1, PoolInvariant, PoolInvImplies, PTL DEF Spec, JobsKept, PriorityRespected

-----------------------------------------------------------------------------
(* The batches of core/batch/batch_manager.py.                                 *)

Works == {"waiting", "running", "ok", "error"}
Records == [status : BmFinal \cup {"in_progress"}, input : Seq(CustomIds) \ {<<>>},
            results : Seq({"ok", "error"}), completed : Nat, failed : Nat]
TaskRecords == [at : {"scheduled", "gather", "done"}, work : Seq(Works)]

\* A batch that has no results yet, or was cancelled before it was begun.
Unanswered(batch) ==
    /\ batch.status \in {"in_progress", "cancelled"}
    /\ batch.results = <<>> /\ batch.completed = 0 /\ batch.failed = 0

Answered(batch) ==
    /\ batch.status \in {"completed", "failed"}
    /\ Len(batch.results) = Len(batch.input)
    /\ batch.completed + batch.failed = Len(batch.results)
    /\ batch.status = "failed" => batch.completed = 0

Slots(work) == {i \in DOMAIN work : work[i] = "running"}

\* A batch and its task, at each place of the task.
Accounted(batch, tk) ==
    /\ tk.at = "scheduled" => Unanswered(batch)
    /\ tk.at = "gather" => Unanswered(batch) /\ Len(tk.work) = Len(batch.input)
    /\ tk.at = "done" => Answered(batch) \/ Unanswered(batch)
    /\ IsFiniteSet(Slots(tk.work)) /\ Cardinality(Slots(tk.work)) <= Concurrency

BatchInv ==
    /\ DOMAIN batches \subseteq BatchIds /\ DOMAIN task = DOMAIN batches
    /\ \A b \in DOMAIN batches :
         batches[b] \in Records /\ task[b] \in TaskRecords /\ Accounted(batches[b], task[b])

\* Nothing runs in a task that has no work.
LEMMA NoSlots == Slots(<<>>) = {} /\ IsFiniteSet(Slots(<<>>)) /\ Cardinality(Slots(<<>>)) = 0
  BY FS_EmptySet DEF Slots

LEMMA CreateBatchKeeps ==
    ASSUME BatchInv, NEW b \in BatchIds, NEW requests \in RequestLists, CreateBatch(b, requests)
    PROVE  BatchInv'
<1>1. requests \in Seq(CustomIds) /\ requests # <<>>
  BY DEF RequestLists, SeqOf, CreateBatch, valid_batch
<1>2. /\ DOMAIN batches' = DOMAIN batches \cup {b} /\ DOMAIN task' = DOMAIN batches'
      /\ \A i \in DOMAIN batches : batches'[i] = batches[i] /\ task'[i] = task[i]
  BY DEF CreateBatch, BatchInv
<1>3. /\ batches'[b] = [status |-> "in_progress", input |-> requests, results |-> <<>>,
                        completed |-> 0, failed |-> 0]
      /\ task'[b] = [at |-> "scheduled", work |-> <<>>]
  BY DEF CreateBatch
<1>4. batches'[b] \in Records /\ task'[b] \in TaskRecords
  BY <1>1, <1>3 DEF Records, TaskRecords
<1>5. Accounted(batches'[b], task'[b])
  BY <1>3, NoSlots, BatchAssumption DEF Accounted, Unanswered
<1> QED BY <1>2, <1>4, <1>5 DEF BatchInv

\* A step of the task of batch b, or a cancel of it.
LEMMA OneBatchKeeps ==
    ASSUME BatchInv, NEW b \in DOMAIN batches,
           DOMAIN batches' = DOMAIN batches, DOMAIN task' = DOMAIN task,
           \A i \in DOMAIN batches \ {b} : batches'[i] = batches[i] /\ task'[i] = task[i],
           batches'[b] \in Records, task'[b] \in TaskRecords, Accounted(batches'[b], task'[b])
    PROVE  BatchInv'
  BY DEF BatchInv

LEMMA StartExecuteKeeps ==
    ASSUME BatchInv, NEW b \in DOMAIN batches, StartExecute(b)
    PROVE  BatchInv'
<1>1. /\ batches[b] \in Records /\ task[b] \in TaskRecords /\ Unanswered(batches[b])
      /\ b \in DOMAIN task
  BY DEF BatchInv, StartExecute, Accounted
<1>2. PICK tk : tk = IF batches[b].status = "in_progress"
           THEN [at |-> "gather", work |-> [i \in DOMAIN batches[b].input |-> "waiting"]]
           ELSE [at |-> "done", work |-> <<>>]
  OBVIOUS
<1>3. task' = [task EXCEPT ![b] = tk] /\ batches' = batches
  BY <1>2 DEF StartExecute
<1>4. tk \in TaskRecords /\ Accounted(batches[b], tk)
  <2>1. CASE batches[b].status = "in_progress"
    <3>1. PICK work : work = [i \in DOMAIN batches[b].input |-> "waiting"]
      OBVIOUS
    <3>2. DOMAIN batches[b].input = 1..Len(batches[b].input) /\ Len(batches[b].input) \in Nat
      BY <1>1 DEF Records
    <3>3. work \in Seq(Works) /\ Len(work) = Len(batches[b].input)
      BY <3>1, <3>2 DEF Works
    <3>4. Slots(work) = {}
      BY <3>1 DEF Slots
    <3>5. tk = [at |-> "gather", work |-> work]
      BY <1>2, <2>1, <3>1
    <3>6. tk \in TaskRecords /\ tk.at = "gather" /\ tk.work = work
      BY <3>3, <3>5 DEF TaskRecords
    <3>7. IsFiniteSet(Slots(work)) /\ Cardinality(Slots(work)) <= Concurrency
      BY <3>4, FS_EmptySet, BatchAssumption
    <3> QED BY <1>1, <3>3, <3>6, <3>7 DEF Accounted
  <2>2. CASE batches[b].status # "in_progress"
    <3>1. tk = [at |-> "done", work |-> <<>>]
      BY <1>2, <2>2
    <3> QED BY <1>1, <3>1, NoSlots, BatchAssumption DEF Accounted, TaskRecords
  <2> QED BY <2>1, <2>2
<1> QED BY <1>1, <1>3, <1>4, OneBatchKeeps DEF BatchInv

\* The work of one request changes from old to new.
LEMMA WorkKeeps ==
    ASSUME BatchInv, NEW b \in DOMAIN batches, task[b].at = "gather",
           NEW i \in DOMAIN task[b].work, NEW new \in Works,
           new = "running" => Cardinality(in_hand(b)) < Concurrency,
           task' = [task EXCEPT ![b].work[i] = new], UNCHANGED batches
    PROVE  BatchInv'
<1>1. PICK batch, tk : batch = batches[b] /\ tk = task[b]
  OBVIOUS
<1>2. batch \in Records /\ tk \in TaskRecords /\ Accounted(batch, tk) /\ tk.at = "gather"
  BY <1>1 DEF BatchInv
<1>3. PICK w2 : w2 = [tk.work EXCEPT ![i] = new]
  OBVIOUS
<1>4. PICK tk2 : tk2 = [tk EXCEPT !.work = w2]
  OBVIOUS
<1>5. tk.work \in Seq(Works) /\ i \in 1..Len(tk.work)
  BY <1>1, <1>2 DEF TaskRecords
<1>6. w2 \in Seq(Works) /\ Len(w2) = Len(tk.work) /\ DOMAIN w2 = DOMAIN tk.work
  BY <1>3, <1>5
<1>7. tk2 \in TaskRecords /\ tk2.at = "gather" /\ tk2.work = w2
  BY <1>2, <1>4, <1>6 DEF TaskRecords
<1>8. task' = [task EXCEPT ![b] = tk2]
  BY <1>1, <1>3, <1>4, b \in DOMAIN task DEF BatchInv
<1>9. IsFiniteSet(Slots(w2)) /\ Cardinality(Slots(w2)) <= Concurrency
  <2>1. IsFiniteSet(Slots(tk.work)) /\ Cardinality(Slots(tk.work)) <= Concurrency
    BY <1>2 DEF Accounted
  <2>2. CASE new = "running"
    <3>1. Slots(w2) = Slots(tk.work) \cup {i}
      BY <1>3, <1>5, <1>6, <2>2 DEF Slots
    <3>2. Cardinality(Slots(tk.work)) < Concurrency
      BY <1>1, <2>2 DEF Slots, in_hand
    <3>3. /\ IsFiniteSet(Slots(w2)) /\ Cardinality(Slots(tk.work)) \in Nat
          /\ Cardinality(Slots(w2)) \in
               {Cardinality(Slots(tk.work)), Cardinality(Slots(tk.work)) + 1}
      BY <2>1, <3>1, FS_AddElement, FS_CardinalityType
    <3> QED BY <3>2, <3>3, BatchAssumption
  <2>3. CASE new # "running"
    <3>1. Slots(w2) \subseteq Slots(tk.work)
      BY <1>3, <1>5, <1>6, <2>3 DEF Slots
    <3> QED BY <2>1, <3>1, FS_Subset, FS_CardinalityType, BatchAssumption
  <2> QED BY <2>2, <2>3
<1>10. Accounted(batch, tk2)
  BY <1>2, <1>6, <1>7, <1>9 DEF Accounted
<1> QED BY <1>1, <1>2, <1>7, <1>8, <1>10, OneBatchKeeps DEF BatchInv

LEMMA ExecuteEndsKeeps ==
    ASSUME BatchInv, NEW b \in DOMAIN batches, ExecuteEnds(b)
    PROVE  BatchInv'
<1>1. PICK batch, tk, results :
        batch = batches[b] /\ tk = task[b] /\ results = task[b].work
  OBVIOUS
<1>2. /\ batch \in Records /\ tk \in TaskRecords /\ Unanswered(batch) /\ b \in DOMAIN task
      /\ results \in Seq(Works) /\ Len(results) = Len(batch.input)
      /\ \A i \in 1..Len(results) : results[i] \in {"ok", "error"}
  <2>1. /\ batch \in Records /\ tk \in TaskRecords /\ Accounted(batch, tk) /\ b \in DOMAIN task
        /\ tk.at = "gather" /\ results = tk.work
    BY <1>1 DEF BatchInv, ExecuteEnds
  <2>2. \A i \in DOMAIN results : results[i] \in {"ok", "error"}
    BY <1>1 DEF ExecuteEnds
  <2> QED BY <2>1, <2>2 DEF Accounted, TaskRecords
<1>3. results \in Seq({"ok", "error"}) /\ Len(results) \in Nat /\ batch.input # <<>>
  BY <1>2 DEF Records
<1>4. PICK errors : errors = {i \in DOMAIN results : results[i] = "error"}
  OBVIOUS
<1>5. Cardinality(errors) \in 0..Len(results)
  <2>1. errors \subseteq 1..Len(results)
    BY <1>3, <1>4
  <2>2. IsFiniteSet(1..Len(results)) /\ Cardinality(1..Len(results)) = Len(results)
    BY <1>3, FS_Interval
  <2>3. IsFiniteSet(errors) /\ Cardinality(errors) <= Len(results)
    BY <2>1, <2>2, FS_Subset
  <2> QED BY <1>3, <2>3, FS_CardinalityType
<1>6. PICK b2 : b2 = [batch EXCEPT !.results = batch.results \o results,
                                  !.completed = Len(results) - Cardinality(errors),
                                  !.failed = Cardinality(errors),
                                  !.status = final_status(b, Cardinality(errors))]
  OBVIOUS
<1>7. /\ batches' = [batches EXCEPT ![b] = b2]
      /\ task' = [task EXCEPT ![b] = [at |-> "done", work |-> <<>>]]
  BY <1>1, <1>4, <1>6 DEF ExecuteEnds
<1>8. batch.results \o results = results
  BY <1>2, <1>3, ConcatEmptySeq DEF Unanswered
<1>9. final_status(b, Cardinality(errors)) =
        IF Cardinality(errors) = Len(results) THEN "failed" ELSE "completed"
  BY <1>1, <1>2 DEF final_status
<1>10. b2 \in Records /\ Answered(b2)
  <2>1. PICK n \in 0..Len(results) : n = Cardinality(errors)
    BY <1>5
  <2>2. /\ Len(results) - n \in Nat /\ n \in Nat /\ (Len(results) - n) + n = Len(results)
        /\ n = Len(results) => Len(results) - n = 0
    BY <1>3, <2>1
  <2>3. PICK st \in {"failed", "completed"} :
          /\ st = final_status(b, n)
          /\ st = "failed" => n = Len(results)
    BY <1>9, <2>1
  <2>4. b2 = [batch EXCEPT !.results = results, !.completed = Len(results) - n,
                           !.failed = n, !.status = st]
    BY <1>6, <1>8, <2>1, <2>3, Zenon
  <2>5. /\ b2 \in Records /\ b2.results = results /\ b2.completed = Len(results) - n
        /\ b2.failed = n /\ b2.status = st /\ b2.input = batch.input
    BY <1>2, <1>3, <2>2, <2>4 DEF Records, BmFinal
  <2> QED BY <1>2, <1>3, <2>2, <2>3, <2>5 DEF Answered
<1>11. /\ [at |-> "done", work |-> <<>>] \in TaskRecords
       /\ Accounted(b2, [at |-> "done", work |-> <<>>])
  BY <1>10, NoSlots, BatchAssumption DEF TaskRecords, Accounted
<1> QED BY <1>2, <1>7, <1>10, <1>11, OneBatchKeeps

LEMMA CancelBatchKeeps ==
    ASSUME BatchInv, NEW b \in DOMAIN batches, CancelBatch(b)
    PROVE  BatchInv'
<1>1. PICK batch, tk : batch = batches[b] /\ tk = task[b]
  OBVIOUS
<1>2. /\ batch \in Records /\ tk \in TaskRecords /\ Accounted(batch, tk) /\ Unanswered(batch)
  BY <1>1 DEF BatchInv, CancelBatch, Accounted, Answered, TaskRecords, BmFinal
<1>3. PICK b2 : b2 = [batch EXCEPT !.status = "cancelled"]
  OBVIOUS
<1>4. b2 \in Records /\ Unanswered(b2) /\ b2.input = batch.input
  BY <1>2, <1>3 DEF Records, BmFinal, Unanswered
<1>5. Accounted(b2, tk)
  BY <1>2, <1>4 DEF Accounted
<1>6. batches' = [batches EXCEPT ![b] = b2]
  BY <1>1, <1>3 DEF CancelBatch
<1> QED BY <1>1, <1>2, <1>4, <1>5, <1>6, OneBatchKeeps DEF CancelBatch

LEMMA BatchStep == BatchInv /\ [BmNext]_bmvars => BatchInv'
<1> SUFFICES ASSUME BatchInv, [BmNext]_bmvars PROVE BatchInv'
  OBVIOUS
<1>1. ASSUME NEW b \in DOMAIN batches, NEW i \in DOMAIN task[b].work, AcquireSlot(b, i)
      PROVE  BatchInv'
  BY <1>1, WorkKeeps DEF AcquireSlot, Works
<1>2. ASSUME NEW b \in DOMAIN batches, NEW i \in DOMAIN task[b].work,
             NEW outcome \in {"ok", "error"}, HandlerEnds(b, i, outcome)
      PROVE  BatchInv'
  BY <1>2, WorkKeeps DEF HandlerEnds, Works
<1>3. CASE UNCHANGED bmvars
  BY <1>3 DEF BatchInv, bmvars
<1> QED BY <1>1, <1>2, <1>3, CreateBatchKeeps, StartExecuteKeeps, ExecuteEndsKeeps,
           CancelBatchKeeps DEF BmNext

LEMMA BatchInit == BmInit => BatchInv
  BY DEF BmInit, BatchInv

\* A batch that has been executed is done: no action of its changes it.
LEMMA ExecutedStep ==
    ASSUME BatchInv, [BmNext]_bmvars, NEW b \in DOMAIN batches,
           batches[b].status \in {"completed", "failed"}
    PROVE  batches'[b] = batches[b]
<1>1. task[b].at = "done"
  BY DEF BatchInv, Accounted, Unanswered, TaskRecords
<1>2. ASSUME NEW c \in BatchIds, NEW requests \in RequestLists, CreateBatch(c, requests)
      PROVE  batches'[b] = batches[b]
  BY <1>2 DEF CreateBatch
<1>3. ASSUME NEW c \in DOMAIN batches, StartExecute(c) \/ ExecuteEnds(c) \/ CancelBatch(c)
      PROVE  batches'[b] = batches[b]
  BY <1>1, <1>3 DEF StartExecute, ExecuteEnds, CancelBatch, BmFinal
<1>4. ASSUME NEW c \in DOMAIN batches, NEW i, NEW outcome,
             AcquireSlot(c, i) \/ HandlerEnds(c, i, outcome)
      PROVE  batches'[b] = batches[b]
  BY <1>4 DEF AcquireSlot, HandlerEnds
<1> QED BY <1>2, <1>3, <1>4 DEF BmNext, bmvars

LEMMA BatchInvImplies == BatchInv => ResultsComplete /\ ConcurrencyHonoured /\ BmTypeOK
<1>0. BatchInv => BmTypeOK
  BY DEF BatchInv, BmTypeOK, Records, TaskRecords
<1> SUFFICES ASSUME BatchInv, NEW b \in DOMAIN batches
             PROVE  /\ LET batch == batches[b]
                       IN  /\ batch.results # <<>> => Len(batch.results) = Len(batch.input)
                           /\ batch.completed + batch.failed = Len(batch.results)
                           /\ batch.status \in {"completed", "failed"} => batch.results # <<>>
                           /\ batch.status = "failed" => batch.completed = 0
                    /\ Cardinality(in_hand(b)) <= Concurrency
  BY <1>0 DEF ResultsComplete, ConcurrencyHonoured
<1>1. PICK batch : batch = batches[b] /\ batch \in Records /\ (Answered(batch) \/ Unanswered(batch))
  BY DEF BatchInv, Accounted, TaskRecords
<1>2. Len(batch.input) \in Nat \ {0}
  BY <1>1, EmptySeq DEF Records
<1>3. Cardinality(in_hand(b)) <= Concurrency
  BY DEF BatchInv, Accounted, in_hand, Slots
<1> QED BY <1>1, <1>2, <1>3 DEF Answered, Unanswered, Records

\* A batch answers each of its requests, whatever became of them, runs no more
\* at a time than its semaphore lets through, and stays what it was executed as:
\* for any batches, sizes and concurrency.
THEOREM BatchesSafe == BmSpec => BatchesKept
<1>1. BmSpec => []BatchInv
  BY BatchInit, BatchStep, PTL DEF BmSpec
<1>2. BatchInv /\ [BmNext]_bmvars =>
        [\A b \in DOMAIN batches :
           batches[b].status \in {"completed", "failed"} => batches'[b] = batches[b]]_bmvars
  BY ExecutedStep
<1> QED BY <1>1, <1>2, BatchInvImplies, PTL DEF BmSpec, BatchesKept, ExecutedIsFinal

-----------------------------------------------------------------------------
(* The operator, the autoscaler and the health manager of a gateway.       *)

\* A finite set of natural numbers that is not empty has a greatest element: a
\* smallest set that had none would, without one of its elements, have one.
LEMMA GreatestOf ==
    ASSUME NEW T \in SUBSET Nat, IsFiniteSet(T), T # {}
    PROVE  \E i \in T : \A k \in T : i >= k
<1> DEFINE Bad(S) == S # {} /\ \A i \in S : \E k \in S : ~(i >= k)
           Sizes == {n \in Nat : \E S \in SUBSET T : Bad(S) /\ Cardinality(S) = n}
<1> SUFFICES ASSUME Bad(T) PROVE FALSE
  OBVIOUS
<1>1. Cardinality(T) \in Sizes
  BY FS_CardinalityType
<1>2. PICK n \in Sizes : \A m \in Sizes : n <= m
  BY <1>1, LeastOf, Sizes \subseteq Nat
<1>3. PICK S \in SUBSET T : Bad(S) /\ Cardinality(S) = n
  OBVIOUS
<1>4. PICK x \in S : TRUE
  BY <1>3
<1>5. IsFiniteSet(S) /\ IsFiniteSet(S \ {x}) /\ Cardinality(S \ {x}) = n - 1 /\ n - 1 \in Nat
  <2>1. IsFiniteSet(S) /\ Cardinality(S) = n /\ n \in Nat
    BY <1>3, FS_Subset
  <2>2. IsFiniteSet(S \ {x}) /\ Cardinality(S \ {x}) = n - 1
    BY <1>4, <2>1, FS_RemoveElement
  <2> QED BY <2>1, <2>2, FS_CardinalityType
<1>6. ~Bad(S \ {x})
  <2>1. n - 1 \notin Sizes
    BY <1>2, <1>5
  <2> QED BY <1>5, <2>1
<1>7. CASE S \ {x} = {}
  BY <1>3, <1>4, <1>7
<1>8. CASE S \ {x} # {}
  <2>1. PICK m \in S \ {x} : \A k \in S \ {x} : m >= k
    BY <1>6, <1>8
  <2>2. CASE m >= x
    BY <1>3, <2>1, <2>2
  <2>3. CASE x > m
    <3>1. \A k \in S : x >= k
      BY <2>1, <2>3
    <3> QED BY <1>3, <1>4, <3>1
  <2> QED BY <1>4, <2>1, <2>2, <2>3
<1> QED BY <1>7, <1>8

LEMMA MaxOf ==
    ASSUME NEW T \in SUBSET Nat, IsFiniteSet(T), T # {}
    PROVE  Max(T) \in T /\ \A k \in T : Max(T) >= k
  BY GreatestOf, Zenon DEF Max

-----------------------------------------------------------------------------
Autos == AutoSpecs \union {NoAutoscaling}
GatewayObjects == [generation : Nat, observed : Nat, spec : Nat, auto : Autos, replicas : Nat,
                   phase : {"Gone", "Running", "Failed"}]
Decisions == [of : Gateways, to : Nat, under : AutoSpecs,
              object : {"stored", "replaced", "dropped"}]

\* The status of a gateway that exists is of its last manifest.
InStep(gw) ==
    /\ gw.generation # 0 /\ gw.observed = gw.generation
    /\ gw.phase \in {"Running", "Failed"}

\* A decision is within the bounds it was taken under, and these are those of the
\* manifest in force as long as the object it was taken of is; and it is of a
\* gateway there is, unless that was dropped.
SoundDecision(e, gw) ==
    /\ e.to \in Allowed(e.under)
    /\ e.object # "dropped" => gw # Gone
    /\ e.object = "stored" => gw.auto = e.under

GatewayInv ==
    /\ gateway \in [Gateways -> GatewayObjects]
    /\ \A g \in Gateways : gateway[g] = Gone \/ InStep(gateway[g])
    /\ gwClock \in Nat
    /\ lastUp \in [Gateways -> Int] /\ lastDown \in [Gateways -> Int]
    /\ \A g \in Gateways : lastUp[g] \in -1..gwClock /\ lastDown[g] \in -1..gwClock
    /\ pods \in [Gateways -> PodSets \union {{}}]
    /\ decided \subseteq Decisions
    /\ \A e \in decided : SoundDecision(e, gateway[e.of])

\* A gateway that is written to and keeps its autoscaling keeps its decisions sound.
LEMMA WrittenKeeps ==
    ASSUME GatewayInv, NEW g \in Gateways, NEW gw \in GatewayObjects, InStep(gw),
           gw.auto = gateway[g].auto,
           gateway' = [gateway EXCEPT ![g] = gw],
           UNCHANGED <<pods, lastUp, lastDown, gwClock>>, decided' \subseteq decided
    PROVE  GatewayInv'
<1>1. /\ gateway' \in [Gateways -> GatewayObjects] /\ gateway'[g] = gw
      /\ \A h \in Gateways \ {g} : gateway'[h] = gateway[h]
  BY DEF GatewayInv
<1>2. gw # Gone
  BY DEF InStep, Gone
<1>3. ASSUME NEW e \in decided' PROVE SoundDecision(e, gateway'[e.of])
  <2>1. e \in decided /\ e.of \in Gateways /\ SoundDecision(e, gateway[e.of])
    BY DEF GatewayInv, Decisions
  <2> QED BY <1>1, <1>2, <2>1 DEF SoundDecision
<1> QED BY <1>1, <1>3 DEF GatewayInv

\* One that is replaced or deleted leaves its decisions behind.
LEMMA ReplacedKeeps ==
    ASSUME GatewayInv, NEW g \in Gateways, NEW gw \in GatewayObjects,
           gateway' = [gateway EXCEPT ![g] = gw],
           UNCHANGED <<pods, lastUp, lastDown, gwClock>>,
           NEW way, decided' = left_behind(g, way),
           \/ way = "replaced" /\ InStep(gw)
           \/ way = "dropped" /\ gw = Gone
    PROVE  GatewayInv'
<1>1. /\ gateway' \in [Gateways -> GatewayObjects] /\ gateway'[g] = gw
      /\ \A h \in Gateways \ {g} : gateway'[h] = gateway[h]
  BY DEF GatewayInv
<1>2. ASSUME NEW e \in decided' PROVE e \in Decisions /\ SoundDecision(e, gateway'[e.of])
  <2>1. PICK d \in decided :
          e = IF d.of = g /\ d.object # "dropped" THEN [d EXCEPT !.object = way] ELSE d
    BY DEF left_behind
  <2>2. d \in Decisions /\ SoundDecision(d, gateway[d.of])
    BY DEF GatewayInv
  <2>3. CASE d.of = g /\ d.object # "dropped"
    <3>1. e \in Decisions /\ e.object = way /\ e.to = d.to /\ e.under = d.under
      BY <2>1, <2>2, <2>3 DEF Decisions
    <3>2. e.of = g /\ (way # "dropped" => gw # Gone)
      BY <2>1, <2>2, <2>3 DEF Decisions, InStep, Gone
    <3> QED BY <1>1, <2>2, <3>1, <3>2 DEF SoundDecision
  <2>4. CASE ~(d.of = g /\ d.object # "dropped")
    <3>1. e = d
      BY <2>1, <2>4
    <3>2. CASE d.of = g
      BY <2>2, <2>4, <3>1, <3>2 DEF SoundDecision
    <3>3. CASE d.of # g
      BY <1>1, <2>2, <3>1, <3>3 DEF Decisions
    <3> QED BY <3>2, <3>3
  <2> QED BY <2>3, <2>4
<1> QED BY <1>1, <1>2 DEF GatewayInv

LEMMA ApplyGatewayKeeps ==
    ASSUME GatewayInv, NEW g \in Gateways, ApplyGateway(g)
    PROVE  GatewayInv'
<1>0. PICK m \in Manifests :
        LET asked == [gateway[g] EXCEPT !.spec = m.replicas, !.auto = m.auto, !.generation = @ + 1]
        IN  gateway' = [gateway EXCEPT ![g] = Reconciled(asked)]
  BY DEF ApplyGateway
<1>1. PICK asked :
        /\ asked = [gateway[g] EXCEPT !.spec = m.replicas, !.auto = m.auto, !.generation = @ + 1]
        /\ gateway' = [gateway EXCEPT ![g] = Reconciled(asked)]
  BY <1>0
<1>2. PICK old, next, n, a :
        /\ old = gateway[g] /\ next = old.generation + 1 /\ n = m.replicas /\ a = m.auto
        /\ asked = [old EXCEPT !.spec = n, !.auto = a, !.generation = next]
  BY <1>1
<1>3. PICK gw : gw = Reconciled(asked)
  OBVIOUS
<1>4. old \in GatewayObjects /\ n \in Nat /\ a \in Autos /\ next \in Nat \ {0}
  BY <1>2, GwAssumption DEF GatewayInv, GatewayObjects, Autos
<1>5. /\ asked \in GatewayObjects /\ asked.spec = n
      /\ asked.generation = next
  BY <1>2, <1>4 DEF GatewayObjects
<1>6. /\ gw \in GatewayObjects /\ gw.phase = "Running"
      /\ gw.generation = asked.generation /\ gw.observed = gw.generation
  BY <1>3, <1>5 DEF Reconciled, GatewayObjects
<1>7. InStep(gw)
  BY <1>4, <1>5, <1>6 DEF InStep, GatewayObjects
<1>8. gateway' = [gateway EXCEPT ![g] = gw]
  BY <1>1, <1>2, <1>3
<1>9. decided' = left_behind(g, "replaced")
  BY DEF ApplyGateway
<1> QED BY <1>6, <1>7, <1>8, <1>9, ReplacedKeeps DEF ApplyGateway

LEMMA ReconcileGatewayKeeps ==
    ASSUME GatewayInv, NEW g \in Gateways, ReconcileGateway(g)
    PROVE  GatewayInv'
<1>1. gateway[g] \in GatewayObjects /\ InStep(gateway[g])
  BY DEF GatewayInv, ReconcileGateway, Exists
<1>2. PICK gw : gw = Reconciled(gateway[g])
  OBVIOUS
<1>3. gw \in GatewayObjects /\ InStep(gw) /\ gw.auto = gateway[g].auto
  BY <1>1, <1>2 DEF Reconciled, GatewayObjects, InStep
<1>4. gateway' = [gateway EXCEPT ![g] = gw]
  BY <1>2 DEF ReconcileGateway, GatewayInv
<1> QED BY <1>3, <1>4, WrittenKeeps DEF ReconcileGateway

LEMMA DeleteGatewayKeeps ==
    ASSUME GatewayInv, NEW g \in Gateways, DeleteGateway(g)
    PROVE  GatewayInv'
<1>1. Gone \in GatewayObjects
  BY DEF Gone, GatewayObjects, Autos
<1>2. decided' = left_behind(g, "dropped")
  BY DEF DeleteGateway
<1> QED BY <1>1, <1>2, ReplacedKeeps DEF DeleteGateway

\* The autoscaler never decides on a count outside the bounds it is given.
LEMMA DesiredInBounds ==
    ASSUME NEW auto \in AutoSpecs, NEW count \in Nat, NEW load \in Loads
    PROVE  /\ clamp(auto, compute_desired(count, load)) \in Allowed(auto)
           /\ clamp(auto, compute_desired(count, load)) \in Nat
<1>1. load # {} => Max(load) \in Nat
  BY MaxOf, GwAssumption
<1>2. PICK n \in Int : n = compute_desired(count, load)
  BY <1>1 DEF compute_desired, ceil_percent
<1>3. PICK lo \in Nat, hi \in Nat : lo = auto.min /\ hi = auto.max
  BY DEF AutoSpecs
<1>4. at_least(at_most(n, hi), lo) \in {lo} \union lo..hi /\ at_least(at_most(n, hi), lo) \in Nat
  BY DEF at_least, at_most
<1> QED BY <1>2, <1>3, <1>4 DEF clamp, Allowed

\* What evaluating decides, for one direction.
LEMMA EvaluateFacts ==
    ASSUME GatewayInv, NEW g \in Gateways, Evaluate(g)
    PROVE  \E n \in Nat :
             /\ n \in Allowed(gateway[g].auto) /\ decided' = decided \union {Decision(g, n)}
             /\ \/ /\ lastUp' = [lastUp EXCEPT ![g] = gwClock] /\ UNCHANGED lastDown
                   /\ cooldown_ok(lastUp[g], gateway[g].auto.up)
                \/ /\ lastDown' = [lastDown EXCEPT ![g] = gwClock] /\ UNCHANGED lastUp
                   /\ cooldown_ok(lastDown[g], gateway[g].auto.down)
<1>1. PICK load, count, desired :
        /\ load \in Loads
        /\ count = IF gateway[g].replicas # 0 THEN gateway[g].replicas ELSE gateway[g].spec
        /\ desired = clamp(gateway[g].auto, compute_desired(count, load))
        /\ decided' = decided \union {Decision(g, desired)}
        /\ \/ /\ lastUp' = [lastUp EXCEPT ![g] = gwClock] /\ UNCHANGED lastDown
              /\ cooldown_ok(lastUp[g], gateway[g].auto.up)
           \/ /\ lastDown' = [lastDown EXCEPT ![g] = gwClock] /\ UNCHANGED lastUp
              /\ cooldown_ok(lastDown[g], gateway[g].auto.down)
  BY DEF Evaluate
<1>2. count \in Nat /\ gateway[g].auto \in AutoSpecs
  BY <1>1 DEF GatewayInv, GatewayObjects, Evaluate, Autos
<1>3. desired \in Allowed(gateway[g].auto) /\ desired \in Nat
  BY <1>1, <1>2, DesiredInBounds
<1> QED BY <1>1, <1>3

LEMMA EvaluateKeeps ==
    ASSUME GatewayInv, NEW g \in Gateways, Evaluate(g)
    PROVE  GatewayInv'
<1>1. PICK n \in Nat :
             /\ n \in Allowed(gateway[g].auto) /\ decided' = decided \union {Decision(g, n)}
             /\ \/ lastUp' = [lastUp EXCEPT ![g] = gwClock] /\ UNCHANGED lastDown
                \/ lastDown' = [lastDown EXCEPT ![g] = gwClock] /\ UNCHANGED lastUp
  BY EvaluateFacts
<1>2. UNCHANGED <<gateway, pods, gwClock>> /\ gateway[g] # Gone /\ gateway[g].auto \in AutoSpecs
  BY DEF Evaluate, Exists, GatewayInv, GatewayObjects, Autos
<1>3. Decision(g, n) \in Decisions /\ SoundDecision(Decision(g, n), gateway[Decision(g, n).of])
  BY <1>1, <1>2 DEF Decision, Decisions, SoundDecision
<1>4. decided' \subseteq Decisions /\ \A e \in decided' : SoundDecision(e, gateway'[e.of])
  BY <1>1, <1>2, <1>3 DEF GatewayInv
<1>5. /\ lastUp' \in [Gateways -> Int] /\ lastDown' \in [Gateways -> Int]
      /\ \A h \in Gateways : lastUp'[h] \in -1..gwClock /\ lastDown'[h] \in -1..gwClock
  BY <1>1 DEF GatewayInv
<1> QED BY <1>2, <1>4, <1>5 DEF GatewayInv

LEMMA ApplyScalingKeeps ==
    ASSUME GatewayInv, NEW e \in decided, ApplyScaling(e)
    PROVE  GatewayInv'
<1>1. /\ gateway' = [gateway EXCEPT ![e.of].spec = e.to, ![e.of].replicas = e.to]
      /\ decided' \subseteq decided /\ gateway[e.of] # Gone
      /\ UNCHANGED <<pods, lastUp, lastDown, gwClock>>
  BY DEF ApplyScaling, Exists
<1>2. PICK g \in Gateways, n \in Nat : g = e.of /\ n = e.to
  BY DEF GatewayInv, Decisions
<1>3. gateway[g] \in GatewayObjects /\ InStep(gateway[g])
  BY <1>1, <1>2 DEF GatewayInv
<1>4. PICK gw : gw = [gateway[g] EXCEPT !.spec = n, !.replicas = n]
  OBVIOUS
<1>5. gw \in GatewayObjects /\ InStep(gw) /\ gw.auto = gateway[g].auto
  BY <1>3, <1>4 DEF GatewayObjects, InStep
<1>6. gateway' = [gateway EXCEPT ![g] = gw]
  BY <1>1, <1>2, <1>4 DEF GatewayInv
<1> QED BY <1>1, <1>5, <1>6, WrittenKeeps

LEMMA ApplyToEvaluatedKeeps ==
    ASSUME GatewayInv, NEW e \in decided, ApplyToEvaluated(e)
    PROVE  GatewayInv'
<1>1. PICK g \in Gateways, n \in Nat : g = e.of /\ n = e.to
  BY DEF GatewayInv, Decisions
<1>2. decided' \subseteq decided /\ UNCHANGED <<pods, lastUp, lastDown, gwClock>>
  BY DEF ApplyToEvaluated
<1>3. CASE UNCHANGED gateway
  BY <1>2, <1>3 DEF GatewayInv
<1>4. CASE gateway' = [gateway EXCEPT ![g].replicas = n] /\ gateway[g] # Gone
  <2>1. gateway[g] \in GatewayObjects /\ InStep(gateway[g])
    BY <1>4 DEF GatewayInv
  <2>2. PICK gw : gw = [gateway[g] EXCEPT !.replicas = n]
    OBVIOUS
  <2>3. gw \in GatewayObjects /\ InStep(gw) /\ gw.auto = gateway[g].auto
    BY <2>1, <2>2 DEF GatewayObjects, InStep
  <2>4. gateway' = [gateway EXCEPT ![g] = gw]
    BY <1>4, <2>2 DEF GatewayInv
  <2> QED BY <1>2, <2>3, <2>4, WrittenKeeps
<1>5. CASE e.object = "replaced"
  <2>1. e.object # "dropped" /\ SoundDecision(e, gateway[e.of])
    BY <1>5 DEF GatewayInv
  <2>2. gateway[g] # Gone
    BY <1>1, <2>1 DEF SoundDecision
  <2> QED BY <1>1, <1>4, <1>5, <2>2 DEF ApplyToEvaluated
<1>6. CASE e.object # "replaced"
  BY <1>3, <1>6 DEF ApplyToEvaluated
<1> QED BY <1>5, <1>6

LEMMA CheckAndRemediateKeeps ==
    ASSUME GatewayInv, NEW g \in Gateways, CheckAndRemediate(g)
    PROVE  GatewayInv'
<1>1. gateway[g] \in GatewayObjects /\ InStep(gateway[g])
  BY DEF GatewayInv, CheckAndRemediate, Exists
<1>2. PICK phase \in {"Running", "Failed"} :
        gateway' = [gateway EXCEPT ![g].phase = phase]
  BY <1>1 DEF CheckAndRemediate, InStep, GatewayInv
<1>3. PICK gw : gw = [gateway[g] EXCEPT !.phase = phase]
  OBVIOUS
<1>4. gw \in GatewayObjects /\ InStep(gw) /\ gw.auto = gateway[g].auto
  BY <1>1, <1>3 DEF GatewayObjects, InStep
<1>5. gateway' = [gateway EXCEPT ![g] = gw]
  BY <1>2, <1>3 DEF GatewayInv
<1> QED BY <1>4, <1>5, WrittenKeeps DEF CheckAndRemediate

LEMMA GatewayStep == GatewayInv /\ [GwNext]_gwVars => GatewayInv'
<1> SUFFICES ASSUME GatewayInv, [GwNext]_gwVars PROVE GatewayInv'
  OBVIOUS
<1>1. ASSUME NEW g \in Gateways, ReportPodHealth(g) PROVE GatewayInv'
  BY <1>1 DEF ReportPodHealth, GatewayInv
<1>2. CASE GwTick
  BY <1>2 DEF GwTick, GatewayInv
<1>3. CASE UNCHANGED gwVars
  BY <1>3 DEF gwVars, GatewayInv
<1> QED BY <1>1, <1>2, <1>3, ApplyGatewayKeeps, ReconcileGatewayKeeps, DeleteGatewayKeeps,
           EvaluateKeeps, ApplyScalingKeeps, ApplyToEvaluatedKeeps, CheckAndRemediateKeeps DEF GwNext

LEMMA GatewayInit == GwInit => GatewayInv
  BY DEF GwInit, GatewayInv, Gone, GatewayObjects, NeverScaled, Autos

LEMMA GatewayInvImplies ==
    ASSUME GatewayInv
    PROVE  /\ \A g \in Gateways : gateway[g].observed = gateway[g].generation
           /\ \A e \in decided : e.to \in Allowed(e.under)
           /\ GwTypeOK
<1>1. \A g \in Gateways : gateway[g].observed = gateway[g].generation
  BY DEF GatewayInv, Gone, InStep
<1>2. \A e \in decided : e.to \in Allowed(e.under)
  BY DEF GatewayInv, SoundDecision
<1>3. \A e \in decided : e.of \in Gateways /\ e.to \in Nat
  BY DEF GatewayInv, Decisions
<1>4. GwTypeOK
  BY <1>3 DEF GatewayInv, GwTypeOK, InStep, GatewayObjects
<1> QED BY <1>1, <1>2, <1>4

\* The autoscaler decides to grow, or to shrink, a gateway only when the
\* cooldown of its last such decision has passed.
LEMMA CooldownStep ==
    ASSUME GatewayInv, [GwNext]_gwVars, NEW g \in Gateways
    PROVE  /\ lastUp'[g] # lastUp[g] /\ lastUp[g] # NeverScaled
                => lastUp'[g] - lastUp[g] >= gateway[g].auto.up
           /\ lastDown'[g] # lastDown[g] /\ lastDown[g] # NeverScaled
                => lastDown'[g] - lastDown[g] >= gateway[g].auto.down
<1>1. ASSUME NEW h \in Gateways, Evaluate(h)
      PROVE  \/ /\ lastUp' = [lastUp EXCEPT ![h] = gwClock]
                /\ cooldown_ok(lastUp[h], gateway[h].auto.up) /\ UNCHANGED lastDown
             \/ /\ lastDown' = [lastDown EXCEPT ![h] = gwClock]
                /\ cooldown_ok(lastDown[h], gateway[h].auto.down) /\ UNCHANGED lastUp
  BY <1>1, EvaluateFacts
<1>2. ASSUME NEW h \in Gateways, Evaluate(h)
      PROVE  /\ lastUp'[g] # lastUp[g] /\ lastUp[g] # NeverScaled
                  => lastUp'[g] - lastUp[g] >= gateway[g].auto.up
             /\ lastDown'[g] # lastDown[g] /\ lastDown[g] # NeverScaled
                  => lastDown'[g] - lastDown[g] >= gateway[g].auto.down
  BY <1>1, <1>2 DEF GatewayInv, cooldown_ok
<1>3. ASSUME NEW h \in Gateways, ApplyGateway(h) \/ ReconcileGateway(h) \/ DeleteGateway(h)
                                   \/ ReportPodHealth(h) \/ CheckAndRemediate(h)
      PROVE  UNCHANGED <<lastUp, lastDown>>
  BY <1>3 DEF ApplyGateway, ReconcileGateway, DeleteGateway, ReportPodHealth, CheckAndRemediate
<1>4. ASSUME NEW e \in decided, ApplyScaling(e) \/ ApplyToEvaluated(e)
      PROVE  UNCHANGED <<lastUp, lastDown>>
  BY <1>4 DEF ApplyScaling, ApplyToEvaluated
<1>5. GwTick \/ UNCHANGED gwVars => UNCHANGED <<lastUp, lastDown>>
  BY DEF GwTick, gwVars
<1> QED BY <1>2, <1>3, <1>4, <1>5 DEF GwNext

\* Spec and status of a gateway part, and its bounds are left, by a decision about an
\* object that is held no more; the bounds also by a manifest.
LEMMA ScalingStep ==
    ASSUME GatewayInv, [GwNext]_gwVars, NEW g \in Gateways
    PROVE  /\ gateway[g].replicas = gateway[g].spec /\ gateway'[g].replicas # gateway'[g].spec
                => \E e \in decided \ decided' : e.of = g /\ e.object = "replaced"
           /\ WithinBounds(gateway[g]) /\ ~WithinBounds(gateway'[g])
                => \/ gateway'[g].generation # gateway[g].generation
                   \/ \E e \in decided \ decided' : e.of = g /\ e.object # "stored"
<1> DEFINE old == gateway[g]
           new == gateway'[g]
           Together == old.replicas = old.spec => new.replicas = new.spec
           Inside == WithinBounds(old) => WithinBounds(new)
<1>0. gateway \in [Gateways -> GatewayObjects] /\ old \in GatewayObjects
  BY DEF GatewayInv
<1>1. ASSUME UNCHANGED gateway PROVE Together /\ Inside
  BY <1>1
<1>2. ASSUME NEW h \in Gateways, Evaluate(h) \/ ReportPodHealth(h) PROVE UNCHANGED gateway
  BY <1>2 DEF Evaluate, ReportPodHealth
<1>3. GwTick \/ UNCHANGED gwVars => UNCHANGED gateway
  BY DEF GwTick, gwVars
<1>4. ASSUME NEW h \in Gateways, ApplyGateway(h)
      PROVE  Together /\ (Inside \/ new.generation # old.generation)
  <2>1. PICK m \in Manifests :
          gateway' = [gateway EXCEPT ![h] = Reconciled([gateway[h] EXCEPT
                        !.spec = m.replicas, !.auto = m.auto, !.generation = @ + 1])]
    BY <1>4 DEF ApplyGateway
  <2>2. CASE h # g
    BY <1>0, <2>1, <2>2
  <2>3. CASE h = g
    <3>1. PICK asked : asked = [old EXCEPT !.spec = m.replicas, !.auto = m.auto,
                                           !.generation = @ + 1]
      OBVIOUS
    <3>2. new = Reconciled(asked)
      BY <1>0, <2>1, <2>3, <3>1
    <3>3. asked.generation = old.generation + 1
      BY <1>0, <3>1 DEF GatewayObjects
    <3>4. new.replicas = asked.spec /\ new.spec = asked.spec /\ new.generation = asked.generation
      BY <1>0, <3>1, <3>2 DEF Reconciled, GatewayObjects
    <3>5. old.generation \in Nat
      BY <1>0 DEF GatewayObjects
    <3> QED BY <3>3, <3>4, <3>5
  <2> QED BY <2>2, <2>3
<1>5. ASSUME NEW h \in Gateways, ReconcileGateway(h) PROVE Together /\ Inside
  <2>1. gateway' = [gateway EXCEPT ![h] = Reconciled(gateway[h])]
    BY <1>5, <1>0 DEF ReconcileGateway
  <2>2. CASE h # g
    BY <1>0, <2>1, <2>2
  <2>3. CASE h = g
    <3>1. new = Reconciled(old)
      BY <1>0, <2>1, <2>3
    <3>2. new.replicas = old.spec /\ new.spec = old.spec /\ new.auto = old.auto
      BY <1>0, <3>1 DEF Reconciled, GatewayObjects
    <3> QED BY <3>2 DEF WithinBounds
  <2> QED BY <2>2, <2>3
<1>6. ASSUME NEW h \in Gateways, DeleteGateway(h) PROVE Together /\ Inside
  <2>1. gateway' = [gateway EXCEPT ![h] = Gone]
    BY <1>6 DEF DeleteGateway
  <2>2. CASE h # g
    BY <1>0, <2>1, <2>2
  <2>3. CASE h = g
    BY <1>0, <2>1, <2>3 DEF Gone, WithinBounds
  <2> QED BY <2>2, <2>3
<1>7. ASSUME NEW h \in Gateways, CheckAndRemediate(h) PROVE Together /\ Inside
  <2>1. PICK p : gateway' = [gateway EXCEPT ![h].phase = p]
    BY <1>7, <1>0 DEF CheckAndRemediate
  <2>2. new.replicas = old.replicas /\ new.spec = old.spec /\ new.auto = old.auto
    BY <1>0, <2>1 DEF GatewayObjects
  <2> QED BY <2>2 DEF WithinBounds
<1>8. ASSUME NEW e \in decided, ApplyScaling(e)
      PROVE  Together /\ (Inside \/ \E d \in decided \ decided' : d.of = g /\ d.object # "stored")
  <2>1. /\ gateway' = [gateway EXCEPT ![e.of].spec = e.to, ![e.of].replicas = e.to]
        /\ decided' = decided \ {e}
    BY <1>8 DEF ApplyScaling
  <2>2. SoundDecision(e, gateway[e.of])
    BY DEF GatewayInv
  <2>3. CASE e.of # g
    BY <1>0, <2>1, <2>3
  <2>4. CASE e.of = g
    <3>1. new.replicas = e.to /\ new.spec = e.to /\ new.auto = old.auto
      BY <1>0, <2>1, <2>4 DEF GatewayObjects
    <3>2. CASE e.object = "stored"
      BY <2>2, <2>4, <3>1, <3>2 DEF SoundDecision, WithinBounds
    <3>3. CASE e.object # "stored"
      BY <2>1, <2>4, <3>1, <3>3
    <3> QED BY <3>2, <3>3
  <2> QED BY <2>3, <2>4
<1>9. ASSUME NEW e \in decided, ApplyToEvaluated(e)
      PROVE  /\ Together \/ \E d \in decided \ decided' : d.of = g /\ d.object = "replaced"
             /\ Inside
  <2>1. /\ gateway' = IF e.object = "replaced" THEN [gateway EXCEPT ![e.of].replicas = e.to]
                      ELSE gateway
        /\ decided' = decided \ {e}
    BY <1>9 DEF ApplyToEvaluated
  <2>2. CASE e.of # g \/ e.object # "replaced"
    BY <1>0, <2>1, <2>2
  <2>3. CASE e.of = g /\ e.object = "replaced"
    <3>1. new.spec = old.spec /\ new.auto = old.auto
      BY <1>0, <2>1, <2>3 DEF GatewayObjects
    <3> QED BY <2>1, <2>3, <3>1 DEF WithinBounds
  <2> QED BY <2>2, <2>3
<1> QED BY <1>1, <1>2, <1>3, <1>4, <1>5, <1>6, <1>7, <1>8, <1>9 DEF GwNext

LEMMA GatewaysSafe == GwSpec => StatusFollowsSpec /\ ScaledInBounds /\ CooldownsHonoured
<1>1. GwSpec => []GatewayInv
  BY GatewayInit, GatewayStep, PTL DEF GwSpec
<1>2. GatewayInv => /\ \A g \in Gateways : gateway[g].observed = gateway[g].generation
                    /\ \A e \in decided : e.to \in Allowed(e.under)
  BY GatewayInvImplies
<1>3. GatewayInv /\ [GwNext]_gwVars =>
        [\A g \in Gateways :
           gateway[g].replicas = gateway[g].spec /\ gateway'[g].replicas # gateway'[g].spec
             => \E e \in decided \ decided' : e.of = g /\ e.object = "replaced"]_gwVars
  BY ScalingStep
<1>4. GatewayInv /\ [GwNext]_gwVars =>
        [\A g \in Gateways :
           WithinBounds(gateway[g]) /\ ~WithinBounds(gateway'[g])
             => \/ gateway'[g].generation # gateway[g].generation
                \/ \E e \in decided \ decided' : e.of = g /\ e.object # "stored"]_gwVars
  BY ScalingStep
<1>5. GatewayInv /\ [GwNext]_gwVars =>
        [\A g \in Gateways :
           /\ lastUp'[g] # lastUp[g] /\ lastUp[g] # NeverScaled
                => lastUp'[g] - lastUp[g] >= gateway[g].auto.up
           /\ lastDown'[g] # lastDown[g] /\ lastDown[g] # NeverScaled
                => lastDown'[g] - lastDown[g] >= gateway[g].auto.down]_gwVars
  BY CooldownStep
<1>6. GwSpec => StatusFollowsSpec
  BY <1>1, <1>2, <1>3, PTL DEF GwSpec, StatusFollowsSpec
<1>7. GwSpec => ScaledInBounds
  BY <1>1, <1>2, <1>4, PTL DEF GwSpec, ScaledInBounds
<1>8. GwSpec => CooldownsHonoured
  BY <1>1, <1>5, PTL DEF GwSpec, CooldownsHonoured
<1> QED BY <1>6, <1>7, <1>8

-----------------------------------------------------------------------------

LEMMA ResourcesInit == OpInit => OpTypeOK
  BY DEF OpInit, OpTypeOK, NoModel, NoKey, NoTeam

LEMMA ResourcesStep == OpTypeOK /\ [OpNext]_opVars => OpTypeOK'
<1> SUFFICES ASSUME OpTypeOK, [OpNext]_opVars PROVE OpTypeOK'
  OBVIOUS
<1>1. ASSUME NEW m \in OpModels, ApplyModel(m) \/ DeleteModel(m) PROVE OpTypeOK'
  <2>1. CASE ApplyModel(m)
    <3>1. PICK on \in BOOLEAN : opModel' =
            [opModel EXCEPT ![m] = reconcile_model([@ EXCEPT !.held = TRUE, !.enabled = on])]
      BY <2>1 DEF ApplyModel
    <3>2. PICK old, asked :
            old = opModel[m] /\ asked = [old EXCEPT !.held = TRUE, !.enabled = on]
      OBVIOUS
    <3>3. asked \in [held : BOOLEAN, enabled : BOOLEAN, healthy : BOOLEAN]
      <4>1. old \in [held : BOOLEAN, enabled : BOOLEAN, healthy : BOOLEAN]
        BY <3>2 DEF OpTypeOK
      <4> QED BY <3>2, <4>1
    <3>4. reconcile_model(asked) \in [held : BOOLEAN, enabled : BOOLEAN, healthy : BOOLEAN]
      BY <3>3 DEF reconcile_model
    <3>5. opModel' = [opModel EXCEPT ![m] = reconcile_model(asked)]
      BY <3>1, <3>2, Zenon
    <3> QED BY <2>1, <3>4, <3>5 DEF ApplyModel, OpTypeOK
  <2>2. CASE DeleteModel(m)
    BY <2>2 DEF DeleteModel, OpTypeOK, NoModel
  <2> QED BY <1>1, <2>1, <2>2
<1>2. ASSUME NEW k \in OpKeys, ApplyKey(k) PROVE OpTypeOK'
  <2> DEFINE Keys == [held : BOOLEAN, enabled : BOOLEAN, active : BOOLEAN, team : SUBSET OpTeams]
  <2>1. PICK on \in BOOLEAN, ref \in {{}} \union {{t} : t \in OpTeams} : opKey' =
          [opKey EXCEPT ![k] = reconcile_key([@ EXCEPT !.held = TRUE, !.enabled = on, !.team = ref])]
    BY <1>2 DEF ApplyKey
  <2>2. PICK asked : asked = [opKey[k] EXCEPT !.held = TRUE, !.enabled = on, !.team = ref]
    OBVIOUS
  <2>3. ref \in SUBSET OpTeams
    OBVIOUS
  <2>4. asked \in Keys
    BY <2>2, <2>3, ZenonT(40) DEF OpTypeOK
  <2>5. reconcile_key(asked) \in Keys
    BY <2>4 DEF reconcile_key
  <2>6. opKey' = [opKey EXCEPT ![k] = reconcile_key(asked)]
    BY <2>1, <2>2, Zenon
  <2> QED BY <1>2, <2>5, <2>6 DEF ApplyKey, OpTypeOK
<1>3. ASSUME NEW k \in OpKeys, DeleteKey(k) PROVE OpTypeOK'
  BY <1>3 DEF DeleteKey, OpTypeOK, NoKey
<1>4. ASSUME NEW t \in OpTeams, ApplyTeam(t) PROVE OpTypeOK'
  BY <1>4 DEF ApplyTeam, OpTypeOK, reconcile_team, active_keys
<1>5. ASSUME NEW t \in OpTeams, DeleteTeam(t) PROVE OpTypeOK'
  BY <1>5 DEF DeleteTeam, OpTypeOK, NoTeam
<1>6. CASE EditSpec
  <2>1. ASSUME NEW m \in OpModels, opModel' = [opModel EXCEPT ![m].enabled = ~@],
               UNCHANGED <<opKey, opTeam>>
        PROVE  OpTypeOK'
    <3>1. (~opModel[m].enabled) \in BOOLEAN
      OBVIOUS
    <3>2. [opModel[m] EXCEPT !.enabled = ~@] \in [held : BOOLEAN, enabled : BOOLEAN, healthy : BOOLEAN]
      BY <3>1 DEF OpTypeOK
    <3> QED BY <2>1, <3>2 DEF OpTypeOK
  <2>2. ASSUME NEW k \in OpKeys, opKey' = [opKey EXCEPT ![k].enabled = ~@],
               UNCHANGED <<opModel, opTeam>>
        PROVE  OpTypeOK'
    <3>1. (~opKey[k].enabled) \in BOOLEAN
      OBVIOUS
    <3>2. [opKey[k] EXCEPT !.enabled = ~@] \in
            [held : BOOLEAN, enabled : BOOLEAN, active : BOOLEAN, team : SUBSET OpTeams]
      BY <3>1 DEF OpTypeOK
    <3> QED BY <2>2, <3>2 DEF OpTypeOK
  <2> QED BY <1>6, <2>1, <2>2 DEF EditSpec
<1>7. CASE ReconcileAll
  BY <1>7, ZenonT(40) DEF ReconcileAll, OpTypeOK, reconcile_model, reconcile_key, reconcile_team, active_keys
<1>8. CASE UNCHANGED opVars
  BY <1>8 DEF opVars, OpTypeOK
<1> QED BY <1>1, <1>2, <1>3, <1>4, <1>5, <1>6, <1>7, <1>8 DEF OpNext

\* After a full pass every status says what the specs say.
LEMMA PassConverges ==
    ASSUME OpTypeOK, ReconcileAll
    PROVE  /\ \A m \in OpModels : opModel'[m].healthy = opModel'[m].enabled
           /\ \A t \in OpTeams : opTeam'[t].held =>
                opTeam'[t].active = {k \in OpKeys : opKey'[k].enabled /\ t \in opKey'[k].team}
<1>1. \A m \in OpModels : opModel'[m].healthy = opModel'[m].enabled
  BY DEF OpTypeOK, ReconcileAll, reconcile_model
<1>2. \A k \in OpKeys : opKey'[k].active = opKey'[k].enabled
  BY DEF OpTypeOK, ReconcileAll, reconcile_key
<1>3. ASSUME NEW t \in OpTeams, opTeam'[t].held
      PROVE  opTeam'[t].active = active_keys(opKey', t)
  BY <1>3 DEF OpTypeOK, ReconcileAll, reconcile_team
<1>4. ASSUME NEW t \in OpTeams
      PROVE  active_keys(opKey', t) = {k \in OpKeys : opKey'[k].enabled /\ t \in opKey'[k].team}
  BY <1>2 DEF active_keys
<1> QED BY <1>1, <1>3, <1>4

LEMMA ResourcesSafe == OpSpec => []OpTypeOK /\ OnePassConverges
<1>1. OpSpec => []OpTypeOK
  BY ResourcesInit, ResourcesStep, PTL DEF OpSpec
<1>2. OpTypeOK /\ [OpNext]_opVars =>
        [ReconcileAll =>
           /\ \A m \in OpModels : opModel'[m].healthy = opModel'[m].enabled
           /\ \A t \in OpTeams : opTeam'[t].held =>
                opTeam'[t].active = {k \in OpKeys : opKey'[k].enabled /\ t \in opKey'[k].team}]_opVars
  BY PassConverges
<1> QED BY <1>1, <1>2, PTL DEF OpSpec, OnePassConverges

\* The operators end where the manifests point: for any gateways, manifests with any
\* bounds and cooldowns, loads, pods, models, keys and teams, and however late, and to
\* which object, a decision is applied.
THEOREM OperatorsSafe == GwSpec /\ OpSpec => OperatorsConverge
  BY GatewaysSafe, ResourcesSafe, PTL DEF OperatorsConverge

-----------------------------------------------------------------------------
(* The secrets of a configuration.                                         *)

\* The version v of the secret of a path is current, or was replaced no longer
\* than the time to live before the time t.
RecentAt(path, v, t) ==
    v = current(path) \/ superseded[path][v] >= t - ldTtl

GoodValue(x) == x.ref.kind = "secret" =>
    /\ x.ref.name \in Paths
    /\ x.version \in 1..current(x.ref.name) /\ x.at \in 0..ldNow
    /\ RecentAt(x.ref.name, x.version, x.at)

GoodEntry(p) ==
    /\ p \in Paths
    /\ secretCache[p].version \in 1..current(p)
    /\ secretCache[p].expires \in 0..(ldNow + ldTtl)
    /\ RecentAt(p, secretCache[p].version, secretCache[p].expires)

Torn(x, y) == /\ x.ref.kind = "secret" /\ y.ref.kind = "secret" /\ x.ref.name = y.ref.name
              /\ x.version # y.version /\ ldTtl # 0 /\ x.at = y.at

\* What was resolved at this moment is in the cache, as it was resolved.
Held(x) == (x.ref.kind = "secret" /\ x.at = ldNow /\ ldTtl # 0) =>
    /\ fresh(x.ref.name) /\ secretCache[x.ref.name].version = x.version

GoodGot(got) ==
    /\ got \in Seq(Range(got)) /\ Len(got) <= Len(Fields)
    /\ \A i \in 1..Len(got) : GoodValue(got[i]) /\ Held(got[i])
    /\ \A i, j \in 1..Len(got) : ~Torn(got[i], got[j])

GoodData(data) ==
    data # <<>> => \A f \in Range(Fields) : data[f].kind = "secret" => data[f].name \in Paths

SecretsInv ==
    /\ ldFile \in Files /\ ldTtl \in Nat /\ ldTtl \in Ttls /\ ldNow \in 0..LdMaxTime
    /\ superseded \in [Paths -> Seq(Nat)]
    /\ \A p \in DOMAIN secretCache : GoodEntry(p)
    /\ ldTtl = 0 => secretCache = <<>>
    /\ loading = [data |-> loading.data, got |-> loading.got]
    /\ GoodData(loading.data)
    /\ GoodGot(loading.got)
    /\ \A i \in DOMAIN loaded : GoodValue(loaded[i])
    /\ \A i, j \in DOMAIN loaded : ~Torn(loaded[i], loaded[j])

LEMMA EmptyGot == GoodGot(<<>>)
<1>1. Len(Fields) \in Nat
  BY LdAssumption
<1> QED BY <1>1 DEF GoodGot

LEMMA SecretsInit == LdInit => SecretsInv
<1> SUFFICES ASSUME LdInit PROVE SecretsInv
  OBVIOUS
<1>1. loading.got = <<>> /\ loading.data = <<>> /\ loaded = <<>> /\ secretCache = <<>>
  BY DEF LdInit, NoLoad, NoConfig
<1>2. GoodGot(loading.got)
  BY <1>1, EmptyGot
<1> QED BY <1>1, <1>2, LdAssumption DEF LdInit, SecretsInv, GoodData, NoLoad

\* The look-up of the secret of a path: what it returns, and what it leaves in
\* the cache.
LEMMA LookedUp ==
    ASSUME SecretsInv, NEW p \in Paths, secretCache' = stored(p, version_of(p)),
           UNCHANGED <<ldNow, ldTtl, superseded>>
    PROVE  /\ version_of(p) \in 1..current(p) /\ RecentAt(p, version_of(p), ldNow)
           /\ \A q \in DOMAIN secretCache' : GoodEntry(q)'
           /\ ldTtl = 0 => secretCache' = <<>>
           /\ ldTtl # 0 => fresh(p)' /\ secretCache'[p].version = version_of(p)
           /\ \A q : fresh(q) => fresh(q)' /\ secretCache'[q].version = secretCache[q].version
<1>1. /\ ldTtl \in Nat /\ ldNow \in Nat /\ Len(superseded[p]) \in Nat
      /\ current(p) \in Nat /\ current(p) >= 1
      /\ \A q \in DOMAIN secretCache : GoodEntry(q)
  BY LdAssumption DEF SecretsInv, current
<1>2. CASE fresh(p)
  <2>1. /\ p \in DOMAIN secretCache /\ ldNow <= secretCache[p].expires /\ GoodEntry(p)
        /\ version_of(p) = secretCache[p].version /\ secretCache' = secretCache
    BY <1>1, <1>2 DEF fresh, version_of, stored
  <2>2. RecentAt(p, version_of(p), ldNow)
    <3>1. CASE version_of(p) = current(p)
      BY <3>1 DEF RecentAt
    <3>2. CASE superseded[p][version_of(p)] >= secretCache[p].expires - ldTtl
      <4>1. version_of(p) # current(p) => superseded[p][version_of(p)] \in Nat
        BY <1>1, <2>1 DEF GoodEntry, SecretsInv, current
      <4>2. secretCache[p].expires \in Nat
        BY <1>1, <2>1 DEF GoodEntry
      <4> QED BY <1>1, <2>1, <3>2, <4>1, <4>2 DEF RecentAt
    <3> QED BY <2>1, <3>1, <3>2 DEF GoodEntry, RecentAt
  <2> QED BY <1>1, <1>2, <2>1, <2>2 DEF GoodEntry, fresh, SecretsInv, RecentAt, current
<1>3. CASE ~fresh(p)
  <2>1. version_of(p) = current(p)
    BY <1>3 DEF version_of
  <2>2. CASE ldTtl = 0
    <3>1. secretCache' = secretCache
      BY <2>2 DEF stored
    <3> QED BY <1>1, <2>1, <2>2, <3>1 DEF GoodEntry, fresh, SecretsInv, RecentAt, current
  <2>3. CASE ldTtl # 0
    <3>1. secretCache' = [q \in DOMAIN secretCache \cup {p} |->
            IF q = p THEN [version |-> current(p), expires |-> ldNow + ldTtl] ELSE secretCache[q]]
      BY <1>3, <2>1, <2>3 DEF stored
    <3>2. /\ DOMAIN secretCache' = DOMAIN secretCache \cup {p}
          /\ secretCache'[p].version = current(p) /\ secretCache'[p].expires = ldNow + ldTtl
          /\ \A q \in DOMAIN secretCache \ {p} : secretCache'[q] = secretCache[q]
      BY <3>1
    <3>3. GoodEntry(p)'
      BY <1>1, <3>2 DEF GoodEntry, RecentAt, current
    <3>4. \A q \in DOMAIN secretCache \ {p} : GoodEntry(q)'
      BY <1>1, <3>2 DEF GoodEntry, RecentAt, current
    <3>5. fresh(p)'
      BY <1>1, <3>2 DEF fresh
    <3>6. \A q : fresh(q) => fresh(q)' /\ secretCache'[q].version = secretCache[q].version
      BY <1>3, <3>2 DEF fresh
    <3> QED BY <1>1, <2>1, <2>3, <3>2, <3>3, <3>4, <3>5, <3>6 DEF RecentAt
  <2> QED BY <2>2, <2>3
<1> QED BY <1>2, <1>3

\* Values and what they hold in the cache survive a look-up.
LEMMA ValuesSurvive ==
    ASSUME UNCHANGED <<ldNow, ldTtl, superseded>>,
           \A q : fresh(q) => fresh(q)' /\ secretCache'[q].version = secretCache[q].version
    PROVE  /\ \A x : GoodValue(x) => GoodValue(x)'
           /\ \A x : Held(x) => Held(x)'
           /\ \A x, y : ~Torn(x, y) => ~Torn(x, y)'
  BY DEF GoodValue, RecentAt, current, Held, Torn

LEMMA StartLoadKeeps == ASSUME SecretsInv, StartLoad PROVE SecretsInv'
<1>1. PICK data : /\ data = _apply_env_overrides(ldFile.fields)
                  /\ loading' = [data |-> data, got |-> <<>>]
  BY DEF StartLoad
<1>2. \A f \in Range(Fields) : data[f].kind = "secret" => data[f].name \in Paths
  <2>1. DOMAIN ldFile.fields = Range(Fields)
    BY LdAssumption DEF SecretsInv
  <2>2. \A f \in Range(Fields) : data[f].kind = "literal" \/ data[f] = ldFile.fields[f]
    BY <1>1, <2>1 DEF _apply_env_overrides, Literal
  <2>3. \A f \in Range(Fields) : ldFile.fields[f] \in Range(ldFile.fields)
    BY <2>1 DEF Range
  <2> QED BY <2>2, <2>3, LdAssumption DEF SecretsInv
<1>3. GoodGot(<<>>)'
  BY LdAssumption DEF GoodGot
<1>4. GoodData(loading.data)' /\ GoodGot(loading.got)' /\ (loading = [data |-> loading.data, got |-> loading.got])'
  BY <1>1, <1>2, <1>3 DEF GoodData
<1> QED BY <1>4 DEF SecretsInv, StartLoad, GoodEntry, RecentAt, current, GoodValue, Torn

\* The value of the next field, appended to what was got.
LEMMA GotKeeps ==
    ASSUME SecretsInv, Left, NEW x,
           UNCHANGED <<ldNow, ldTtl, superseded>>,
           \A q : fresh(q) => fresh(q)' /\ secretCache'[q].version = secretCache[q].version,
           x.ref.kind = "secret" =>
             /\ x.ref.name \in Paths /\ x.at = ldNow
             /\ x.version \in 1..current(x.ref.name)
             /\ RecentAt(x.ref.name, x.version, ldNow)
             /\ fresh(x.ref.name) => x.version = secretCache[x.ref.name].version
             /\ ldTtl # 0 => fresh(x.ref.name)' /\ secretCache'[x.ref.name].version = x.version,
           NEW got, got = Append(loading.got, x)
    PROVE  GoodGot(got)'
<1> DEFINE old == loading.got
<1>1. /\ old \in Seq(Range(old)) /\ Len(old) < Len(Fields) /\ Len(old) \in Nat /\ Len(Fields) \in Nat
      /\ \A i \in 1..Len(old) : GoodValue(old[i]) /\ Held(old[i])
      /\ \A i, j \in 1..Len(old) : ~Torn(old[i], old[j])
  BY LdAssumption DEF SecretsInv, GoodGot, Left
<1> HIDE DEF old
<1>2. old \in Seq(Range(old) \cup {x})
  BY <1>1, SeqMonotonic
<1>3. /\ got \in Seq(Range(old) \cup {x}) /\ Len(got) = Len(old) + 1
      /\ \A i \in 1..Len(old) : got[i] = old[i]
      /\ got[Len(old) + 1] = x
  BY <1>2, AppendProperties DEF old
<1>4. got \in Seq(Range(got))
  BY <1>3, SeqOfRange
<1>5. GoodValue(x)' /\ Held(x)' /\ ~Torn(x, x)
  BY DEF GoodValue, Held, SecretsInv, RecentAt, current, Torn
<1>6. \A i \in 1..Len(old) : ~Torn(x, old[i]) /\ ~Torn(old[i], x)
  BY <1>1 DEF Held, Torn
<1>7. \A i \in 1..Len(got) : i \in 1..Len(old) \/ i = Len(old) + 1
  BY <1>1, <1>3
<1>8. \A i \in 1..Len(got) : GoodValue(got[i])' /\ Held(got[i])'
  BY <1>1, <1>3, <1>5, <1>7, ValuesSurvive
<1>9. \A i, j \in 1..Len(got) : ~Torn(got[i], got[j])'
  <2>1. \A i, j \in 1..Len(got) : ~Torn(got[i], got[j])
    BY <1>1, <1>3, <1>5, <1>6, <1>7
  <2> QED BY <2>1, ValuesSurvive
<1>10. Len(got) <= Len(Fields)
  BY <1>1, <1>3
<1> QED BY <1>4, <1>8, <1>9, <1>10 DEF GoodGot

LEMMA ResolveFieldKeeps == ASSUME SecretsInv, ResolveField PROVE SecretsInv'
<1>1. PICK ref, version, x :
        /\ ref = NextRef
        /\ version = IF ref.kind = "secret" THEN version_of(ref.name) ELSE 0
        /\ x = [ref |-> ref, version |-> version, at |-> ldNow]
        /\ loading' = [loading EXCEPT !.got = Append(@, x)]
        /\ secretCache' = IF ref.kind = "secret" THEN stored(ref.name, version) ELSE secretCache
        /\ Left /\ UNCHANGED <<ldFile, ldEnviron, ldTtl, ldNow, superseded, loaded>>
  BY DEF ResolveField
<1>2. ref.kind = "secret" => ref.name \in Paths
  <2>1. Len(loading.got) + 1 \in 1..Len(Fields)
    BY <1>1, LdAssumption DEF Left, SecretsInv, GoodGot
  <2>2. Fields[Len(loading.got) + 1] \in Range(Fields)
    BY <2>1, LdAssumption, RangeEquality
  <2> QED BY <1>1, <2>2 DEF NextRef, Left, Running, SecretsInv, GoodData
<1>3. /\ \A q \in DOMAIN secretCache' : GoodEntry(q)'
      /\ ldTtl = 0 => secretCache' = <<>>
      /\ \A q : fresh(q) => fresh(q)' /\ secretCache'[q].version = secretCache[q].version
      /\ ref.kind = "secret" =>
             /\ version \in 1..current(ref.name)
             /\ RecentAt(ref.name, version, ldNow)
             /\ fresh(ref.name) => version = secretCache[ref.name].version
             /\ ldTtl # 0 => fresh(ref.name)' /\ secretCache'[ref.name].version = version
  <2>1. CASE ref.kind = "secret"
    BY <1>1, <1>2, <2>1, LookedUp DEF version_of
  <2>2. CASE ref.kind # "secret"
    BY <1>1, <2>2 DEF SecretsInv, GoodEntry, RecentAt, current, fresh
  <2> QED BY <2>1, <2>2
<1>4. PICK got : got = Append(loading.got, x) /\ loading' = [data |-> loading.data, got |-> got]
  BY <1>1 DEF SecretsInv
<1>5. /\ x.ref = ref /\ x.version = version /\ x.at = ldNow
  BY <1>1
<1>6. GoodGot(got)'
  BY <1>1, <1>2, <1>3, <1>4, <1>5, GotKeeps
<1>7. /\ GoodGot(loading.got)' /\ GoodData(loading.data)'
      /\ (loading = [data |-> loading.data, got |-> loading.got])'
  BY <1>4, <1>6 DEF SecretsInv, GoodData
<1>8. /\ (\A i \in DOMAIN loaded : GoodValue(loaded[i]))'
      /\ (\A i, j \in DOMAIN loaded : ~Torn(loaded[i], loaded[j]))'
  BY <1>1, <1>3, ValuesSurvive DEF SecretsInv
<1> QED BY <1>1, <1>3, <1>7, <1>8 DEF SecretsInv

\* The load is given up: nothing of it stays.
LEMMA DroppedLoad ==
    ASSUME loading' = NoLoad
    PROVE  /\ GoodGot(loading.got)' /\ GoodData(loading.data)'
           /\ (loading = [data |-> loading.data, got |-> loading.got])'
<1>1. loading'.got = <<>> /\ loading'.data = <<>>
  BY DEF NoLoad
<1> QED BY <1>1, LdAssumption DEF NoLoad, GoodData, GoodGot

LEMMA SecretFailsKeeps == ASSUME SecretsInv, SecretFails PROVE SecretsInv'
<1>1. NextRef.name \in Paths
  <2>1. Len(loading.got) + 1 \in 1..Len(Fields)
    BY LdAssumption DEF SecretFails, Left, SecretsInv, GoodGot
  <2>2. Fields[Len(loading.got) + 1] \in Range(Fields)
    BY <2>1, LdAssumption, RangeEquality
  <2> QED BY <2>2 DEF SecretFails, NextRef, Left, Running, SecretsInv, GoodData
<1>2. /\ \A q \in DOMAIN secretCache' : GoodEntry(q)'
      /\ ldTtl = 0 => secretCache' = <<>>
      /\ \A q : fresh(q) => fresh(q)' /\ secretCache'[q].version = secretCache[q].version
  <2>1. CASE secretCache' = stored(NextRef.name, version_of(NextRef.name))
    BY <1>1, <2>1, LookedUp DEF SecretFails
  <2>2. CASE UNCHANGED secretCache
    BY <2>2 DEF SecretFails, SecretsInv, GoodEntry, RecentAt, current, fresh
  <2> QED BY <2>1, <2>2 DEF SecretFails
<1>3. /\ (\A i \in DOMAIN loaded : GoodValue(loaded[i]))'
      /\ (\A i, j \in DOMAIN loaded : ~Torn(loaded[i], loaded[j]))'
  BY <1>2, ValuesSurvive DEF SecretsInv, SecretFails
<1> QED BY <1>2, <1>3, DroppedLoad DEF SecretsInv, SecretFails

LEMMA FinishLoadKeeps == ASSUME SecretsInv, FinishLoad PROVE SecretsInv'
<1> DEFINE got == loading.got
<1>1. /\ got \in Seq(Range(got)) /\ DOMAIN got = 1..Len(got)
      /\ DOMAIN Fields = 1..Len(Fields) /\ Len(got) = Len(Fields)
      /\ \A i \in 1..Len(got) : GoodValue(got[i])
      /\ \A i, j \in 1..Len(got) : ~Torn(got[i], got[j])
  BY LdAssumption DEF SecretsInv, GoodGot, FinishLoad, Left
<1>2. loaded' = [i \in DOMAIN Fields |->
                   IF got[i].ref.kind = "env"
                   THEN [got[i] EXCEPT !.ref = Literal(ldEnviron[@.name])] ELSE got[i]]
  BY DEF FinishLoad
<1> HIDE DEF got
<1>3. /\ DOMAIN loaded' = 1..Len(got)
      /\ \A i \in 1..Len(got) : loaded'[i].ref.kind = "secret" => loaded'[i] = got[i]
  <2>1. ASSUME NEW i \in 1..Len(got), got[i].ref.kind # "env" PROVE loaded'[i] = got[i]
    BY <1>1, <1>2, <2>1
  <2>2. ASSUME NEW i \in 1..Len(got), got[i].ref.kind = "env", loaded'[i].ref.kind = "secret"
        PROVE  loaded'[i] = got[i]
    <3>1. PICK lit : loaded'[i] = [got[i] EXCEPT !.ref = Literal(lit)]
      BY <1>1, <1>2, <2>2
    <3> QED BY <2>2, <3>1 DEF Literal
  <2> QED BY <1>1, <1>2, <2>1, <2>2
<1>4. /\ \A i \in DOMAIN loaded' : GoodValue(loaded'[i])
      /\ \A i, j \in DOMAIN loaded' : ~Torn(loaded'[i], loaded'[j])
  BY <1>1, <1>3 DEF GoodValue, Torn
<1>5. UNCHANGED <<ldFile, ldTtl, ldNow, superseded, secretCache>>
  BY DEF FinishLoad
<1>6. /\ (\A i \in DOMAIN loaded : GoodValue(loaded[i]))'
      /\ (\A i, j \in DOMAIN loaded : ~Torn(loaded[i], loaded[j]))'
  BY <1>4, <1>5 DEF GoodValue, Torn, RecentAt, current
<1>7. \A q \in DOMAIN secretCache' : GoodEntry(q)'
  BY <1>5 DEF SecretsInv, GoodEntry, RecentAt, current
<1> QED BY <1>5, <1>6, <1>7, DroppedLoad DEF SecretsInv, FinishLoad

LEMMA RotateKeeps == ASSUME SecretsInv, NEW p \in Paths, Rotate(p) PROVE SecretsInv'
<1>1. /\ superseded' = [superseded EXCEPT ![p] = Append(superseded[p], ldNow)]
      /\ superseded[p] \in Seq(Nat) /\ ldNow \in Nat /\ ldTtl \in Nat
      /\ UNCHANGED <<ldFile, ldTtl, ldNow, secretCache, loading, loaded>>
  BY LdAssumption DEF SecretsInv, Rotate
<1>2. /\ Append(superseded[p], ldNow) \in Seq(Nat)
      /\ Len(Append(superseded[p], ldNow)) = Len(superseded[p]) + 1
      /\ \A i \in 1..Len(superseded[p]) : Append(superseded[p], ldNow)[i] = superseded[p][i]
      /\ Append(superseded[p], ldNow)[Len(superseded[p]) + 1] = ldNow
  BY <1>1, AppendProperties
<1>3. superseded' \in [Paths -> Seq(Nat)]
  BY <1>1, <1>2 DEF SecretsInv
<1>4. \A q \in Paths \ {p} : superseded'[q] = superseded[q]
  BY <1>1 DEF SecretsInv
<1>5. /\ current(p)' = current(p) + 1 /\ current(p) = Len(superseded[p]) + 1
      /\ current(p) \in Nat
      /\ superseded'[p][current(p)] = ldNow
      /\ \A v \in 1..(current(p) - 1) : superseded'[p][v] = superseded[p][v]
  BY <1>1, <1>2 DEF SecretsInv, current
<1>6. ASSUME NEW q \in Paths, NEW v \in 1..current(q), NEW t \in 0..(ldNow + ldTtl),
             RecentAt(q, v, t)
      PROVE  v \in 1..current(q)' /\ RecentAt(q, v, t)'
  <2>1. CASE q # p
    BY <1>1, <1>4, <1>6, <2>1 DEF RecentAt, current
  <2>2. CASE q = p /\ v = current(p)
    <3>1. superseded'[q][v] >= t - ldTtl
      BY <1>1, <1>5, <2>2
    <3> QED BY <1>1, <1>5, <2>2, <3>1 DEF RecentAt
  <2>3. CASE q = p /\ v # current(p)
    BY <1>1, <1>5, <1>6, <2>3 DEF RecentAt
  <2> QED BY <2>1, <2>2, <2>3
<1>7. \A x : GoodValue(x) => GoodValue(x)'
  BY <1>1, <1>6 DEF GoodValue
<1>8. \A x : Held(x) => Held(x)'
  BY <1>1 DEF Held, fresh
<1>9. \A x, y : ~Torn(x, y) => ~Torn(x, y)'
  BY <1>1 DEF Torn
<1>10. \A q \in DOMAIN secretCache' : GoodEntry(q)'
  BY <1>1, <1>6 DEF SecretsInv, GoodEntry
<1>11. GoodGot(loading.got)' /\ GoodData(loading.data)'
  BY <1>1, <1>7, <1>8, <1>9 DEF SecretsInv, GoodGot, GoodData
<1> QED BY <1>1, <1>3, <1>7, <1>9, <1>10, <1>11 DEF SecretsInv

LEMMA LdTickKeeps == ASSUME SecretsInv, LdTick PROVE SecretsInv'
<1>1. /\ ldNow' = ldNow + 1 /\ ldNow' \in 0..LdMaxTime /\ ldNow \in Nat /\ ldTtl \in Nat
      /\ UNCHANGED <<ldFile, ldTtl, superseded, secretCache, loading, loaded>>
  BY LdAssumption DEF SecretsInv, LdTick
<1>2. \A x : GoodValue(x) => GoodValue(x)' /\ Held(x)'
  BY <1>1 DEF GoodValue, Held, RecentAt, current
<1>3. \A x, y : ~Torn(x, y) => ~Torn(x, y)'
  BY <1>1 DEF Torn
<1>4. \A q \in DOMAIN secretCache' : GoodEntry(q)'
  BY <1>1 DEF SecretsInv, GoodEntry, RecentAt, current
<1>5. GoodGot(loading.got)' /\ GoodData(loading.data)'
  BY <1>1, <1>2, <1>3 DEF SecretsInv, GoodGot, GoodData
<1> QED BY <1>1, <1>2, <1>3, <1>4, <1>5 DEF SecretsInv

LEMMA SecretsStep == SecretsInv /\ [LdNext]_ldvars => SecretsInv'
<1> SUFFICES ASSUME SecretsInv, [LdNext]_ldvars PROVE SecretsInv'
  OBVIOUS
<1>1. CASE EnvFails
  BY <1>1, DroppedLoad DEF EnvFails, SecretsInv, GoodEntry, RecentAt, current, GoodValue, Torn
<1>2. ASSUME NEW f \in Files, EditFile(f) PROVE SecretsInv'
  BY <1>2, ZenonT(40) DEF EditFile, SecretsInv, GoodEntry, RecentAt, current, GoodValue, Torn, GoodData,
              GoodGot, Held, fresh
<1>3. CASE UNCHANGED ldvars
  BY <1>3, ZenonT(40) DEF ldvars, SecretsInv, GoodEntry, RecentAt, current, GoodValue, Torn, GoodData,
              GoodGot, Held, fresh
<1> QED BY <1>1, <1>2, <1>3, StartLoadKeeps, ResolveFieldKeeps, SecretFailsKeeps,
           FinishLoadKeeps, RotateKeeps, LdTickKeeps DEF LdNext

LEMMA SecretsInvImplies == SecretsInv => SecretsFromTheSource /\ LdTypeOK
<1> SUFFICES ASSUME SecretsInv PROVE SecretsFromTheSource /\ LdTypeOK
  OBVIOUS
<1>1. DOMAIN loading.got = 1..Len(loading.got)
  BY DEF SecretsInv, GoodGot
<1>2. \A x \in Values : GoodValue(x)
  BY <1>1 DEF SecretsInv, GoodGot, Values, Range
<1>3. SecretsFresh
  BY <1>2 DEF SecretsFresh, GoodValue, RecentAt
<1>4. \A values \in {loading.got, loaded} : \A i, j \in DOMAIN values : ~Torn(values[i], values[j])
  BY <1>1 DEF SecretsInv, GoodGot
<1>5. TornOnlyByTime
  BY <1>4 DEF TornOnlyByTime, Torn
<1>6. LdTypeOK
  BY DEF LdTypeOK, SecretsInv, GoodGot, GoodEntry
<1> QED BY <1>3, <1>5, <1>6 DEF SecretsFromTheSource

\* A secret in a configuration was replaced, if at all, within its time to live,
\* and two fields show different versions of one secret only if time passed
\* between them: for any file, environment, time to live and rotations.
THEOREM SecretsSafe == LdSpec => []SecretsFromTheSource
<1>1. LdSpec => []SecretsInv
  BY SecretsInit, SecretsStep, PTL DEF LdSpec
<1> QED BY <1>1, SecretsInvImplies, PTL
=============================================================================
