------------------------------ MODULE ToolsProofs -----------------------------
(***************************************************************************)
(* Proofs about the connections to tools, agents and plugins: for any       *)
(* callers, servers, agents and plugins, any names and lists of them, and   *)
(* whatever fails, times out, is cancelled or exits.                        *)
(***************************************************************************)
EXTENDS MCTools, SequenceTheorems, FiniteSetTheorems, TLAPS

-----------------------------------------------------------------------------
(* Sequences without doubles.                                              *)

\* What leaves a sequence without doubles is no longer in it, and the rest is.
LEMMA RemoveAtFacts ==
    ASSUME NEW S, NEW s \in Seq(S), IsInjective(s), NEW i \in 1..Len(s)
    PROVE  /\ RemoveAt(s, i) \in Seq(S) /\ Len(RemoveAt(s, i)) = Len(s) - 1
           /\ IsInjective(RemoveAt(s, i))
           /\ Range(RemoveAt(s, i)) = Range(s) \ {s[i]}
<1> DEFINE a == SubSeq(s, 1, i - 1)
           b == SubSeq(s, i + 1, Len(s))
           from(k) == IF k < i THEN k ELSE k + 1
<1>0. Len(s) \in Nat /\ i \in Nat /\ DOMAIN s = 1..Len(s)
  OBVIOUS
<1>1. /\ a \in Seq(S) /\ Len(a) = i - 1
      /\ \A k \in 1..(i - 1) : a[k] = s[k]
  BY SubSeqProperties
<1>2. /\ b \in Seq(S) /\ Len(b) = Len(s) - i
      /\ \A k \in 1..(Len(s) - i) : b[k] = s[k + i]
  BY SubSeqProperties
<1> HIDE DEF a, b
<1>3. PICK r : r = a \o b
  OBVIOUS
<1>4. /\ r \in Seq(S) /\ Len(r) = Len(a) + Len(b)
      /\ \A k \in 1..(Len(a) + Len(b)) : r[k] = IF k <= Len(a) THEN a[k] ELSE b[k - Len(a)]
  BY <1>1, <1>2, <1>3, ConcatProperties
<1>5. Len(r) = Len(s) - 1 /\ DOMAIN r = 1..(Len(s) - 1)
  BY <1>0, <1>1, <1>2, <1>4
<1>6. ASSUME NEW k \in 1..(Len(s) - 1) PROVE from(k) \in 1..Len(s) /\ from(k) # i /\ r[k] = s[from(k)]
  <2>1. CASE k < i
    <3>1. k \in 1..(i - 1) /\ k <= Len(a) /\ k \in 1..(Len(a) + Len(b)) /\ k \in 1..Len(s)
      BY <1>0, <1>1, <1>2, <2>1
    <3>2. r[k] = a[k] /\ a[k] = s[k]
      BY <1>1, <1>4, <3>1
    <3> QED BY <1>0, <2>1, <3>1, <3>2
  <2>2. CASE ~(k < i)
    <3>1. k - (i - 1) \in 1..(Len(s) - i) /\ (k - (i - 1)) + i = k + 1 /\ k + 1 \in 1..Len(s)
      BY <1>0, <2>2
    <3>2. b[k - (i - 1)] = s[k + 1]
      BY <1>2, <3>1
    <3>3. r[k] = b[k - (i - 1)]
      <4>1. k \in 1..(Len(a) + Len(b)) /\ ~(k <= Len(a))
        BY <1>0, <1>1, <1>2, <2>2
      <4> QED BY <1>1, <1>4, <4>1
    <3> QED BY <1>0, <2>2, <3>1, <3>2, <3>3
  <2> QED BY <2>1, <2>2
<1>7. \A m \in 1..Len(s) : m # i => \E k \in 1..(Len(s) - 1) : from(k) = m
  <2> TAKE m \in 1..Len(s)
  <2>1. m < i => m \in 1..(Len(s) - 1) /\ from(m) = m
    BY <1>0
  <2>2. m > i => m - 1 \in 1..(Len(s) - 1) /\ from(m - 1) = m
    BY <1>0
  <2> QED BY <1>0, <2>1, <2>2
<1>8. \A k, m \in 1..(Len(s) - 1) : from(k) = from(m) => k = m
  BY <1>0
<1> HIDE DEF from
<1>9. \A m \in 1..Len(s) : s[m] = s[i] => m = i
  BY <1>0 DEF IsInjective
<1>10. IsInjective(r)
  BY <1>0, <1>5, <1>6, <1>8 DEF IsInjective
<1>11. Range(r) = Range(s) \ {s[i]}
  <2>1. \A k \in DOMAIN r : r[k] \in Range(s) \ {s[i]}
    BY <1>0, <1>5, <1>6, <1>9 DEF Range
  <2>2. \A m \in 1..Len(s) : m # i => \E k \in DOMAIN r : r[k] = s[m]
    BY <1>5, <1>6, <1>7
  <2> QED BY <1>0, <2>1, <2>2 DEF Range
<1> QED BY <1>3, <1>4, <1>5, <1>10, <1>11 DEF RemoveAt, a, b

-----------------------------------------------------------------------------
\* The tasks that are woken wait in the queue, and there is a slot for each.
\* A sequence without doubles after one more element.
LEMMA AppendFacts ==
    ASSUME NEW S, NEW s \in Seq(S), NEW e \in S
    PROVE  /\ Append(s, e) \in Seq(S) /\ Append(s, e) # <<>> /\ Last(Append(s, e)) = e
           /\ Range(Append(s, e)) = Range(s) \cup {e}
           /\ IsInjective(s) /\ e \notin Range(s) => IsInjective(Append(s, e))
<1>1. PICK n \in Nat, r \in Seq(S) :
        /\ n = Len(s) /\ r = Append(s, e) /\ r # <<>> /\ Len(r) = n + 1
        /\ \A i \in 1..n : r[i] = s[i]
        /\ r[n + 1] = e
  <2>1. /\ Append(s, e) \in Seq(S) /\ Append(s, e) # <<>> /\ Len(Append(s, e)) = Len(s) + 1
        /\ \A i \in 1..Len(s) : Append(s, e)[i] = s[i]
        /\ Append(s, e)[Len(s) + 1] = e
    BY AppendProperties
  <2>2. PICK n \in Nat, r \in Seq(S) : n = Len(s) /\ r = Append(s, e)
    BY <2>1, LenProperties
  <2>3. /\ r # <<>> /\ Len(r) = n + 1 /\ \A i \in 1..n : r[i] = s[i]
        /\ r[n + 1] = e
    BY <2>1, <2>2
  <2> QED BY <2>2, <2>3
<1>2. DOMAIN s = 1..n /\ DOMAIN r = 1..(n + 1) /\ n + 1 \in 1..(n + 1) /\ \A i \in 1..(n + 1) : i \in 1..n \/ i = n + 1
  BY <1>1, LenProperties
<1>3. Last(r) = e
  BY <1>1 DEF Last
<1>4. Range(r) = Range(s) \cup {e}
  <2>1. \A i \in DOMAIN r : r[i] \in Range(s) \cup {e}
    BY <1>1, <1>2 DEF Range
  <2>2. \A i \in DOMAIN s : i \in DOMAIN r /\ r[i] = s[i]
    BY <1>1, <1>2
  <2>3. n + 1 \in DOMAIN r /\ r[n + 1] = e
    BY <1>1, <1>2
  <2> QED BY <2>1, <2>2, <2>3 DEF Range
<1>5. ASSUME IsInjective(s), e \notin Range(s) PROVE IsInjective(r)
  <2> SUFFICES ASSUME NEW i \in DOMAIN r, NEW k \in DOMAIN r, r[i] = r[k] PROVE i = k
    BY DEF IsInjective
  <2>1. \A j \in DOMAIN s : r[j] # e
    BY <1>1, <1>2, <1>5 DEF Range
  <2>2. i \in DOMAIN s <=> k \in DOMAIN s
    BY <1>1, <1>2, <2>1
  <2>3. CASE i \in DOMAIN s
    BY <1>1, <1>2, <1>5, <2>2, <2>3 DEF IsInjective
  <2>4. CASE i \notin DOMAIN s
    BY <1>2, <2>2, <2>4
  <2> QED BY <2>3, <2>4
<1> QED BY <1>1, <1>3, <1>4, <1>5

\* A sequence without doubles without its first element.
LEMMA TailFacts ==
    ASSUME NEW S, NEW s \in Seq(S), s # <<>>
    PROVE  /\ Tail(s) \in Seq(S) /\ Head(s) \in S /\ Head(s) \in Range(s)
           /\ Range(s) = Range(Tail(s)) \cup {Head(s)}
           /\ IsInjective(s) => IsInjective(Tail(s)) /\ Head(s) \notin Range(Tail(s))
           /\ Tail(s) # <<>> => Last(Tail(s)) = Last(s)
<1>1. PICK n \in Nat, r \in Seq(S), h \in S :
        /\ n = Len(s) /\ n # 0 /\ r = Tail(s) /\ h = Head(s) /\ Len(r) = n - 1
        /\ \A i \in 1..(n - 1) : r[i] = s[i + 1]
  <2>1. Len(s) \in Nat \ {0}
    BY EmptySeq
  <2>2. /\ Head(s) \in S /\ Tail(s) \in Seq(S) /\ Len(Tail(s)) = Len(s) - 1
        /\ \A i \in 1..Len(Tail(s)) : Tail(s)[i] = s[i + 1]
    BY HeadTailProperties
  <2>3. PICK n \in Nat, r \in Seq(S) : n = Len(s) /\ r = Tail(s)
    BY <2>1, <2>2
  <2>4. /\ n # 0 /\ Len(r) = n - 1
        /\ \A i \in 1..(n - 1) : r[i] = s[i + 1]
    BY <2>1, <2>2, <2>3
  <2> QED BY <2>2, <2>3, <2>4
<1>2. h = s[1] /\ DOMAIN s = 1..n /\ DOMAIN r = 1..(n - 1)
  BY <1>1, LenProperties
<1>3. /\ 1 \in 1..n /\ \A i \in 1..(n - 1) : i + 1 \in 1..n /\ i + 1 # 1
      /\ \A i \in 1..n : i = 1 \/ (i - 1 \in 1..(n - 1) /\ (i - 1) + 1 = i)
  BY <1>1
<1>4. Range(s) = Range(r) \cup {h}
  <2>1. \A i \in DOMAIN r : r[i] \in Range(s)
    BY <1>1, <1>2, <1>3 DEF Range
  <2>2. \A i \in DOMAIN s : s[i] \in Range(r) \cup {h}
    <3> SUFFICES ASSUME NEW i \in DOMAIN s PROVE s[i] \in Range(r) \cup {h}
      OBVIOUS
    <3>1. CASE i = 1
      BY <1>2, <3>1
    <3>2. CASE i # 1
      <4>1. PICK k \in 1..(n - 1) : k + 1 = i
        BY <1>2, <1>3, <3>2
      <4>2. r[k] = s[i] /\ k \in DOMAIN r
        BY <1>1, <1>2, <4>1
      <4> QED BY <4>2 DEF Range
    <3> QED BY <3>1, <3>2
  <2>3. h \in Range(s)
    BY <1>2, <1>3 DEF Range
  <2> QED BY <2>1, <2>2, <2>3 DEF Range
<1>5. ASSUME IsInjective(s) PROVE IsInjective(r) /\ h \notin Range(r)
  <2>1. \A i \in DOMAIN r : r[i] # h
    BY <1>1, <1>2, <1>3, <1>5 DEF IsInjective
  <2>2. \A i, k \in DOMAIN r : r[i] = r[k] => i + 1 = k + 1
    BY <1>1, <1>2, <1>3, <1>5 DEF IsInjective
  <2>3. \A i, k \in DOMAIN r : i + 1 = k + 1 => i = k
    BY <1>1, <1>2
  <2> QED BY <2>1, <2>2, <2>3 DEF IsInjective, Range
<1>6. r # <<>> => Last(r) = Last(s)
  <2>1. r # <<>> => n - 1 # 0
    BY <1>1, EmptySeq
  <2>2. n - 1 # 0 => n - 1 \in 1..(n - 1) /\ (n - 1) + 1 = n
    BY <1>1
  <2>3. n - 1 # 0 => r[n - 1] = s[n]
    BY <1>1, <2>2
  <2> QED BY <1>1, <2>1, <2>3 DEF Last
<1> QED BY <1>1, <1>4, <1>5, <1>6

\* The beginning of a sequence without doubles.
LEMMA PrefixFacts ==
    ASSUME NEW S, NEW s \in Seq(S), NEW k \in 0..Len(s)
    PROVE  /\ SubSeq(s, 1, k) \in Seq(S) /\ Range(SubSeq(s, 1, k)) \subseteq Range(s)
           /\ IsInjective(s) => IsInjective(SubSeq(s, 1, k))
<1>1. PICK n \in Nat, l \in Nat : n = Len(s) /\ l = k /\ l <= n
  BY LenProperties
<1>2. \A i \in 1..l : i \in 1..n /\ s[i] \in S
  BY <1>1, ElementOfSeq
<1>3. PICK r \in Seq(S) : r = SubSeq(s, 1, l) /\ Len(r) = l /\ \A i \in 1..l : r[i] = s[i]
  <2>1. /\ SubSeq(s, 1, l) \in Seq(S) /\ Len(SubSeq(s, 1, l)) = IF 1 <= l THEN l - 1 + 1 ELSE 0
        /\ \A i \in 1..(l - 1 + 1) : SubSeq(s, 1, l)[i] = s[1 + i - 1]
    BY <1>2, SubSeqProperties
  <2>2. (IF 1 <= l THEN l - 1 + 1 ELSE 0) = l /\ l - 1 + 1 = l /\ \A i \in 1..l : 1 + i - 1 = i
    OBVIOUS
  <2> QED BY <2>1, <2>2
<1>4. DOMAIN s = 1..n /\ DOMAIN r = 1..l
  BY <1>1, <1>3, LenProperties
<1>5. Range(r) \subseteq Range(s)
  BY <1>2, <1>3, <1>4 DEF Range
<1>6. IsInjective(s) => IsInjective(r)
  BY <1>2, <1>3, <1>4 DEF IsInjective
<1> QED BY <1>1, <1>3, <1>5, <1>6

-----------------------------------------------------------------------------
(* The client of a STDIO server.                                           *)

Locking(c) == task[c].phase = "locking"
Reading(c) == task[c].phase = "reading"

ClientTypes ==
  /\ initialized \in BOOLEAN /\ life \in {"open", "closing", "closed"}
  /\ spawned \in Nat /\ process \in 0..spawned /\ alive \subseteq 1..spawned
  /\ spawned + Cardinality(Spawning) <= MaxProcs
  /\ holder \in Callers \cup {None} /\ nextId \in Nat
  /\ task \in [Callers -> Task]
  /\ \A c \in Callers : Reading(c) => task[c].proc \in 1..spawned
  /\ \A c \in Callers : Locking(c) => task[c].id \in 1..nextId

\* The lock h and its queue q with everybody in it but c.
LockApart(c, h, q) ==
  /\ h \in Callers \cup {None} /\ h # c
  /\ q \in Seq(Callers) /\ IsInjective(q) /\ h \notin Range(q) /\ c \notin Range(q)
  /\ \A d \in Callers \ {c} : /\ Reading(d) => h = d
                              /\ Locking(d) <=> d \in Range(q) \/ (h = d /\ ~Reading(d))

\* The pipes as everybody but c has left them.
PipesApart(c, pipes) ==
  /\ pipes \in [Procs -> Seq(1..nextId)]
  /\ \A p \in Procs : IsInjective(pipes[p])
  /\ \A p \in Procs, d \in Callers \ {c} : Locking(d) => task[d].id \notin Range(pipes[p])
  /\ \A d \in Callers \ {c} : Reading(d) /\ task[d].proc \in alive =>
       LET q == pipes[task[d].proc] IN q # <<>> /\ Last(q) = task[d].id

LockInv ==
  /\ queue \in Seq(Callers) /\ IsInjective(queue) /\ holder \notin Range(queue)
  /\ holder = None => queue = <<>>
  /\ \A c \in Callers : /\ Reading(c) => holder = c
                        /\ Locking(c) <=> c \in Range(queue) \/ (holder = c /\ ~Reading(c))

PipesInv ==
  /\ pipe \in [Procs -> Seq(1..nextId)]
  /\ \A p \in Procs : IsInjective(pipe[p])
  /\ \A p \in Procs, c \in Callers : Locking(c) => task[c].id \notin Range(pipe[p])
  /\ \A c \in Callers : Reading(c) /\ task[c].proc \in alive =>
       LET q == pipe[task[c].proc] IN q # <<>> /\ Last(q) = task[c].id
  /\ \A c, d \in Callers : c # d /\ Locking(c) /\ Locking(d) => task[c].id # task[d].id

ClientInv == ClientTypes /\ LockInv /\ PipesInv

LEMMA ClientInit == Init => ClientInv
<1> SUFFICES ASSUME Init PROVE ClientInv
  OBVIOUS
<1>1. Idle \in Task /\ Idle.phase = "idle"
  BY DEF Idle, Task, NoProcess
<1>2. \A c \in Callers : task[c] = Idle
  BY DEF Init
<1>3. Spawning = {} /\ \A c \in Callers : ~Reading(c) /\ ~Locking(c)
  BY <1>1, <1>2 DEF Spawning, Reading, Locking
<1>4. ClientTypes
  <2>1. Cardinality(Spawning) = 0
    BY <1>3, FS_EmptySet
  <2>2. spawned + Cardinality(Spawning) <= MaxProcs /\ spawned \in Nat /\ process \in 0..spawned
        /\ alive \subseteq 1..spawned
    BY <2>1, McpAssumption DEF Init, NoProcess
  <2>3. task \in [Callers -> Task]
    BY <1>1 DEF Init
  <2> QED BY <1>3, <2>2, <2>3 DEF Init, ClientTypes
<1>5. <<>> \in Seq(Callers) /\ <<>> \in Seq(1..nextId) /\ IsInjective(<<>>) /\ Range(<<>>) = {}
  <2>1. <<>> \in Seq(Callers) /\ <<>> \in Seq(1..nextId)
    OBVIOUS
  <2>2. DOMAIN <<>> = {}
    BY <2>1, EmptySeq, LenProperties
  <2> QED BY <2>1, <2>2 DEF IsInjective, Range
<1>6. LockInv
  BY <1>3, <1>5, McpAssumption DEF Init, LockInv
<1>7. PipesInv
  BY <1>3, <1>5 DEF Init, PipesInv
<1> QED BY <1>4, <1>6, <1>7 DEF ClientInv

-----------------------------------------------------------------------------
\* Who is not in the lock, who leaves it and who leaves its queue is apart from it.
LEMMA OutsiderApart ==
    ASSUME ClientInv, NEW c \in Callers, ~Reading(c), ~Locking(c)
    PROVE  LockApart(c, holder, queue)
  BY DEF ClientInv, LockInv, ClientTypes, LockApart

LEMMA HolderApart ==
    ASSUME ClientInv, NEW c \in Callers, holder = c
    PROVE  LockApart(c, NextHolder, RestQueue) /\ (NextHolder = None => RestQueue = <<>>)
<1>1. /\ queue \in Seq(Callers) /\ IsInjective(queue) /\ c \notin Range(queue) /\ c # None
      /\ \A d \in Callers \ {c} : ~Reading(d) /\ (Locking(d) <=> d \in Range(queue))
  BY McpAssumption DEF ClientInv, LockInv
<1>2. CASE queue = <<>>
  <2>1. NextHolder = None /\ RestQueue = queue
    BY <1>2 DEF NextHolder, RestQueue
  <2>2. Range(queue) \subseteq Callers
    BY <1>1, LenProperties DEF Range
  <2> QED BY <1>1, <1>2, <2>1, <2>2, McpAssumption DEF LockApart
<1>3. CASE queue # <<>>
  <2>1. NextHolder = Head(queue) /\ RestQueue = Tail(queue)
    BY <1>3 DEF NextHolder, RestQueue
  <2>2. /\ RestQueue \in Seq(Callers) /\ NextHolder \in Callers
        /\ Range(queue) = Range(RestQueue) \cup {NextHolder}
        /\ IsInjective(RestQueue) /\ NextHolder \notin Range(RestQueue)
    BY <1>1, <1>3, <2>1, TailFacts
  <2> QED BY <1>1, <2>2, McpAssumption DEF LockApart
<1> QED BY <1>2, <1>3

LEMMA WithoutFacts ==
    ASSUME queue \in Seq(Callers), IsInjective(queue), NEW c
    PROVE  /\ Without(c) \in Seq(Callers) /\ IsInjective(Without(c))
           /\ Range(Without(c)) = Range(queue) \ {c}
           /\ queue = <<>> => Without(c) = <<>>
<1>1. CASE c \in Range(queue)
  <2>1. PICK i : i \in DOMAIN queue /\ queue[i] = c /\ Without(c) = RemoveAt(queue, i)
    BY <1>1 DEF Range, Without
  <2>2. i \in 1..Len(queue)
    BY <2>1, LenProperties
  <2>3. queue # <<>>
    BY <2>2, EmptySeq
  <2> QED BY <2>1, <2>2, <2>3, RemoveAtFacts
<1>2. CASE c \notin Range(queue)
  BY <1>2 DEF Without
<1> QED BY <1>1, <1>2

LEMMA WaiterApart ==
    ASSUME ClientInv, NEW c \in Callers, holder # c
    PROVE  LockApart(c, holder, Without(c)) /\ (holder = None => Without(c) = <<>>)
<1>1. /\ Without(c) \in Seq(Callers) /\ IsInjective(Without(c))
      /\ Range(Without(c)) = Range(queue) \ {c}
      /\ queue = <<>> => Without(c) = <<>>
  BY WithoutFacts DEF ClientInv, LockInv
<1> QED BY <1>1 DEF ClientInv, LockInv, ClientTypes, LockApart

-----------------------------------------------------------------------------
\* The lock once the caller that was apart is in a new state.
LEMMA Others ==
    ASSUME task \in [Callers -> Task], NEW c \in Callers, NEW new \in Task,
           task' = [task EXCEPT ![c] = new]
    PROVE  /\ task' \in [Callers -> Task] /\ task'[c] = new
           /\ \A d \in Callers \ {c} : /\ task'[d] = task[d]
                                       /\ Reading(d)' <=> Reading(d)
                                       /\ Locking(d)' <=> Locking(d)
           /\ Reading(c)' <=> new.phase = "reading"
           /\ Locking(c)' <=> new.phase = "locking"
  BY DEF Reading, Locking

LEMMA LockLeft ==
    ASSUME task \in [Callers -> Task], NEW c \in Callers, NEW new \in Task,
           task' = [task EXCEPT ![c] = new],
           NEW h, NEW q, LockApart(c, h, q), new.phase \notin {"reading", "locking"},
           h = None => q = <<>>, holder' = h, queue' = q
    PROVE  LockInv'
<1>1. \A d \in Callers \ {c} : (Reading(d)' <=> Reading(d)) /\ (Locking(d)' <=> Locking(d))
  BY Others
<1>2. ~Reading(c)' /\ ~Locking(c)'
  BY Others
<1> QED BY <1>1, <1>2 DEF LockApart, LockInv

LEMMA LockTaken ==
    ASSUME task \in [Callers -> Task], NEW c \in Callers, NEW new \in Task,
           task' = [task EXCEPT ![c] = new],
           NEW q, LockApart(c, None, q), new.phase = "reading",
           holder' = c, queue' = q
    PROVE  LockInv'
<1>1. \A d \in Callers \ {c} : (Reading(d)' <=> Reading(d)) /\ (Locking(d)' <=> Locking(d))
  BY Others
<1>2. Reading(c)' /\ ~Locking(c)'
  BY Others
<1> QED BY <1>1, <1>2, McpAssumption DEF LockApart, LockInv

LEMMA LockAwaited ==
    ASSUME task \in [Callers -> Task], NEW c \in Callers, NEW new \in Task,
           task' = [task EXCEPT ![c] = new],
           NEW h, NEW q, LockApart(c, h, q), new.phase = "locking", h # None,
           holder' = h, queue' = Append(q, c)
    PROVE  LockInv'
<1>1. \A d \in Callers \ {c} : (Reading(d)' <=> Reading(d)) /\ (Locking(d)' <=> Locking(d))
  BY Others
<1>2. ~Reading(c)' /\ Locking(c)'
  BY Others
<1>3. /\ queue' \in Seq(Callers) /\ IsInjective(queue') /\ Range(queue') = Range(q) \cup {c}
  BY AppendFacts DEF LockApart
<1> QED BY <1>1, <1>2, <1>3 DEF LockApart, LockInv

-----------------------------------------------------------------------------
\* The pipes once the caller that was apart is in a new state.
LEMMA Longer ==
    ASSUME nextId \in Nat, nextId' \in Nat, nextId <= nextId'
    PROVE  \A q : q \in Seq(1..nextId) => q \in Seq(1..nextId')
<1>1. 1..nextId \subseteq 1..nextId'
  OBVIOUS
<1> QED BY <1>1, SeqMonotonic

LEMMA PipesKept ==
    ASSUME ClientInv, NEW c \in Callers, NEW new \in Task, task' = [task EXCEPT ![c] = new],
           NEW pipes, PipesApart(c, pipes), pipe' = pipes,
           nextId' \in Nat, nextId <= nextId', new.phase # "reading",
           \A d \in Callers \ {c} : Reading(d) /\ task[d].proc \in alive' => task[d].proc \in alive,
           new.phase = "locking" => new.id = nextId + 1
    PROVE  PipesInv'
<1>1. /\ task'[c] = new
      /\ \A d \in Callers \ {c} : /\ task'[d] = task[d] /\ (Reading(d)' <=> Reading(d))
                                  /\ (Locking(d)' <=> Locking(d))
      /\ ~Reading(c)' /\ (Locking(c)' <=> new.phase = "locking")
  BY Others DEF ClientInv, ClientTypes
<1>2. nextId \in Nat /\ \A d \in Callers : Locking(d) => task[d].id \in 1..nextId
  BY DEF ClientInv, ClientTypes
<1>3. nextId + 1 \notin 1..nextId
  BY <1>2
<1>4. pipe' \in [Procs -> Seq(1..nextId')]
  BY <1>2, Longer DEF PipesApart
<1>5. \A p \in Procs : Range(pipes[p]) \subseteq 1..nextId
  <2> SUFFICES ASSUME NEW p \in Procs PROVE Range(pipes[p]) \subseteq 1..nextId
    OBVIOUS
  <2>1. pipes[p] \in Seq(1..nextId)
    BY DEF PipesApart
  <2>2. \A i \in DOMAIN pipes[p] : pipes[p][i] \in 1..nextId
    BY <2>1, LenProperties, ElementOfSeq
  <2> QED BY <2>2 DEF Range
<1>6. \A p \in Procs, d \in Callers : Locking(d)' => task'[d].id \notin Range(pipe'[p])
  <2> SUFFICES ASSUME NEW p \in Procs, NEW d \in Callers, Locking(d)' PROVE task'[d].id \notin Range(pipe'[p])
    OBVIOUS
  <2>1. CASE d = c
    BY <1>1, <1>3, <1>5, <2>1
  <2>2. CASE d # c
    BY <1>1, <2>2 DEF PipesApart
  <2> QED BY <2>1, <2>2
<1>7. \A d \in Callers : Reading(d)' /\ task'[d].proc \in alive' =>
        LET q == pipe'[task'[d].proc] IN q # <<>> /\ Last(q) = task'[d].id
  <2> SUFFICES ASSUME NEW d \in Callers, Reading(d)', task'[d].proc \in alive'
               PROVE  pipe'[task'[d].proc] # <<>> /\ Last(pipe'[task'[d].proc]) = task'[d].id
    OBVIOUS
  <2>1. d # c /\ task'[d] = task[d] /\ Reading(d) /\ task[d].proc \in alive
    BY <1>1
  <2> QED BY <2>1 DEF PipesApart
<1>8. \A d, e \in Callers : d # e /\ Locking(d)' /\ Locking(e)' => task'[d].id # task'[e].id
  <2> SUFFICES ASSUME NEW d \in Callers, NEW e \in Callers, d # e, Locking(d)', Locking(e)'
               PROVE  task'[d].id # task'[e].id
    OBVIOUS
  <2>1. CASE d = c
    BY <1>1, <1>2, <1>3, <2>1
  <2>2. CASE e = c
    BY <1>1, <1>2, <1>3, <2>2
  <2>3. CASE d # c /\ e # c
    BY <1>1, <2>3 DEF ClientInv, PipesInv
  <2> QED BY <2>1, <2>2, <2>3
<1> QED BY <1>4, <1>6, <1>7, <1>8 DEF PipesInv, PipesApart

\* A caller has written the request it waits for, as nobody else reads.
LEMMA PipesWritten ==
    ASSUME ClientInv, NEW c \in Callers, NEW new \in Task, task' = [task EXCEPT ![c] = new],
           NEW pipes, PipesApart(c, pipes), new.phase = "reading", new.proc \in Procs,
           nextId' \in Nat, nextId <= nextId',
           \A d \in Callers \ {c} : ~Reading(d) /\ (Locking(d) => task[d].id # new.id),
           pipe' \in [Procs -> Seq(1..nextId')],
           \A p \in Procs \ {new.proc} : pipe'[p] = pipes[p],
           IsInjective(pipe'[new.proc]), Range(pipe'[new.proc]) \subseteq Range(pipes[new.proc]) \cup {new.id},
           new.proc \in alive' => pipe'[new.proc] # <<>> /\ Last(pipe'[new.proc]) = new.id
    PROVE  PipesInv'
<1>1. /\ task'[c] = new
      /\ \A d \in Callers \ {c} : /\ task'[d] = task[d] /\ ~Reading(d)'
                                  /\ (Locking(d)' <=> Locking(d))
      /\ ~Locking(c)'
  BY Others DEF ClientInv, ClientTypes
<1>2. \A p \in Procs : IsInjective(pipe'[p]) /\ Range(pipe'[p]) \subseteq Range(pipes[p]) \cup {new.id}
  BY DEF PipesApart
<1>3. \A p \in Procs, d \in Callers : Locking(d)' => task'[d].id \notin Range(pipe'[p])
  <2> SUFFICES ASSUME NEW p \in Procs, NEW d \in Callers, Locking(d)' PROVE task'[d].id \notin Range(pipe'[p])
    OBVIOUS
  <2>1. d # c /\ task'[d] = task[d] /\ Locking(d) /\ task[d].id # new.id
    BY <1>1
  <2>2. task[d].id \notin Range(pipes[p])
    BY <2>1 DEF PipesApart
  <2> QED BY <1>2, <2>1, <2>2
<1>4. \A d \in Callers : Reading(d)' /\ task'[d].proc \in alive' =>
        LET q == pipe'[task'[d].proc] IN q # <<>> /\ Last(q) = task'[d].id
  <2> SUFFICES ASSUME NEW d \in Callers, Reading(d)', task'[d].proc \in alive'
               PROVE  pipe'[task'[d].proc] # <<>> /\ Last(pipe'[task'[d].proc]) = task'[d].id
    OBVIOUS
  <2>1. d = c /\ task'[d] = new
    BY <1>1
  <2> QED BY <2>1
<1>5. \A d, e \in Callers : d # e /\ Locking(d)' /\ Locking(e)' => task'[d].id # task'[e].id
  BY <1>1 DEF ClientInv, PipesInv
<1> QED BY <1>2, <1>3, <1>4, <1>5 DEF PipesInv

\* What Written does to the pipes.
LEMMA WrittenElsewhere ==
    ASSUME NEW S, NEW pipes \in [Procs -> Seq(S)], NEW p \in Procs, NEW id \in S,
           IsInjective(pipes[p]), id \notin Range(pipes[p])
    PROVE  /\ Written(pipes, p, id) \in [Procs -> Seq(S)]
           /\ \A q \in Procs \ {p} : Written(pipes, p, id)[q] = pipes[q]
<1>0. PICK w : w = Written(pipes, p, id)
  OBVIOUS
<1>1. pipes[p] \in Seq(S)
  OBVIOUS
<1>2. PICK r \in Seq(S) : /\ r = Append(pipes[p], id) /\ r # <<>> /\ Last(r) = id /\ IsInjective(r)
                             /\ Range(r) = Range(pipes[p]) \cup {id}
  <2>1. /\ Append(pipes[p], id) \in Seq(S) /\ Append(pipes[p], id) # <<>>
        /\ Last(Append(pipes[p], id)) = id /\ IsInjective(Append(pipes[p], id))
        /\ Range(Append(pipes[p], id)) = Range(pipes[p]) \cup {id}
    BY <1>1, AppendFacts
  <2> QED BY <2>1
<1>3. CASE p \in alive
  <2>1. w = [pipes EXCEPT ![p] = r]
    BY <1>0, <1>2, <1>3 DEF Written
  <2>2. /\ w \in [Procs -> Seq(S)] /\ \A q \in Procs \ {p} : w[q] = pipes[q]
        /\ w[p] = r
    BY <2>1
  <2> QED BY <1>0, <1>2, <2>2
<1>4. CASE p \notin alive
  <2>1. w = pipes
    BY <1>0, <1>4 DEF Written
  <2> QED BY <1>0, <1>4, <2>1
<1> QED BY <1>3, <1>4

LEMMA WrittenHere ==
    ASSUME NEW S, NEW pipes \in [Procs -> Seq(S)], NEW p \in Procs, NEW id \in S,
           IsInjective(pipes[p]), id \notin Range(pipes[p])
    PROVE  /\ IsInjective(Written(pipes, p, id)[p])
           /\ Range(Written(pipes, p, id)[p]) \subseteq Range(pipes[p]) \cup {id}
<1>0. PICK w : w = Written(pipes, p, id)
  OBVIOUS
<1>1. pipes[p] \in Seq(S)
  OBVIOUS
<1>2. PICK r \in Seq(S) : /\ r = Append(pipes[p], id) /\ r # <<>> /\ Last(r) = id /\ IsInjective(r)
                             /\ Range(r) = Range(pipes[p]) \cup {id}
  <2>1. /\ Append(pipes[p], id) \in Seq(S) /\ Append(pipes[p], id) # <<>>
        /\ Last(Append(pipes[p], id)) = id /\ IsInjective(Append(pipes[p], id))
        /\ Range(Append(pipes[p], id)) = Range(pipes[p]) \cup {id}
    BY <1>1, AppendFacts
  <2> QED BY <2>1
<1>3. CASE p \in alive
  <2>1. w = [pipes EXCEPT ![p] = r]
    BY <1>0, <1>2, <1>3 DEF Written
  <2>2. /\ w \in [Procs -> Seq(S)] /\ \A q \in Procs \ {p} : w[q] = pipes[q]
        /\ w[p] = r
    BY <2>1
  <2> QED BY <1>0, <1>2, <2>2
<1>4. CASE p \notin alive
  <2>1. w = pipes
    BY <1>0, <1>4 DEF Written
  <2> QED BY <1>0, <1>4, <2>1
<1> QED BY <1>3, <1>4

LEMMA WrittenLast ==
    ASSUME NEW S, NEW pipes \in [Procs -> Seq(S)], NEW p \in Procs, NEW id \in S,
           IsInjective(pipes[p]), id \notin Range(pipes[p])
    PROVE  p \in alive => Written(pipes, p, id)[p] # <<>> /\ Last(Written(pipes, p, id)[p]) = id
<1>0. PICK w : w = Written(pipes, p, id)
  OBVIOUS
<1>1. pipes[p] \in Seq(S)
  OBVIOUS
<1>2. PICK r \in Seq(S) : /\ r = Append(pipes[p], id) /\ r # <<>> /\ Last(r) = id /\ IsInjective(r)
                             /\ Range(r) = Range(pipes[p]) \cup {id}
  <2>1. /\ Append(pipes[p], id) \in Seq(S) /\ Append(pipes[p], id) # <<>>
        /\ Last(Append(pipes[p], id)) = id /\ IsInjective(Append(pipes[p], id))
        /\ Range(Append(pipes[p], id)) = Range(pipes[p]) \cup {id}
    BY <1>1, AppendFacts
  <2> QED BY <2>1
<1>3. CASE p \in alive
  <2>1. w = [pipes EXCEPT ![p] = r]
    BY <1>0, <1>2, <1>3 DEF Written
  <2>2. /\ w \in [Procs -> Seq(S)] /\ \A q \in Procs \ {p} : w[q] = pipes[q]
        /\ w[p] = r
    BY <2>1
  <2> QED BY <1>0, <1>2, <2>2
<1>4. CASE p \notin alive
  <2>1. w = pipes
    BY <1>0, <1>4 DEF Written
  <2> QED BY <1>0, <1>4, <2>1
<1> QED BY <1>3, <1>4

\* A caller writes the request it waits for.
LEMMA Writes ==
    ASSUME ClientInv, NEW c \in Callers, NEW new \in Task, task' = [task EXCEPT ![c] = new],
           NEW pipes, PipesApart(c, pipes), new.phase = "reading",
           NEW p \in Procs, NEW id \in Nat, new.proc = p, new.id = id,
           nextId' \in Nat, nextId <= nextId', id \in 1..nextId', id \notin Range(pipes[p]),
           \A d \in Callers \ {c} : ~Reading(d) /\ (Locking(d) => task[d].id # id),
           alive' = alive, pipe' = Written(pipes, p, id)
    PROVE  PipesInv'
<1>1. PICK S : S = 1..nextId'
  OBVIOUS
<1>2. p \in Procs /\ id \in S /\ pipes \in [Procs -> Seq(S)]
  <2>1. nextId \in Nat
    BY DEF ClientInv, ClientTypes
  <2> QED BY <1>1, <2>1, Longer DEF PipesApart
<1>20. IsInjective(pipes[p]) /\ id \notin Range(pipes[p])
  BY DEF PipesApart
<1>3. /\ Written(pipes, p, id) \in [Procs -> Seq(S)]
      /\ \A k \in Procs \ {p} : Written(pipes, p, id)[k] = pipes[k]
  <2>1. Written(pipes, p, id) \in [Procs -> Seq(S)]
    BY <1>2, <1>20, WrittenElsewhere
  <2>2. \A k \in Procs \ {p} : Written(pipes, p, id)[k] = pipes[k]
    BY <1>2, <1>20, WrittenElsewhere
  <2> QED BY <2>1, <2>2
<1>4. /\ IsInjective(Written(pipes, p, id)[p])
      /\ Range(Written(pipes, p, id)[p]) \subseteq Range(pipes[p]) \cup {id}
  BY <1>2, <1>20, WrittenHere
<1>5. p \in alive => Written(pipes, p, id)[p] # <<>> /\ Last(Written(pipes, p, id)[p]) = id
  BY <1>2, <1>20, WrittenLast
<1>6. /\ \A d \in Callers \ {c} : ~Reading(d) /\ (Locking(d) => task[d].id # new.id)
      /\ new.proc \in Procs /\ pipe' \in [Procs -> Seq(1..nextId')]
      /\ \A k \in Procs \ {new.proc} : pipe'[k] = pipes[k]
  BY <1>1, <1>3
<1>7. /\ IsInjective(pipe'[new.proc]) /\ Range(pipe'[new.proc]) \subseteq Range(pipes[new.proc]) \cup {new.id}
      /\ new.proc \in alive' => pipe'[new.proc] # <<>> /\ Last(pipe'[new.proc]) = new.id
  BY <1>4, <1>5
<1> QED BY <1>6, <1>7, PipesWritten

-----------------------------------------------------------------------------

LEMMA ProcsFinite == IsFiniteSet(Spawning) /\ Cardinality(Spawning) \in Nat
<1>1. Spawning \subseteq Callers
  BY DEF Spawning
<1> QED BY <1>1, McpAssumption, FS_Subset, FS_CardinalityType

LEMMA TypesSettle ==
    ASSUME ClientInv, NEW c \in Callers, NEW new \in Task, task' = [task EXCEPT ![c] = new],
           process' = process, spawned' = spawned, alive' = alive, life' = life,
           initialized' \in BOOLEAN, nextId' \in Nat, nextId <= nextId', holder' \in Callers \cup {None},
           new.phase # "spawning", new.phase = "reading" => new.proc \in 1..spawned,
           new.phase = "locking" => new.id \in 1..nextId'
    PROVE  ClientTypes'
<1>1. /\ task' \in [Callers -> Task] /\ task'[c] = new
      /\ \A d \in Callers \ {c} : /\ task'[d] = task[d] /\ (Reading(d)' <=> Reading(d))
                                  /\ (Locking(d)' <=> Locking(d))
      /\ Reading(c)' <=> new.phase = "reading"
      /\ Locking(c)' <=> new.phase = "locking"
  BY Others DEF ClientInv, ClientTypes
<1>2. spawned' + Cardinality(Spawning') <= MaxProcs
  <2>1. Spawning' \subseteq Spawning
    BY <1>1 DEF Spawning
  <2>2. PICK k \in Nat, l \in Nat : k = Cardinality(Spawning') /\ l = Cardinality(Spawning) /\ k <= l
    <3>1. IsFiniteSet(Spawning') /\ Cardinality(Spawning') <= Cardinality(Spawning)
      BY <2>1, ProcsFinite, FS_Subset
    <3> QED BY <3>1, ProcsFinite, FS_CardinalityType
  <2>3. spawned \in Nat /\ spawned + l <= MaxProcs /\ MaxProcs \in Nat
    BY <2>2, McpAssumption DEF ClientInv, ClientTypes
  <2> QED BY <2>2, <2>3
<1>3. \A d \in Callers : Reading(d)' => task'[d].proc \in 1..spawned'
  BY <1>1 DEF ClientInv, ClientTypes
<1>4. \A d \in Callers : Locking(d)' => task'[d].id \in 1..nextId'
  <2> SUFFICES ASSUME NEW d \in Callers, Locking(d)' PROVE task'[d].id \in 1..nextId'
    OBVIOUS
  <2>1. CASE d = c
    BY <1>1, <2>1
  <2>2. CASE d # c
    <3>1. task'[d] = task[d] /\ task[d].id \in 1..nextId /\ nextId \in Nat
      BY <1>1, <2>2 DEF ClientInv, ClientTypes
    <3> QED BY <3>1
  <2> QED BY <2>1, <2>2
<1> QED BY <1>1, <1>2, <1>3, <1>4 DEF ClientInv, ClientTypes

\* An operation ends.
LEMMA LeaveKeeps ==
    ASSUME ClientInv, NEW c \in Callers, NEW mixed \in BOOLEAN, Leave(c, mixed),
           NEW pipes, PipesApart(c, pipes), pipe' = pipes,
           process' = process, spawned' = spawned, alive' = alive, life' = life, nextId' = nextId,
           initialized' \in BOOLEAN
    PROVE  ClientInv'
<1>1. PICK new \in Task : new = [Idle EXCEPT !.mixed = mixed]
  BY DEF Idle, Task, NoProcess
<1>2. new.phase = "idle" /\ task' = [task EXCEPT ![c] = new]
  BY <1>1 DEF Idle, Leave
<1>3. PICK h, q : /\ LockApart(c, h, q) /\ (h = None => q = <<>>)
                  /\ holder' = h /\ queue' = q
  <2>1. CASE holder = c
    BY <2>1, HolderApart DEF Leave
  <2>2. CASE holder # c
    BY <2>2, WaiterApart DEF Leave
  <2> QED BY <2>1, <2>2
<1>4. task \in [Callers -> Task] /\ nextId \in Nat /\ nextId <= nextId'
  BY DEF ClientInv, ClientTypes
<1>5. LockInv'
  BY <1>2, <1>3, <1>4, LockLeft
<1>6. PipesInv'
  BY <1>2, <1>4, PipesKept
<1>7. ClientTypes'
  BY <1>2, <1>3, <1>4, TypesSettle DEF LockApart
<1> QED BY <1>5, <1>6, <1>7 DEF ClientInv

LEMMA Apart ==
    ASSUME ClientInv, NEW c \in Callers
    PROVE  PipesApart(c, pipe)
  BY DEF ClientInv, PipesInv, PipesApart

\* A request is sent, or waits for the lock, or finds no process.
LEMMA SendKeeps ==
    ASSUME ClientInv, NEW c \in Callers, NEW t \in Task, NEW method \in Methods,
           NEW pipes, NEW h, NEW q, LockApart(c, h, q), h = None => q = <<>>, PipesApart(c, pipes),
           Send(c, t, method, pipes, process, h, q),
           process' = process, spawned' = spawned, alive' = alive, life' = life,
           initialized' \in BOOLEAN
    PROVE  ClientInv'
<1>1. /\ task \in [Callers -> Task] /\ nextId \in Nat /\ spawned \in Nat /\ process \in 0..spawned
      /\ spawned <= MaxProcs
  <2>1. spawned \in Nat /\ spawned + Cardinality(Spawning) <= MaxProcs
    BY DEF ClientInv, ClientTypes
  <2>2. spawned <= MaxProcs
    BY <2>1, ProcsFinite, McpAssumption
  <2> QED BY <2>2 DEF ClientInv, ClientTypes
<1>2. PICK id \in Nat : id = nextId + 1 /\ nextId' = id /\ nextId <= id /\ id \in 1..id
  BY <1>1 DEF Send
<1>3. CASE /\ process = NoProcess
           /\ holder' = h /\ queue' = q /\ pipe' = pipes
           /\ task' = [task EXCEPT ![c] = [Idle EXCEPT !.mixed = t.mixed]]
  <2>1. PICK new \in Task : new = [Idle EXCEPT !.mixed = t.mixed]
    BY DEF Idle, Task, NoProcess
  <2>2. new.phase = "idle" /\ task' = [task EXCEPT ![c] = new]
    BY <1>3, <2>1 DEF Idle
  <2>3. LockInv'
    BY <1>1, <1>3, <2>2, LockLeft
  <2>4. PipesInv'
    BY <1>2, <1>3, <2>2, PipesKept
  <2>5. ClientTypes'
    BY <1>2, <1>3, <2>2, TypesSettle DEF LockApart
  <2> QED BY <2>3, <2>4, <2>5 DEF ClientInv
<1>4. CASE /\ process # NoProcess /\ h = None
           /\ holder' = c /\ queue' = q
           /\ pipe' = Written(pipes, process, id)
           /\ task' = [task EXCEPT ![c] = [[t EXCEPT !.method = method, !.id = id]
                                             EXCEPT !.phase = "reading", !.proc = process]]
  <2>1. process \in Procs /\ process \in 1..spawned
    BY <1>1, <1>4, McpAssumption DEF Procs, NoProcess
  <2>2. PICK new \in Task : new = [[t EXCEPT !.method = method, !.id = id]
                                     EXCEPT !.phase = "reading", !.proc = process]
    BY <2>1 DEF Task
  <2>3. new.phase = "reading" /\ new.id = id /\ new.proc = process /\ task' = [task EXCEPT ![c] = new]
    BY <1>4, <2>2 DEF Task
  <2>4. LockInv'
    BY <1>1, <1>4, <2>3, LockTaken
  <2>5. PipesInv'
    <3>1. \A d \in Callers \ {c} : ~Reading(d) /\ (Locking(d) => task[d].id # id)
      BY <1>1, <1>2, <1>4, McpAssumption DEF LockApart, ClientInv, ClientTypes
    <3>2. pipes[process] \in Seq(1..nextId)
      BY <2>1 DEF PipesApart
    <3>3. id \notin Range(pipes[process])
      <4>1. \A i \in DOMAIN pipes[process] : pipes[process][i] \in 1..nextId
        BY <3>2, LenProperties, ElementOfSeq
      <4>2. id \notin 1..nextId
        BY <1>1, <1>2
      <4> QED BY <4>1, <4>2 DEF Range
    <3> QED BY <1>2, <1>4, <2>1, <2>3, <3>1, <3>3, Writes
  <2>6. ClientTypes'
    BY <1>2, <1>4, <2>1, <2>3, TypesSettle
  <2> QED BY <2>4, <2>5, <2>6 DEF ClientInv
<1>5. CASE /\ process # NoProcess /\ h # None
           /\ holder' = h /\ queue' = Append(q, c) /\ pipe' = pipes
           /\ task' = [task EXCEPT ![c] = [[t EXCEPT !.method = method, !.id = id] EXCEPT !.phase = "locking"]]
  <2>1. PICK new \in Task : new = [[t EXCEPT !.method = method, !.id = id] EXCEPT !.phase = "locking"]
    BY DEF Task
  <2>2. new.phase = "locking" /\ new.id = id /\ task' = [task EXCEPT ![c] = new]
    BY <1>5, <2>1 DEF Task
  <2>3. LockInv'
    BY <1>1, <1>5, <2>2, LockAwaited
  <2>4. PipesInv'
    BY <1>2, <1>5, <2>2, PipesKept
  <2>5. ClientTypes'
    BY <1>2, <1>5, <2>2, TypesSettle DEF LockApart
  <2> QED BY <2>3, <2>4, <2>5 DEF ClientInv
<1> QED BY <1>2, <1>3, <1>4, <1>5 DEF Send

\* The lock and the pipes are as a caller has left them that was waiting for nothing.
LEMMA BeginKeeps ==
    ASSUME ClientInv, NEW c \in Callers, NEW op \in Ops, Begin(c, op)
    PROVE  ClientInv'
<1>1. /\ initialized' \in BOOLEAN /\ process' = process /\ spawned' = spawned /\ alive' = alive /\ life' = life
      /\ task[c].phase = "idle"
  BY DEF Begin, connection, ClientInv, ClientTypes
<1>2. LockApart(c, holder, queue) /\ (holder = None => queue = <<>>) /\ PipesApart(c, pipe)
  <2>1. ~Reading(c) /\ ~Locking(c)
    BY <1>1 DEF Reading, Locking
  <2>2. holder = None => queue = <<>>
    BY DEF ClientInv, LockInv
  <2> QED BY <2>1, <2>2, OutsiderApart, Apart
<1>3. PICK t \in Task : t = [Idle EXCEPT !.op = op]
  BY DEF Idle, Task, NoProcess
<1>4. CASE Send(c, [Idle EXCEPT !.op = op], "tools/call", pipe, process, holder, queue)
  <2>1. PICK method \in Methods : method = "tools/call"
    BY DEF Methods
  <2>2. Send(c, t, method, pipe, process, holder, queue)
    BY <1>3, <1>4, <2>1
  <2> QED BY <1>1, <1>2, <2>2, SendKeeps
<1>5. CASE Send(c, [Idle EXCEPT !.op = op], "ping", pipe, process, holder, queue)
  <2>1. PICK method \in Methods : method = "ping"
    BY DEF Methods
  <2>2. Send(c, t, method, pipe, process, holder, queue)
    BY <1>3, <1>5, <2>1
  <2> QED BY <1>1, <1>2, <2>2, SendKeeps
<1>6. CASE /\ spawned + Cardinality(Spawning) < MaxProcs
           /\ task' = [task EXCEPT ![c] = [Idle EXCEPT !.phase = "spawning", !.op = op]]
           /\ UNCHANGED <<pipe, holder, queue, nextId>>
  <2>1. PICK new \in Task : new = [Idle EXCEPT !.phase = "spawning", !.op = op]
    BY DEF Idle, Task, NoProcess
  <2>2. new.phase = "spawning" /\ task' = [task EXCEPT ![c] = new]
    BY <1>6, <2>1 DEF Idle
  <2>3. task \in [Callers -> Task] /\ nextId \in Nat /\ nextId <= nextId' /\ nextId' = nextId
    BY <1>6 DEF ClientInv, ClientTypes
  <2>4. LockInv'
    BY <1>2, <1>6, <2>2, <2>3, LockLeft
  <2>5. PipesInv'
    BY <1>1, <1>2, <1>6, <2>2, <2>3, PipesKept
  <2>6. ClientTypes'
    <3>1. /\ task' \in [Callers -> Task] /\ task'[c] = new
          /\ \A d \in Callers \ {c} : /\ task'[d] = task[d] /\ (Reading(d)' <=> Reading(d))
                                      /\ (Locking(d)' <=> Locking(d))
          /\ ~Reading(c)' /\ ~Locking(c)'
      BY <2>2, <2>3, Others
    <3>2. Spawning' = Spawning \cup {c}
      BY <2>2, <3>1 DEF Spawning
    <3>3. PICK k \in Nat : k = Cardinality(Spawning) /\ Cardinality(Spawning') <= k + 1 /\ Cardinality(Spawning') \in Nat
      <4>1. PICK k \in Nat : k = Cardinality(Spawning)
        BY ProcsFinite
      <4>2. Cardinality(Spawning') = k \/ Cardinality(Spawning') = k + 1
        BY <3>2, <4>1, ProcsFinite, FS_AddElement
      <4> QED BY <4>1, <4>2
    <3>4. spawned + Cardinality(Spawning') <= MaxProcs
      BY <1>6, <3>3, McpAssumption DEF ClientInv, ClientTypes
    <3> QED BY <1>1, <1>6, <2>3, <3>1, <3>4 DEF ClientInv, ClientTypes
  <2> QED BY <2>4, <2>5, <2>6 DEF ClientInv
<1> QED BY <1>4, <1>5, <1>6 DEF Begin

LEMMA SpawnedKeeps ==
    ASSUME ClientInv, NEW c \in Callers, Spawned(c)
    PROVE  ClientInv'
<1>1. PICK p \in Procs, id \in Nat : /\ p = spawned + 1 /\ id = nextId + 1 /\ task[c].phase = "spawning"
  <2>1. task[c].phase = "spawning" /\ c \in Spawning
    BY DEF Spawned, Spawning
  <2>2. Cardinality(Spawning) # 0
    BY <2>1, ProcsFinite, FS_EmptySet
  <2>3. spawned \in Nat /\ nextId \in Nat /\ spawned + Cardinality(Spawning) <= MaxProcs
    BY DEF ClientInv, ClientTypes
  <2>4. spawned + 1 \in Procs
    BY <2>2, <2>3, ProcsFinite, McpAssumption DEF Procs
  <2> QED BY <2>1, <2>3, <2>4
<1>2. /\ spawned' = p /\ process' = p /\ alive' = alive \cup {p} /\ nextId' = id
      /\ initialized' = initialized /\ life' = life
      /\ spawned \in Nat /\ nextId \in Nat /\ nextId <= id /\ id \in 1..id /\ task \in [Callers -> Task]
      /\ alive \subseteq 1..spawned
  BY <1>1 DEF Spawned, ClientInv, ClientTypes
<1>3. LockApart(c, holder, queue) /\ (holder = None => queue = <<>>) /\ PipesApart(c, pipe)
  <2>1. ~Reading(c) /\ ~Locking(c)
    BY <1>1 DEF Reading, Locking
  <2>2. holder = None => queue = <<>>
    BY DEF ClientInv, LockInv
  <2> QED BY <2>1, <2>2, OutsiderApart, Apart
<1>4. \A new \in Task : task' = [task EXCEPT ![c] = new] /\ new.phase # "spawning" => Spawning' = Spawning \ {c}
  BY <1>2 DEF Spawning
<1>5. PICK k \in Nat : k = Cardinality(Spawning \ {c}) /\ spawned + k + 1 <= MaxProcs
  <2>1. c \in Spawning
    BY <1>1 DEF Spawning
  <2>2. PICK l \in Nat : l = Cardinality(Spawning) /\ l # 0 /\ Cardinality(Spawning \ {c}) = l - 1
    BY <2>1, ProcsFinite, FS_RemoveElement, FS_EmptySet
  <2>3. spawned + l <= MaxProcs
    BY <2>2 DEF ClientInv, ClientTypes
  <2> QED BY <1>2, <2>2, <2>3, McpAssumption
<1>6. ASSUME NEW new \in Task, task' = [task EXCEPT ![c] = new], new.phase \in {"reading", "locking"},
             new.id = id, new.phase = "reading" => new.proc = p, holder' \in Callers \cup {None}
      PROVE  ClientTypes'
  <2>1. /\ task' \in [Callers -> Task] /\ task'[c] = new
        /\ \A d \in Callers \ {c} : /\ task'[d] = task[d] /\ (Reading(d)' <=> Reading(d))
                                    /\ (Locking(d)' <=> Locking(d))
        /\ Reading(c)' <=> new.phase = "reading"
    BY <1>2, <1>6, Others
  <2>2. \A d \in Callers : Reading(d)' => task'[d].proc \in 1..spawned'
    <3> SUFFICES ASSUME NEW d \in Callers, Reading(d)' PROVE task'[d].proc \in 1..spawned'
      OBVIOUS
    <3>1. CASE d = c
      BY <1>1, <1>2, <1>6, <2>1, <3>1
    <3>2. CASE d # c
      <4>1. task'[d] = task[d] /\ task[d].proc \in 1..spawned
        BY <2>1, <3>2 DEF ClientInv, ClientTypes
      <4> QED BY <1>1, <1>2, <4>1
    <3> QED BY <3>1, <3>2
  <2>3. \A d \in Callers : Locking(d)' => task'[d].id \in 1..nextId'
    <3> SUFFICES ASSUME NEW d \in Callers, Locking(d)' PROVE task'[d].id \in 1..nextId'
      OBVIOUS
    <3>1. CASE d = c
      BY <1>2, <1>6, <2>1, <3>1
    <3>2. CASE d # c
      <4>1. task'[d] = task[d] /\ task[d].id \in 1..nextId
        BY <2>1, <3>2 DEF ClientInv, ClientTypes
      <4> QED BY <1>1, <1>2, <4>1
    <3> QED BY <3>1, <3>2
  <2>4. Spawning' = Spawning \ {c}
    BY <1>4, <1>6
  <2>5. spawned' + Cardinality(Spawning') <= MaxProcs
    BY <1>1, <1>2, <1>5, <2>4, McpAssumption
  <2>6. spawned' \in Nat /\ process' \in 0..spawned' /\ alive' \subseteq 1..spawned'
    BY <1>1, <1>2
  <2>7. initialized' \in BOOLEAN /\ life' \in {"open", "closing", "closed"} /\ nextId' \in Nat
    BY <1>2 DEF ClientInv, ClientTypes
  <2> QED BY <1>6, <2>1, <2>2, <2>3, <2>5, <2>6, <2>7 DEF ClientTypes
<1>7. CASE /\ holder = None /\ holder' = c /\ queue' = queue
           /\ pipe' = [pipe EXCEPT ![p] = <<id>>]
           /\ task' = [task EXCEPT ![c].phase = "reading", ![c].method = "initialize",
                                   ![c].id = id, ![c].proc = p]
  <2>1. PICK new \in Task : new = [task[c] EXCEPT !.phase = "reading", !.method = "initialize", !.id = id, !.proc = p]
    BY <1>2 DEF Task, Methods
  <2>2. new.phase = "reading" /\ new.id = id /\ new.proc = p
    BY <1>2, <2>1 DEF Task
  <2>3. task' = [task EXCEPT ![c] = new]
    BY <1>2, <1>7, <2>1
  <2>4. LockInv'
    BY <1>2, <1>3, <1>7, <2>2, <2>3, LockTaken
  <2>5. PipesInv'
    <3>1. \A d \in Callers \ {c} : ~Reading(d) /\ (Locking(d) => task[d].id # id)
      BY <1>1, <1>2, <1>3, <1>7, McpAssumption DEF LockApart, ClientInv, ClientTypes
    <3>2. pipe \in [Procs -> Seq(1..id)] /\ <<id>> \in Seq(1..id)
      BY <1>2, <1>3, Longer DEF PipesApart
    <3>3. IsInjective(<<id>>) /\ Range(<<id>>) = {id} /\ <<id>> # <<>> /\ Last(<<id>>) = id
      <4>1. PICK one : one = <<id>>
        OBVIOUS
      <4>2. DOMAIN one = {1} /\ one[1] = id /\ Len(one) = 1 /\ one # <<>>
        BY <4>1
      <4>3. IsInjective(one) /\ Range(one) = {id} /\ one # <<>> /\ Last(one) = id
        BY <4>2 DEF IsInjective, Range, Last
      <4> QED BY <4>1, <4>3
    <3>4. /\ pipe' \in [Procs -> Seq(1..id)] /\ pipe'[p] = <<id>>
          /\ \A q \in Procs \ {p} : pipe'[q] = pipe[q]
      BY <1>7, <3>2
    <3>5. /\ \A d \in Callers \ {c} : ~Reading(d) /\ (Locking(d) => task[d].id # new.id)
          /\ new.proc \in Procs /\ pipe' \in [Procs -> Seq(1..nextId')]
          /\ \A q \in Procs \ {new.proc} : pipe'[q] = pipe[q]
          /\ nextId' \in Nat /\ nextId <= nextId'
      BY <1>2, <2>2, <3>1, <3>4
    <3>6. /\ IsInjective(pipe'[new.proc]) /\ Range(pipe'[new.proc]) \subseteq Range(pipe[new.proc]) \cup {new.id}
          /\ pipe'[new.proc] # <<>> /\ Last(pipe'[new.proc]) = new.id
      BY <2>2, <3>3, <3>4
    <3> QED BY <1>3, <2>2, <2>3, <3>5, <3>6, PipesWritten
  <2>6. ClientTypes'
    BY <1>6, <1>7, <2>2, <2>3
  <2> QED BY <2>4, <2>5, <2>6 DEF ClientInv
<1>8. CASE /\ holder # None /\ queue' = Append(queue, c) /\ UNCHANGED <<holder, pipe>>
           /\ task' = [task EXCEPT ![c].phase = "locking", ![c].method = "initialize", ![c].id = id]
  <2>1. PICK new \in Task : new = [task[c] EXCEPT !.phase = "locking", !.method = "initialize", !.id = id]
    BY <1>2 DEF Task, Methods
  <2>2. new.phase = "locking" /\ new.id = id
    BY <1>2, <2>1 DEF Task
  <2>3. task' = [task EXCEPT ![c] = new]
    BY <1>2, <1>8, <2>1
  <2>4. LockInv'
    BY <1>2, <1>3, <1>8, <2>2, <2>3, LockAwaited
  <2>5. PipesInv'
    <3>1. \A d \in Callers \ {c} : Reading(d) /\ task[d].proc \in alive' => task[d].proc \in alive
      <4> SUFFICES ASSUME NEW d \in Callers, Reading(d), task[d].proc \in alive' PROVE task[d].proc \in alive
        OBVIOUS
      <4>1. task[d].proc \in 1..spawned
        BY DEF ClientInv, ClientTypes
      <4> QED BY <1>1, <1>2, <4>1
    <3>2. new.id = nextId + 1 /\ new.phase # "reading" /\ pipe' = pipe /\ nextId' \in Nat /\ nextId <= nextId'
      BY <1>1, <1>2, <1>8, <2>2
    <3> QED BY <1>3, <2>3, <3>1, <3>2, PipesKept
  <2>6. ClientTypes'
    BY <1>3, <1>6, <1>8, <2>2, <2>3 DEF LockApart
  <2> QED BY <2>4, <2>5, <2>6 DEF ClientInv
<1> QED BY <1>1, <1>7, <1>8 DEF Spawned

LEMMA EnterKeeps ==
    ASSUME ClientInv, NEW c \in Callers, Enter(c)
    PROVE  ClientInv'
<1>1. /\ task[c].phase = "locking" /\ holder = c /\ task[c] \in Task /\ task \in [Callers -> Task]
      /\ initialized' = initialized /\ process' = process /\ spawned' = spawned /\ alive' = alive
      /\ life' = life /\ nextId' = nextId /\ initialized \in BOOLEAN
      /\ nextId \in Nat /\ nextId <= nextId'
  BY DEF Enter, connection, ClientInv, ClientTypes
<1>2. CASE process = NoProcess /\ Leave(c, task[c].mixed) /\ UNCHANGED pipe
  <2>1. PICK mixed \in BOOLEAN : mixed = task[c].mixed
    BY <1>1 DEF Task
  <2>2. Leave(c, mixed)
    BY <1>2, <2>1
  <2> QED BY <1>1, <1>2, <2>2, Apart, LeaveKeeps
<1>3. CASE /\ process # NoProcess
           /\ pipe' = Written(pipe, process, task[c].id)
           /\ task' = [task EXCEPT ![c].phase = "reading", ![c].proc = process]
           /\ UNCHANGED <<holder, queue>>
  <2>1. PICK p \in Procs : p = process /\ p \in 1..spawned
    <3>1. spawned \in Nat /\ process \in 0..spawned /\ spawned + Cardinality(Spawning) <= MaxProcs
      BY DEF ClientInv, ClientTypes
    <3>2. spawned <= MaxProcs
      BY <3>1, ProcsFinite, McpAssumption
    <3> QED BY <1>3, <3>1, <3>2, McpAssumption DEF Procs, NoProcess
  <2>2. PICK new \in Task : new = [task[c] EXCEPT !.phase = "reading", !.proc = p]
    BY <1>1 DEF Task
  <2>3. new.phase = "reading" /\ new.proc = p /\ new.id = task[c].id
    BY <1>1, <2>2 DEF Task
  <2>4. task' = [task EXCEPT ![c] = new]
    BY <1>1, <1>3, <2>1, <2>2
  <2>5. Locking(c) /\ \A d \in Callers \ {c} : ~Reading(d)
    BY <1>1 DEF Locking, ClientInv, LockInv
  <2>6. LockApart(c, None, queue)
    <3>1. /\ queue \in Seq(Callers) /\ IsInjective(queue) /\ c \notin Range(queue) /\ c # None
          /\ \A d \in Callers \ {c} : Locking(d) <=> d \in Range(queue)
      BY <1>1, <2>5, McpAssumption DEF ClientInv, LockInv
    <3>2. None \notin Range(queue)
      <4>1. \A i \in DOMAIN queue : queue[i] \in Callers
        BY <3>1, LenProperties, ElementOfSeq
      <4> QED BY <4>1, McpAssumption DEF Range
    <3> QED BY <2>5, <3>1, <3>2, McpAssumption DEF LockApart
  <2>7. LockInv'
    BY <1>1, <1>3, <2>3, <2>4, <2>6, LockTaken
  <2>8. PipesInv'
    <3>1. PICK id \in Nat : id = task[c].id /\ id \in 1..nextId' /\ id \notin Range(pipe[p])
      <4>1. task[c].id \in 1..nextId /\ task[c].id \notin Range(pipe[p])
        BY <2>5 DEF ClientInv, ClientTypes, PipesInv
      <4> QED BY <1>1, <4>1
    <3>2. \A d \in Callers \ {c} : ~Reading(d) /\ (Locking(d) => task[d].id # id)
      BY <2>5, <3>1 DEF ClientInv, PipesInv
    <3>3. new.id = id /\ pipe' = Written(pipe, p, id)
      BY <1>3, <2>1, <2>3, <3>1
    <3> QED BY <1>1, <2>3, <2>4, <3>1, <3>2, <3>3, Apart, Writes
  <2>9. ClientTypes'
    <3>1. holder' \in Callers \cup {None}
      BY <1>1, <1>3
    <3> QED BY <1>1, <2>1, <2>3, <2>4, <3>1, TypesSettle
  <2> QED BY <2>7, <2>8, <2>9 DEF ClientInv
<1> QED BY <1>2, <1>3 DEF Enter

\* Reading the first line of a pipe leaves the others as they are.
LEMMA FirstRead ==
    ASSUME ClientInv, NEW c \in Callers, Reading(c), NEW p \in Procs, p = task[c].proc, pipe[p] # <<>>,
           NEW pipes, pipes = [pipe EXCEPT ![p] = Tail(pipe[p])]
    PROVE  PipesApart(c, pipes)
<1>1. \A d \in Callers \ {c} : ~Reading(d)
  BY DEF ClientInv, LockInv
<1>2. pipe \in [Procs -> Seq(1..nextId)] /\ pipe[p] \in Seq(1..nextId) /\ IsInjective(pipe[p])
  BY DEF ClientInv, PipesInv
<1>3. PICK r \in Seq(1..nextId) : /\ r = Tail(pipe[p]) /\ IsInjective(r) /\ Range(r) \subseteq Range(pipe[p])
  <2>1. PICK s \in Seq(1..nextId) : s = pipe[p] /\ s # <<>> /\ IsInjective(s)
    BY <1>2
  <2>2. /\ Tail(s) \in Seq(1..nextId) /\ IsInjective(Tail(s))
        /\ Range(s) = Range(Tail(s)) \cup {Head(s)}
    BY <2>1, TailFacts
  <2> QED BY <2>1, <2>2
<1>4. /\ pipes \in [Procs -> Seq(1..nextId)] /\ pipes[p] = r
      /\ \A k \in Procs \ {p} : pipes[k] = pipe[k]
  BY <1>2, <1>3
<1>5. \A k \in Procs : IsInjective(pipes[k]) /\ Range(pipes[k]) \subseteq Range(pipe[k])
  BY <1>3, <1>4 DEF ClientInv, PipesInv
<1>6. \A k \in Procs, d \in Callers \ {c} : Locking(d) => task[d].id \notin Range(pipes[k])
  BY <1>5 DEF ClientInv, PipesInv
<1> QED BY <1>1, <1>4, <1>5, <1>6 DEF PipesApart

LEMMA ReadKeeps ==
    ASSUME ClientInv, NEW c \in Callers, NEW ok \in BOOLEAN, Read(c, ok)
    PROVE  ClientInv'
<1>1. /\ Reading(c) /\ holder = c /\ task[c] \in Task
      /\ process' = process /\ spawned' = spawned /\ alive' = alive /\ life' = life
      /\ initialized' \in BOOLEAN
  BY DEF Read, Reading, ClientInv, LockInv, ClientTypes
<1>2. PICK p \in Procs : p = task[c].proc /\ pipe[p] # <<>>
  <2>1. spawned \in Nat /\ spawned + Cardinality(Spawning) <= MaxProcs /\ task[c].proc \in 1..spawned
    BY <1>1 DEF ClientInv, ClientTypes
  <2>2. task[c].proc \in Procs
    BY <2>1, ProcsFinite, McpAssumption DEF Procs
  <2> QED BY <2>2 DEF Read
<1>3. PICK pipes : pipes = [pipe EXCEPT ![p] = Tail(pipe[p])]
  OBVIOUS
<1>4. PipesApart(c, pipes)
  BY <1>1, <1>2, <1>3, FirstRead
<1>5. PICK mixed \in BOOLEAN, after \in {NextMethod(task[c].op, task[c].method)} :
             mixed = (task[c].mixed \/ Head(pipe[p]) # task[c].id)
  BY <1>1 DEF Task
<1>6. CASE ok /\ after # "done" /\ Send(c, [task[c] EXCEPT !.mixed = mixed], after, pipes, process, NextHolder, RestQueue)
  <2>1. after \in Methods
    BY <1>5, <1>6 DEF NextMethod, Methods
  <2>2. PICK t \in Task : t = [task[c] EXCEPT !.mixed = mixed]
    BY <1>1 DEF Task
  <2>3. Send(c, t, after, pipes, process, NextHolder, RestQueue)
    BY <1>6, <2>2
  <2> QED BY <1>1, <1>4, <2>1, <2>3, HolderApart, SendKeeps
<1>7. CASE pipe' = pipes /\ Leave(c, mixed) /\ UNCHANGED nextId
  BY <1>1, <1>4, <1>7, LeaveKeeps
<1> QED BY <1>2, <1>3, <1>5, <1>6, <1>7 DEF Read

\* A call that ends with its pipe as it is.
LEMMA EndKeeps ==
    ASSUME ClientInv, NEW c \in Callers, Leave(c, task[c].mixed), UNCHANGED <<connection, pipe, nextId>>
    PROVE  ClientInv'
<1>1. PICK mixed \in BOOLEAN : mixed = task[c].mixed /\ Leave(c, mixed)
  BY DEF ClientInv, ClientTypes, Task
<1>2. /\ initialized' \in BOOLEAN /\ process' = process /\ spawned' = spawned /\ alive' = alive
      /\ life' = life /\ nextId' = nextId /\ pipe' = pipe
  BY DEF connection, ClientInv, ClientTypes
<1> QED BY <1>1, <1>2, Apart, LeaveKeeps

\* Process p exits with a beginning of its pipe answered.
LEMMA ExitKeeps ==
    ASSUME ClientInv, NEW p \in alive, Exit(p), UNCHANGED <<spawned, holder, queue, nextId, task>>,
           process' \in 0..spawned, initialized' \in BOOLEAN, life' \in {"open", "closing", "closed"}
    PROVE  ClientInv'
<1>1. p \in Procs
  <2>1. spawned \in Nat /\ spawned + Cardinality(Spawning) <= MaxProcs /\ p \in 1..spawned
    BY DEF ClientInv, ClientTypes
  <2> QED BY <2>1, ProcsFinite, McpAssumption DEF Procs
<1>2. pipe \in [Procs -> Seq(1..nextId)] /\ pipe[p] \in Seq(1..nextId) /\ IsInjective(pipe[p])
  BY <1>1 DEF ClientInv, PipesInv
<1>3. PICK k \in 0..Len(pipe[p]) : pipe' = [pipe EXCEPT ![p] = SubSeq(pipe[p], 1, k)]
  BY <1>1, <1>2 DEF Exit
<1>4. PICK r \in Seq(1..nextId) : /\ r = SubSeq(pipe[p], 1, k) /\ IsInjective(r)
                                  /\ Range(r) \subseteq Range(pipe[p])
  <2>1. /\ SubSeq(pipe[p], 1, k) \in Seq(1..nextId) /\ IsInjective(SubSeq(pipe[p], 1, k))
        /\ Range(SubSeq(pipe[p], 1, k)) \subseteq Range(pipe[p])
    BY <1>2, PrefixFacts
  <2> QED BY <2>1
<1>5. /\ pipe' \in [Procs -> Seq(1..nextId)] /\ pipe'[p] = r
      /\ \A q \in Procs \ {p} : pipe'[q] = pipe[q]
  BY <1>1, <1>2, <1>3, <1>4
<1>6. \A q \in Procs : IsInjective(pipe'[q]) /\ Range(pipe'[q]) \subseteq Range(pipe[q])
  BY <1>4, <1>5 DEF ClientInv, PipesInv
<1>7. /\ nextId' = nextId /\ task' = task /\ alive' = alive \ {p} /\ spawned' = spawned
      /\ holder' = holder /\ queue' = queue
      /\ \A c \in Callers : (Reading(c)' <=> Reading(c)) /\ (Locking(c)' <=> Locking(c))
      /\ Spawning' = Spawning
  BY DEF Exit, Reading, Locking, Spawning
<1>8. PipesInv'
  <2>1. \A q \in Procs, c \in Callers : Locking(c)' => task'[c].id \notin Range(pipe'[q])
    BY <1>6, <1>7 DEF ClientInv, PipesInv
  <2>2. \A c \in Callers : Reading(c)' /\ task'[c].proc \in alive' =>
          LET q == pipe'[task'[c].proc] IN q # <<>> /\ Last(q) = task'[c].id
    <3> SUFFICES ASSUME NEW c \in Callers, Reading(c), task[c].proc \in alive \ {p}
                 PROVE  pipe'[task[c].proc] # <<>> /\ Last(pipe'[task[c].proc]) = task[c].id
      BY <1>7
    <3>1. task[c].proc \in Procs \ {p}
      <4>1. spawned \in Nat /\ spawned + Cardinality(Spawning) <= MaxProcs /\ task[c].proc \in 1..spawned
        BY DEF ClientInv, ClientTypes
      <4> QED BY <4>1, ProcsFinite, McpAssumption DEF Procs
    <3>2. pipe[task[c].proc] # <<>> /\ Last(pipe[task[c].proc]) = task[c].id
      BY DEF ClientInv, PipesInv
    <3> QED BY <1>5, <3>1, <3>2
  <2> QED BY <1>5, <1>6, <1>7, <2>1, <2>2 DEF ClientInv, PipesInv
<1>9. LockInv'
  BY <1>7 DEF ClientInv, LockInv
<1>10. ClientTypes'
  BY <1>7 DEF ClientInv, ClientTypes
<1> QED BY <1>8, <1>9, <1>10 DEF ClientInv

\* The connection changes and nothing else.
LEMMA ConnectionKeeps ==
    ASSUME ClientInv, UNCHANGED <<spawned, alive, pipe, holder, queue, nextId, task>>,
           process' \in 0..spawned, initialized' \in BOOLEAN, life' \in {"open", "closing", "closed"}
    PROVE  ClientInv'
  BY DEF ClientInv, ClientTypes, LockInv, PipesInv, Spawning, Reading, Locking

LEMMA ClientStep == ClientInv /\ [Next]_vars => ClientInv'
<1> SUFFICES ASSUME ClientInv, [Next]_vars PROVE ClientInv'
  OBVIOUS
<1>0. /\ spawned \in Nat /\ process \in 0..spawned /\ 0 \in 0..spawned /\ initialized \in BOOLEAN
      /\ life \in {"open", "closing", "closed"}
  BY DEF ClientInv, ClientTypes
<1>1. CASE UNCHANGED vars
  BY <1>0, <1>1, ConnectionKeeps DEF vars
<1>2. ASSUME NEW c \in Callers, NEW op \in Ops, Begin(c, op) PROVE ClientInv'
  BY <1>2, BeginKeeps
<1>3. ASSUME NEW c \in Callers, Spawned(c) \/ Enter(c) PROVE ClientInv'
  BY <1>3, SpawnedKeeps, EnterKeeps
<1>4. ASSUME NEW c \in Callers, Answer(c) \/ Cancel(c) PROVE ClientInv'
  <2>1. CASE \E ok \in BOOLEAN : Read(c, ok)
    BY <2>1, ReadKeeps
  <2>2. CASE Eof(c) \/ Timeout(c) \/ Cancel(c)
    BY <2>2, EndKeeps DEF Eof, Timeout, Cancel
  <2> QED BY <1>4, <2>1, <2>2 DEF Answer
<1>5. ASSUME NEW p \in Procs, Crash(p) PROVE ClientInv'
  BY <1>0, <1>5, ExitKeeps DEF Crash
<1>6. CASE Disconnect
  <2>1. CASE /\ process \in alive /\ Exit(process) /\ life' = "closing"
             /\ UNCHANGED <<initialized, process, spawned, holder, queue, nextId, task>>
    <3>1. PICK p \in alive : p = process /\ Exit(p)
      BY <2>1
    <3> QED BY <1>0, <2>1, <3>1, ExitKeeps
  <2>2. CASE /\ life' = "closed" /\ process' \in {NoProcess, process} /\ initialized' \in {FALSE, initialized}
             /\ UNCHANGED <<alive, pipe, spawned, holder, queue, nextId, task>>
    BY <1>0, <2>2, ConnectionKeeps DEF NoProcess
  <2> QED BY <1>6, <2>1, <2>2 DEF Disconnect
<1>7. CASE Disconnected
  BY <1>0, <1>7, ConnectionKeeps DEF Disconnected, NoProcess
<1> QED BY <1>1, <1>2, <1>3, <1>4, <1>5, <1>6, <1>7 DEF Next

LEMMA ClientSound == ClientInv => LockConsistent /\ ReaderIsLast
<1> SUFFICES ASSUME ClientInv PROVE LockConsistent /\ ReaderIsLast
  OBVIOUS
<1>1. LockConsistent
  BY DEF ClientInv, LockInv, LockConsistent, Reading, Locking, IsInjective, Range
<1>2. ReaderIsLast
  <2>1. ASSUME NEW p \in Procs, NEW i \in DOMAIN pipe[p], NEW k \in DOMAIN pipe[p], i < k
        PROVE  pipe[p][i] # pipe[p][k]
    <3>1. IsInjective(pipe[p]) /\ pipe[p] \in Seq(1..nextId)
      BY DEF ClientInv, PipesInv
    <3>2. i \in Nat /\ k \in Nat /\ i # k
      BY <2>1, <3>1, LenProperties
    <3> QED BY <3>1, <3>2 DEF IsInjective
  <2>2. \A c \in Callers : (task[c].phase = "reading" /\ task[c].proc \in alive) =>
          LET q == pipe[task[c].proc] IN q # <<>> /\ Last(q) = task[c].id
    BY DEF ClientInv, PipesInv, Reading
  <2> QED BY <2>1, <2>2 DEF ReaderIsLast
<1> QED BY <1>1, <1>2

-----------------------------------------------------------------------------
(* The registry of MCP servers.                                            *)

Entries == [registered : BOOLEAN, enabled : BOOLEAN, teams : SUBSET (Teams \cup {"all"}),
            initialized : BOOLEAN, connected : BOOLEAN,
            health : {"unknown", "healthy", "unhealthy", "connecting"}]

\* The servers that hold a connection.
Holders == {n \in ServerNames : server[n].connected}

\* Every open connection is a server's or one that was replaced; a request that waits
\* for a connection is for a server that holds one.
RegistryInv ==
  /\ toConnect \in Seq([name : ServerNames, enabled : BOOLEAN, teams : SUBSET (Teams \cup {"all"})])
  /\ server \in [ServerNames -> Entries]
  /\ replaced \in Nat /\ connections = replaced + Cardinality(Holders)
  /\ mcpCaller \in [McpCallers -> [phase : {"idle", "connecting", "calling"},
                                   name : ServerNames \cup {<<>>}]]
  /\ mcpPhase \in {"startup", "serving", "stopped"}
  /\ \A n \in ServerNames :
       /\ server[n].enabled => server[n].registered
       /\ server[n].initialized => server[n].connected /\ server[n].enabled
  /\ \A c \in McpCallers :
       /\ mcpPhase = "startup" => mcpCaller[c].phase = "idle"
       /\ mcpPhase = "stopped" => mcpCaller[c].phase = "idle"
       /\ mcpCaller[c].phase = "connecting" =>
            /\ mcpCaller[c].name \in ServerNames
            /\ server[mcpCaller[c].name].connected /\ server[mcpCaller[c].name].enabled
  /\ mcpPhase = "stopped" => Holders = {}

LEMMA EntryTypes ==
    /\ NoServer \in Entries
    /\ ~NoServer.registered /\ ~NoServer.enabled /\ ~NoServer.connected /\ ~NoServer.initialized
  BY DEF NoServer, Entries

LEMMA RegistryInit == McInit => RegistryInv
<1> SUFFICES ASSUME McInit PROVE RegistryInv
  OBVIOUS
<1>1. Holders = {}
  BY EntryTypes DEF McInit, Holders
<1>2. connections = replaced + Cardinality(Holders) /\ replaced \in Nat
  BY <1>1, FS_EmptySet DEF McInit
<1>3. NoCall \in [phase : {"idle", "connecting", "calling"}, name : ServerNames \cup {<<>>}]
      /\ NoCall.phase = "idle"
  BY DEF NoCall
<1>4. toConnect \in Seq([name : ServerNames, enabled : BOOLEAN, teams : SUBSET (Teams \cup {"all"})])
  BY RegistryAssumption DEF McInit
<1> QED BY <1>1, <1>2, <1>3, <1>4, EntryTypes DEF McInit, RegistryInv

LEMMA HoldersFinite == IsFiniteSet(Holders) /\ Cardinality(Holders) \in Nat
  BY RegistryAssumption, FS_Subset, FS_CardinalityType DEF Holders

\* What connect() makes of an entry.
LEMMA ConnectedEntry ==
    ASSUME NEW s \in Entries, NEW ok \in BOOLEAN
    PROVE  /\ Connected(s, ok) \in Entries
           /\ Connected(s, ok).connected
           /\ Connected(s, ok).registered = s.registered /\ Connected(s, ok).enabled = s.enabled
           /\ Connected(s, ok).initialized => s.initialized \/ ok
  BY DEF Connected, Entries

LEMMA RegisterKeeps ==
    ASSUME RegistryInv, RegisterServer
    PROVE  RegistryInv'
<1> DEFINE Configs == [name : ServerNames, enabled : BOOLEAN, teams : SUBSET (Teams \cup {"all"})]
<1>1. /\ mcpPhase = "startup" /\ toConnect \in Seq(Configs) /\ toConnect # <<>>
      /\ toConnect' = Tail(toConnect) /\ UNCHANGED <<replaced, mcpCaller, mcpPhase>>
  BY DEF RegistryInv, RegisterServer
<1>2. Tail(toConnect) \in Seq(Configs) /\ Head(toConnect) \in Configs
  BY <1>1, HeadTailProperties
<1>3. PICK n \in ServerNames, on \in BOOLEAN, teams \in SUBSET (Teams \cup {"all"}) :
        n = Head(toConnect).name /\ on = Head(toConnect).enabled /\ teams = Head(toConnect).teams
  BY <1>2
<1>4. PICK entry \in Entries : 
        entry = [NoServer EXCEPT !.registered = TRUE, !.enabled = on, !.teams = teams]
  BY DEF Entries, NoServer
<1>5. entry.registered /\ entry.enabled = on /\ ~entry.connected /\ ~entry.initialized
  BY <1>4 DEF NoServer
<1>6. PICK ok \in BOOLEAN :
        /\ server' = [server EXCEPT ![n] = IF on THEN Connected(entry, ok) ELSE entry]
        /\ connections' = OpenAfterUnregister(n) + (IF on THEN 1 ELSE 0)
  BY <1>3, <1>4 DEF RegisterServer
<1>7. PICK new \in Entries : new = IF on THEN Connected(entry, ok) ELSE entry
  BY ConnectedEntry
<1>8. /\ new.connected = on /\ new.enabled = on /\ new.registered
      /\ new.initialized => on
  <2>1. CASE on
    BY <1>5, <1>7, <2>1, ConnectedEntry
  <2>2. CASE ~on
    BY <1>5, <1>7, <2>2 DEF Entries
  <2> QED BY <2>1, <2>2
<1>9. /\ server' \in [ServerNames -> Entries]
      /\ \A m \in ServerNames : server'[m] = IF m = n THEN new ELSE server[m]
  BY <1>6, <1>7 DEF RegistryInv
<1>10. connections' = replaced' + Cardinality(Holders')
  <2>1. Holders' = IF on THEN Holders \cup {n} ELSE Holders \ {n}
    BY <1>8, <1>9 DEF Holders
  <2>2. PICK before \in Nat : before = Cardinality(Holders)
    BY HoldersFinite
  <2>3. n \in Holders <=> server[n].connected
    BY DEF Holders
  <2>4. Cardinality(Holders') = IF on THEN (IF n \in Holders THEN before ELSE before + 1)
                                ELSE (IF n \in Holders THEN before - 1 ELSE before)
    BY <2>1, <2>2, HoldersFinite, FS_AddElement, FS_RemoveElement
  <2>5. connections = replaced + before /\ replaced \in Nat
    BY <2>2 DEF RegistryInv
  <2>6. connections' = connections - (IF n \in Holders THEN 1 ELSE 0) + (IF on THEN 1 ELSE 0)
    BY <1>6, <2>3 DEF OpenAfterUnregister
  <2> QED BY <1>1, <2>4, <2>5, <2>6
<1>11. \A m \in ServerNames :
         /\ server'[m].enabled => server'[m].registered
         /\ server'[m].initialized => server'[m].connected /\ server'[m].enabled
  BY <1>8, <1>9 DEF RegistryInv
<1>12. \A c \in McpCallers : mcpCaller[c].phase = "idle"
  BY <1>1 DEF RegistryInv
<1> QED BY <1>1, <1>2, <1>9, <1>10, <1>11, <1>12 DEF RegistryInv

\* A step that leaves the connections of the servers alone.
LEMMA HoldersStay ==
    ASSUME RegistryInv, NEW n \in ServerNames, NEW new \in Entries,
           server' = [server EXCEPT ![n] = new]
    PROVE  /\ server' \in [ServerNames -> Entries]
           /\ \A m \in ServerNames : server'[m] = IF m = n THEN new ELSE server[m]
           /\ new.connected => Holders' = Holders \cup {n}
           /\ new.connected = server[n].connected => Holders' = Holders
<1>1. /\ server' \in [ServerNames -> Entries]
      /\ \A m \in ServerNames : server'[m] = IF m = n THEN new ELSE server[m]
  BY DEF RegistryInv
<1> QED BY <1>1 DEF Holders

LEMMA CallToolKeeps ==
    ASSUME RegistryInv, NEW c \in McpCallers, NEW n \in ServerNames, CallTool(c, n)
    PROVE  RegistryInv'
<1>1. /\ mcpPhase = "serving" /\ mcpCaller[c].phase = "idle" /\ server[n].registered /\ server[n].enabled
      /\ UNCHANGED <<toConnect, mcpPhase>>
  BY DEF CallTool
<1>2. CASE server[n].initialized
  <2>1. /\ mcpCaller' = [mcpCaller EXCEPT ![c] = [phase |-> "calling", name |-> n]]
        /\ UNCHANGED <<server, connections, replaced>>
    BY <1>2 DEF CallTool
  <2>2. Holders' = Holders
    BY <2>1 DEF Holders
  <2>3. /\ mcpCaller' \in [McpCallers -> [phase : {"idle", "connecting", "calling"},
                                          name : ServerNames \cup {<<>>}]]
        /\ \A d \in McpCallers : mcpCaller'[d] = IF d = c THEN [phase |-> "calling", name |-> n] ELSE mcpCaller[d]
    BY <2>1 DEF RegistryInv
  <2>4. \A d \in McpCallers : mcpCaller'[d].phase = "connecting" =>
          mcpCaller[d].phase = "connecting" /\ mcpCaller'[d] = mcpCaller[d]
    BY <2>3
  <2> QED BY <1>1, <2>1, <2>2, <2>3, <2>4 DEF RegistryInv
<1>3. CASE ~server[n].initialized
  <2>1. /\ mcpCaller' = [mcpCaller EXCEPT ![c] = [phase |-> "connecting", name |-> n]]
        /\ server' = [server EXCEPT ![n].connected = TRUE, ![n].health = "connecting"]
        /\ connections' = connections + 1
        /\ replaced' = replaced + (IF server[n].connected THEN 1 ELSE 0)
    BY <1>3 DEF CallTool
  <2>2. server[n] \in Entries
    BY DEF RegistryInv
  <2>3. PICK new \in Entries : new = [server[n] EXCEPT !.connected = TRUE, !.health = "connecting"]
    BY <2>2 DEF Entries
  <2>4. new.connected /\ new.enabled = server[n].enabled /\ new.registered = server[n].registered
        /\ new.initialized = server[n].initialized
    BY <2>2, <2>3 DEF Entries
  <2>5. server' = [server EXCEPT ![n] = new]
    BY <2>1, <2>3 DEF RegistryInv
  <2>6. /\ server' \in [ServerNames -> Entries] /\ Holders' = Holders \cup {n}
        /\ \A m \in ServerNames : server'[m] = IF m = n THEN new ELSE server[m]
    BY <2>4, <2>5, HoldersStay
  <2>7. connections' = replaced' + Cardinality(Holders') /\ replaced' \in Nat
    <3>1. PICK before \in Nat : before = Cardinality(Holders)
      BY HoldersFinite
    <3>2. n \in Holders <=> server[n].connected
      BY DEF Holders
    <3>3. Cardinality(Holders') = IF n \in Holders THEN before ELSE before + 1
      BY <2>6, <3>1, HoldersFinite, FS_AddElement
    <3>4. connections = replaced + before /\ replaced \in Nat
      BY <3>1 DEF RegistryInv
    <3> QED BY <2>1, <3>2, <3>3, <3>4
  <2>8. /\ mcpCaller' \in [McpCallers -> [phase : {"idle", "connecting", "calling"},
                                          name : ServerNames \cup {<<>>}]]
        /\ \A d \in McpCallers : mcpCaller'[d] = IF d = c THEN [phase |-> "connecting", name |-> n] ELSE mcpCaller[d]
    BY <2>1 DEF RegistryInv
  <2>9. \A m \in ServerNames :
          /\ server'[m].enabled = server[m].enabled /\ server'[m].registered = server[m].registered
          /\ server'[m].initialized = server[m].initialized
          /\ server[m].connected => server'[m].connected
    BY <2>4, <2>6
  <2>10. \A d \in McpCallers : mcpCaller'[d].phase = "connecting" =>
           /\ mcpCaller'[d].name \in ServerNames
           /\ server'[mcpCaller'[d].name].connected /\ server'[mcpCaller'[d].name].enabled
    <3> SUFFICES ASSUME NEW d \in McpCallers, mcpCaller'[d].phase = "connecting"
                 PROVE  /\ mcpCaller'[d].name \in ServerNames
                        /\ server'[mcpCaller'[d].name].connected /\ server'[mcpCaller'[d].name].enabled
      OBVIOUS
    <3>1. CASE d = c
      <4>1. mcpCaller'[d].name = n
        BY <2>8, <3>1
      <4>2. server'[n].connected /\ server'[n].enabled
        BY <1>1, <2>4, <2>6
      <4> QED BY <4>1, <4>2
    <3>2. CASE d # c
      BY <2>8, <2>9, <3>2 DEF RegistryInv
    <3> QED BY <3>1, <3>2
  <2>11. \A m \in ServerNames :
           /\ server'[m].enabled => server'[m].registered
           /\ server'[m].initialized => server'[m].connected /\ server'[m].enabled
    BY <2>9 DEF RegistryInv
  <2> QED BY <1>1, <2>6, <2>7, <2>8, <2>10, <2>11 DEF RegistryInv
<1> QED BY <1>2, <1>3

LEMMA ConnectEndsKeeps ==
    ASSUME RegistryInv, NEW c \in McpCallers, ConnectEnds(c)
    PROVE  RegistryInv'
<1>1. PICK n \in ServerNames : 
        n = mcpCaller[c].name /\ server[n].connected /\ server[n].enabled
  BY DEF ConnectEnds, RegistryInv
<1>2. PICK ok \in BOOLEAN :
        /\ server' = [server EXCEPT ![n] = Connected(server[n], ok)]
        /\ mcpCaller' = [mcpCaller EXCEPT ![c] = IF ok THEN [mcpCaller[c] EXCEPT !.phase = "calling"] ELSE NoCall]
  BY <1>1 DEF ConnectEnds
<1>3. mcpCaller[c].phase = "connecting" /\ UNCHANGED <<toConnect, connections, replaced, mcpPhase>>
  BY DEF ConnectEnds
<1>4. mcpPhase = "serving"
  BY <1>3 DEF RegistryInv
<1>5. server[n] \in Entries
  BY DEF RegistryInv
<1>6. PICK new \in Entries :
        /\ new = Connected(server[n], ok) /\ new.connected
        /\ new.registered = server[n].registered /\ new.enabled = server[n].enabled
  BY <1>5, ConnectedEntry
<1>7. /\ server' \in [ServerNames -> Entries] /\ Holders' = Holders
      /\ \A m \in ServerNames : server'[m] = IF m = n THEN new ELSE server[m]
  <2>1. new.connected = server[n].connected
    BY <1>1, <1>5, <1>6 DEF Entries
  <2> QED BY <1>2, <1>6, <2>1, HoldersStay
<1>8. PICK call \in [phase : {"idle", "connecting", "calling"}, name : ServerNames \cup {<<>>}] :
        /\ call = IF ok THEN [mcpCaller[c] EXCEPT !.phase = "calling"] ELSE NoCall
        /\ call.phase # "connecting"
  <2>1. mcpCaller[c] \in [phase : {"idle", "connecting", "calling"}, name : ServerNames \cup {<<>>}]
    BY DEF RegistryInv
  <2>2. NoCall \in [phase : {"idle", "connecting", "calling"}, name : ServerNames \cup {<<>>}]
        /\ NoCall.phase # "connecting"
    BY DEF NoCall
  <2>3. CASE ok
    <3>1. PICK call \in [phase : {"idle", "connecting", "calling"}, name : ServerNames \cup {<<>>}] :
            call = [mcpCaller[c] EXCEPT !.phase = "calling"]
      BY <2>1
    <3>2. call.phase # "connecting"
      BY <2>1, <3>1
    <3> QED BY <2>3, <3>1, <3>2
  <2> QED BY <2>2, <2>3
<1>9. /\ mcpCaller' \in [McpCallers -> [phase : {"idle", "connecting", "calling"},
                                        name : ServerNames \cup {<<>>}]]
      /\ \A d \in McpCallers : mcpCaller'[d] = IF d = c THEN call ELSE mcpCaller[d]
  BY <1>2, <1>8 DEF RegistryInv
<1>10. \A m \in ServerNames :
         /\ server'[m].enabled = server[m].enabled /\ server'[m].registered = server[m].registered
         /\ server[m].connected => server'[m].connected
         /\ m # n => server'[m] = server[m]
  BY <1>6, <1>7
<1>11. \A m \in ServerNames :
         /\ server'[m].enabled => server'[m].registered
         /\ server'[m].initialized => server'[m].connected /\ server'[m].enabled
  <2> SUFFICES ASSUME NEW m \in ServerNames
               PROVE  /\ server'[m].enabled => server'[m].registered
                      /\ server'[m].initialized => server'[m].connected /\ server'[m].enabled
    OBVIOUS
  <2>1. CASE m = n
    BY <1>1, <1>6, <1>7, <2>1 DEF RegistryInv
  <2>2. CASE m # n
    BY <1>10, <2>2 DEF RegistryInv
  <2> QED BY <2>1, <2>2
<1>12. \A d \in McpCallers : mcpCaller'[d].phase = "connecting" =>
         /\ mcpCaller'[d].name \in ServerNames
         /\ server'[mcpCaller'[d].name].connected /\ server'[mcpCaller'[d].name].enabled
  BY <1>8, <1>9, <1>10 DEF RegistryInv
<1> QED BY <1>3, <1>4, <1>7, <1>9, <1>11, <1>12 DEF RegistryInv

LEMMA CallEndsKeeps ==
    ASSUME RegistryInv, NEW c \in McpCallers, CallEnds(c)
    PROVE  RegistryInv'
<1>1. /\ mcpCaller[c].phase = "calling" /\ mcpCaller' = [mcpCaller EXCEPT ![c] = NoCall]
      /\ UNCHANGED <<toConnect, server, connections, replaced, mcpPhase>>
  BY DEF CallEnds
<1>2. mcpPhase = "serving"
  BY <1>1 DEF RegistryInv
<1>3. /\ mcpCaller' \in [McpCallers -> [phase : {"idle", "connecting", "calling"},
                                        name : ServerNames \cup {<<>>}]]
      /\ \A d \in McpCallers : mcpCaller'[d] = IF d = c THEN NoCall ELSE mcpCaller[d]
  BY <1>1 DEF RegistryInv, NoCall
<1>4. \A d \in McpCallers : mcpCaller'[d].phase = "connecting" =>
        mcpCaller[d].phase = "connecting" /\ mcpCaller'[d] = mcpCaller[d]
  BY <1>3 DEF NoCall
<1>5. Holders' = Holders
  BY <1>1 DEF Holders
<1> QED BY <1>1, <1>2, <1>3, <1>4, <1>5 DEF RegistryInv

LEMMA CheckServerKeeps ==
    ASSUME RegistryInv, NEW n \in ServerNames, CheckServer(n)
    PROVE  RegistryInv'
<1>1. mcpPhase = "serving" /\ UNCHANGED <<toConnect, connections, replaced, mcpCaller, mcpPhase>>
  BY DEF CheckServer
<1>2. PICK h \in {"unhealthy", "healthy"} : server' = [server EXCEPT ![n].health = h]
  BY DEF CheckServer
<1>3. server[n] \in Entries
  BY DEF RegistryInv
<1>10. PICK new \in Entries : new = [server[n] EXCEPT !.health = h]
  BY <1>3 DEF Entries
<1>4. /\ new = [server[n] EXCEPT !.health = h] /\ new.connected = server[n].connected
      /\ new.registered = server[n].registered /\ new.enabled = server[n].enabled
      /\ new.initialized = server[n].initialized
  BY <1>3, <1>10 DEF Entries
<1>5. server' = [server EXCEPT ![n] = new]
  BY <1>2, <1>4 DEF RegistryInv
<1>6. /\ server' \in [ServerNames -> Entries] /\ Holders' = Holders
      /\ \A m \in ServerNames : server'[m] = IF m = n THEN new ELSE server[m]
  BY <1>4, <1>5, HoldersStay
<1>7. \A m \in ServerNames :
        /\ server'[m].enabled = server[m].enabled /\ server'[m].registered = server[m].registered
        /\ server'[m].initialized = server[m].initialized
        /\ server'[m].connected = server[m].connected
  BY <1>4, <1>6
<1> QED BY <1>1, <1>6, <1>7 DEF RegistryInv

LEMMA McShutdownKeeps ==
    ASSUME RegistryInv, McShutdown
    PROVE  RegistryInv'
<1>1. /\ \A c \in McpCallers : mcpCaller[c].phase = "idle"
      /\ mcpPhase' = "stopped" /\ UNCHANGED <<toConnect, replaced, mcpCaller>>
      /\ connections' = connections - Cardinality(Holders)
      /\ server' = [n \in ServerNames |-> NoServer]
  BY DEF McShutdown, Holders
<1>2. Holders' = {}
  BY <1>1, EntryTypes DEF Holders
<1>3. connections' = replaced' + Cardinality(Holders') /\ replaced' \in Nat
  <2>1. PICK before \in Nat : before = Cardinality(Holders)
    BY HoldersFinite
  <2>2. connections = replaced + before /\ replaced \in Nat
    BY <2>1 DEF RegistryInv
  <2>3. Cardinality(Holders') = 0
    BY <1>2, FS_EmptySet
  <2> QED BY <1>1, <2>1, <2>2, <2>3
<1>4. /\ server' \in [ServerNames -> Entries]
      /\ \A m \in ServerNames : ~server'[m].enabled /\ ~server'[m].initialized
  BY <1>1, EntryTypes
<1> QED BY <1>1, <1>2, <1>3, <1>4 DEF RegistryInv

LEMMA RegistryStep == RegistryInv /\ [McNext]_mcVars => RegistryInv'
<1> SUFFICES ASSUME RegistryInv, [McNext]_mcVars PROVE RegistryInv'
  OBVIOUS
<1>1. CASE UNCHANGED mcVars
  BY <1>1 DEF RegistryInv, mcVars, Holders
<1>2. CASE McServe
  BY <1>2 DEF RegistryInv, McServe, Holders
<1> QED BY <1>1, <1>2, RegisterKeeps, CallToolKeeps, ConnectEndsKeeps, CallEndsKeeps, CheckServerKeeps,
           McShutdownKeeps DEF McNext

\* The two parts of a concatenation.
LEMMA ConcatParts ==
    ASSUME NEW S, NEW s \in Seq(S), NEW t \in Seq(S), NEW a \in Nat, NEW b \in Nat, a = Len(s), b = Len(t)
    PROVE  /\ s \o t \in Seq(S) /\ Len(s \o t) = a + b
           /\ \A i \in 1..a : (s \o t)[i] = s[i]
           /\ \A i \in 1..b : (s \o t)[a + i] = t[i]
<1>1. PICK r \in Seq(S) : r = s \o t
  BY ConcatProperties
<1>2. /\ Len(r) = Len(s) + Len(t)
      /\ \A i \in 1..(Len(s) + Len(t)) : r[i] = IF i <= Len(s) THEN s[i] ELSE t[i - Len(s)]
  BY <1>1, ConcatProperties
<1>3. /\ Len(r) = a + b
      /\ \A i \in 1..(a + b) : r[i] = IF i <= a THEN s[i] ELSE t[i - a]
  BY <1>2
<1>4. /\ \A i \in 1..a : r[i] = s[i]
      /\ \A i \in 1..b : r[a + i] = t[i]
  <2>1. \A i \in 1..b : a + i \in 1..(a + b) /\ ~(a + i <= a) /\ (a + i) - a = i
    OBVIOUS
  <2>2. \A i \in 1..a : i \in 1..(a + b) /\ i <= a
    OBVIOUS
  <2>3. ASSUME NEW i \in 1..a PROVE r[i] = s[i]
    BY <1>3, <2>2
  <2>4. ASSUME NEW i \in 1..b PROVE r[a + i] = t[i]
    <3>1. PICK k \in 1..(a + b) : k = a + i /\ ~(k <= a) /\ k - a = i
      BY <2>1
    <3> QED BY <1>3, <3>1
  <2> QED BY <2>3, <2>4
<1> QED BY <1>1, <1>3, <1>4

\* The name of a tool is cut where its server's name ends.
LEMMA CutAfterServer ==
    ASSUME NEW n \in ServerNames, NEW t \in ToolNames, Cuts(n) = {}, n[Len(n)] # Underscore,
           NEW name, name = FunctionName(n, t)
    PROVE  Cuts(name) # {} /\ CutAt(name, first_cut(Cuts(name))) = <<n, t>>
<1>0. PICK C, u : C = Characters \cup {Underscore} /\ u = <<Underscore, Underscore>>
  OBVIOUS
<1>1. n \in Seq(C) /\ n # <<>> /\ t \in Seq(C) /\ u \in Seq(C) /\ Len(u) = 2 /\ u[1] = Underscore /\ u[2] = Underscore
  <2>1. n \in Seq(Characters) /\ n # <<>> /\ t \in Seq(Characters)
    BY RegistryAssumption
  <2>2. n \in Seq(C) /\ t \in Seq(C)
    BY <1>0, <2>1, SeqMonotonic
  <2>3. u \in Seq(C) /\ Len(u) = 2 /\ u[1] = Underscore /\ u[2] = Underscore
    BY <1>0
  <2> QED BY <2>1, <2>2, <2>3
<1>2. PICK a \in Nat, b \in Nat : a = Len(n) /\ b = Len(t) /\ a # 0
  BY <1>1, LenProperties, EmptySeq
<1>3. PICK v \in Seq(C) :
        /\ v = n \o u /\ Len(v) = a + 2
        /\ \A i \in 1..a : v[i] = n[i]
        /\ v[a + 1] = Underscore /\ v[a + 2] = Underscore
  <2>0. PICK two \in Nat : two = 2
    OBVIOUS
  <2>1. PICK v : v = n \o u
    OBVIOUS
  <2>2. /\ v \in Seq(C) /\ Len(v) = a + two
        /\ \A i \in 1..a : v[i] = n[i]
        /\ \A i \in 1..two : v[a + i] = u[i]
    <3>1. two = Len(u)
      BY <1>1, <2>0
    <3>2. /\ n \o u \in Seq(C) /\ Len(n \o u) = a + two
          /\ \A i \in 1..a : (n \o u)[i] = n[i]
          /\ \A i \in 1..two : (n \o u)[a + i] = u[i]
      <4>1. n \in Seq(C) /\ u \in Seq(C) /\ a = Len(n)
        BY <1>1, <1>2
      <4> QED BY <3>1, <4>1, ConcatParts
    <3> QED BY <2>1, <3>2
  <2>3. v[a + 1] = Underscore /\ v[a + 2] = Underscore
    <3>1. 1 \in 1..two /\ 2 \in 1..two
      BY <2>0
    <3>2. v[a + 1] = u[1] /\ v[a + 2] = u[2]
      BY <2>2, <3>1
    <3> QED BY <1>1, <3>2
  <2> QED BY <2>0, <2>1, <2>2, <2>3
<1>4. PICK l \in Nat :
        /\ l = a + 2 /\ name \in Seq(C) /\ Len(name) = l + b
        /\ \A i \in 1..l : name[i] = v[i]
        /\ \A i \in 1..b : name[l + i] = t[i]
  <2>1. name = v \o t
    BY <1>0, <1>3 DEF FunctionName
  <2>2. PICK l \in Nat : l = a + 2
    OBVIOUS
  <2>3. l = Len(v)
    BY <1>3, <2>2
  <2>4. /\ name \in Seq(C) /\ Len(name) = l + b
        /\ \A i \in 1..l : name[i] = v[i]
        /\ \A i \in 1..b : name[l + i] = t[i]
    <3>1. /\ v \o t \in Seq(C) /\ Len(v \o t) = l + b
          /\ \A i \in 1..l : (v \o t)[i] = v[i]
          /\ \A i \in 1..b : (v \o t)[l + i] = t[i]
      <4>1. v \in Seq(C) /\ t \in Seq(C) /\ b = Len(t)
        BY <1>1, <1>2
      <4> QED BY <2>3, <4>1, ConcatParts
    <3> QED BY <2>1, <3>1
  <2> QED BY <2>2, <2>4
<1>5. /\ \A i \in 1..a : name[i] = n[i]
      /\ name[a + 1] = Underscore /\ name[a + 2] = Underscore
      /\ \A i \in 1..b : name[a + 2 + i] = t[i]
  <2>1. /\ \A i \in 1..a : i \in 1..l
        /\ a + 1 \in 1..l /\ a + 2 \in 1..l
    BY <1>4
  <2>2. \A i \in 1..a : name[i] = n[i]
    BY <1>3, <1>4, <2>1
  <2>3. name[a + 1] = v[a + 1] /\ name[a + 2] = v[a + 2]
    BY <1>4, <2>1
  <2>4. \A i \in 1..b : name[a + 2 + i] = t[i]
    BY <1>4
  <2> QED BY <1>3, <2>2, <2>3, <2>4
<1>6. a + 1 \in Cuts(name)
  BY <1>4, <1>5 DEF Cuts
<1>7. \A j \in Cuts(name) : a + 1 <= j
  <2> SUFFICES ASSUME NEW j \in Cuts(name), j < a + 1 PROVE FALSE
    BY <1>4 DEF Cuts
  <2>1. j \in 1..a /\ name[j] = Underscore /\ name[j + 1] = Underscore
    BY <1>4 DEF Cuts
  <2>2. CASE j = a
    BY <1>2, <1>5, <2>1, <2>2
  <2>3. CASE j # a
    <3>1. j \in 1..(a - 1) /\ j + 1 \in 1..a
      BY <2>1, <2>3
    <3>2. n[j] = Underscore /\ n[j + 1] = Underscore
      BY <1>5, <2>1, <3>1
    <3> QED BY <1>2, <3>1, <3>2 DEF Cuts
  <2> QED BY <2>2, <2>3
<1>8. first_cut(Cuts(name)) = a + 1
  <2>1. \A k \in Cuts(name) : (\A j \in Cuts(name) : k <= j) => k = a + 1
    <3> SUFFICES ASSUME NEW k \in Cuts(name), k <= a + 1 PROVE k = a + 1
      BY <1>6
    <3>1. k \in Int
      BY <1>4 DEF Cuts
    <3> QED BY <1>7, <3>1
  <2> QED BY <1>6, <1>7, <2>1 DEF first_cut
<1>9. SubSeq(name, 1, a) = n
  <2>1. \A i \in 1..a : name[i] \in C
    BY <1>4, ElementOfSeq
  <2>2. /\ SubSeq(name, 1, a) \in Seq(C) /\ Len(SubSeq(name, 1, a)) = a
        /\ \A i \in 1..a : SubSeq(name, 1, a)[i] = name[i]
    BY <2>1, SubSeqProperties
  <2> QED BY <1>1, <1>2, <1>5, <2>2, SeqEqual
<1>10. SubSeq(name, a + 3, a + 2 + b) = t
  <2>1. \A i \in (a + 3)..(a + 2 + b) : name[i] \in C
    BY <1>4, ElementOfSeq
  <2>2. /\ SubSeq(name, a + 3, a + 2 + b) \in Seq(C) /\ Len(SubSeq(name, a + 3, a + 2 + b)) = b
        /\ \A i \in 1..b : SubSeq(name, a + 3, a + 2 + b)[i] = name[a + 2 + i]
    BY <2>1, SubSeqProperties
  <2>3. PICK r \in Seq(C) : r = SubSeq(name, a + 3, a + 2 + b) /\ Len(r) = b /\ \A i \in 1..b : r[i] = t[i]
    BY <1>5, <2>2
  <2>4. t \in Seq(C) /\ Len(t) = b
    BY <1>1, <1>2
  <2>5. r = t
    BY <2>3, <2>4, SeqEqual
  <2> QED BY <2>3, <2>5
<1>11. CutAt(name, a + 1) = <<n, t>>
  BY <1>4, <1>9, <1>10 DEF CutAt
<1> QED BY <1>6, <1>8, <1>11

LEMMA RegistrySound == RegistryInv => ShutdownDisconnects /\ ToolsResolve
<1> SUFFICES ASSUME RegistryInv PROVE ShutdownDisconnects /\ ToolsResolve
  OBVIOUS
<1>1. ShutdownDisconnects
  <2>1. mcpPhase = "stopped" => Cardinality(Holders) = 0
    BY FS_EmptySet DEF RegistryInv
  <2> QED BY <2>1 DEF RegistryInv, ShutdownDisconnects
<1>2. ToolsResolve
  <2> SUFFICES ASSUME NEW n \in ServerNames, NEW t \in ToolNames, NEW team \in Teams,
                      n \in list_tools(team), Cuts(n) = {}, n[Len(n)] # Underscore
               PROVE  resolve_tool_call(FunctionName(n, t)) = <<n, t>>
    BY DEF ToolsResolve
  <2>1. server[n].registered
    BY DEF list_tools, RegistryInv
  <2>2. PICK name : name = FunctionName(n, t)
    OBVIOUS
  <2>3. Cuts(name) # {} /\ CutAt(name, first_cut(Cuts(name))) = <<n, t>>
    BY <2>2, CutAfterServer
  <2>4. resolve_tool_call(name) = <<n, t>>
    BY <2>1, <2>3 DEF resolve_tool_call
  <2> QED BY <2>2, <2>4
<1> QED BY <1>1, <1>2

-----------------------------------------------------------------------------
(* The agents of the gateway.                                              *)

Invoking == [phase : {"idle", "posted", "done", "error"}, agent : Agents \cup {"none"},
             path : 0..LastPath, runs : Nat, lost : BOOLEAN]
Checking == [phase : {"idle", "get", "head"}, agent : Agents \cup {"none"}]
Clients == [health : {"healthy", "unhealthy"}, initialized : BOOLEAN] \cup {NoClient}

\* A call that was posted is to an agent that had connected, and none is posted before
\* all agents are registered or after the shutdown; one whose answer was lost has ended.
AgentsInv ==
  /\ toRegister \in Seq([name : Agents, enabled : BOOLEAN])
  /\ client \in [Agents -> Clients] /\ leftOpen \in Nat
  /\ invocation \in [Invocations -> Invoking] /\ checker \in [Checkers -> Checking]
  /\ gatewayPhase \in {"startup", "serving", "stopped"}
  /\ \A i \in Invocations :
       /\ invocation[i].phase = "posted" =>
            /\ gatewayPhase = "serving" /\ invocation[i].agent \in Agents
            /\ client[invocation[i].agent].initialized
       /\ invocation[i].lost => invocation[i].phase = "error"
  /\ \A c \in Checkers : checker[c].phase # "idle" =>
       checker[c].agent \in Agents /\ client[checker[c].agent] # NoClient

LEMMA AgentsInit == AgInit => AgentsInv
<1> SUFFICES ASSUME AgInit PROVE AgentsInv
  OBVIOUS
<1>1. toRegister \in Seq([name : Agents, enabled : BOOLEAN])
  BY AgentsAssumption DEF AgInit
<1>2. /\ NotInvoking \in Invoking /\ NotInvoking.phase = "idle" /\ ~NotInvoking.lost
      /\ NotChecking \in Checking /\ NotChecking.phase = "idle" /\ NoClient \in Clients
  BY DEF NotInvoking, NotChecking, LastPath, Invoking, Checking, Clients
<1> QED BY <1>1, <1>2 DEF AgInit, AgentsInv

LEMMA RegisterAgentKeeps ==
    ASSUME AgentsInv, RegisterAgent
    PROVE  AgentsInv'
<1>1. PICK config \in [name : Agents, enabled : BOOLEAN] : config = Head(toRegister)
  BY HeadTailProperties DEF AgentsInv, RegisterAgent
<1>2. toRegister' \in Seq([name : Agents, enabled : BOOLEAN])
  BY DEF AgentsInv, RegisterAgent
<1>3. /\ client' \in [Agents -> Clients] /\ leftOpen' \in Nat
      /\ \A a \in Agents : client[a] # NoClient => client'[a] # NoClient
  <2>1. CASE ~config.enabled
    BY <1>1, <2>1 DEF AgentsInv, RegisterAgent
  <2>2. CASE config.enabled
    <3>1. PICK ok \in BOOLEAN :
            /\ client' = [client EXCEPT ![config.name] =
                 [health |-> IF ok THEN "healthy" ELSE "unhealthy", initialized |-> ok]]
            /\ leftOpen' = leftOpen + (IF client[config.name] = NoClient THEN 0 ELSE 1)
      BY <1>1, <2>2 DEF RegisterAgent
    <3>2. leftOpen' \in Nat
      BY <3>1 DEF AgentsInv
    <3>3. PICK new : new = [health |-> IF ok THEN "healthy" ELSE "unhealthy", initialized |-> ok]
      OBVIOUS
    <3>4. new \in Clients /\ new # NoClient
      BY <3>3 DEF Clients, NoClient
    <3> QED BY <3>1, <3>2, <3>3, <3>4 DEF AgentsInv
  <2> QED BY <2>1, <2>2
<1> QED BY <1>2, <1>3 DEF AgentsInv, RegisterAgent

LEMMA InvokeAgentKeeps ==
    ASSUME AgentsInv, NEW i \in Invocations, InvokeAgent(i)
    PROVE  AgentsInv'
<1>1. PICK a \in Agents : invocation' = [invocation EXCEPT ![i] =
        IF client[a].initialized
        THEN [@ EXCEPT !.phase = "posted", !.agent = a, !.path = 1]
        ELSE [@ EXCEPT !.phase = "error"]]
  BY DEF InvokeAgent
<1>2. PICK inv : inv = invocation[i] /\ inv \in Invoking /\ inv.phase = "idle" /\ ~inv.lost
  BY DEF AgentsInv, InvokeAgent
<1>3. PICK new : new = IF client[a].initialized
                       THEN [inv EXCEPT !.phase = "posted", !.agent = a, !.path = 1]
                       ELSE [inv EXCEPT !.phase = "error"]
  OBVIOUS
<1>4. /\ new \in Invoking /\ ~new.lost
      /\ new.phase = "posted" => new.agent = a /\ client[a].initialized
  <2>1. CASE client[a].initialized
    <3>1. new = [inv EXCEPT !.phase = "posted", !.agent = a, !.path = 1]
      BY <1>3, <2>1
    <3>2. new \in Invoking
      <4>1. 1 \in 0..LastPath /\ a \in Agents \cup {"none"}
        BY DEF LastPath
      <4> QED BY <1>2, <3>1, <4>1 DEF Invoking
    <3>3. ~new.lost /\ new.agent = a
      BY <1>2, <3>1 DEF Invoking
    <3> QED BY <2>1, <3>2, <3>3
  <2>2. CASE ~client[a].initialized
    <3>1. new = [inv EXCEPT !.phase = "error"]
      BY <1>3, <2>2
    <3> QED BY <1>2, <3>1 DEF Invoking, LastPath
  <2> QED BY <2>1, <2>2
<1>5. invocation' = [invocation EXCEPT ![i] = new]
  BY <1>1, <1>2, <1>3
<1>6. gatewayPhase = "serving" /\ UNCHANGED <<toRegister, client, leftOpen, checker, gatewayPhase>>
  BY DEF InvokeAgent
<1> QED BY <1>4, <1>5, <1>6 DEF AgentsInv

LEMMA PostEndsKeeps ==
    ASSUME AgentsInv, NEW i \in Invocations, PostEnds(i)
    PROVE  AgentsInv'
<1>1. PICK answer \in {"ok", "404", "status", "transport"}, ran \in {0, 1} :
        invocation' = [invocation EXCEPT ![i] = Ended(invocation[i], answer, ran)]
  BY DEF PostEnds
<1>2. PICK inv : /\ inv = invocation[i] /\ inv \in Invoking /\ inv.phase = "posted" /\ ~inv.lost
                 /\ inv.agent \in Agents /\ client[inv.agent].initialized /\ gatewayPhase = "serving"
  BY DEF AgentsInv, PostEnds
<1>3. PICK new : new = Ended(inv, answer, ran)
  OBVIOUS
<1>4. new \in Invoking /\ new.agent = inv.agent /\ (new.lost => new.phase = "error")
  <2>1. PICK n \in Nat, p \in 0..3 : n = inv.runs + ran /\ p = inv.path
    BY <1>2 DEF Invoking, LastPath
  <2>2. CASE answer = "ok"
    <3>1. new = [[inv EXCEPT !.runs = n] EXCEPT !.phase = "done"]
      BY <1>3, <2>1, <2>2 DEF Ended
    <3> QED BY <1>2, <3>1 DEF Invoking
  <2>3. CASE answer = "transport"
    <3>1. new = [[inv EXCEPT !.runs = n] EXCEPT !.phase = "error", !.lost = TRUE]
      BY <1>3, <2>1, <2>3 DEF Ended
    <3> QED BY <1>2, <3>1 DEF Invoking
  <2>4. CASE answer \in {"404", "status"} /\ p < 3
    <3>1. new = [[inv EXCEPT !.runs = n] EXCEPT !.path = p + 1] /\ p + 1 \in 0..3
      BY <1>3, <2>1, <2>4 DEF Ended, LastPath
    <3> QED BY <1>2, <3>1 DEF Invoking, LastPath
  <2>5. CASE answer \in {"404", "status"} /\ ~(p < 3)
    <3>1. new = [[inv EXCEPT !.runs = n] EXCEPT !.phase = "error"]
      BY <1>3, <2>1, <2>5 DEF Ended, LastPath
    <3> QED BY <1>2, <3>1 DEF Invoking
  <2> QED BY <2>2, <2>3, <2>4, <2>5
<1>5. invocation' = [invocation EXCEPT ![i] = new]
  BY <1>1, <1>2, <1>3
<1>6. UNCHANGED <<toRegister, client, leftOpen, checker, gatewayPhase>>
  BY DEF PostEnds
<1> QED BY <1>2, <1>4, <1>5, <1>6 DEF AgentsInv

LEMMA ChecksKeep ==
    ASSUME AgentsInv, NEW c \in Checkers, CheckHealth(c) \/ ProbeEnds(c)
    PROVE  AgentsInv'
<1>1. CASE CheckHealth(c)
  <2>1. PICK a \in Agents : client[a] # NoClient /\ checker' = [checker EXCEPT ![c] = [phase |-> "get", agent |-> a]]
    BY <1>1 DEF CheckHealth
  <2>2. [phase |-> "get", agent |-> a] \in Checking
    BY DEF Checking
  <2> QED BY <1>1, <2>1, <2>2 DEF AgentsInv, CheckHealth
<1>2. CASE ProbeEnds(c)
  <2>1. PICK a \in Agents : a = checker[c].agent /\ client[a] # NoClient
    BY <1>2 DEF AgentsInv, ProbeEnds
  <2>2. CASE checker' = [checker EXCEPT ![c].phase = "head"] /\ UNCHANGED client
    <3>1. PICK new : new = [checker[c] EXCEPT !.phase = "head"]
      OBVIOUS
    <3>2. new \in Checking /\ new.agent = a
      BY <2>1, <3>1 DEF AgentsInv, Checking
    <3>3. checker' = [checker EXCEPT ![c] = new]
      BY <2>2, <3>1
    <3> QED BY <1>2, <2>1, <2>2, <3>2, <3>3 DEF AgentsInv, ProbeEnds
  <2>3. ASSUME NEW ok \in BOOLEAN, checker' = [checker EXCEPT ![c] = NotChecking],
               client' = [client EXCEPT ![a].health = IF ok THEN "healthy" ELSE "unhealthy"]
        PROVE  AgentsInv'
    <3>1. PICK new : new = [client[a] EXCEPT !.health = IF ok THEN "healthy" ELSE "unhealthy"]
      OBVIOUS
    <3>2. new \in Clients /\ new # NoClient /\ new.initialized = client[a].initialized
      BY <2>1, <3>1 DEF AgentsInv, Clients, NoClient
    <3>3. client' = [client EXCEPT ![a] = new]
      BY <2>3, <3>1
    <3>4. NotChecking \in Checking /\ NotChecking.phase = "idle"
      BY DEF NotChecking, Checking
    <3> QED BY <1>2, <2>1, <2>3, <3>2, <3>3, <3>4 DEF AgentsInv, ProbeEnds
  <2> QED BY <1>2, <2>1, <2>2, <2>3 DEF ProbeEnds
<1> QED BY <1>1, <1>2

LEMMA AgentsStop ==
    ASSUME AgentsInv, Shutdown
    PROVE  AgentsInv'
  BY DEF AgentsInv, Shutdown, Clients, NotChecking, Checking

LEMMA AgentsStep == AgentsInv /\ [AgNext]_agVars => AgentsInv'
<1> SUFFICES ASSUME AgentsInv, [AgNext]_agVars PROVE AgentsInv'
  OBVIOUS
<1>1. CASE UNCHANGED agVars
  BY <1>1 DEF AgentsInv, agVars
<1>2. CASE Serve
  BY <1>2 DEF AgentsInv, Serve
<1> QED BY <1>1, <1>2, RegisterAgentKeeps, InvokeAgentKeeps, PostEndsKeeps, ChecksKeep, AgentsStop DEF AgNext

LEMMA LostStep ==
    ASSUME AgentsInv, [AgNext]_agVars
    PROVE  [\A i \in Invocations : invocation[i].lost => invocation'[i] = invocation[i]]_agVars
<1> SUFFICES ASSUME AgNext, NEW i \in Invocations, invocation[i].lost PROVE invocation'[i] = invocation[i]
  OBVIOUS
<1>1. invocation[i].phase = "error" /\ invocation \in [Invocations -> Invoking]
  BY DEF AgentsInv
<1>2. CASE RegisterAgent \/ Serve \/ Shutdown \/ \E c \in Checkers : CheckHealth(c) \/ ProbeEnds(c)
  BY <1>2 DEF RegisterAgent, Serve, Shutdown, CheckHealth, ProbeEnds
<1>3. ASSUME NEW j \in Invocations, InvokeAgent(j) \/ PostEnds(j) PROVE invocation'[i] = invocation[i]
  BY <1>1, <1>3 DEF InvokeAgent, PostEnds
<1> QED BY <1>2, <1>3 DEF AgNext

LEMMA AgentsSound == AgentsInv => OnlyConnectedInvoked
  BY DEF AgentsInv, OnlyConnectedInvoked

-----------------------------------------------------------------------------
(* The plugins.                                                            *)

\* The plugin that will have been set up last under a name is the one registered under
\* it, and where it is in the list its info gets the outcome of that setup.
PluginsInv ==
  /\ found \in Seq([name : PluginNames, usable : BOOLEAN]) /\ found # <<>>
  /\ turn \in Hooks
  /\ pluginPhase \in {"importing", "setup", "serving", "stopping", "stopped"}
  /\ infoStatus \in [Hooks -> {"discovered", "loaded", "active", "error"}]
  /\ setups \in [Hooks -> Seq({"active", "error"})] /\ teardowns \in [Hooks -> 0..1]
  /\ pluginOf \in [PluginNames -> Hooks \cup {0}]
  /\ \A n \in PluginNames : pluginOf[n] # 0 => found[pluginOf[n]].name = n
  /\ \A h \in Hooks : infoStatus[h] # "discovered" =>
       pluginOf[found[h].name] # 0 /\ h <= pluginOf[found[h].name]
  /\ pluginPhase = "importing" => \A h \in Hooks : h >= turn => infoStatus[h] = "discovered"
  /\ pluginPhase = "importing" => \A n \in PluginNames : pluginOf[n] < turn
  /\ \A h \in Hooks : infoStatus[h] \in {"active", "error"} =>
       /\ pluginPhase = "setup" => h < turn
       /\ pluginPhase # "importing"
       /\ registered(h) => setups[h] # <<>> /\ Last(setups[h]) = infoStatus[h]
  /\ pluginPhase = "stopping" => \A h \in Hooks : h >= turn => teardowns[h] = 0
  /\ \A h \in Hooks : teardowns[h] > 0 =>
       pluginPhase \in {"stopping", "stopped"} /\ registered(h) /\ infoStatus[h] = "active"
  /\ pluginPhase = "serving" => turn = 1

LEMMA PluginsInit == PmInit => PluginsInv
<1> SUFFICES ASSUME PmInit PROVE PluginsInv
  OBVIOUS
<1>1. found \in Seq([name : PluginNames, usable : BOOLEAN]) /\ found # <<>>
  BY PluginAssumption DEF PmInit
<1>2. 1 \in Hooks /\ Hooks \subseteq Nat \ {0}
  BY <1>1 DEF Hooks
<1>3. <<>> \in Seq({"active", "error"})
  OBVIOUS
<1> QED BY <1>1, <1>2, <1>3 DEF PmInit, PluginsInv

\* The places of the list.
LEMMA Places ==
    ASSUME PluginsInv
    PROVE  /\ Hooks = 1..Len(found) /\ Len(found) \in Nat /\ turn \in Hooks
           /\ \A h \in Hooks : h \in Nat /\ h # 0 /\ h <= Len(found)
           /\ \A h \in Hooks : found[h].name \in PluginNames /\ found[h].usable \in BOOLEAN
<1>1. found \in Seq([name : PluginNames, usable : BOOLEAN])
  BY DEF PluginsInv
<1>2. Hooks = 1..Len(found) /\ Len(found) \in Nat
  BY <1>1, LenProperties DEF Hooks
<1>3. \A h \in Hooks : found[h] \in [name : PluginNames, usable : BOOLEAN]
  BY <1>1, <1>2, ElementOfSeq
<1>4. \A h \in Hooks : h \in Nat /\ h # 0 /\ h <= Len(found)
  BY <1>2
<1> QED BY <1>2, <1>3, <1>4 DEF PluginsInv

\* Where the loop is after a step.
LEMMA Proceeds ==
    ASSUME PluginsInv, NEW next, Proceed(next)
    PROVE  \/ turn' = turn + 1 /\ turn' \in Hooks /\ pluginPhase' = pluginPhase
           \/ turn = Len(found) /\ turn' = 1 /\ 1 \in Hooks /\ pluginPhase' = next
<1> QED BY Places DEF Proceed

LEMMA ImportKeeps ==
    ASSUME PluginsInv, ImportPlugin
    PROVE  PluginsInv'
<1>1. /\ \A h \in Hooks : h \in Nat /\ h # 0 /\ h <= Len(found)
      /\ Len(found) \in Nat /\ Hooks' = Hooks /\ turn \in Hooks /\ turn \in Nat
      /\ turn' \in Hooks /\ turn' \in Nat /\ pluginPhase' \in {"importing", "setup"}
  <2>1. found' = found /\ Hooks' = Hooks
    BY DEF ImportPlugin, Hooks
  <2>2. turn' \in Hooks /\ pluginPhase' \in {"importing", "setup"}
    BY Proceeds DEF ImportPlugin
  <2> QED BY Places, <2>1, <2>2
<1>9. /\ pluginPhase' = "importing" => turn' = turn + 1
      /\ pluginPhase' = "setup" => turn' = 1
  BY Proceeds DEF ImportPlugin
<1>2. PICK name \in PluginNames, usable \in BOOLEAN : name = found[turn].name /\ usable = found[turn].usable
  BY Places
<1>3. /\ pluginPhase = "importing" /\ UNCHANGED <<found, setups, teardowns>>
      /\ \A h \in Hooks : infoStatus[h] \notin {"active", "error"} /\ teardowns[h] = 0
      /\ \A h \in Hooks : h >= turn => infoStatus[h] = "discovered"
  <2>1. pluginPhase = "importing" /\ UNCHANGED <<found, setups, teardowns>>
    BY DEF ImportPlugin
  <2>2. \A h \in Hooks : teardowns[h] \in 0..1 /\ ~(teardowns[h] > 0)
    BY <2>1 DEF PluginsInv
  <2> QED BY <2>1, <2>2 DEF PluginsInv
<1>4. CASE usable
  <2>1. /\ pluginOf' = [pluginOf EXCEPT ![name] = turn]
        /\ infoStatus' = [infoStatus EXCEPT ![turn] = "loaded"]
    BY <1>2, <1>4 DEF ImportPlugin
  <2>2. /\ pluginOf' \in [PluginNames -> Hooks \cup {0}]
        /\ infoStatus' \in [Hooks -> {"discovered", "loaded", "active", "error"}]
        /\ \A n \in PluginNames : pluginOf'[n] = IF n = name THEN turn ELSE pluginOf[n]
        /\ \A h \in Hooks : infoStatus'[h] = IF h = turn THEN "loaded" ELSE infoStatus[h]
    BY <1>1, <2>1 DEF PluginsInv
  <2>3. \A n \in PluginNames : pluginOf'[n] # 0 => found[pluginOf'[n]].name = n
    BY <1>2, <2>2 DEF PluginsInv
  <2>4. \A h \in Hooks : found[h].name \in PluginNames
    BY Places
  <2>5. \A h \in Hooks : infoStatus'[h] # "discovered" =>
          pluginOf'[found[h].name] # 0 /\ h <= pluginOf'[found[h].name]
    <3> SUFFICES ASSUME NEW h \in Hooks, infoStatus'[h] # "discovered"
                 PROVE  pluginOf'[found[h].name] # 0 /\ h <= pluginOf'[found[h].name]
      OBVIOUS
    <3>1. turn # 0 /\ turn <= turn
      BY <1>1
    <3>2. CASE h = turn
      BY <1>2, <2>2, <3>1, <3>2
    <3>3. CASE h # turn
      <4>1. /\ infoStatus[h] # "discovered" /\ h < turn
        BY <1>1, <1>3, <2>2, <3>3
      <4>2. pluginOf[found[h].name] # 0 /\ h <= pluginOf[found[h].name]
        BY <4>1 DEF PluginsInv
      <4>3. CASE found[h].name = name
        BY <1>1, <2>2, <2>4, <4>1, <4>3
      <4>4. CASE found[h].name # name
        BY <2>2, <2>4, <4>2, <4>4
      <4> QED BY <4>3, <4>4
    <3> QED BY <3>2, <3>3
  <2>6. \A n \in PluginNames : pluginOf[n] < turn
    BY <1>3 DEF PluginsInv
  <2>7. pluginPhase' = "importing" => \A n \in PluginNames : pluginOf'[n] < turn'
    <3> SUFFICES ASSUME pluginPhase' = "importing", NEW n \in PluginNames
                 PROVE  pluginOf'[n] < turn'
      OBVIOUS
    <3>0. PICK k \in Hooks \cup {0} : k = pluginOf[n]
      BY DEF PluginsInv
    <3>1. k \in Nat /\ k = pluginOf[n] /\ k < turn
      <4>1. k \in Nat
        BY <1>1
      <4>2. pluginOf[n] < turn
        BY <2>6
      <4> QED BY <3>0, <4>1, <4>2
    <3>2. pluginOf'[n] = k \/ pluginOf'[n] = turn
      BY <2>2, <3>1
    <3> QED BY <1>1, <1>9, <3>1, <3>2
  <2>8. pluginPhase' = "importing" => \A h \in Hooks : h >= turn' => infoStatus'[h] = "discovered"
    BY <1>1, <1>9, <1>3, <2>2
  <2> QED BY <1>1, <1>3, <2>2, <2>3, <2>5, <2>7, <2>8 DEF PluginsInv
<1>5. CASE ~usable
  <2>1. UNCHANGED <<pluginOf, infoStatus>>
    BY <1>2, <1>5 DEF ImportPlugin
  <2>2. pluginPhase' = "importing" => \A n \in PluginNames : pluginOf[n] < turn'
    <3> SUFFICES ASSUME pluginPhase' = "importing", NEW n \in PluginNames
                 PROVE  pluginOf[n] < turn'
      OBVIOUS
    <3>0. PICK k \in Hooks \cup {0} : k = pluginOf[n]
      BY DEF PluginsInv
    <3>1. k \in Nat /\ k = pluginOf[n] /\ k < turn
      <4>1. k \in Nat
        BY <1>1
      <4>2. pluginOf[n] < turn
        BY <1>3 DEF PluginsInv
      <4> QED BY <3>0, <4>1, <4>2
    <3> QED BY <1>1, <1>9, <3>1
  <2> QED BY <1>1, <1>9, <1>3, <2>1, <2>2 DEF PluginsInv
<1> QED BY <1>2, <1>4, <1>5

LEMMA SetUpKeeps ==
    ASSUME PluginsInv, SetUp
    PROVE  PluginsInv'
<1>1. /\ \A h \in Hooks : h \in Nat /\ h # 0 /\ h <= Len(found)
      /\ Len(found) \in Nat /\ Hooks' = Hooks /\ turn \in Hooks /\ turn \in Nat
      /\ turn' \in Hooks /\ turn' \in Nat /\ pluginPhase' \in {"setup", "serving"}
  <2>1. found' = found /\ Hooks' = Hooks
    BY DEF SetUp, Hooks
  <2>2. turn' \in Hooks /\ pluginPhase' \in {"setup", "serving"}
    BY Proceeds DEF SetUp
  <2> QED BY Places, <2>1, <2>2
<1>9. /\ pluginPhase' = "setup" => turn' = turn + 1
      /\ pluginPhase' = "serving" => turn' = 1
  BY Proceeds DEF SetUp
<1>2. /\ pluginPhase = "setup" /\ UNCHANGED <<found, pluginOf, teardowns>>
      /\ \A h \in Hooks : teardowns[h] = 0
      /\ \A h \in Hooks : found[h].name \in PluginNames
  <2>1. pluginPhase = "setup" /\ UNCHANGED <<found, pluginOf, teardowns>>
    BY DEF SetUp
  <2>2. \A h \in Hooks : teardowns[h] \in 0..1 /\ ~(teardowns[h] > 0)
    BY <2>1 DEF PluginsInv
  <2> QED BY <1>1, Places, <2>1, <2>2
<1>3. CASE infoStatus[turn] = "loaded"
  <2>1. PICK h \in Hooks : h = pluginOf[found[turn].name] /\ turn <= h
    BY <1>1, <1>2, <1>3 DEF PluginsInv
  <2>2. PICK outcome \in {"active", "error"} :
          /\ setups' = [setups EXCEPT ![h] = Append(setups[h], outcome)]
          /\ infoStatus' = [infoStatus EXCEPT ![turn] = outcome]
    BY <1>3, <2>1 DEF SetUp
  <2>3. PICK more \in Seq({"active", "error"}) : more = Append(setups[h], outcome)
    <3>1. setups[h] \in Seq({"active", "error"})
      BY DEF PluginsInv
    <3> QED BY <3>1, AppendProperties
  <2>4. more # <<>> /\ Last(more) = outcome
    <3>1. setups[h] \in Seq({"active", "error"})
      BY DEF PluginsInv
    <3> QED BY <2>3, <3>1, AppendProperties DEF Last
  <2>5. /\ setups' \in [Hooks -> Seq({"active", "error"})]
        /\ infoStatus' \in [Hooks -> {"discovered", "loaded", "active", "error"}]
        /\ \A k \in Hooks : setups'[k] = IF k = h THEN more ELSE setups[k]
        /\ \A k \in Hooks : infoStatus'[k] = IF k = turn THEN outcome ELSE infoStatus[k]
    BY <1>1, <2>2, <2>3 DEF PluginsInv
  <2>6. ASSUME NEW k \in Hooks, infoStatus'[k] \in {"active", "error"}
        PROVE  /\ k <= turn
               /\ registered(k) => setups'[k] # <<>> /\ Last(setups'[k]) = infoStatus'[k]
    <3>1. CASE k = turn
      <4>1. registered(k) => k = h
        BY <2>1, <3>1 DEF registered
      <4> QED BY <1>1, <2>4, <2>5, <3>1, <4>1
    <3>2. CASE k # turn
      <4>1. infoStatus[k] = infoStatus'[k] /\ k < turn
        BY <1>2, <2>5, <2>6, <3>2 DEF PluginsInv
      <4>2. k # h
        BY <1>1, <2>1, <4>1
      <4> QED BY <1>1, <2>5, <2>6, <4>1, <4>2 DEF PluginsInv
    <3> QED BY <3>1, <3>2
  <2>7. \A k \in Hooks : registered(k)' <=> registered(k)
    BY <1>2 DEF registered
  <2>8. \A k \in Hooks : infoStatus'[k] \in {"active", "error"} =>
          /\ pluginPhase' = "setup" => k < turn'
          /\ pluginPhase' # "importing"
          /\ registered(k)' => setups'[k] # <<>> /\ Last(setups'[k]) = infoStatus'[k]
    <3> SUFFICES ASSUME NEW k \in Hooks, infoStatus'[k] \in {"active", "error"}
                 PROVE  /\ pluginPhase' = "setup" => k < turn'
                        /\ pluginPhase' # "importing"
                        /\ registered(k)' => setups'[k] # <<>> /\ Last(setups'[k]) = infoStatus'[k]
      OBVIOUS
    <3>1. k <= turn /\ pluginPhase' # "importing"
      BY <1>1, <2>6
    <3>2. pluginPhase' = "setup" => k < turn'
      BY <1>1, <1>9, <3>1
    <3> QED BY <2>6, <2>7, <3>1, <3>2
  <2>9. \A k \in Hooks : infoStatus'[k] # "discovered" =>
          pluginOf[found[k].name] # 0 /\ k <= pluginOf[found[k].name]
    BY <1>3, <2>5 DEF PluginsInv
  <2> QED BY <1>1, <1>9, <1>2, <2>5, <2>8, <2>9 DEF PluginsInv
<1>4. CASE infoStatus[turn] # "loaded"
  <2>1. UNCHANGED <<setups, infoStatus>>
    BY <1>4 DEF SetUp
  <2>2. \A k \in Hooks : registered(k)' <=> registered(k)
    BY <1>2 DEF registered
  <2>3. \A k \in Hooks : infoStatus[k] \in {"active", "error"} => k < turn
    BY <1>2 DEF PluginsInv
  <2>4. \A k \in Hooks : infoStatus[k] \in {"active", "error"} /\ pluginPhase' = "setup" => k < turn'
    BY <1>1, <1>9, <2>3
  <2> QED BY <1>1, <1>9, <1>2, <2>1, <2>2, <2>4 DEF PluginsInv
<1> QED BY <1>3, <1>4

LEMMA TearDownKeeps ==
    ASSUME PluginsInv, TearDown
    PROVE  PluginsInv'
<1>1. /\ \A h \in Hooks : h \in Nat /\ h # 0 /\ h <= Len(found)
      /\ Len(found) \in Nat /\ Hooks' = Hooks /\ turn \in Hooks /\ turn \in Nat
      /\ turn' \in Hooks /\ turn' \in Nat /\ pluginPhase' \in {"stopping", "stopped"}
  <2>1. found' = found /\ Hooks' = Hooks
    BY DEF TearDown, Hooks
  <2>2. turn' \in Hooks /\ pluginPhase' \in {"stopping", "stopped"}
    BY Proceeds DEF TearDown
  <2> QED BY Places, <2>1, <2>2
<1>9. /\ pluginPhase' = "stopping" => turn' = turn + 1
      /\ pluginPhase' = "stopped" => turn' = 1
  BY Proceeds DEF TearDown
<1>2. /\ pluginPhase = "stopping" /\ UNCHANGED <<found, pluginOf, infoStatus, setups>>
      /\ \A h \in Hooks : h >= turn => teardowns[h] = 0
      /\ \A k \in Hooks : registered(k)' <=> registered(k)
  BY DEF TearDown, PluginsInv, registered
<1>3. PICK n \in 0..1 : n = (IF to_tear_down(turn) THEN 1 ELSE 0)
  OBVIOUS
<1>4. /\ teardowns' \in [Hooks -> 0..1]
      /\ \A h \in Hooks : teardowns'[h] = IF h = turn THEN n ELSE teardowns[h]
  <2>1. teardowns[turn] = 0 /\ teardowns \in [Hooks -> 0..1]
    BY <1>1, <1>2 DEF PluginsInv
  <2>2. teardowns' = [teardowns EXCEPT ![turn] = n]
    BY <1>3, <2>1 DEF TearDown
  <2> QED BY <1>1, <2>1, <2>2
<1>5. \A h \in Hooks : teardowns'[h] > 0 => registered(h) /\ infoStatus[h] = "active"
  BY <1>1, <1>3, <1>4 DEF PluginsInv, to_tear_down
<1>6. pluginPhase' = "stopping" => \A h \in Hooks : h >= turn' => teardowns'[h] = 0
  BY <1>1, <1>9, <1>2, <1>4
<1> QED BY <1>1, <1>2, <1>4, <1>5, <1>6 DEF PluginsInv

LEMMA PluginsStep == PluginsInv /\ [PmNext]_pmVars => PluginsInv'
<1> SUFFICES ASSUME PluginsInv, [PmNext]_pmVars PROVE PluginsInv'
  OBVIOUS
<1>1. CASE UNCHANGED pmVars
  BY <1>1 DEF PluginsInv, pmVars, Hooks, registered
<1>2. CASE StopPlugins
  <2>1. \A h \in Hooks : teardowns[h] = 0
    BY <1>2 DEF PluginsInv, StopPlugins
  <2> QED BY <1>2, <2>1 DEF PluginsInv, StopPlugins, Hooks, registered
<1> QED BY <1>1, <1>2, ImportKeeps, SetUpKeeps, TearDownKeeps DEF PmNext

LEMMA PluginsSound == PluginsInv => TornDownWereSetUp
  BY DEF PluginsInv, TornDownWereSetUp

-----------------------------------------------------------------------------
(* The components of MCTools beside one another.                           *)

ToolsInv == ClientInv /\ RegistryInv /\ AgentsInv /\ PluginsInv

LEMMA ToolsStart == ToolsInit => ToolsInv
  BY ClientInit, RegistryInit, AgentsInit, PluginsInit DEF ToolsInit, ToolsInv

\* One component moves, or none.
LEMMA ToolsMoves ==
    ASSUME [ToolsNext]_bundleVars
    PROVE  [Next]_vars /\ [McNext]_mcVars /\ [AgNext]_agVars /\ [PmNext]_pmVars
  BY DEF ToolsNext, bundleVars

LEMMA ToolsStep == ToolsInv /\ [ToolsNext]_bundleVars => ToolsInv'
  BY ToolsMoves, ClientStep, RegistryStep, AgentsStep, PluginsStep DEF ToolsInv

LEMMA ToolsInvariant == ToolsSpec => []ToolsInv
<1> QED BY ToolsStart, ToolsStep, PTL DEF ToolsSpec

\* Connections are used while they last and given back: one caller at a time holds the
\* pipe of a STDIO server and the one who reads is the last who wrote, whoever is
\* cancelled or times out and whenever the server exits; shutting down leaves no server
\* connected; a tool's name leads back to its server; an agent is invoked only once it
\* has connected, and never again for a call whose answer was lost; and only plugins
\* that were set up are torn down, whichever share a name.
THEOREM ConnectionsCorrect == ToolsSpec => ConnectionsKept
<1>1. ToolsInv => /\ LockConsistent /\ ReaderIsLast
                  /\ ShutdownDisconnects /\ ToolsResolve
                  /\ OnlyConnectedInvoked /\ TornDownWereSetUp
  BY ClientSound, RegistrySound, AgentsSound, PluginsSound DEF ToolsInv
<1>2. ToolsInv /\ [ToolsNext]_bundleVars =>
        [\A i \in Invocations : invocation[i].lost => invocation'[i] = invocation[i]]_agVars
  BY ToolsMoves, LostStep DEF ToolsInv
<1> QED BY <1>1, <1>2, ToolsInvariant, PTL DEF ConnectionsKept, LostNotRepeated, ToolsSpec
=============================================================================
