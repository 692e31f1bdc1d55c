---------------------------- MODULE EventsProofs ----------------------------
(***************************************************************************)
(* Proofs about what is told to the outside: the rows of the logs, the     *)
(* queues of the webhooks, of Langfuse and of the exporters, and the       *)
(* callbacks; and about the components of MCBackground beside one another. *)
(***************************************************************************)
EXTENDS WorkProofs

-----------------------------------------------------------------------------
(* The logs, and who walks them page by page.                              *)

\* The elements of a sequence without repetition, from one place to another,
\* are as many as the places.
Stretch(f, a, b) == {f[i] : i \in a..b}

NoRepeat(f, n) == \A i, j \in 1..n : i # j => f[i] # f[j]

LEMMA StretchOf ==
    ASSUME NEW n \in Nat, NEW f,
           NoRepeat(f, n), NEW a \in Nat, NEW b \in Nat, 1 <= a, b <= n, a <= b + 1
    PROVE  /\ IsFiniteSet(Stretch(f, a, b))
           /\ Cardinality(Stretch(f, a, b)) = b - a + 1
<1> DEFINE D == a..b
           T == Stretch(f, a, b)
           g == [i \in D |-> f[i]]
<1>1. IsFiniteSet(D) /\ Cardinality(D) = b - a + 1
  <2>1. IsFiniteSet(a..b) /\ Cardinality(a..b) = IF a > b THEN 0 ELSE b - a + 1
    <3>1. a \in Int /\ b \in Int
      OBVIOUS
    <3> QED BY <3>1, FS_Interval
  <2> QED BY <2>1
<1>2. D \subseteq 1..n
  OBVIOUS
<1>3. g \in Bijection(D, T)
  <2>1. g \in [D -> T]
    BY DEF Stretch
  <2>2. \A i, j \in D : g[i] = g[j] => i = j
    BY <1>2 DEF NoRepeat
  <2>3. \A t \in T : \E i \in D : g[i] = t
    BY DEF Stretch
  <2> QED BY <2>1, <2>2, <2>3 DEF Bijection, Injection, Surjection, IsInjective
<1>4. ExistsBijection(D, T)
  BY <1>3 DEF ExistsBijection
<1> QED BY <1>1, <1>4, FS_Bijection

\* The rows of the walk that are strictly newer than r.
Newer(r) == {q \in matching(walk.owner) : q.at > r.at}

\* A row that is due was not passed over: as many newer rows as were skipped are
\* before it, and rows come and go only in ways that keep them there.
Reachable(r) == alone(r) => r \in walk.seen \/ Cardinality(Newer(r)) >= walk.offset

RowsInv ==
    /\ IsFiniteSet(rows) /\ written \in 0..MaxRows /\ rl_now \in 0..RlMaxDay
    /\ rows \subseteq [id : 1..written, at : 0..rl_now, owner : Owners]
    /\ walk = [at |-> walk.at, owner |-> walk.owner, offset |-> walk.offset, seen |-> walk.seen,
               due |-> walk.due]
    /\ walk.at \in {"idle", "reading", "done"} /\ walk.offset \in Nat
    /\ \A r \in walk.due : r.id \in 1..written /\ walk.owner \in {Everyone, r.owner}
    /\ walk.at = "reading" => \A r \in walk.due \cap rows : Reachable(r)
    /\ WalkComplete

LEMMA MatchingFinite ==
    ASSUME RowsInv, NEW owner
    PROVE  /\ IsFiniteSet(matching(owner)) /\ matching(owner) \subseteq rows
           /\ \A S \in SUBSET rows : IsFiniteSet(S) /\ Cardinality(S) \in Nat
  BY FS_Subset, FS_CardinalityType DEF RowsInv, matching

LEMMA RowsInit == RlInit => RowsInv
  BY FS_EmptySet, RlAssumption DEF RlInit, RowsInv, NoWalk, WalkComplete

\* Rows come that are no older, and the oldest go: of two rows that stay, the
\* newer ones are still before the older.
LEMMA TableChanges ==
    ASSUME RowsInv, UNCHANGED walk, NEW added, NEW old, IsFiniteSet(added),
           rows' = (rows \ old) \cup added,
           \A r \in added : r.id > written /\ r.at = rl_now,
           \A q \in rows, r \in rows \ old : q.at >= r.at => q \notin old
    PROVE  /\ IsFiniteSet(rows')
           /\ walk.at = "reading" => (\A r \in walk.due \cap rows : Reachable(r))'
           /\ WalkComplete'
<1>1. IsFiniteSet(rows')
  BY FS_Difference, FS_Union DEF RowsInv
<1>2. \A r \in walk.due \cap rows' : r \in rows \ old
  <2> SUFFICES ASSUME NEW r \in walk.due, r \in added PROVE FALSE
    OBVIOUS
  <2>1. r.id \in 1..written /\ r.id > written /\ written \in Nat
    BY RlAssumption DEF RowsInv
  <2> QED BY <2>1
<1>3. \A r \in rows \ old : alone(r)' => alone(r)
  <2> SUFFICES ASSUME NEW r \in rows \ old, alone(r)', NEW q \in rows, q.at = r.at PROVE q = r
    BY DEF alone
  <2>1. q.at \in Int
    BY DEF RowsInv
  <2>2. q \notin old
    BY <2>1
  <2> QED BY <2>2 DEF alone
<1>4. ASSUME NEW r \in rows \ old
      PROVE  Cardinality(Newer(r)') >= Cardinality(Newer(r))
             /\ Cardinality(Newer(r)') \in Nat /\ Cardinality(Newer(r)) \in Nat
  <2>1. Newer(r) \subseteq Newer(r)'
    <3> SUFFICES ASSUME NEW q \in Newer(r) PROVE q \in Newer(r)'
      OBVIOUS
    <3>1. q \in rows /\ r \in rows /\ q.at > r.at /\ q.at \in Int /\ r.at \in Int
      BY DEF RowsInv, Newer, matching
    <3>2. q \in rows'
      BY <3>1
    <3> QED BY <3>1, <3>2 DEF Newer, matching
  <2>2. Newer(r)' \subseteq rows'
    BY DEF Newer, matching
  <2>3. IsFiniteSet(Newer(r)')
    BY <1>1, <2>2, FS_Subset
  <2>4. IsFiniteSet(Newer(r)) /\ Cardinality(Newer(r)) <= Cardinality(Newer(r)')
    BY <2>1, <2>3, FS_Subset
  <2> QED BY <2>3, <2>4, FS_CardinalityType
<1>5. walk.at = "reading" => (\A r \in walk.due \cap rows : Reachable(r))'
  <2> SUFFICES ASSUME walk.at = "reading", NEW r \in walk.due \cap rows' PROVE Reachable(r)'
    BY <1>2
  <2>1. r \in rows \ old /\ Reachable(r)
    BY <1>2 DEF RowsInv
  <2>2. walk.offset \in Nat
    BY DEF RowsInv
  <2> QED BY <1>3, <1>4, <2>1, <2>2 DEF Reachable
<1>6. WalkComplete'
  BY <1>2, <1>3 DEF WalkComplete, RowsInv
<1> QED BY <1>1, <1>5, <1>6

LEMMA AppendRowKeeps ==
    ASSUME RowsInv, NEW owner \in Owners, AppendRow(owner) PROVE RowsInv'
<1>1. PICK row : row = [id |-> written + 1, at |-> rl_now, owner |-> owner]
  OBVIOUS
<1>2. /\ written \in Nat /\ rl_now \in Nat /\ written' = written + 1 /\ written' \in 0..MaxRows
      /\ UNCHANGED <<rl_now, walk>>
  BY RlAssumption DEF RowsInv, AppendRow
<1>3. /\ rows' = (rows \ {}) \cup {row} /\ IsFiniteSet({row})
      /\ row.id > written /\ row.at = rl_now
  BY <1>1, <1>2, FS_Singleton DEF AppendRow
<1>4. /\ IsFiniteSet(rows')
      /\ walk.at = "reading" => (\A r \in walk.due \cap rows : Reachable(r))'
      /\ WalkComplete'
  BY <1>2, <1>3, TableChanges
<1>5. (rows \subseteq [id : 1..written, at : 0..rl_now, owner : Owners])'
  BY <1>1, <1>2, <1>3 DEF RowsInv
<1>6. (\A r \in walk.due : r.id \in 1..written /\ walk.owner \in {Everyone, r.owner})'
  BY <1>2 DEF RowsInv
<1> QED BY <1>2, <1>4, <1>5, <1>6 DEF RowsInv

LEMMA DeleteOlderKeeps == ASSUME RowsInv, DeleteOlder PROVE RowsInv'
<1> DEFINE old == {r \in rows : ~(r.at >= rl_now - Retention)}
<1>1. \A r \in rows : r.at \in Int /\ rl_now - Retention \in Int
  BY RlAssumption DEF RowsInv
<1>2. rows' = (rows \ old) \cup {}
  BY DEF DeleteOlder
<1>3. \A q \in rows, r \in rows \ old : q.at >= r.at => q \notin old
  BY <1>1
<1>4. UNCHANGED <<rl_now, written, walk>>
  BY DEF DeleteOlder
<1> HIDE DEF old
<1>5. /\ IsFiniteSet(rows')
      /\ walk.at = "reading" => (\A r \in walk.due \cap rows : Reachable(r))'
      /\ WalkComplete'
  BY <1>2, <1>3, <1>4, TableChanges, FS_EmptySet
<1>6. (rows \subseteq [id : 1..written, at : 0..rl_now, owner : Owners])'
  BY <1>2, <1>4 DEF RowsInv
<1>7. (\A r \in walk.due : r.id \in 1..written /\ walk.owner \in {Everyone, r.owner})'
  BY <1>4 DEF RowsInv
<1> QED BY <1>4, <1>5, <1>6, <1>7 DEF RowsInv

LEMMA StartWalkKeeps == ASSUME RowsInv, NEW owner, StartWalk(owner) PROVE RowsInv'
<1>1. /\ UNCHANGED <<rows, rl_now, written>>
      /\ walk' = [at |-> "reading", owner |-> owner, offset |-> 0, seen |-> {},
                  due |-> matching(owner)]
  BY DEF StartWalk
<1>2. \A r \in matching(owner) : r.id \in 1..written /\ owner \in {Everyone, r.owner}
  BY DEF RowsInv, matching
<1>3. ASSUME NEW r \in rows PROVE Reachable(r)'
  <2>1. Newer(r)' \subseteq rows
    BY <1>1 DEF Newer, matching
  <2>2. Cardinality(Newer(r)') \in Nat
    BY <2>1, MatchingFinite
  <2> QED BY <1>1, <2>2 DEF Reachable
<1> QED BY <1>1, <1>2, <1>3 DEF RowsInv, WalkComplete

\* One page: a row that is due and was not passed over is on it or after it.
LEMMA PageReaches ==
    ASSUME RowsInv, NEW s \in sorted(matching(walk.owner)), NEW r \in matching(walk.owner),
           alone(r), Cardinality(Newer(r)) >= walk.offset
    PROVE  \/ r \in page(s, walk.offset)
           \/ /\ Cardinality(Newer(r)) >= walk.offset + PageLimit
              /\ Cardinality(page(s, walk.offset)) = PageLimit
<1>0. PICK M, n, lo, hi, got :
        /\ M = matching(walk.owner) /\ n = Cardinality(M) /\ lo = walk.offset
        /\ hi = IF lo + PageLimit < Len(s) THEN lo + PageLimit ELSE Len(s)
        /\ got = page(s, lo)
  OBVIOUS
<1>1. IsFiniteSet(M) /\ n \in Nat /\ lo \in Nat /\ M \subseteq rows /\ PageLimit \in Nat \ {0}
  BY <1>0, MatchingFinite, RlAssumption DEF RowsInv
<1>2. /\ s \in [1..n -> M] /\ NoRepeat(s, n)
      /\ \A i, j \in 1..n : i < j => s[i].at >= s[j].at
  BY <1>0 DEF sorted, SetToSeqs, NoRepeat
<1>3. s \in Seq(M) /\ Len(s) = n /\ DOMAIN s = 1..n
  BY <1>1, <1>2, LenProperties
<1>4. \A q \in M : \E i \in 1..n : s[i] = q
  <2>1. Stretch(s, 1, n) \subseteq M
    BY <1>2 DEF Stretch
  <2>2. Cardinality(Stretch(s, 1, n)) = n
    <3>1. 1 \in Nat /\ 1 <= 1 /\ n <= n /\ 1 <= n + 1
      BY <1>1
    <3>2. Cardinality(Stretch(s, 1, n)) = n - 1 + 1
      BY ONLY <1>1, <1>2, <3>1, StretchOf
    <3> QED BY <1>1, <3>2
  <2>3. Stretch(s, 1, n) = M
    BY <1>0, <1>1, <2>1, <2>2, FS_Subset
  <2> QED BY <2>3 DEF Stretch
<1>5. PICK k \in 1..n : s[k] = r
  BY <1>0, <1>4
<1>6. \A q \in M : q.at \in Int
  BY <1>1 DEF RowsInv
<1>7. Newer(r) = Stretch(s, 1, k - 1)
  <2>1. ASSUME NEW i \in 1..(k - 1) PROVE s[i] \in Newer(r)
    <3>1. i \in 1..n /\ i < k /\ s[i] \in M /\ s[i] # r
      BY <1>1, <1>2, <1>5 DEF NoRepeat
    <3>2. s[i].at >= r.at
      BY <1>2, <1>5, <3>1
    <3>3. s[i].at # r.at
      BY <1>1, <3>1 DEF alone
    <3> QED BY <1>0, <1>5, <1>6, <3>1, <3>2, <3>3 DEF Newer
  <2>2. ASSUME NEW q \in Newer(r) PROVE \E i \in 1..(k - 1) : s[i] = q
    <3>1. q \in M /\ q.at > r.at
      BY <1>0 DEF Newer
    <3>2. PICK i \in 1..n : s[i] = q
      BY <1>4, <3>1
    <3>3. ~(k < i) /\ i # k
      BY <1>2, <1>5, <1>6, <3>1, <3>2
    <3> QED BY <1>1, <3>2, <3>3
  <2> QED BY <2>1, <2>2 DEF Stretch
<1>8. Cardinality(Newer(r)) = k - 1
  <2>1. k - 1 \in Nat /\ k - 1 <= n /\ 1 <= k - 1 + 1 /\ 1 \in Nat /\ 1 <= 1
    BY <1>1
  <2>2. Cardinality(Stretch(s, 1, k - 1)) = k - 1 - 1 + 1
    BY ONLY <1>1, <1>2, <2>1, StretchOf
  <2> QED BY <1>7, <2>1, <2>2
<1>9. /\ hi \in Nat /\ lo + 1 \in Nat /\ 1 <= lo + 1 /\ hi <= n /\ lo <= hi /\ lo + 1 <= hi + 1
      /\ lo + 1 <= k
  BY <1>0, <1>1, <1>3, <1>5, <1>8
<1>10. got = Stretch(s, lo + 1, hi)
  <2>1. PICK sub : sub = SubSeq(s, lo + 1, hi)
    OBVIOUS
  <2>2. PICK m \in Nat : m = hi - lo /\ hi = lo + m
    BY <1>1, <1>9
  <2>3. /\ sub \in Seq(M) /\ Len(sub) = m
        /\ \A i \in 1..m : sub[i] = s[lo + i]
    <3>1. \A i \in (lo + 1)..hi : s[i] \in M
      BY <1>1, <1>2, <1>9
    <3>2. /\ sub \in Seq(M) /\ Len(sub) = IF lo + 1 <= hi THEN hi - (lo + 1) + 1 ELSE 0
          /\ \A i \in 1..(hi - (lo + 1) + 1) : sub[i] = s[(lo + 1) + i - 1]
      <4>1. lo + 1 \in Int /\ hi \in Int
        BY <1>9
      <4> QED BY ONLY <2>1, <3>1, <4>1, SubSeqProperties
    <3>3. hi - (lo + 1) + 1 = m /\ Len(sub) = m
      <4>1. PICK a \in Nat : a = lo
        BY <1>1
      <4>2. hi = a + m /\ (a + 1 <= a + m <=> m > 0) /\ a + m - (a + 1) + 1 = m
        BY <2>2, <4>1
      <4>3. Len(sub) = IF m > 0 THEN m ELSE 0
        BY <3>2, <4>1, <4>2
      <4> QED BY <4>1, <4>2, <4>3
    <3>4. \A i \in 1..m : (lo + 1) + i - 1 = lo + i
      BY <1>1, <2>2
    <3> QED BY <3>2, <3>3, <3>4
  <2>4. got = {sub[i] : i \in 1..m}
    <3>1. DOMAIN sub = 1..m
      BY <2>3, LenProperties
    <3>2. got = Range(sub)
      BY <1>0, <2>1 DEF page
    <3> QED BY <3>1, <3>2 DEF Range
  <2>5. \A i \in 1..m : lo + i \in (lo + 1)..hi
    BY <1>1, <2>2
  <2>6. \A j \in (lo + 1)..hi : j - lo \in 1..m /\ lo + (j - lo) = j
    BY <1>1, <2>2
  <2> QED BY <2>3, <2>4, <2>5, <2>6 DEF Stretch
<1>11. CASE k <= hi
  <2>1. k \in (lo + 1)..hi
    BY <1>1, <1>9, <1>11
  <2> QED BY <1>0, <1>5, <1>10, <2>1 DEF Stretch
<1>12. CASE k > hi
  <2>1. hi = lo + PageLimit
    BY <1>0, <1>1, <1>3, <1>12
  <2>2. Cardinality(Stretch(s, lo + 1, hi)) = hi - (lo + 1) + 1
    BY ONLY <1>1, <1>2, <1>9, StretchOf
  <2>3. Cardinality(got) = PageLimit
    BY <1>1, <1>10, <2>1, <2>2
  <2> QED BY <1>0, <1>1, <1>8, <1>12, <2>1, <2>3
<1> QED BY <1>1, <1>9, <1>11, <1>12

LEMMA ReadPageKeeps == ASSUME RowsInv, ReadPage PROVE RowsInv'
<1>1. PICK s, got :
        /\ s \in sorted(matching(walk.owner))
        /\ got = page(s, walk.offset)
        /\ walk' = [walk EXCEPT !.at = IF Cardinality(got) < PageLimit THEN "done" ELSE "reading",
                                !.offset = @ + PageLimit, !.seen = @ \cup got,
                                !.due = @ \cap rows]
        /\ walk.at = "reading" /\ UNCHANGED <<rows, rl_now, written>>
  BY DEF ReadPage
<1>2. /\ walk'.at = IF Cardinality(got) < PageLimit THEN "done" ELSE "reading"
      /\ walk'.offset = walk.offset + PageLimit /\ walk'.seen = walk.seen \cup got
      /\ walk'.due = walk.due \cap rows /\ walk'.owner = walk.owner
      /\ (walk = [at |-> walk.at, owner |-> walk.owner, offset |-> walk.offset,
                  seen |-> walk.seen, due |-> walk.due])'
  BY <1>1 DEF RowsInv
<1>3. ASSUME NEW r \in walk.due \cap rows, alone(r), r \notin walk'.seen
      PROVE  walk'.at = "reading" /\ Cardinality(Newer(r)) >= walk'.offset
  <2>1. r \in matching(walk.owner)
    BY DEF RowsInv, matching
  <2>2. Reachable(r) /\ r \notin walk.seen /\ r \notin got
    BY <1>1, <1>2, <1>3 DEF RowsInv
  <2>3. Cardinality(Newer(r)) >= walk.offset + PageLimit /\ Cardinality(got) = PageLimit
    BY <1>1, <1>3, <2>1, <2>2, PageReaches DEF Reachable
  <2> QED BY <1>2, <2>3, RlAssumption
<1>4. \A r : alone(r)' <=> alone(r)
  BY <1>1 DEF alone
<1>5. \A r : Newer(r)' = Newer(r)
  BY <1>1, <1>2 DEF Newer, matching
<1>6. walk'.at = "reading" => (\A r \in walk.due \cap rows : Reachable(r))'
  BY <1>1, <1>2, <1>3, <1>4, <1>5 DEF Reachable
<1>7. WalkComplete'
  BY <1>1, <1>2, <1>3, <1>4 DEF WalkComplete
<1> QED BY <1>1, <1>2, <1>6, <1>7, RlAssumption DEF RowsInv

LEMMA RowsStep == RowsInv /\ [RlNext]_rlvars => RowsInv'
<1> SUFFICES ASSUME RowsInv, [RlNext]_rlvars PROVE RowsInv'
  OBVIOUS
<1>1. CASE PassDay
  <2>1. rl_now' = rl_now + 1 /\ rl_now \in Nat /\ rl_now' \in 0..RlMaxDay
        /\ UNCHANGED <<rows, written, walk>>
    BY <1>1, RlAssumption DEF PassDay, RowsInv
  <2>2. (rows \subseteq [id : 1..written, at : 0..rl_now, owner : Owners])'
    BY <2>1 DEF RowsInv
  <2> QED BY <2>1, <2>2 DEF RowsInv, Reachable, Newer, matching, alone, WalkComplete
<1>2. CASE EndWalk
  BY <1>2 DEF EndWalk, RowsInv, NoWalk, WalkComplete
<1>3. CASE UNCHANGED rlvars
  BY <1>3 DEF rlvars, RowsInv, Reachable, Newer, matching, alone, WalkComplete
<1> QED BY <1>1, <1>2, <1>3, AppendRowKeeps, DeleteOlderKeeps, StartWalkKeeps, ReadPageKeeps
        DEF RlNext

LEMMA RowsInvImplies == RowsInv => WalkComplete /\ RlTypeOK
<1> SUFFICES ASSUME RowsInv PROVE RlTypeOK
  BY DEF RowsInv
<1>1. 1..written \subseteq 1..MaxRows /\ 0..rl_now \subseteq 0..RlMaxDay
  BY RlAssumption DEF RowsInv
<1> QED BY <1>1 DEF RowsInv, RlTypeOK

LEMMA WalksComplete == RlSpec => [](WalkComplete /\ RlTypeOK)
<1>1. RlSpec => []RowsInv
  BY RowsInit, RowsStep, PTL DEF RlSpec
<1> QED BY <1>1, RowsInvImplies, PTL

-----------------------------------------------------------------------------
(* The queues of the webhooks, of Langfuse and of the exporters.           *)

Ascending(q) == \A i, j \in DOMAIN q : i < j => q[i] < q[j]

Before(S, T) == \A x \in S, y \in T : x < y

\* A sequence of events in the order in which they were enqueued.
Queued(q) == q \in Seq(Nat) /\ Ascending(q)

LEMMA EventsFacts ==
    /\ Queued(<<>>) /\ Range(<<>>) = {}
    /\ \A q : Queued(q) => /\ Range(q) \subseteq Nat /\ IsInjective(q)
                           /\ q = <<>> <=> Range(q) = {}
<1>1. Queued(<<>>) /\ Range(<<>>) = {}
  BY DEF Queued, Ascending, Range
<1>2. ASSUME NEW q, Queued(q)
      PROVE  Range(q) \subseteq Nat /\ IsInjective(q) /\ (q = <<>> <=> Range(q) = {})
  <2>1. q \in Seq(Nat) /\ DOMAIN q = 1..Len(q) /\ Len(q) \in Nat
    BY <1>2 DEF Queued
  <2>2. IsInjective(q)
    <3> SUFFICES ASSUME NEW a \in DOMAIN q, NEW b \in DOMAIN q, q[a] = q[b] PROVE a = b
      BY DEF IsInjective
    <3>1. q[a] \in Nat /\ ~(a < b) /\ ~(b < a)
      BY <1>2, <2>1 DEF Queued, Ascending
    <3> QED BY <2>1, <3>1
  <2>3. q # <<>> => q[1] \in Range(q)
    BY <2>1, EmptySeq DEF Range
  <2>4. \A i \in DOMAIN q : q[i] \in Nat
    BY <2>1
  <2> QED BY <1>1, <2>2, <2>3, <2>4 DEF Range
<1> QED BY <1>1, <1>2

LEMMA EventsJoined ==
    ASSUME NEW q, Queued(q), NEW r, Queued(r)
    PROVE  /\ q \o r \in Seq(Nat) /\ Range(q \o r) = Range(q) \cup Range(r)
           /\ Before(Range(q), Range(r)) => Queued(q \o r)
<1>1. /\ q \in Seq(Nat) /\ r \in Seq(Nat) /\ DOMAIN q = 1..Len(q) /\ DOMAIN r = 1..Len(r)
      /\ Len(q) \in Nat /\ Len(r) \in Nat
  BY DEF Queued
<1>2. /\ q \o r \in Seq(Nat) /\ DOMAIN (q \o r) = 1..(Len(q) + Len(r))
      /\ \A i \in 1..Len(q) : (q \o r)[i] = q[i]
      /\ \A i \in 1..Len(r) : (q \o r)[Len(q) + i] = r[i]
  BY <1>1, ConcatProperties
<1>3. PICK s : s = q \o r
  OBVIOUS
<1>4. ASSUME NEW i \in 1..(Len(q) + Len(r))
      PROVE  \/ i \in 1..Len(q) /\ s[i] = q[i]
             \/ i > Len(q) /\ i - Len(q) \in 1..Len(r) /\ s[i] = r[i - Len(q)]
  <2>1. i <= Len(q) \/ i - Len(q) \in 1..Len(r)
    BY <1>1
  <2>2. i - Len(q) \in 1..Len(r) => (q \o r)[Len(q) + (i - Len(q))] = r[i - Len(q)]
    BY <1>2
  <2>3. Len(q) + (i - Len(q)) = i
    BY <1>1
  <2> QED BY <1>1, <1>2, <1>3, <2>1, <2>2, <2>3
<1>5. Range(s) = Range(q) \cup Range(r)
  BY <1>1, <1>3, RangeConcatenation
<1>6. ASSUME Before(Range(q), Range(r)) PROVE Ascending(s)
  <2> SUFFICES ASSUME NEW i \in DOMAIN s, NEW j \in DOMAIN s, i < j PROVE s[i] < s[j]
    BY DEF Ascending
  <2>1. i \in 1..(Len(q) + Len(r)) /\ j \in 1..(Len(q) + Len(r))
    BY <1>2, <1>3
  <2>2. CASE j \in 1..Len(q)
    BY <1>1, <1>2, <1>3, <2>1, <2>2 DEF Queued, Ascending
  <2>3. CASE i > Len(q)
    <3>1. i - Len(q) \in DOMAIN r /\ j - Len(q) \in DOMAIN r /\ i - Len(q) < j - Len(q)
      BY <1>1, <1>4, <2>1, <2>3
    <3>2. r[i - Len(q)] < r[j - Len(q)]
      BY <3>1 DEF Queued, Ascending
    <3>3. i \notin 1..Len(q) /\ j \notin 1..Len(q)
      BY <1>1, <1>2, <1>3, <2>1, <2>3
    <3>4. s[i] = r[i - Len(q)] /\ s[j] = r[j - Len(q)]
      BY <1>4, <2>1, <3>3
    <3> QED BY <3>2, <3>4
  <2>4. CASE i \in 1..Len(q) /\ j > Len(q)
    <3>1. s[i] = q[i] /\ s[j] = r[j - Len(q)] /\ j - Len(q) \in 1..Len(r)
      BY <1>1, <1>4, <2>1, <2>4
    <3>2. s[i] \in Range(q) /\ s[j] \in Range(r)
      BY <1>1, <2>4, <3>1 DEF Range
    <3> QED BY <1>6, <3>2 DEF Before
  <2> QED BY <1>1, <2>1, <2>2, <2>3, <2>4
<1> QED BY <1>2, <1>3, <1>5, <1>6 DEF Queued

LEMMA RangeJoined ==
    ASSUME NEW q \in Seq(Nat), NEW r \in Seq(Nat)
    PROVE  q \o r \in Seq(Nat) /\ Range(q \o r) = Range(q) \cup Range(r)
  BY ConcatProperties, RangeConcatenation

LEMMA EventAppended ==
    ASSUME NEW q, Queued(q), NEW e \in Nat, Before(Range(q), {e})
    PROVE  /\ Queued(Append(q, e)) /\ Range(Append(q, e)) = Range(q) \cup {e}
<1>1. Queued(<<e>>) /\ Range(<<e>>) = {e}
  BY DEF Queued, Ascending, Range
<1>2. Append(q, e) = q \o <<e>>
  BY AppendIsConcat DEF Queued
<1> QED BY <1>1, <1>2, EventsJoined

-----------------------------------------------------------------------------
Batch(c) == Range(dl_flight[c].batch)

CarriersKept ==
    /\ dl_flight = [c \in Carriers |-> [batch |-> dl_flight[c].batch, tries |-> dl_flight[c].tries]]
    /\ \A c \in Carriers : Queued(dl_flight[c].batch) /\ dl_flight[c].tries \in 0..Tries
    /\ \A c \in DlEvents : c >= dl_next => dl_flight[c].batch = <<>>
    /\ dl_life \in {"up", "stopping"} => dl_flight[Stopper].batch = <<>>

\* Every event is in one place.
PlacesKept(next, queue, batch, done, failed, lost) ==
    /\ \A c \in Carriers : batch[c] \cap queue = {}
    /\ \A c, d \in Carriers : c # d => batch[c] \cap batch[d] = {}
    /\ \A e : e \in 1..(next - 1) <=> \/ e \in queue \/ \E c \in Carriers : e \in batch[c]
                                      \/ e \in done \/ e \in failed \/ e \in lost
    /\ \A S \in {done, failed, lost} :
          queue \cap S = {} /\ \A c \in Carriers : batch[c] \cap S = {}
    /\ done \cap failed = {} /\ done \cap lost = {} /\ failed \cap lost = {}

Flights == [c \in Carriers |-> Batch(c)]

\* The exporter holds its lock while it writes, so that the records are written
\* in the order they were logged.
OrderKept(queue, batch, received) ==
    /\ Before(received, queue)
    /\ \A c \in Carriers : Before(batch[c], queue) /\ Before(received, batch[c])
    /\ \A c, d \in Carriers : c # d => batch[c] = {} \/ batch[d] = {}

DeliveryInv ==
    /\ dl_kind \in Senders /\ dl_life \in {"up", "stopping", "flushing", "closed"}
    /\ dl_next \in Nat /\ dl_next >= 1 /\ 1..(dl_next - 1) \subseteq DlEvents
    /\ Queued(dl_queue) /\ dl_received \in Seq(Nat) /\ Range(dl_received) \subseteq Enqueued
    /\ CarriersKept
    /\ PlacesKept(dl_next, Range(dl_queue), Flights, dl_done, dl_failed, dl_lost)
    /\ dl_lost # {} => dl_life # "up"
    /\ dl_done \subseteq Range(dl_received)
    /\ dl_late \subseteq Enqueued
    /\ dl_life \in {"flushing", "closed"} => Range(dl_queue) \subseteq dl_late
    /\ dl_kind = "exporter" =>
         Ascending(dl_received) /\ OrderKept(Range(dl_queue), Flights, Range(dl_received))

LEMMA CarriersApart ==
    /\ Timer \in Carriers /\ Stopper \in Carriers /\ Timer # Stopper
    /\ Timer \notin DlEvents /\ Stopper \notin DlEvents /\ DlEvents \subseteq Carriers
    /\ DlEvents \subseteq Nat \ {0}
<1>1. PICK n \in Nat : DlEvents = 1..n
  BY DlAssumption, FS_CardinalityType
<1>2. Cardinality(DlEvents) = n
  BY <1>1, FS_Interval
<1> QED BY <1>1, <1>2 DEF Timer, Stopper, Carriers

LEMMA DeliveryInit == DlInit => DeliveryInv
<1> SUFFICES ASSUME DlInit PROVE DeliveryInv
  OBVIOUS
<1>1. \A c \in Carriers : dl_flight[c].batch = <<>> /\ dl_flight[c].tries = 0
  BY DEF DlInit, Idle
<1>2. \A c \in Carriers : Flights[c] = {}
  BY <1>1, EventsFacts DEF Flights, Batch
<1>3. Tries \in Nat
  BY DlAssumption DEF Tries
<1>4. CarriersKept
  BY <1>1, <1>3, EventsFacts, CarriersApart DEF CarriersKept, DlInit, Idle
<1>5. 1..(dl_next - 1) = {}
  BY DEF DlInit
<1>6. dl_received \in Seq(Nat) /\ Ascending(dl_received)
  BY EventsFacts DEF Queued, DlInit
<1> QED BY <1>2, <1>4, <1>5, <1>6, EventsFacts
        DEF DeliveryInv, DlInit, PlacesKept, OrderKept, Before, Enqueued

MayTake(c) ==
    /\ UNCHANGED dl_kind
    /\ dl_next \in Nat /\ dl_next' \in Nat /\ dl_next' >= dl_next
    /\ c \in DlEvents => c < dl_next'
    /\ dl_life' \in {"up", "stopping"} => c # Stopper /\ dl_life \in {"up", "stopping"}

\* A carrier whose hands are empty takes a batch.
LEMMA Drawn ==
    ASSUME CarriersKept, NEW c \in Carriers, NEW queue, Queued(queue), Batch(c) = {},
           dl_flight' = [dl_flight EXCEPT ![c] = [batch |-> queue, tries |-> 0]],
           MayTake(c)
    PROVE  CarriersKept' /\ Flights' = [Flights EXCEPT ![c] = Range(queue)]
<1>1. /\ dl_flight'[c].batch = queue /\ dl_flight'[c].tries = 0
      /\ \A d \in Carriers \ {c} : dl_flight'[d] = dl_flight[d]
      /\ dl_flight' = [d \in Carriers |-> dl_flight'[d]]
      /\ \A d \in Carriers : dl_flight'[d] = [batch |-> dl_flight'[d].batch,
                                              tries |-> dl_flight'[d].tries]
  BY DEF CarriersKept
<1>2. Tries \in Nat /\ Tries' = Tries
  BY DlAssumption DEF Tries, MayTake
<1>3. CarriersKept'
  <2>1. \A d \in DlEvents : d >= dl_next' => dl_flight'[d].batch = <<>>
    <3> SUFFICES ASSUME NEW d \in DlEvents, d >= dl_next' PROVE dl_flight'[d].batch = <<>>
      OBVIOUS
    <3>1. d \in Nat /\ d >= dl_next /\ d # c /\ d \in Carriers
      BY CarriersApart DEF MayTake
    <3> QED BY <1>1, <3>1 DEF CarriersKept
  <2>2. dl_life' \in {"up", "stopping"} => dl_flight'[Stopper].batch = <<>>
    BY <1>1, CarriersApart DEF CarriersKept, MayTake
  <2>3. \A d \in Carriers : Queued(dl_flight'[d].batch) /\ dl_flight'[d].tries \in 0..Tries
    BY <1>1, <1>2 DEF CarriersKept
  <2>4. dl_flight' = [d \in Carriers |-> [batch |-> dl_flight'[d].batch,
                                          tries |-> dl_flight'[d].tries]]
    BY <1>1
  <2> QED BY <1>2, <2>1, <2>2, <2>3, <2>4 DEF CarriersKept
<1>4. Flights' = [Flights EXCEPT ![c] = Range(queue)]
  <2>1. \A d \in Carriers : Flights'[d] = IF d = c THEN Range(queue) ELSE Flights[d]
    BY <1>1 DEF Flights, Batch
  <2> QED BY <2>1 DEF Flights
<1> QED BY <1>3, <1>4

\* A carrier lets its batch go.
LEMMA Landed ==
    ASSUME CarriersKept, NEW c \in Carriers, Land(c), UNCHANGED <<dl_kind, dl_next>>,
           dl_life' \in {"up", "stopping"} => dl_life \in {"up", "stopping"}
    PROVE  CarriersKept' /\ Flights' = [Flights EXCEPT ![c] = {}]
<1>1. /\ dl_flight'[c].batch = <<>> /\ dl_flight'[c].tries = 0
      /\ \A d \in Carriers \ {c} : dl_flight'[d] = dl_flight[d]
      /\ \A d \in Carriers : dl_flight'[d] = [batch |-> dl_flight'[d].batch,
                                              tries |-> dl_flight'[d].tries]
      /\ dl_flight' = [d \in Carriers |-> [batch |-> dl_flight'[d].batch,
                                           tries |-> dl_flight'[d].tries]]
  BY DEF CarriersKept, Land, Idle
<1>2. Tries \in Nat /\ Tries' = Tries
  BY DlAssumption DEF Tries
<1>3. CarriersKept'
  <2>1. \A d \in DlEvents : d >= dl_next' => dl_flight'[d].batch = <<>>
    BY <1>1, CarriersApart DEF CarriersKept
  <2>2. dl_life' \in {"up", "stopping"} => dl_flight'[Stopper].batch = <<>>
    BY <1>1, CarriersApart DEF CarriersKept
  <2>3. \A d \in Carriers : Queued(dl_flight'[d].batch) /\ dl_flight'[d].tries \in 0..Tries
    BY <1>1, <1>2, EventsFacts DEF CarriersKept
  <2> QED BY <1>1, <1>2, <2>1, <2>2, <2>3 DEF CarriersKept
<1>4. \A d \in Carriers : Flights'[d] = IF d = c THEN {} ELSE Flights[d]
  BY <1>1, EventsFacts DEF Flights, Batch
<1>5. Flights' = [Flights EXCEPT ![c] = {}]
  BY <1>4 DEF Flights
<1> QED BY <1>3, <1>5

LEMMA PlacesTaken ==
    ASSUME NEW next, NEW queue, NEW batch, NEW done, NEW failed, NEW lost, NEW c \in Carriers,
           PlacesKept(next, queue, batch, done, failed, lost), DOMAIN batch = Carriers,
           batch[c] = {}
    PROVE  PlacesKept(next, {}, [batch EXCEPT ![c] = queue], done, failed, lost)
  BY DEF PlacesKept

LEMMA PlacesLanded ==
    ASSUME NEW next, NEW queue, NEW batch, NEW done, NEW failed, NEW lost, NEW c \in Carriers,
           PlacesKept(next, queue, batch, done, failed, lost), DOMAIN batch = Carriers,
           NEW landed, landed = [batch EXCEPT ![c] = {}]
    PROVE  /\ PlacesKept(next, queue, landed, done \cup batch[c], failed, lost)
           /\ PlacesKept(next, queue, landed, done, failed \cup batch[c], lost)
           /\ PlacesKept(next, queue, landed, done, failed, lost \cup batch[c])
<1>1. landed[c] = {} /\ \A d \in Carriers : d # c => landed[d] = batch[d]
  OBVIOUS
<1> QED BY <1>1 DEF PlacesKept

LEMMA PlacesQueued ==
    ASSUME NEW next \in Nat, next >= 1, NEW queue, NEW batch, NEW done, NEW failed, NEW lost,
           PlacesKept(next, queue, batch, done, failed, lost)
    PROVE  PlacesKept(next + 1, queue \cup {next}, batch, done, failed, lost)
<1>1. \A e : e \in 1..(next + 1 - 1) <=> e \in 1..(next - 1) \/ e = next
  OBVIOUS
<1>2. next \notin 1..(next - 1)
  OBVIOUS
<1> QED BY <1>1, <1>2 DEF PlacesKept

LEMMA InPlace ==
    ASSUME DeliveryInv
    PROVE  /\ DOMAIN Flights = Carriers /\ \A c \in Carriers : Flights[c] = Batch(c)
           /\ \A c \in Carriers : sending(c) <=> Batch(c) # {}
           /\ Range(dl_queue) \subseteq Enqueued /\ Before(Range(dl_queue), {dl_next})
           /\ \A c \in Carriers : Batch(c) \subseteq Enqueued /\ Before(Batch(c), {dl_next})
           /\ Before(Range(dl_received), {dl_next})
           /\ \A c \in DlEvents : c = dl_next => Batch(c) = {}
<1>1. DOMAIN Flights = Carriers /\ \A c \in Carriers : Flights[c] = Batch(c)
  BY DEF Flights
<1>2. \A c \in Carriers : sending(c) <=> Batch(c) # {}
  BY EventsFacts DEF DeliveryInv, CarriersKept, sending, Batch
<1>3. Range(dl_queue) \subseteq Enqueued /\ \A c \in Carriers : Batch(c) \subseteq Enqueued
  BY <1>1 DEF DeliveryInv, PlacesKept, Enqueued
<1>4. \A e \in Enqueued : e < dl_next
  BY DEF DeliveryInv, Enqueued
<1>5. \A c \in DlEvents : c = dl_next => dl_flight[c].batch = <<>>
  BY DEF DeliveryInv, CarriersKept
<1>6. \A c \in DlEvents : c = dl_next => Batch(c) = {}
  BY <1>5, EventsFacts DEF Batch
<1>7. Range(dl_received) \subseteq Enqueued
  BY DEF DeliveryInv
<1> QED BY <1>1, <1>2, <1>3, <1>4, <1>6, <1>7 DEF Before
\* The carrier c takes the whole queue.
LEMMA FlushTakes ==
    ASSUME DeliveryInv, NEW c \in Carriers, c \notin DlEvents, ~sending(c), unlocked,
           TakeBatch(c, dl_queue),
           UNCHANGED <<dl_kind, dl_next, dl_received, dl_done, dl_failed, dl_lost, dl_late>>,
           dl_life' \in {"up", "stopping", "flushing", "closed"},
           dl_life' \in {"up", "stopping"} => c # Stopper /\ dl_life \in {"up", "stopping"},
           dl_life' = "up" => dl_life = "up"
    PROVE  DeliveryInv'
<1>1. CarriersKept' /\ Flights' = [Flights EXCEPT ![c] = Range(dl_queue)]
  <2>1. Batch(c) = {}
    BY InPlace
  <2>2. dl_flight' = [dl_flight EXCEPT ![c] = [batch |-> dl_queue, tries |-> 0]]
    BY DEF TakeBatch
  <2>3. CarriersKept /\ MayTake(c) /\ Queued(dl_queue)
    BY DEF DeliveryInv, MayTake
  <2> QED BY <2>1, <2>2, <2>3, Drawn
<1>2. dl_queue' = <<>> /\ Queued(dl_queue') /\ Range(dl_queue') = {}
  BY EventsFacts DEF TakeBatch
<1>3. PlacesKept(dl_next, {}, Flights', dl_done, dl_failed, dl_lost)
  BY <1>1, InPlace, PlacesTaken DEF DeliveryInv
<1>4. dl_kind = "exporter" => OrderKept(Range(dl_queue'), Flights', Range(dl_received'))
  <2> SUFFICES ASSUME dl_kind = "exporter"
               PROVE  OrderKept({}, [Flights EXCEPT ![c] = Range(dl_queue)], Range(dl_received))
    BY <1>1, <1>2
  <2>1. \A d \in Carriers : Flights[d] = {}
    BY InPlace DEF unlocked
  <2> QED BY <2>1, InPlace DEF DeliveryInv, OrderKept, Before
<1>5. Enqueued' = Enqueued
  BY DEF Enqueued
<1> QED BY <1>1, <1>2, <1>3, <1>4, <1>5 DEF DeliveryInv

LEMMA EnqueueKeeps == ASSUME DeliveryInv, EnqueueEvent PROVE DeliveryInv'
<1>1. PICK queue, e : queue = Append(dl_queue, e) /\ e = dl_next
  OBVIOUS
<1>2. /\ e \in Nat /\ e >= 1 /\ e \in DlEvents /\ e \in Carriers /\ dl_next' = e + 1
      /\ e # Stopper
      /\ dl_life # "closed" /\ unlocked /\ dl_life' = dl_life
      /\ UNCHANGED <<dl_kind, dl_received, dl_done, dl_failed, dl_lost>>
      /\ dl_late' = IF dl_life = "flushing" THEN dl_late \cup {e} ELSE dl_late
      /\ IF Len(queue) >= BatchOf THEN TakeBatch(e, queue)
         ELSE dl_queue' = queue /\ UNCHANGED dl_flight
  BY <1>1, CarriersApart DEF DeliveryInv, EnqueueEvent
<1>3. Queued(queue) /\ Range(queue) = Range(dl_queue) \cup {e}
  BY <1>1, <1>2, InPlace, EventAppended DEF DeliveryInv
<1>4. Enqueued' = Enqueued \cup {e} /\ Enqueued' \subseteq DlEvents
  <2>1. 1..(e + 1 - 1) = 1..(e - 1) \cup {e}
    BY <1>2
  <2> QED BY <1>1, <1>2, <2>1 DEF Enqueued, DeliveryInv
<1>5. PlacesKept(dl_next', Range(queue), Flights, dl_done, dl_failed, dl_lost)
  BY <1>1, <1>2, <1>3, PlacesQueued DEF DeliveryInv
<1>6. dl_late' \subseteq Enqueued' /\ (dl_lost' # {} => dl_life' # "up")
  BY <1>2, <1>4 DEF DeliveryInv
<1>7. dl_life' \in {"flushing", "closed"} => Range(queue) \subseteq dl_late'
  BY <1>2, <1>3 DEF DeliveryInv
<1>8. CASE Len(queue) >= BatchOf
  <2>1. CarriersKept' /\ Flights' = [Flights EXCEPT ![e] = Range(queue)]
    <3>1. Batch(e) = {}
      BY <1>1, <1>2, InPlace
    <3>2. dl_flight' = [dl_flight EXCEPT ![e] = [batch |-> queue, tries |-> 0]]
      BY <1>2, <1>8 DEF TakeBatch
    <3>3. CarriersKept /\ MayTake(e)
      BY <1>1, <1>2 DEF DeliveryInv, MayTake
    <3> QED BY <1>2, <1>3, <3>1, <3>2, <3>3, Drawn
  <2>2. dl_queue' = <<>> /\ Queued(dl_queue') /\ Range(dl_queue') = {}
    BY <1>2, <1>8, EventsFacts DEF TakeBatch
  <2>3. PlacesKept(dl_next', {}, Flights', dl_done, dl_failed, dl_lost)
    <3>1. Flights[e] = {}
      BY <1>1, <1>2, InPlace
    <3> QED BY <1>2, <1>5, <2>1, <3>1, InPlace, PlacesTaken
  <2>4. dl_kind = "exporter" => OrderKept({}, Flights', Range(dl_received))
    <3> SUFFICES ASSUME dl_kind = "exporter"
                 PROVE  OrderKept({}, [Flights EXCEPT ![e] = Range(queue)], Range(dl_received))
      BY <2>1
    <3>1. \A d \in Carriers : Flights[d] = {}
      BY <1>2, InPlace DEF unlocked
    <3>2. Before(Range(dl_received), Range(dl_queue))
      BY DEF DeliveryInv, OrderKept
    <3>3. Before(Range(dl_received), {e})
      BY <1>1, InPlace
    <3> QED BY <1>3, <3>1, <3>2, <3>3, InPlace DEF OrderKept, Before
  <2>5. /\ dl_next' \in Nat /\ dl_next' >= 1 /\ (1..(dl_next - 1) \subseteq DlEvents)'
        /\ Range(dl_received') \subseteq Enqueued'
    BY <1>2, <1>4 DEF DeliveryInv, Enqueued
  <2>6. dl_received' \in Seq(Nat) /\ dl_done' \subseteq Range(dl_received')
    BY <1>2 DEF DeliveryInv
  <2>7. PlacesKept(dl_next', Range(dl_queue'), Flights', dl_done', dl_failed', dl_lost')
    BY <1>2, <2>2, <2>3
  <2>8. dl_kind' = "exporter" =>
           Ascending(dl_received') /\ OrderKept(Range(dl_queue'), Flights', Range(dl_received'))
    BY <1>2, <2>2, <2>4 DEF DeliveryInv
  <2>9. /\ dl_kind' \in Senders /\ dl_life' \in {"up", "stopping", "flushing", "closed"}
        /\ dl_life' \in {"flushing", "closed"} => Range(dl_queue') \subseteq dl_late'
    BY <1>2, <2>2 DEF DeliveryInv
  <2> QED BY <1>6, <2>1, <2>2, <2>5, <2>6, <2>7, <2>8, <2>9 DEF DeliveryInv
<1>9. CASE ~(Len(queue) >= BatchOf)
  <2>1. dl_queue' = queue /\ UNCHANGED dl_flight
    BY <1>2, <1>9
  <2>2. Flights' = Flights
    BY <2>1 DEF Flights, Batch
  <2>3. CarriersKept'
    <3>1. Tries' = Tries
      BY <1>2 DEF Tries
    <3>2. \A c \in DlEvents : c >= dl_next' => c >= dl_next
      BY <1>1, <1>2, CarriersApart
    <3> QED BY <1>2, <2>1, <3>1, <3>2 DEF DeliveryInv, CarriersKept
  <2>4. dl_kind = "exporter" => OrderKept(Range(queue), Flights, Range(dl_received))
    <3> SUFFICES ASSUME dl_kind = "exporter"
                 PROVE  OrderKept(Range(dl_queue) \cup {e}, Flights, Range(dl_received))
      BY <1>3
    <3>1. OrderKept(Range(dl_queue), Flights, Range(dl_received))
      BY DEF DeliveryInv
    <3>2. Before(Range(dl_received), {e}) /\ \A c \in Carriers : Before(Flights[c], {e})
      BY <1>1, InPlace
    <3> QED BY <3>1, <3>2 DEF OrderKept, Before
  <2>5. /\ dl_next' \in Nat /\ dl_next' >= 1 /\ (1..(dl_next - 1) \subseteq DlEvents)'
        /\ Range(dl_received') \subseteq Enqueued'
    BY <1>2, <1>4 DEF DeliveryInv, Enqueued
  <2>6. dl_received' \in Seq(Nat) /\ dl_done' \subseteq Range(dl_received')
    BY <1>2 DEF DeliveryInv
  <2>7. PlacesKept(dl_next', Range(dl_queue'), Flights', dl_done', dl_failed', dl_lost')
    BY <1>2, <1>5, <2>1, <2>2
  <2>8. dl_kind' = "exporter" =>
           Ascending(dl_received') /\ OrderKept(Range(dl_queue'), Flights', Range(dl_received'))
    BY <1>2, <2>1, <2>2, <2>4 DEF DeliveryInv
  <2>9. /\ dl_kind' \in Senders /\ dl_life' \in {"up", "stopping", "flushing", "closed"}
        /\ dl_life' \in {"flushing", "closed"} => Range(dl_queue') \subseteq dl_late'
    BY <1>2, <1>7, <2>1 DEF DeliveryInv
  <2>10. Queued(dl_queue')
    BY <1>3, <2>1
  <2> QED BY <1>6, <2>3, <2>5, <2>6, <2>7, <2>8, <2>9, <2>10 DEF DeliveryInv
<1> QED BY <1>8, <1>9
\* What becomes of a batch that is let go: whether it has arrived, and where its
\* events are counted.
Fate(c) ==
    /\ dl_received' = dl_received \/ dl_received' = dl_received \o dl_flight[c].batch
    /\ \/ /\ dl_done' = dl_done \cup Batch(c) /\ dl_received' = dl_received \o dl_flight[c].batch
          /\ UNCHANGED <<dl_failed, dl_lost>>
       \/ dl_failed' = dl_failed \cup Batch(c) /\ UNCHANGED <<dl_done, dl_lost>>
       \/ dl_lost' = dl_lost \cup Batch(c) /\ UNCHANGED <<dl_done, dl_failed>>

LEMMA LandKeeps ==
    ASSUME DeliveryInv, NEW c \in Carriers, Land(c), Fate(c),
           UNCHANGED <<dl_kind, dl_queue, dl_next, dl_late>>,
           \/ dl_life' = dl_life /\ dl_lost' = dl_lost
           \/ dl_life = "up" /\ dl_life' = "stopping"
    PROVE  DeliveryInv'
<1>1. CarriersKept' /\ Flights' = [Flights EXCEPT ![c] = {}]
  BY Landed DEF DeliveryInv
<1>2. Flights[c] = Batch(c) /\ DOMAIN Flights = Carriers
  BY InPlace
<1>3. PlacesKept(dl_next, Range(dl_queue), Flights', dl_done', dl_failed', dl_lost')
  <2>1. PlacesKept(dl_next, Range(dl_queue), Flights, dl_done, dl_failed, dl_lost)
    BY DEF DeliveryInv
  <2>2. PICK queue, landed : queue = Range(dl_queue) /\ landed = Flights'
    OBVIOUS
  <2>3. /\ PlacesKept(dl_next, queue, landed, dl_done \cup Flights[c], dl_failed, dl_lost)
        /\ PlacesKept(dl_next, queue, landed, dl_done, dl_failed \cup Flights[c], dl_lost)
        /\ PlacesKept(dl_next, queue, landed, dl_done, dl_failed, dl_lost \cup Flights[c])
    <3>1. landed = [Flights EXCEPT ![c] = {}]
      BY <1>1, <2>2
    <3>2. PlacesKept(dl_next, queue, Flights, dl_done, dl_failed, dl_lost)
      BY <2>1, <2>2
    <3> QED BY <1>2, <3>1, <3>2, PlacesLanded
  <2> QED BY <1>2, <2>2, <2>3 DEF Fate
<1>4. dl_received \in Seq(Nat) /\ dl_flight[c].batch \in Seq(Nat) /\ Queued(dl_flight[c].batch)
  BY DEF DeliveryInv, CarriersKept, Queued
<1>5. /\ dl_received' \in Seq(Nat) /\ Range(dl_received) \subseteq Range(dl_received')
      /\ Range(dl_received') \subseteq Range(dl_received) \cup Batch(c)
      /\ dl_received' = dl_received \o dl_flight[c].batch => Batch(c) \subseteq Range(dl_received')
  BY <1>4, RangeJoined DEF Fate, Batch
<1>6. dl_done' \subseteq Range(dl_received') /\ Range(dl_received') \subseteq Enqueued
  BY <1>5, InPlace DEF DeliveryInv, Fate
<1>7. ASSUME dl_kind = "exporter"
      PROVE  Ascending(dl_received') /\ OrderKept(Range(dl_queue), Flights', Range(dl_received'))
  <2>1. Ascending(dl_received) /\ OrderKept(Range(dl_queue), Flights, Range(dl_received))
    BY <1>7 DEF DeliveryInv
  <2>2. Ascending(dl_received')
    <3>1. Queued(dl_received) /\ Before(Range(dl_received), Batch(c))
      BY <1>2, <1>4, <2>1 DEF Queued, OrderKept
    <3>2. Queued(dl_received \o dl_flight[c].batch)
      BY <1>4, <3>1, EventsJoined DEF Batch
    <3> QED BY <2>1, <3>2 DEF Fate, Queued
  <2>3. /\ Before(Range(dl_received'), Range(dl_queue))
        /\ \A d \in Carriers : Before(Flights'[d], Range(dl_queue))
        /\ \A d \in Carriers, e \in Carriers : d # e => Flights'[d] = {} \/ Flights'[e] = {}
    BY <1>1, <1>2, <1>5, <2>1 DEF OrderKept, Before
  <2>4. ASSUME NEW d \in Carriers PROVE Before(Range(dl_received'), Flights'[d])
    <3>1. CASE Batch(c) = {} \/ d = c
      BY <1>1, <1>2, <1>5, <2>1, <3>1 DEF OrderKept, Before
    <3>2. CASE Batch(c) # {} /\ d # c
      BY <1>1, <1>2, <2>1, <3>2 DEF OrderKept, Before
    <3> QED BY <3>1, <3>2
  <2> QED BY <2>2, <2>3, <2>4 DEF OrderKept
<1>8. /\ dl_lost' # {} => dl_life' # "up"
      /\ dl_life' \in {"up", "stopping", "flushing", "closed"}
      /\ dl_life' \in {"flushing", "closed"} => dl_life \in {"flushing", "closed"}
  BY DEF DeliveryInv
<1>9. Enqueued' = Enqueued
  BY DEF Enqueued
<1> QED BY <1>1, <1>3, <1>5, <1>6, <1>7, <1>8, <1>9 DEF DeliveryInv

LEMMA SendKeeps ==
    ASSUME DeliveryInv, NEW c \in Carriers, SendSucceeds(c) \/ SendRefused(c) \/ SendFails(c)
    PROVE  DeliveryInv'
<1>1. CASE SendSucceeds(c)
  <2>1. Land(c) /\ Fate(c)
    BY <1>1 DEF SendSucceeds, Fate, Arrives, Batch
  <2> QED BY <1>1, <2>1, LandKeeps DEF SendSucceeds
<1>2. CASE SendRefused(c)
  <2>1. Land(c) /\ Fate(c)
    BY <1>2 DEF SendRefused, Fate, Batch
  <2> QED BY <1>2, <2>1, LandKeeps DEF SendRefused
<1>3. CASE SendFails(c) /\ ~(dl_flight[c].tries + 1 < Tries)
  <2>1. Land(c) /\ Fate(c)
    BY <1>3 DEF SendFails, Fate, Arrives, Batch
  <2> QED BY <1>3, <2>1, LandKeeps DEF SendFails
<1>4. CASE SendFails(c) /\ dl_flight[c].tries + 1 < Tries
  <2>1. dl_flight' = [dl_flight EXCEPT ![c].tries = dl_flight[c].tries + 1]
        /\ dl_flight[c].tries \in 0..Tries /\ Tries' = Tries /\ Tries \in Nat
    BY <1>4, DlAssumption DEF SendFails, Tries, DeliveryInv, CarriersKept
  <2>2. /\ \A d \in Carriers : dl_flight'[d].batch = dl_flight[d].batch
        /\ \A d \in Carriers : dl_flight'[d].tries \in 0..Tries
        /\ dl_flight' = [d \in Carriers |-> dl_flight'[d]]
        /\ \A d \in Carriers : dl_flight'[d] = [batch |-> dl_flight'[d].batch,
                                                tries |-> dl_flight'[d].tries]
    <3>1. PICK old, new : /\ old = dl_flight[c] /\ new = [old EXCEPT !.tries = old.tries + 1]
                          /\ dl_flight' = [dl_flight EXCEPT ![c] = new]
      BY <2>1
    <3>2. /\ old = [batch |-> old.batch, tries |-> old.tries] /\ old.tries \in 0..Tries
          /\ DOMAIN dl_flight = Carriers
          /\ \A d \in Carriers : /\ dl_flight[d].tries \in 0..Tries
                                 /\ dl_flight[d] = [batch |-> dl_flight[d].batch,
                                                    tries |-> dl_flight[d].tries]
      BY <3>1 DEF DeliveryInv, CarriersKept
    <3>3. new = [batch |-> old.batch, tries |-> old.tries + 1] /\ old.tries + 1 \in 0..Tries
      BY <1>4, <2>1, <3>1, <3>2
    <3>4. dl_flight'[c] = new /\ \A d \in Carriers \ {c} : dl_flight'[d] = dl_flight[d]
      BY <3>1, <3>2
    <3> QED BY <3>1, <3>2, <3>3, <3>4
  <2>3. dl_flight' = [d \in Carriers |-> [batch |-> dl_flight'[d].batch,
                                          tries |-> dl_flight'[d].tries]]
    BY <2>2
  <2>4. UNCHANGED <<dl_kind, dl_queue, dl_timer, dl_life, dl_next, dl_done, dl_failed, dl_lost, dl_late>>
    BY <1>4 DEF SendFails
  <2>5. CarriersKept'
    BY <2>1, <2>2, <2>3, <2>4, CarriersApart DEF DeliveryInv, CarriersKept
  <2>6. Flights' = Flights
    BY <2>2 DEF Flights, Batch
  <2>7. dl_kind # "exporter"
    BY <1>4, <2>1 DEF Tries
  <2>8. /\ dl_received' \in Seq(Nat) /\ Range(dl_received) \subseteq Range(dl_received')
        /\ Range(dl_received') \subseteq Range(dl_received) \cup Batch(c)
    <3>1. dl_received \in Seq(Nat) /\ dl_flight[c].batch \in Seq(Nat)
      BY DEF DeliveryInv, CarriersKept, Queued
    <3> QED BY <1>4, <3>1, RangeJoined DEF SendFails, Arrives, Batch
  <2>9. Range(dl_received') \subseteq Enqueued
    BY <2>8, InPlace DEF DeliveryInv
  <2>10. Enqueued' = Enqueued
    BY <2>4 DEF Enqueued
  <2> QED BY <2>4, <2>5, <2>6, <2>7, <2>8, <2>9, <2>10 DEF DeliveryInv
<1> QED BY <1>1, <1>2, <1>3, <1>4

LEMMA StopTimerKeeps == ASSUME DeliveryInv, StopTimer PROVE DeliveryInv'
<1>1. Land(Timer) /\ Fate(Timer) /\ Timer \in Carriers
  BY CarriersApart DEF StopTimer, Fate, Arrives, Batch
<1> QED BY <1>1, LandKeeps DEF StopTimer

LEMMA FlushesKeep ==
    ASSUME DeliveryInv, PeriodicFlush \/ StopFlush PROVE DeliveryInv'
<1>1. CASE PeriodicFlush
  <2>1. dl_life' = dl_life /\ dl_life \in {"up", "stopping", "flushing", "closed"}
    BY <1>1 DEF PeriodicFlush, DeliveryInv
  <2> QED BY <1>1, <2>1, FlushTakes, CarriersApart DEF PeriodicFlush
<1>2. CASE StopFlush
  <2>1. ~sending(Stopper)
    BY <1>2 DEF StopFlush, DeliveryInv, CarriersKept, sending
  <2> QED BY <1>2, <2>1, FlushTakes, CarriersApart DEF StopFlush
<1> QED BY <1>1, <1>2

LEMMA CloseKeeps == ASSUME DeliveryInv, CloseSender PROVE DeliveryInv'
<1>1. /\ dl_life = "flushing" /\ dl_life' = "closed" /\ Enqueued' = Enqueued
      /\ UNCHANGED <<dl_kind, dl_queue, dl_timer, dl_next, dl_received, dl_done, dl_failed, dl_late>>
  BY DEF CloseSender, Enqueued
<1>2. CASE dl_kind = "exporter"
  <2>1. UNCHANGED <<dl_flight, dl_lost>> /\ Flights' = Flights /\ Tries' = Tries
    BY <1>1, <1>2 DEF CloseSender, Flights, Batch, Tries
  <2> QED BY <1>1, <2>1 DEF DeliveryInv, CarriersKept
<1>3. CASE dl_kind # "exporter"
  <2>1. /\ dl_flight' = [c \in Carriers |-> Idle] /\ dl_lost' = dl_lost \cup InHand
    BY <1>3 DEF CloseSender, InHand
  <2>2. \A c \in Carriers : dl_flight'[c].batch = <<>> /\ dl_flight'[c].tries = 0
    BY <2>1 DEF Idle
  <2>3. dl_flight' = [c \in Carriers |-> [batch |-> dl_flight'[c].batch,
                                          tries |-> dl_flight'[c].tries]]
    BY <2>1 DEF Idle
  <2>4. Tries' \in Nat
    BY DlAssumption DEF Tries
  <2>5. CarriersKept'
    BY <2>2, <2>3, <2>4, EventsFacts, CarriersApart DEF CarriersKept
  <2>6. \A c \in Carriers : Flights'[c] = {}
    BY <2>2, EventsFacts DEF Flights, Batch
  <2>7. \A e : e \in InHand <=> \E c \in Carriers : e \in Flights[c]
    BY DEF InHand, Flights, Batch
  <2>8. PlacesKept(dl_next, Range(dl_queue), Flights', dl_done, dl_failed, dl_lost')
    <3>1. PICK queue : queue = Range(dl_queue)
      OBVIOUS
    <3>2. PlacesKept(dl_next, queue, Flights, dl_done, dl_failed, dl_lost)
      BY <3>1 DEF DeliveryInv
    <3>3. PlacesKept(dl_next, queue, Flights', dl_done, dl_failed, dl_lost')
      BY <2>1, <2>6, <2>7, <3>2 DEF PlacesKept
    <3> QED BY <3>1, <3>3
  <2> QED BY <1>1, <1>3, <2>5, <2>8 DEF DeliveryInv
<1> QED BY <1>2, <1>3

LEMMA DeliveryStep == DeliveryInv /\ [DlNext]_dlvars => DeliveryInv'
<1> SUFFICES ASSUME DeliveryInv, [DlNext]_dlvars PROVE DeliveryInv'
  OBVIOUS
<1>1. CASE UNCHANGED dlvars
  BY <1>1 DEF dlvars, DeliveryInv, CarriersKept, Flights, Batch, Enqueued, Tries
<1> QED BY <1>1, EnqueueKeeps, SendKeeps, StopTimerKeeps, FlushesKeep, CloseKeeps DEF DlNext

LEMMA DeliveryInvImplies ==
    DeliveryInv => EventsAccounted /\ ExportedInOrder /\ StopFlushes /\ DlTypeOK
<1> SUFFICES ASSUME DeliveryInv PROVE EventsAccounted /\ ExportedInOrder /\ StopFlushes /\ DlTypeOK
  OBVIOUS
<1>1. PICK F : F = Fates
  OBVIOUS
<1>2. DOMAIN F = 1..4 /\ F[1] = Range(dl_queue) \cup InHand /\ F[2] = dl_done
      /\ F[3] = dl_failed /\ F[4] = dl_lost
  BY <1>1 DEF Fates
<1>3. \A e : e \in InHand <=> \E c \in Carriers : e \in Flights[c]
  BY DEF InHand, Flights, Batch
<1>4. \A c \in Carriers : Flights[c] = Range(dl_flight[c].batch)
  BY DEF Flights, Batch
<1>5. PICK queue : queue = Range(dl_queue)
  OBVIOUS
<1>6. PlacesKept(dl_next, queue, Flights, dl_done, dl_failed, dl_lost)
  BY <1>5 DEF DeliveryInv
<1>7. Enqueued = UNION Range(F)
  <2>1. Range(F) = {F[1], F[2], F[3], F[4]}
    BY <1>2 DEF Range
  <2>2. \A e : e \in Enqueued <=> e \in queue \/ e \in InHand \/ e \in dl_done \/ e \in dl_failed
                                  \/ e \in dl_lost
    BY <1>3, <1>6 DEF PlacesKept, Enqueued
  <2> QED BY <1>2, <1>5, <2>1, <2>2
<1>8. \A i, j \in DOMAIN F : i # j => F[i] \cap F[j] = {}
  <2>1. \A S \in {dl_done, dl_failed, dl_lost} : (queue \cup InHand) \cap S = {}
    BY <1>3, <1>6 DEF PlacesKept
  <2>2. F[1] \cap F[2] = {} /\ F[1] \cap F[3] = {} /\ F[1] \cap F[4] = {}
    BY <1>2, <1>5, <2>1
  <2>3. F[2] \cap F[3] = {} /\ F[2] \cap F[4] = {} /\ F[3] \cap F[4] = {}
    BY <1>2, <1>6 DEF PlacesKept
  <2> QED BY <1>2, <2>2, <2>3
<1>9. \A c \in Carriers :
          /\ IsInjective(dl_flight[c].batch)
          /\ Range(dl_flight[c].batch) \cap Range(dl_queue) = {}
          /\ \A d \in Carriers \ {c} : Range(dl_flight[c].batch) \cap Range(dl_flight[d].batch) = {}
  <2> TAKE c \in Carriers
  <2>0. Queued(dl_flight[c].batch)
    BY DEF DeliveryInv, CarriersKept
  <2>1. IsInjective(dl_flight[c].batch)
    BY <2>0, EventsFacts
  <2>2. /\ Flights[c] \cap queue = {}
        /\ \A d \in Carriers \ {c} : Flights[c] \cap Flights[d] = {}
    BY <1>6 DEF PlacesKept
  <2> QED BY <1>4, <1>5, <2>1, <2>2
<1>10. EventsAccounted
  <2>0. /\ Queued(dl_queue)
        /\ dl_lost # {} => dl_life # "up"
        /\ dl_done \subseteq Range(dl_received)
    BY DEF DeliveryInv
  <2>1. IsInjective(dl_queue)
    BY <2>0, EventsFacts
  <2> QED BY <2>0, <1>1, <1>7, <1>8, <1>9, <2>1 DEF EventsAccounted
<1>11. ExportedInOrder /\ StopFlushes
  BY DEF ExportedInOrder, StopFlushes, DeliveryInv, Ascending
<1>12. DlTypeOK
  <2>1. dl_done \cup dl_failed \cup dl_lost \subseteq Enqueued /\ queue \subseteq Enqueued
    BY <1>6 DEF PlacesKept, Enqueued
  <2> QED BY <1>5, <2>1 DEF DlTypeOK, DeliveryInv, CarriersKept
<1> QED BY <1>10, <1>11, <1>12

LEMMA DeliveriesSafe == DlSpec => [](EventsAccounted /\ ExportedInOrder /\ StopFlushes /\ DlTypeOK)
<1>1. DlSpec => []DeliveryInv
  BY DeliveryInit, DeliveryStep, PTL DEF DlSpec
<1> QED BY <1>1, DeliveryInvImplies, PTL

-----------------------------------------------------------------------------
(* The callbacks, and what the recorders among them make of the events.    *)

Ids(list) == {list[i].id : i \in DOMAIN list}
Unlike(list) == \A i, j \in DOMAIN list : list[i].id = list[j].id => i = j
OneEach(list) == \A i, j \in DOMAIN list : list[i].name = list[j].name => i = j

\* The ids and the names of the registered callbacks stay distinct.
LEMMA Registered ==
    ASSUME NEW S, NEW list \in Seq(S), Unlike(list), OneEach(list), NEW cb \in S,
           cb.id \notin Ids(list)
    PROVE  LET new == with(list, cb)
           IN  new \in Seq(S) /\ Unlike(new) /\ OneEach(new) /\ Ids(new) \subseteq Ids(list) \cup {cb.id}
<1>1. PICK new : new = with(list, cb)
  OBVIOUS
<1>2. Len(list) \in Nat /\ DOMAIN list = 1..Len(list) /\ \A i \in DOMAIN list : list[i] \in S
  OBVIOUS
<1>3. CASE \E i \in DOMAIN list : list[i].name = cb.name
  <2>1. new = [i \in DOMAIN list |-> IF list[i].name = cb.name THEN cb ELSE list[i]]
    BY <1>1, <1>3 DEF with
  <2>2. new \in Seq(S) /\ DOMAIN new = DOMAIN list
    <3>1. new \in [1..Len(list) -> S]
      BY <1>2, <2>1
    <3> QED BY <1>2, <3>1
  <2>3. \A i \in DOMAIN list : new[i] = cb \/ (new[i] = list[i] /\ list[i].name # cb.name)
    BY <2>1
  <2>4. \A i, j \in DOMAIN list : new[i] = cb /\ new[j] = cb => i = j
    BY <1>2, <2>1 DEF OneEach, Ids
  <2>5. \A i \in DOMAIN list : list[i].id # cb.id
    BY DEF Ids
  <2>6. Unlike(new)
    BY <2>2, <2>3, <2>4, <2>5 DEF Unlike
  <2>7. OneEach(new)
    BY <2>2, <2>3, <2>4 DEF OneEach
  <2>8. Ids(new) \subseteq Ids(list) \cup {cb.id}
    BY <2>2, <2>3 DEF Ids
  <2> QED BY <1>1, <2>2, <2>6, <2>7, <2>8
<1>4. CASE \A i \in DOMAIN list : list[i].name # cb.name
  <2>1. new = Append(list, cb)
    BY <1>1, <1>4 DEF with
  <2>2. /\ new \in Seq(S) /\ DOMAIN new = 1..(Len(list) + 1) /\ new[Len(list) + 1] = cb
        /\ \A i \in 1..Len(list) : new[i] = list[i]
    BY <2>1, AppendProperties
  <2>3. \A i \in DOMAIN new : i = Len(list) + 1 \/ i \in DOMAIN list
    BY <1>2, <2>2
  <2>4. \A i \in DOMAIN list : list[i].id # cb.id
    BY DEF Ids
  <2>5. Unlike(new)
    BY <1>2, <2>2, <2>3, <2>4 DEF Unlike
  <2>6. OneEach(new)
    BY <1>2, <1>4, <2>2, <2>3 DEF OneEach
  <2>7. Ids(new) \subseteq Ids(list) \cup {cb.id}
    BY <1>2, <2>2, <2>3 DEF Ids
  <2> QED BY <1>1, <2>2, <2>5, <2>6, <2>7
<1> QED BY <1>3, <1>4

LEMMA Remaining ==
    ASSUME NEW S, NEW list \in Seq(S), list # <<>>, Unlike(list)
    PROVE  /\ Head(list) \in S /\ Head(list).id \in Ids(list)
           /\ Tail(list) \in Seq(S) /\ Unlike(Tail(list))
           /\ Ids(Tail(list)) \subseteq Ids(list) \ {Head(list).id}
<1>1. /\ Len(list) \in Nat /\ Len(list) >= 1 /\ DOMAIN list = 1..Len(list) /\ Head(list) = list[1]
      /\ Head(list) \in S
  BY EmptySeq, HeadTailProperties
<1>2. PICK rest : rest = Tail(list)
  OBVIOUS
<1>3. /\ rest \in Seq(S) /\ DOMAIN rest = 1..(Len(list) - 1)
      /\ \A i \in 1..(Len(list) - 1) : rest[i] = list[i + 1]
  BY <1>1, <1>2, HeadTailProperties
<1>4. \A i \in DOMAIN rest : i + 1 \in DOMAIN list /\ i + 1 # 1 /\ rest[i] = list[i + 1]
  BY <1>1, <1>3
<1>5. Unlike(rest)
  <2> SUFFICES ASSUME NEW i \in DOMAIN rest, NEW j \in DOMAIN rest, rest[i].id = rest[j].id
               PROVE  i = j
    BY DEF Unlike
  <2>1. i + 1 = j + 1
    BY <1>4 DEF Unlike
  <2> QED BY <1>3, <2>1
<1>6. Ids(rest) \subseteq Ids(list) \ {Head(list).id}
  <2> SUFFICES ASSUME NEW i \in DOMAIN rest
               PROVE  rest[i].id \in Ids(list) /\ rest[i].id # list[1].id
    BY <1>1 DEF Ids
  <2> QED BY <1>1, <1>4 DEF Ids, Unlike
<1>7. Head(list).id \in Ids(list)
  BY <1>1 DEF Ids
<1> QED BY <1>1, <1>2, <1>3, <1>5, <1>6, <1>7

-----------------------------------------------------------------------------
Pending(r, id) == \E call \in tasks[r] : call[2] = id

Plain == teamSetting.mode = "plain"

\* The callbacks are all registered before the first request.
RegistryInv ==
    /\ callbacks \in Seq(UNION {{list[i] : i \in DOMAIN list} : list \in HookLists})
    /\ cbToRegister \in Seq(UNION {{list[i] : i \in DOMAIN list} : list \in HookLists})
    /\ Unlike(callbacks) /\ OneEach(callbacks) /\ Unlike(cbToRegister)
    /\ Ids(callbacks) \cap Ids(cbToRegister) = {}
    /\ Ids(callbacks) \cup Ids(cbToRegister) \subseteq CallbackIds
    /\ cbToRegister # <<>> => \A r \in CbRequests : handling[r] = "none"

\* A callback has one call at most of a request, and none is of a stranger.
TasksInv ==
    /\ handling \in [CbRequests -> {"none", "running", "ending", "failing", "answered"}]
    /\ DOMAIN tasks = CbRequests
    /\ \A r \in CbRequests : handling[r] \in {"none", "answered"} => tasks[r] = {}
    /\ \A r \in CbRequests : \A call \in tasks[r] : call[2] \in Ids(callbacks)
    /\ Plain => \A r \in CbRequests : \A call, other \in tasks[r] :
         call[2] = other[2] => call = other

Once(event) == IF event \in announced THEN 1 ELSE 0

\* How often a callback is told of a request that has come to a stage.
Due(stage) ==
    CASE stage = "none" -> {0}
      [] stage = "running" -> {Once("start")}
      [] stage = "ending" -> {Once("start") + Once("end")}
      [] stage = "failing" -> {Once("start") + Once("error")}
      [] stage = "answered" -> {Once("start") + Once("end"), Once("start") + Once("error")}

HeardInv ==
    /\ heard \in [CbRequests -> [CallbackIds -> Nat]]
    /\ Plain => \A r \in CbRequests, id \in CallbackIds :
         IF id \in Ids(callbacks)
         THEN heard[r][id] + (IF Pending(r, id) THEN 1 ELSE 0) \in Due(handling[r])
         ELSE heard[r][id] = 0

CbInv == announced \in EventSets /\ RegistryInv /\ TasksInv /\ HeardInv

LEMMA CallbacksInit == CbInit => CbInv
<1> SUFFICES ASSUME CbInit PROVE CbInv
  OBVIOUS
<1> DEFINE H == UNION {{list[i] : i \in DOMAIN list} : list \in HookLists}
<1>1. cbToRegister \in Seq(H) /\ Unlike(cbToRegister) /\ Ids(cbToRegister) \subseteq CallbackIds
  <2>1. cbToRegister \in HookLists
    BY DEF CbInit
  <2>2. cbToRegister \in Seq({cbToRegister[i] : i \in DOMAIN cbToRegister})
    BY <2>1, CbAssumption
  <2>3. {cbToRegister[i] : i \in DOMAIN cbToRegister} \subseteq H
    BY <2>1
  <2>4. cbToRegister \in Seq(H)
    BY <2>2, <2>3, SeqMonotonic
  <2>5. Unlike(cbToRegister)
    BY <2>1, CbAssumption DEF Unlike
  <2>6. Ids(cbToRegister) \subseteq CallbackIds
    BY <2>1 DEF Ids, CallbackIds
  <2> QED BY <2>4, <2>5, <2>6
<1>2. callbacks \in Seq(H) /\ Unlike(callbacks) /\ OneEach(callbacks) /\ Ids(callbacks) = {}
  BY DEF CbInit, Unlike, OneEach, Ids
<1>3. RegistryInv
  BY <1>1, <1>2 DEF RegistryInv, CbInit
<1>4. TasksInv /\ HeardInv
  BY <1>2 DEF TasksInv, HeardInv, CbInit, Plain, Due, Pending
<1> QED BY <1>3, <1>4 DEF CbInv, CbInit

LEMMA RegisterKeeps == ASSUME CbInv, RegisterCallback PROVE CbInv'
<1>1. PICK S, cb, rest :
        /\ S = UNION {{list[i] : i \in DOMAIN list} : list \in HookLists}
        /\ cb = Head(cbToRegister) /\ rest = Tail(cbToRegister)
        /\ cbToRegister' = rest /\ callbacks' = with(callbacks, cb) /\ cbToRegister # <<>>
        /\ UNCHANGED <<teamSetting, announced, handling, tasks, heard>>
  BY DEF RegisterCallback
<1>2. /\ callbacks \in Seq(S) /\ cbToRegister \in Seq(S)
      /\ Unlike(callbacks) /\ OneEach(callbacks) /\ Unlike(cbToRegister)
      /\ Ids(callbacks) \cap Ids(cbToRegister) = {}
      /\ Ids(callbacks) \cup Ids(cbToRegister) \subseteq CallbackIds
      /\ \A r \in CbRequests : handling[r] = "none"
  BY <1>1 DEF CbInv, RegistryInv
<1>3. /\ cb \in S /\ cb.id \in Ids(cbToRegister) /\ rest \in Seq(S) /\ Unlike(rest)
      /\ Ids(rest) \subseteq Ids(cbToRegister) \ {cb.id}
  BY <1>1, <1>2, Remaining
<1>4. /\ callbacks' \in Seq(S) /\ Unlike(callbacks') /\ OneEach(callbacks')
      /\ Ids(callbacks') \subseteq Ids(callbacks) \cup {cb.id}
  BY <1>1, <1>2, <1>3, Registered
<1>5. RegistryInv'
  BY <1>1, <1>2, <1>3, <1>4 DEF RegistryInv
<1>6. \A r \in CbRequests : tasks[r] = {}
  BY <1>2 DEF CbInv, TasksInv
<1>7. TasksInv'
  BY <1>1, <1>6 DEF CbInv, TasksInv
<1>8. HeardInv'
  <2>1. \A r \in CbRequests, id \in CallbackIds : Plain => heard[r][id] = 0 /\ ~Pending(r, id)
    BY <1>2, <1>6 DEF CbInv, HeardInv, Due, Pending
  <2>2. \A r \in CbRequests : (0 \in Due(handling[r]))'
    BY <1>1, <1>2 DEF Due
  <2> QED BY <1>1, <2>1, <2>2 DEF CbInv, HeardInv, Plain, Pending
<1> QED BY <1>1, <1>5, <1>7, <1>8 DEF CbInv

\* Who is told an event: each callback at most once, and where the team has no
\* say, all of them or nobody.
LEMMA Recipients ==
    ASSUME CbInv, NEW event
    PROVE  /\ \A call \in recipients(event) : call[2] \in Ids(callbacks)
           /\ Plain => \A call, other \in recipients(event) : call[2] = other[2] => call = other
           /\ Plain => \A id \in Ids(callbacks) :
                (\E call \in recipients(event) : call[2] = id) <=> event \in announced
<1>1. \A call \in Positions(callbacks) : call[2] \in Ids(callbacks)
  BY DEF Positions, Ids
<1>2. \A id \in Ids(callbacks) : \E call \in Positions(callbacks) : call[2] = id
  <2> SUFFICES ASSUME NEW i \in DOMAIN callbacks
               PROVE  \E call \in Positions(callbacks) : call[2] = callbacks[i].id
    BY DEF Ids
  <2>1. <<i, callbacks[i].id>> \in Positions(callbacks)
    BY DEF Positions
  <2> QED BY <2>1
<1>3. \A call, other \in Positions(callbacks) : call[2] = other[2] => call = other
  BY DEF Positions, CbInv, RegistryInv, Unlike
<1>4. \A call \in named(teamSetting.names) : call[2] \in Ids(callbacks)
  BY <1>1 DEF named
<1>5. \/ recipients(event) = {} \/ recipients(event) = named(teamSetting.names)
      \/ recipients(event) = Positions(callbacks)
  BY DEF recipients
<1>6. Plain => recipients(event) = IF event \in announced THEN Positions(callbacks) ELSE {}
  BY DEF recipients, Plain
<1> QED BY <1>1, <1>2, <1>3, <1>4, <1>5, <1>6

\* The steps of the stages of a request.
Moves(from, event, stage) ==
    \/ from = "none" /\ event = "start" /\ stage = "running"
    \/ from = "running" /\ event = "end" /\ stage = "ending"
    \/ from = "running" /\ event = "error" /\ stage = "failing"

LEMMA AnnounceMoves ==
    ASSUME CbInv, NEW r \in CbRequests, StartRequest(r) \/ FinishRequest(r)
    PROVE  \E event, stage : /\ Moves(handling[r], event, stage) /\ Announce(r, event, stage)
                             /\ tasks[r] = {} /\ cbToRegister = <<>>
<1>1. StartRequest(r) => tasks[r] = {}
  BY DEF CbInv, TasksInv, StartRequest
<1>2. FinishRequest(r) => cbToRegister = <<>>
  BY DEF CbInv, RegistryInv, FinishRequest
<1> QED BY <1>1, <1>2 DEF StartRequest, FinishRequest, Moves

LEMMA AnnounceKeeps ==
    ASSUME CbInv, NEW r \in CbRequests, NEW event, NEW stage, Moves(handling[r], event, stage),
           Announce(r, event, stage), tasks[r] = {}, cbToRegister = <<>>
    PROVE  /\ CbInv' /\ \A q \in CbRequests \ {r} : tasks'[q] = tasks[q] /\ handling'[q] = handling[q]
           /\ handling'[r] = stage
           /\ Plain => \A id \in Ids(callbacks) : Pending(r, id)' <=> event \in announced
<1>1. /\ handling' = [handling EXCEPT ![r] = stage]
      /\ tasks' = [tasks EXCEPT ![r] = recipients(event)]
      /\ UNCHANGED <<cbToRegister, callbacks, teamSetting, announced, heard>>
      /\ stage \in {"running", "ending", "failing"}
  BY DEF Announce, Moves
<1>2. /\ tasks'[r] = recipients(event) /\ DOMAIN tasks' = CbRequests /\ handling'[r] = stage
      /\ \A q \in CbRequests \ {r} : tasks'[q] = tasks[q] /\ handling'[q] = handling[q]
      /\ handling' \in [CbRequests -> {"none", "running", "ending", "failing", "answered"}]
  BY <1>1 DEF CbInv, TasksInv
<1>3. TasksInv'
  BY <1>1, <1>2, Recipients DEF CbInv, TasksInv, Plain
<1>4. RegistryInv'
  BY <1>1 DEF CbInv, RegistryInv
<1>5. Plain => \A id \in Ids(callbacks) : Pending(r, id)' <=> event \in announced
  BY <1>2, Recipients DEF Pending
<1>6. HeardInv'
  <2>1. \A id \in CallbackIds : ~Pending(r, id)
    BY DEF Pending
  <2>2. \A q \in CbRequests \ {r}, id \in CallbackIds : Pending(q, id)' <=> Pending(q, id)
    BY <1>2 DEF Pending
  <2>3. \A n \in Due(handling[r]) : (n + Once(event) \in Due(stage))'
    BY <1>1 DEF Moves, Due, Once
  <2>4. ASSUME Plain, NEW id \in CallbackIds, id \in Ids(callbacks)
        PROVE  heard[r][id] + (IF Pending(r, id)' THEN 1 ELSE 0) \in Due(stage)'
    <3>1. heard[r][id] + 0 \in Due(handling[r]) /\ heard[r][id] \in Nat
      BY <2>1, <2>4 DEF CbInv, HeardInv
    <3>2. heard[r][id] + Once(event)' \in Due(stage)'
      BY <2>3, <3>1
    <3>3. Once(event)' = IF Pending(r, id)' THEN 1 ELSE 0
      BY <1>1, <1>5, <2>4 DEF Once
    <3> QED BY <3>2, <3>3
  <2>5. \A s : Due(s)' = Due(s)
    BY <1>1 DEF Due, Once
  <2>6. ASSUME Plain, NEW q \in CbRequests, NEW id \in CallbackIds
        PROVE  IF id \in Ids(callbacks)
               THEN heard[q][id] + (IF Pending(q, id)' THEN 1 ELSE 0) \in Due(handling'[q])
               ELSE heard[q][id] = 0
    <3>1. IF id \in Ids(callbacks)
          THEN heard[q][id] + (IF Pending(q, id) THEN 1 ELSE 0) \in Due(handling[q])
          ELSE heard[q][id] = 0
      BY <2>6 DEF CbInv, HeardInv
    <3>2. CASE q = r
      BY <1>2, <2>4, <2>5, <2>6, <3>1, <3>2
    <3>3. CASE q # r
      BY <1>2, <2>2, <3>1, <3>3
    <3> QED BY <3>2, <3>3
  <2>7. (\A q \in CbRequests, id \in CallbackIds :
           IF id \in Ids(callbacks)
           THEN heard[q][id] + (IF Pending(q, id) THEN 1 ELSE 0) \in Due(handling[q])
           ELSE heard[q][id] = 0)' \/ ~Plain
    BY <1>1, <2>5, <2>6
  <2> QED BY <1>1, <2>7 DEF CbInv, HeardInv, Plain
<1> QED BY <1>1, <1>2, <1>3, <1>4, <1>5, <1>6 DEF CbInv

\* One call of a request has ended, with its handler or with an exception.
TaskEnds(r, call) ==
    /\ call \in tasks[r]
    /\ tasks' = [tasks EXCEPT ![r] = @ \ {call}]
    /\ heard' = [heard EXCEPT ![r][call[2]] = @ + 1]
    /\ UNCHANGED <<cbToRegister, callbacks, teamSetting, announced, handling>>

LEMMA TaskEndsKeeps ==
    ASSUME CbInv, NEW r \in CbRequests, NEW call, TaskEnds(r, call)
    PROVE  /\ CbInv' /\ Pending(r, call[2]) /\ call[2] \in Ids(callbacks)
           /\ handling[r] \in {"running", "ending", "failing"}
           /\ Plain => \A q \in CbRequests : \A id : Pending(q, id)' <=> Pending(q, id) /\ ~(q = r /\ id = call[2])
<1>1. PICK id0 : id0 = call[2]
  OBVIOUS
<1>2. /\ call \in tasks[r] /\ tasks'[r] = tasks[r] \ {call} /\ DOMAIN tasks' = CbRequests
      /\ \A q \in CbRequests \ {r} : tasks'[q] = tasks[q]
      /\ UNCHANGED <<cbToRegister, callbacks, teamSetting, announced, handling>>
  BY DEF TaskEnds, CbInv, TasksInv
<1>3. /\ id0 \in Ids(callbacks) /\ Ids(callbacks) \subseteq CallbackIds /\ Pending(r, id0)
      /\ handling[r] \in {"running", "ending", "failing"}
  BY <1>1, <1>2 DEF CbInv, TasksInv, RegistryInv, Pending
<1>4. /\ heard' \in [CbRequests -> [CallbackIds -> Nat]]
      /\ heard'[r][id0] = heard[r][id0] + 1
      /\ \A q \in CbRequests, id \in CallbackIds : ~(q = r /\ id = id0) => heard'[q][id] = heard[q][id]
  <2>1. heard' = [heard EXCEPT ![r] = [heard[r] EXCEPT ![id0] = heard[r][id0] + 1]]
    BY <1>1 DEF TaskEnds
  <2>2. heard \in [CbRequests -> [CallbackIds -> Nat]]
    BY DEF CbInv, HeardInv
  <2> QED BY <1>3, <2>1, <2>2
<1>5. TasksInv'
  BY <1>2, <1>3 DEF CbInv, TasksInv, Plain
<1>6. Plain => \A q \in CbRequests : \A id : Pending(q, id)' <=> Pending(q, id) /\ ~(q = r /\ id = id0)
  BY <1>1, <1>2 DEF CbInv, TasksInv, Pending
<1>7. \A s : Due(s)' = Due(s)
  BY <1>2 DEF Due, Once
<1>8. HeardInv'
  <2>1. ASSUME Plain, NEW q \in CbRequests, NEW id \in CallbackIds
        PROVE  IF id \in Ids(callbacks)
               THEN heard'[q][id] + (IF Pending(q, id)' THEN 1 ELSE 0) \in Due(handling[q])
               ELSE heard'[q][id] = 0
    <3>1. IF id \in Ids(callbacks)
          THEN heard[q][id] + (IF Pending(q, id) THEN 1 ELSE 0) \in Due(handling[q])
          ELSE heard[q][id] = 0
      BY <2>1 DEF CbInv, HeardInv
    <3>2. heard[q][id] \in Nat
      BY DEF CbInv, HeardInv
    <3>3. CASE q = r /\ id = id0
      BY <1>3, <1>4, <1>6, <2>1, <3>1, <3>2, <3>3
    <3>4. CASE ~(q = r /\ id = id0)
      BY <1>4, <1>6, <2>1, <3>1, <3>4
    <3> QED BY <3>3, <3>4
  <2>2. (\A q \in CbRequests, id \in CallbackIds :
           IF id \in Ids(callbacks)
           THEN heard[q][id] + (IF Pending(q, id) THEN 1 ELSE 0) \in Due(handling[q])
           ELSE heard[q][id] = 0)' \/ ~Plain
    BY <1>2, <1>7, <2>1
  <2> QED BY <1>2, <1>4, <2>2 DEF HeardInv, Plain
<1>9. RegistryInv'
  BY <1>2 DEF CbInv, RegistryInv
<1> QED BY <1>1, <1>2, <1>3, <1>5, <1>6, <1>8, <1>9 DEF CbInv

LEMMA AnswerKeeps == ASSUME CbInv, NEW r \in CbRequests, AnswerRequest(r) PROVE CbInv'
<1>1. /\ handling' = [handling EXCEPT ![r] = "answered"] /\ handling[r] \in {"ending", "failing"}
      /\ tasks[r] = {} /\ cbToRegister = <<>>
      /\ UNCHANGED <<cbToRegister, callbacks, teamSetting, announced, tasks, heard>>
  BY DEF AnswerRequest, CbInv, RegistryInv
<1>2. /\ handling'[r] = "answered" /\ \A q \in CbRequests \ {r} : handling'[q] = handling[q]
      /\ handling' \in [CbRequests -> {"none", "running", "ending", "failing", "answered"}]
  BY <1>1 DEF CbInv, TasksInv
<1>3. \A s : Due(s)' = Due(s)
  BY <1>1 DEF Due, Once
<1>4. Due(handling[r]) \subseteq Due("answered")
  BY <1>1 DEF Due
<1>5. TasksInv' /\ RegistryInv'
  BY <1>1, <1>2 DEF CbInv, TasksInv, RegistryInv, Plain
<1>6. \A q \in CbRequests : Due(handling[q]) \subseteq Due(handling'[q])
  BY <1>2, <1>4
<1>7. HeardInv'
  <2>1. \A q, id : Pending(q, id)' <=> Pending(q, id)
    BY <1>1 DEF Pending
  <2> QED BY <1>1, <1>3, <1>6, <2>1 DEF CbInv, HeardInv, Plain
<1> QED BY <1>1, <1>5, <1>7 DEF CbInv
-----------------------------------------------------------------------------
\* Every event is dispatched to every callback.
Full == Plain /\ announced = Events

\* The requests whose start a callback was told, and whose end it was not.
Open(id) ==
    {r \in CbRequests : IF handling[r] = "running" THEN ~Pending(r, id)
                        ELSE handling[r] \in {"ending", "failing"} /\ Pending(r, id)}

Pair(r, status) ==
    {[of |-> r, kind |-> "generation", parent |-> TRUE, status |-> status],
     [of |-> r, kind |-> "root", parent |-> FALSE, status |-> status]}

\* What OpenTelemetry keeps of a request.
SpansOf(r) ==
    IF handling[r] \in {"ending", "failing", "answered"} /\ ~Pending(r, "opentelemetry")
    THEN /\ Ended(r) = Pair(r, "end") \/ Ended(r) = Pair(r, "error")
         /\ handling[r] = "ending" => Ended(r) = Pair(r, "end")
         /\ handling[r] = "failing" => Ended(r) = Pair(r, "error")
    ELSE Ended(r) = {}

Erred == {r \in CbRequests : \/ handling[r] = "failing" /\ ~Pending(r, "prometheus")
                             \/ handling[r] = "answered" /\ Ended(r) = Pair(r, "error")}

\* What Langfuse was sent of a request.
TraceOf(r) ==
    LET told == ~Pending(r, "langfuse")
    IN  CASE handling[r] = "none" \/ (handling[r] = "running" /\ ~told) -> traced[r] = <<>>
          [] handling[r] = "running" /\ told -> traced[r] = <<"trace-create">>
          [] handling[r] \in {"ending", "failing"} /\ ~told -> traced[r] = <<"trace-create">>
          [] OTHER -> \E generation \in {"generation DEFAULT", "generation ERROR"} :
                         traced[r] = <<"trace-create", generation, "trace-create">>

Uses(id) == Full /\ id \in Ids(callbacks)

\* The metrics stay three counters.
Counters(m) ==
    /\ m = [active |-> m.active, success |-> m.success, error |-> m.error]
    /\ m.active \in Int /\ m.error \in Int

RecordsInv ==
    /\ Counters(metrics)
    /\ spans = [open |-> spans.open, ended |-> spans.ended]
    /\ spans.open \subseteq CbRequests /\ \A s \in spans.ended : s.of \in CbRequests
    /\ DOMAIN traced = CbRequests
    /\ cbToRegister # <<>> =>
         /\ metrics.active = 0 /\ metrics.error = 0 /\ spans.open = {} /\ spans.ended = {}
         /\ \A r \in CbRequests : traced[r] = <<>>

MetricsInv == Uses("prometheus") => metrics.active = Cardinality(Open("prometheus"))

ErrorsInv ==
    Uses("prometheus") /\ Uses("opentelemetry") => metrics.error = Cardinality(Erred)

SpansInv == Uses("opentelemetry") =>
    spans.open = Open("opentelemetry") /\ \A r \in CbRequests : SpansOf(r)

TracesInv == Uses("langfuse") => \A r \in CbRequests : TraceOf(r)

GaugeInv == CbInv /\ RecordsInv /\ MetricsInv /\ ErrorsInv /\ SpansInv /\ TracesInv

LEMMA SetsFinite ==
    ASSUME NEW S \in SUBSET CbRequests PROVE IsFiniteSet(S) /\ Cardinality(S) \in Nat
  BY CbAssumption, FS_Subset, FS_CardinalityType

LEMMA NoneStarted ==
    ASSUME GaugeInv, cbToRegister # <<>>
    PROVE  /\ \A id : Open(id) = {}
           /\ Erred = {}
           /\ \A r \in CbRequests : ~Pending(r, "opentelemetry") /\ handling[r] = "none"
           /\ \A r : Ended(r) = {}
<1>1. \A r \in CbRequests : handling[r] = "none"
  BY DEF GaugeInv, CbInv, RegistryInv
<1>2. \A r \in CbRequests : \A id : ~Pending(r, id)
  BY <1>1 DEF GaugeInv, CbInv, TasksInv, Pending
<1>3. \A r : Ended(r) = {}
  BY DEF GaugeInv, RecordsInv, Ended
<1> QED BY <1>1, <1>2, <1>3 DEF Open, Erred

LEMMA GaugeInit == CbInit => GaugeInv
<1> SUFFICES ASSUME CbInit PROVE GaugeInv
  OBVIOUS
<1>1. CbInv
  BY CallbacksInit
<1>2. RecordsInv
  BY DEF RecordsInv, CbInit, Counters
<1>3. Ids(callbacks) = {}
  BY DEF CbInit, Ids
<1> QED BY <1>1, <1>2, <1>3 DEF GaugeInv, MetricsInv, ErrorsInv, SpansInv, TracesInv, Uses

LEMMA GaugeRegisters == ASSUME GaugeInv, RegisterCallback PROVE GaugeInv'
<1>1. CbInv'
  BY RegisterKeeps DEF GaugeInv
<1>2. /\ UNCHANGED <<teamSetting, announced, handling, tasks, heard, metrics, spans, traced>>
      /\ cbToRegister # <<>>
  BY DEF RegisterCallback
<1>3. RecordsInv'
  BY <1>2 DEF RecordsInv, GaugeInv
<1>4. /\ \A id : Open(id)' = {} /\ Erred' = {}
      /\ \A r : Ended(r)' = {}
  BY <1>2, NoneStarted DEF Open, Erred, Pending, Ended
<1>5. Cardinality({}) = 0
  BY FS_EmptySet
<1>6. MetricsInv' /\ ErrorsInv'
  BY <1>2, <1>4, <1>5 DEF GaugeInv, RecordsInv, MetricsInv, ErrorsInv
<1>7. \A r \in CbRequests : handling'[r] = "none" /\ ~Pending(r, "opentelemetry")'
  BY <1>2, NoneStarted DEF Pending
<1>8. SpansInv' /\ TracesInv'
  BY <1>2, <1>4, <1>7 DEF GaugeInv, RecordsInv, SpansInv, TracesInv, SpansOf, TraceOf
<1> QED BY <1>1, <1>3, <1>6, <1>8 DEF GaugeInv

LEMMA GaugeAnnounces ==
    ASSUME GaugeInv, NEW r \in CbRequests, StartRequest(r) \/ FinishRequest(r) PROVE GaugeInv'
<1>1. PICK event, stage : /\ Moves(handling[r], event, stage) /\ Announce(r, event, stage)
                          /\ tasks[r] = {} /\ cbToRegister = <<>>
  BY AnnounceMoves DEF GaugeInv
<1>2. /\ CbInv' /\ \A q \in CbRequests \ {r} : tasks'[q] = tasks[q] /\ handling'[q] = handling[q]
      /\ handling'[r] = stage
      /\ Plain => \A id \in Ids(callbacks) : Pending(r, id)' <=> event \in announced
  BY <1>1, AnnounceKeeps DEF GaugeInv
<1>3. UNCHANGED <<cbToRegister, callbacks, teamSetting, announced, metrics, spans, traced>>
  BY <1>1 DEF Announce
<1>4. /\ \A id : ~Pending(r, id)
      /\ \A q \in CbRequests \ {r} : \A id : Pending(q, id)' <=> Pending(q, id)
      /\ \A id : Uses(id)' <=> Uses(id)
      /\ \A id : Uses(id) => Pending(r, id)'
      /\ \A q : Ended(q)' = Ended(q)
  BY <1>1, <1>2, <1>3 DEF Pending, Uses, Full, Plain, Moves, Events, Ended
<1>5. \A id : Uses(id) => Open(id)' = Open(id)
  <2> SUFFICES ASSUME NEW id, Uses(id), NEW q \in CbRequests
               PROVE  q \in Open(id)' <=> q \in Open(id)
    BY DEF Open
  <2>1. CASE q = r
    BY <1>1, <1>2, <1>4, <2>1 DEF Open, Moves
  <2>2. CASE q # r
    BY <1>2, <1>4, <2>2 DEF Open
  <2> QED BY <2>1, <2>2
<1>6. Uses("prometheus") => Erred' = Erred
  <2> SUFFICES ASSUME Uses("prometheus"), NEW q \in CbRequests
               PROVE  q \in Erred' <=> q \in Erred
    BY DEF Erred
  <2>1. CASE q = r
    BY <1>1, <1>2, <1>4, <2>1 DEF Erred, Moves
  <2>2. CASE q # r
    BY <1>2, <1>4, <2>2 DEF Erred
  <2> QED BY <2>1, <2>2
<1>7. MetricsInv' /\ ErrorsInv'
  BY <1>3, <1>4, <1>5, <1>6 DEF GaugeInv, MetricsInv, ErrorsInv
<1>8. SpansInv'
  <2>1. ASSUME Uses("opentelemetry"), NEW q \in CbRequests PROVE SpansOf(q)'
    <3>1. SpansOf(q)
      BY <2>1 DEF GaugeInv, SpansInv
    <3>2. CASE q = r
      BY <1>1, <1>2, <1>4, <2>1, <3>1, <3>2 DEF SpansOf, Moves
    <3>3. CASE q # r
      BY <1>2, <1>4, <3>1, <3>3 DEF SpansOf
    <3> QED BY <3>2, <3>3
  <2> QED BY <1>3, <1>4, <1>5, <2>1 DEF GaugeInv, SpansInv
<1>9. TracesInv'
  <2>1. ASSUME Uses("langfuse"), NEW q \in CbRequests PROVE TraceOf(q)'
    <3>1. TraceOf(q)
      BY <2>1 DEF GaugeInv, TracesInv
    <3>2. CASE q = r
      BY <1>1, <1>2, <1>3, <1>4, <2>1, <3>1, <3>2 DEF TraceOf, Moves
    <3>3. CASE q # r
      BY <1>2, <1>3, <1>4, <3>1, <3>3 DEF TraceOf
    <3> QED BY <3>2, <3>3
  <2> QED BY <1>4, <2>1 DEF TracesInv
<1>10. RecordsInv'
  BY <1>3 DEF GaugeInv, RecordsInv
<1> QED BY <1>2, <1>7, <1>8, <1>9, <1>10 DEF GaugeInv

LEMMA GaugeAnswers == ASSUME GaugeInv, NEW r \in CbRequests, AnswerRequest(r) PROVE GaugeInv'
<1>1. CbInv'
  BY AnswerKeeps DEF GaugeInv
<1>2. /\ handling[r] \in {"ending", "failing"} /\ tasks[r] = {} /\ handling'[r] = "answered"
      /\ \A q \in CbRequests \ {r} : handling'[q] = handling[q]
      /\ UNCHANGED <<cbToRegister, callbacks, teamSetting, announced, tasks, metrics, spans, traced>>
  BY DEF AnswerRequest, GaugeInv, CbInv, TasksInv
<1>3. /\ \A q, id : Pending(q, id)' <=> Pending(q, id)
      /\ \A id : ~Pending(r, id)
      /\ \A id : Uses(id)' <=> Uses(id)
      /\ \A q : Ended(q)' = Ended(q)
  BY <1>2 DEF Pending, Uses, Full, Plain, Ended
<1>4. \A id : Open(id)' = Open(id)
  <2> SUFFICES ASSUME NEW id, NEW q \in CbRequests PROVE q \in Open(id)' <=> q \in Open(id)
    BY DEF Open
  <2>1. CASE q = r
    BY <1>2, <1>3, <2>1 DEF Open
  <2>2. CASE q # r
    BY <1>2, <1>3, <2>2 DEF Open
  <2> QED BY <2>1, <2>2
<1>5. Uses("opentelemetry") => Erred' = Erred
  <2> SUFFICES ASSUME Uses("opentelemetry"), NEW q \in CbRequests PROVE q \in Erred' <=> q \in Erred
    BY DEF Erred
  <2>1. CASE q = r
    <3>1. /\ handling[r] = "ending" => Ended(r) = Pair(r, "end")
          /\ handling[r] = "failing" => Ended(r) = Pair(r, "error")
      BY <1>2, <1>3 DEF GaugeInv, SpansInv, SpansOf
    <3>2. Pair(r, "end") # Pair(r, "error")
      <4>1. [of |-> r, kind |-> "root", parent |-> FALSE, status |-> "end"] \notin Pair(r, "error")
        BY DEF Pair
      <4> QED BY <4>1 DEF Pair
    <3> QED BY <1>2, <1>3, <2>1, <3>1, <3>2 DEF Erred
  <2>2. CASE q # r
    BY <1>2, <1>3, <2>2 DEF Erred
  <2> QED BY <2>1, <2>2
<1>6. MetricsInv' /\ ErrorsInv'
  BY <1>2, <1>3, <1>4, <1>5 DEF GaugeInv, MetricsInv, ErrorsInv
<1>7. SpansInv'
  <2>1. ASSUME Uses("opentelemetry"), NEW q \in CbRequests PROVE SpansOf(q)'
    <3>1. SpansOf(q)
      BY <2>1 DEF GaugeInv, SpansInv
    <3> QED BY <1>2, <1>3, <3>1 DEF SpansOf
  <2> QED BY <1>2, <1>3, <1>4, <2>1 DEF GaugeInv, SpansInv
<1>8. TracesInv'
  <2>1. ASSUME Uses("langfuse"), NEW q \in CbRequests PROVE TraceOf(q)'
    <3>1. TraceOf(q)
      BY <2>1 DEF GaugeInv, TracesInv
    <3>2. CASE q = r
      BY <1>2, <1>3, <3>1, <3>2 DEF TraceOf
    <3>3. CASE q # r
      BY <1>2, <1>3, <3>1, <3>3 DEF TraceOf
    <3> QED BY <3>2, <3>3
  <2> QED BY <1>3, <2>1 DEF TracesInv
<1>9. RecordsInv'
  BY <1>2 DEF GaugeInv, RecordsInv
<1> QED BY <1>1, <1>6, <1>7, <1>8, <1>9 DEF GaugeInv

\* The end of a call changes the sets of its own callback only.
LEMMA OpenMoves ==
    ASSUME GaugeInv, NEW r \in CbRequests, NEW call, TaskEnds(r, call), Full
    PROVE  /\ \A id : id # call[2] => Open(id)' = Open(id)
           /\ handling[r] = "running" =>
                r \notin Open(call[2]) /\ Open(call[2])' = Open(call[2]) \cup {r}
           /\ handling[r] # "running" =>
                r \in Open(call[2]) /\ Open(call[2])' = Open(call[2]) \ {r}
<1>1. /\ Pending(r, call[2]) /\ handling[r] \in {"running", "ending", "failing"}
      /\ \A q \in CbRequests : \A id : Pending(q, id)' <=> Pending(q, id) /\ ~(q = r /\ id = call[2])
      /\ handling' = handling
  BY TaskEndsKeeps DEF GaugeInv, Full, TaskEnds
<1>2. \A id : id # call[2] => Open(id)' = Open(id)
  <2> SUFFICES ASSUME NEW id, id # call[2], NEW q \in CbRequests PROVE q \in Open(id)' <=> q \in Open(id)
    BY DEF Open
  <2> QED BY <1>1 DEF Open
<1>3. PICK me, mine, mine2 : me = call[2] /\ mine = Open(me) /\ mine2 = Open(me)'
  OBVIOUS
<1>4. handling[r] = "running" => r \notin mine /\ mine2 = mine \cup {r}
  <2> SUFFICES ASSUME handling[r] = "running" PROVE r \notin mine /\ mine2 = mine \cup {r}
    OBVIOUS
  <2>1. \A q \in CbRequests : q \in mine2 <=> q \in mine \/ q = r
    BY <1>1, <1>3 DEF Open
  <2> QED BY <1>1, <1>3, <2>1 DEF Open
<1>5. handling[r] # "running" => r \in mine /\ mine2 = mine \ {r}
  <2> SUFFICES ASSUME handling[r] # "running" PROVE r \in mine /\ mine2 = mine \ {r}
    OBVIOUS
  <2>1. \A q \in CbRequests : q \in mine2 <=> q \in mine /\ q # r
    BY <1>1, <1>3 DEF Open
  <2> QED BY <1>1, <1>3, <2>1 DEF Open
<1> QED BY <1>2, <1>3, <1>4, <1>5

\* What the recorders do with the end of a call.
Recorded(r, id) ==
    /\ \/ Record(r, id)
       \/ id \notin Recorders /\ UNCHANGED <<metrics, spans, traced>>

LEMMA MetricsCounted ==
    ASSUME NEW m, Counters(m), NEW event \in {"start", "end", "error"},
           NEW new, new = prometheus_record(m, event)
    PROVE  Counters(new)
<1>1. DOMAIN m = {"active", "success", "error"}
  BY DEF Counters
<1>2. DOMAIN new = {"active", "success", "error"} /\ new = [f \in DOMAIN new |-> new[f]]
  BY <1>1 DEF prometheus_record
<1>3. new.active = m.active + 1 \/ new.active = m.active - 1
  BY <1>1 DEF prometheus_record
<1>4. new.error = m.error \/ new.error = m.error + 1
  BY <1>1 DEF prometheus_record
<1>5. new = [active |-> new.active, success |-> new.success, error |-> new.error]
  BY <1>2
<1>6. new.active \in Int /\ new.error \in Int
  BY <1>3, <1>4 DEF Counters
<1> QED BY <1>5, <1>6 DEF Counters

LEMMA RecordsKept ==
    ASSUME GaugeInv, NEW r \in CbRequests, NEW call, TaskEnds(r, call), Recorded(r, call[2])
    PROVE  RecordsInv'
<1>1. PICK id : id = call[2]
  OBVIOUS
<1>2. handling[r] \in {"running", "ending", "failing"} /\ UNCHANGED cbToRegister
  BY TaskEndsKeeps DEF GaugeInv, TaskEnds
<1>3. cbToRegister = <<>>
  BY <1>2 DEF GaugeInv, CbInv, RegistryInv
<1>4. EventOf(handling[r]) \in {"start", "end", "error"}
  BY <1>2 DEF EventOf
<1>5. Counters(metrics)'
  <2>1. Counters(metrics)
    BY DEF GaugeInv, RecordsInv
  <2>2. metrics' = metrics \/ metrics' = prometheus_record(metrics, EventOf(handling[r]))
    BY <1>1 DEF Recorded, Record
  <2>3. PICK m, new : m = metrics /\ new = metrics'
    OBVIOUS
  <2>4. Counters(new)
    BY <1>4, <2>1, <2>2, <2>3, MetricsCounted
  <2> QED BY <2>3, <2>4
<1>6. /\ (spans = [open |-> spans.open, ended |-> spans.ended])'
      /\ (spans.open \subseteq CbRequests /\ \A s \in spans.ended : s.of \in CbRequests)'
  <2>1. /\ spans = [open |-> spans.open, ended |-> spans.ended]
        /\ spans.open \subseteq CbRequests /\ \A s \in spans.ended : s.of \in CbRequests
    BY DEF GaugeInv, RecordsInv
  <2>2. spans' = spans \/ spans' = otel_record(spans, r, EventOf(handling[r]))
    BY <1>1 DEF Recorded, Record
  <2> QED BY <2>1, <2>2 DEF otel_record
<1>7. DOMAIN traced' = CbRequests
  BY DEF GaugeInv, RecordsInv, Recorded, Record
<1> QED BY <1>2, <1>3, <1>5, <1>6, <1>7 DEF RecordsInv

LEMMA Joined ==
    ASSUME NEW x, NEW y, NEW z PROVE <<x>> \o <<y, z>> = <<x, y, z>>
<1>1. PICK one, two, S : one = <<x>> /\ two = <<y, z>> /\ S = {x, y, z}
  OBVIOUS
<1>2. /\ one \in Seq(S) /\ two \in Seq(S) /\ Len(one) = 1 /\ Len(two) = 2
      /\ one[1] = x /\ two[1] = y /\ two[2] = z
  BY <1>1
<1>3. PICK three : three = one \o two
  OBVIOUS
<1>4. /\ three \in Seq(S) /\ Len(three) = 3
      /\ \A i \in 1..1 : three[i] = one[i]
      /\ \A i \in 1..2 : three[1 + i] = two[i]
  <2>1. /\ three \in Seq(S) /\ Len(three) = Len(one) + Len(two)
        /\ \A i \in 1..(Len(one) + Len(two)) :
              three[i] = IF i <= Len(one) THEN one[i] ELSE two[i - Len(one)]
    BY <1>2, <1>3, ConcatProperties
  <2> QED BY <1>2, <2>1
<1>5. three[1] = x /\ three[1 + 1] = y /\ three[1 + 2] = z
  BY <1>2, <1>4
<1>6. Len(three) = Len(<<x, y, z>>) /\ <<x, y, z>> \in Seq(S)
      /\ \A i \in 1..Len(three) : three[i] = <<x, y, z>>[i]
  <2>1. \A i \in 1..3 : i = 1 \/ i = 2 \/ i = 3
    OBVIOUS
  <2>2. <<x, y, z>> \in Seq(S) /\ Len(<<x, y, z>>) = 3
    BY <1>1
  <2>3. three[1] = x /\ three[2] = y /\ three[3] = z
    BY <1>5
  <2> QED BY <1>4, <2>1, <2>2, <2>3
<1> QED BY <1>1, <1>3, <1>4, <1>6, SeqEqual

LEMMA GaugeRecords ==
    ASSUME GaugeInv, NEW r \in CbRequests, NEW call, TaskEnds(r, call), Recorded(r, call[2])
    PROVE  GaugeInv'
<1>1. PICK id : id = call[2]
  OBVIOUS
<1>2. /\ CbInv' /\ Pending(r, id) /\ id \in Ids(callbacks)
      /\ handling[r] \in {"running", "ending", "failing"}
      /\ Plain => \A q \in CbRequests : \A x : Pending(q, x)' <=> Pending(q, x) /\ ~(q = r /\ x = id)
  BY <1>1, TaskEndsKeeps DEF GaugeInv
<1>3. UNCHANGED <<cbToRegister, callbacks, teamSetting, announced, handling>>
  BY DEF TaskEnds
<1>4. \A x : Uses(x)' <=> Uses(x)
  BY <1>3 DEF Uses, Full, Plain
<1>5. RecordsInv'
  BY RecordsKept
<1>6. Full => /\ \A x : x # id => Open(x)' = Open(x)
              /\ handling[r] = "running" => r \notin Open(id) /\ Open(id)' = Open(id) \cup {r}
              /\ handling[r] # "running" => r \in Open(id) /\ Open(id)' = Open(id) \ {r}
  BY <1>1, OpenMoves
<1>7. /\ id # "prometheus" => metrics' = metrics
      /\ id = "prometheus" => metrics' = prometheus_record(metrics, EventOf(handling[r]))
      /\ id # "opentelemetry" => spans' = spans
      /\ id = "opentelemetry" => spans' = otel_record(spans, r, EventOf(handling[r]))
      /\ id # "langfuse" => traced' = traced
      /\ id = "langfuse" => traced' = [traced EXCEPT ![r] = @ \o langfuse_record(EventOf(handling[r]))]
  BY <1>1 DEF Recorded, Record, Recorders
<1>8. EventOf(handling[r]) = IF handling[r] = "running" THEN "start"
                             ELSE IF handling[r] = "ending" THEN "end" ELSE "error"
  BY <1>2 DEF EventOf
<1>9. MetricsInv'
  <2> SUFFICES ASSUME Uses("prometheus") PROVE metrics'.active = Cardinality(Open("prometheus")')
    BY <1>4 DEF MetricsInv
  <2>1. metrics.active = Cardinality(Open("prometheus")) /\ Full
    BY DEF GaugeInv, MetricsInv, Uses
  <2>2. CASE id # "prometheus"
    BY <1>6, <1>7, <2>1, <2>2
  <2>3. CASE id = "prometheus"
    <3>1. PICK mine, mine2 : mine = Open(id) /\ mine2 = Open(id)'
      OBVIOUS
    <3>2. IsFiniteSet(mine) /\ Cardinality(mine) \in Nat
      BY <3>1, SetsFinite DEF Open
    <3>3. metrics = [active |-> metrics.active, success |-> metrics.success, error |-> metrics.error]
      BY DEF GaugeInv, RecordsInv, Counters
    <3>4. CASE handling[r] = "running"
      <4>1. Cardinality(mine2) = Cardinality(mine) + 1
        BY <1>6, <2>1, <3>1, <3>2, <3>4, FS_AddElement
      <4>2. metrics'.active = metrics.active + 1
        BY <1>7, <1>8, <2>3, <3>3, <3>4 DEF prometheus_record
      <4> QED BY <2>1, <2>3, <3>1, <4>1, <4>2
    <3>5. CASE handling[r] # "running"
      <4>1. Cardinality(mine2) = Cardinality(mine) - 1
        BY <1>6, <2>1, <3>1, <3>2, <3>5, FS_RemoveElement
      <4>2. metrics'.active = metrics.active - 1
        BY <1>7, <1>8, <2>3, <3>3, <3>5 DEF prometheus_record
      <4> QED BY <2>1, <2>3, <3>1, <4>1, <4>2
    <3> QED BY <3>4, <3>5
  <2> QED BY <2>2, <2>3
<1>10. \A q \in CbRequests : q # r => Ended(q)' = Ended(q)
  <2>1. CASE id # "opentelemetry"
    BY <1>7, <2>1 DEF Ended
  <2>2. CASE id = "opentelemetry"
    <3>1. \A s : s.of # r => (s \in spans'.ended <=> s \in spans.ended)
      BY <1>7, <2>2 DEF otel_record, GaugeInv, RecordsInv
    <3> QED BY <3>1 DEF Ended
  <2> QED BY <2>1, <2>2
<1>11. SpansInv'
  <2> SUFFICES ASSUME Uses("opentelemetry")
               PROVE  spans'.open = Open("opentelemetry")' /\ \A q \in CbRequests : SpansOf(q)'
    BY <1>4 DEF SpansInv
  <2>1. Full /\ spans.open = Open("opentelemetry") /\ \A q \in CbRequests : SpansOf(q)
    BY DEF GaugeInv, SpansInv, Uses
  <2>2. CASE id # "opentelemetry"
    <3>1. spans'.open = Open("opentelemetry")'
      BY <1>6, <1>7, <2>1, <2>2
    <3>2. \A q \in CbRequests : Pending(q, "opentelemetry")' <=> Pending(q, "opentelemetry")
      BY <1>2, <2>1, <2>2 DEF Full
    <3>3. \A q : Ended(q)' = Ended(q)
      BY <1>7, <2>2 DEF Ended
    <3>4. \A q \in CbRequests : SpansOf(q)'
      BY <1>3, <2>1, <3>2, <3>3 DEF SpansOf
    <3> QED BY <3>1, <3>4
  <2>3. CASE id = "opentelemetry"
    <3>1. spans = [open |-> spans.open, ended |-> spans.ended]
      BY DEF GaugeInv, RecordsInv
    <3>2. spans'.open = Open("opentelemetry")'
      <4>1. PICK mine, mine2 : mine = Open(id) /\ mine2 = Open(id)'
        OBVIOUS
      <4>2. spans'.open = IF handling[r] = "running" THEN mine \cup {r} ELSE mine \ {r}
        BY <1>7, <1>8, <2>1, <2>3, <3>1, <4>1 DEF otel_record
      <4> QED BY <1>6, <2>1, <2>3, <4>1, <4>2
    <3>3. ASSUME NEW q \in CbRequests, q # r PROVE SpansOf(q)'
      BY <1>2, <1>3, <1>10, <2>1, <3>3 DEF SpansOf, Full
    <3>4. SpansOf(r)'
      <4>1. ~Pending(r, "opentelemetry")'
        BY <1>2, <2>1, <2>3 DEF Full
      <4>2. Ended(r) = {}
        BY <1>2, <2>1, <2>3 DEF SpansOf
      <4>3. CASE handling[r] = "running"
        <5>1. Ended(r)' = Ended(r)
          BY <1>7, <1>8, <2>3, <3>1, <4>3 DEF otel_record, Ended
        <5> QED BY <1>3, <4>2, <4>3, <5>1 DEF SpansOf
      <4>4. CASE handling[r] # "running"
        <5>1. PICK status : status = EventOf(handling[r])
          OBVIOUS
        <5>2. r \in spans.open
          BY <1>6, <2>1, <2>3, <4>4
        <5>3. status # "start"
          BY <1>8, <4>4, <5>1
        <5>4. spans'.ended = spans.ended \cup Pair(r, status)
          <6>1. /\ (r \in spans.open) = TRUE
                /\ {[of |-> x, kind |-> "root", parent |-> FALSE, status |-> status] :
                      x \in spans.open \cap {r}}
                   = {[of |-> r, kind |-> "root", parent |-> FALSE, status |-> status]}
            BY <5>2
          <6>2. spans'.ended = spans.ended
                  \cup {[of |-> r, kind |-> "generation", parent |-> r \in spans.open, status |-> status]}
                  \cup {[of |-> x, kind |-> "root", parent |-> FALSE, status |-> status] :
                          x \in spans.open \cap {r}}
            BY <1>7, <2>3, <5>1, <5>3 DEF otel_record
          <6> QED BY <6>1, <6>2 DEF Pair
        <5>5. \A s \in Pair(r, status) : s.of = r
          BY DEF Pair
        <5>6. Ended(r)' = Pair(r, status)
          BY <4>2, <5>4, <5>5 DEF Ended
        <5> QED BY <1>2, <1>3, <1>8, <4>1, <4>4, <5>1, <5>6 DEF SpansOf
      <4> QED BY <4>3, <4>4
    <3> QED BY <3>2, <3>3, <3>4
  <2> QED BY <2>2, <2>3
<1>12. ErrorsInv'
  <2> SUFFICES ASSUME Uses("prometheus"), Uses("opentelemetry")
               PROVE  metrics'.error = Cardinality(Erred')
    BY <1>4 DEF ErrorsInv
  <2>1. metrics.error = Cardinality(Erred) /\ Full
    BY DEF GaugeInv, ErrorsInv, Uses
  <2>2. \A q \in CbRequests : handling[q] = "answered" => Ended(q)' = Ended(q)
    BY <1>2, <1>10
  <2>3. metrics = [active |-> metrics.active, success |-> metrics.success, error |-> metrics.error]
    BY DEF GaugeInv, RecordsInv, Counters
  <2>4. CASE id = "prometheus" /\ handling[r] = "failing"
    <3>1. PICK mine, mine2 : mine = Erred /\ mine2 = Erred'
      OBVIOUS
    <3>2. IsFiniteSet(mine) /\ Cardinality(mine) \in Nat
      BY <3>1, SetsFinite DEF Erred
    <3>3. r \notin mine
      BY <1>2, <2>4, <3>1 DEF Erred
    <3>4. mine2 = mine \cup {r}
      <4>1. \A q \in CbRequests : q \in mine2 <=> q \in mine \/ q = r
        BY <1>2, <1>3, <2>1, <2>2, <2>4, <3>1 DEF Erred, Full
      <4> QED BY <3>1, <4>1 DEF Erred
    <3>5. Cardinality(mine2) = Cardinality(mine) + 1
      BY <3>2, <3>3, <3>4, FS_AddElement
    <3>6. metrics'.error = metrics.error + 1
      BY <1>7, <1>8, <2>3, <2>4 DEF prometheus_record
    <3> QED BY <2>1, <3>1, <3>5, <3>6
  <2>5. CASE ~(id = "prometheus" /\ handling[r] = "failing")
    <3>1. metrics'.error = metrics.error
      BY <1>2, <1>7, <1>8, <2>3, <2>5 DEF prometheus_record
    <3>2. \A q \in CbRequests : q \in Erred' <=> q \in Erred
      BY <1>2, <1>3, <2>1, <2>2, <2>5 DEF Erred, Full
    <3>3. Erred' = Erred
      BY <3>2 DEF Erred
    <3> QED BY <2>1, <3>1, <3>3
  <2> QED BY <2>4, <2>5
<1>13. TracesInv'
  <2> SUFFICES ASSUME Uses("langfuse"), NEW q \in CbRequests PROVE TraceOf(q)'
    BY <1>4 DEF TracesInv
  <2>1. Full /\ TraceOf(q)
    BY DEF GaugeInv, TracesInv, Uses
  <2>2. CASE id = "langfuse" /\ q = r
    <3>1. traced'[r] = traced[r] \o langfuse_record(EventOf(handling[r]))
      BY <1>7, <2>2 DEF GaugeInv, RecordsInv
    <3>2. ~Pending(r, "langfuse")'
      BY <1>2, <2>1, <2>2 DEF Full
    <3>3. CASE handling[r] = "running"
      <4>1. traced[r] = <<>> /\ langfuse_record(EventOf(handling[r])) = <<"trace-create">>
        BY <1>2, <1>8, <2>1, <2>2, <3>3 DEF TraceOf, langfuse_record
      <4>2. <<>> \o <<"trace-create">> = <<"trace-create">>
        OBVIOUS
      <4> QED BY <1>3, <2>2, <3>1, <3>2, <3>3, <4>1, <4>2 DEF TraceOf
    <3>4. CASE handling[r] # "running"
      <4>1. traced[r] = <<"trace-create">>
        BY <1>2, <2>1, <2>2, <3>4 DEF TraceOf
      <4>2. PICK generation \in {"generation DEFAULT", "generation ERROR"} :
               langfuse_record(EventOf(handling[r])) = <<generation, "trace-create">>
        BY <1>8, <3>4 DEF langfuse_record
      <4>3. <<"trace-create">> \o <<generation, "trace-create">>
              = <<"trace-create", generation, "trace-create">>
        BY Joined
      <4> QED BY <1>2, <1>3, <2>2, <3>1, <3>2, <3>4, <4>1, <4>2, <4>3 DEF TraceOf
    <3> QED BY <3>3, <3>4
  <2>3. CASE ~(id = "langfuse" /\ q = r)
    <3>1. Pending(q, "langfuse")' <=> Pending(q, "langfuse")
      BY <1>2, <2>1, <2>3 DEF Full
    <3>2. traced'[q] = traced[q]
      BY <1>7, <2>3 DEF GaugeInv, RecordsInv
    <3> QED BY <1>3, <2>1, <3>1, <3>2 DEF TraceOf
  <2> QED BY <2>2, <2>3
<1> QED BY <1>2, <1>5, <1>9, <1>11, <1>12, <1>13 DEF GaugeInv

LEMMA GaugeStep == GaugeInv /\ [CbNext]_cbVars => GaugeInv'
<1> SUFFICES ASSUME GaugeInv, [CbNext]_cbVars PROVE GaugeInv'
  OBVIOUS
<1>1. ASSUME NEW team \in TeamSettings, SetTeamConfig(team) PROVE GaugeInv'
  <2>1. /\ ~Plain /\ ~Plain'
        /\ UNCHANGED <<cbToRegister, callbacks, announced, handling, tasks, heard, metrics, spans, traced>>
    BY <1>1 DEF SetTeamConfig, Plain
  <2> QED BY <2>1 DEF GaugeInv, CbInv, RegistryInv, TasksInv, HeardInv, RecordsInv, MetricsInv,
                      ErrorsInv, SpansInv, TracesInv, Uses, Full
<1>2. ASSUME NEW r \in CbRequests, NEW call \in tasks[r], SafeCall(r, call) \/ SafeCallFails(r, call)
      PROVE  GaugeInv'
  <2>1. TaskEnds(r, call) /\ Recorded(r, call[2])
    BY <1>2 DEF SafeCall, SafeCallFails, TaskEnds, Recorded
  <2> QED BY <2>1, GaugeRecords
<1>3. CASE UNCHANGED cbVars
  <2>1. /\ UNCHANGED <<cbToRegister, callbacks, teamSetting, announced, handling, tasks, heard>>
        /\ UNCHANGED <<metrics, spans, traced>>
    BY <1>3 DEF cbVars
  <2>2. /\ \A r, id : Pending(r, id)' <=> Pending(r, id)
        /\ \A r : Ended(r)' = Ended(r)
        /\ \A id : Uses(id)' <=> Uses(id)
        /\ \A s : Due(s)' = Due(s)
    BY <2>1 DEF Pending, Ended, Uses, Full, Plain, Due, Once
  <2>3. CbInv'
    BY <2>1, <2>2 DEF GaugeInv, CbInv, RegistryInv, TasksInv, HeardInv, Plain
  <2>4. (\A id : Open(id)' = Open(id)) /\ Erred' = Erred
    BY <2>1, <2>2 DEF Open, Erred
  <2>5. \A r : (SpansOf(r)' <=> SpansOf(r)) /\ (TraceOf(r)' <=> TraceOf(r))
    BY <2>1, <2>2 DEF SpansOf, TraceOf
  <2> QED BY <2>1, <2>2, <2>3, <2>4, <2>5
          DEF GaugeInv, RecordsInv, MetricsInv, ErrorsInv, SpansInv, TracesInv
<1> QED BY <1>1, <1>2, <1>3, GaugeRegisters, GaugeAnnounces, GaugeAnswers DEF CbNext

LEMMA EventSetSizes ==
    ASSUME announced \in EventSets
    PROVE  /\ Cardinality(announced \ {"error"}) = Once("start") + Once("end")
           /\ Cardinality(announced \ {"end"}) = Once("start") + Once("error")
<1>1. \A x, y : x # y => Cardinality({x, y}) = 2
  <2> SUFFICES ASSUME NEW x, NEW y, x # y PROVE Cardinality({x, y}) = 2
    OBVIOUS
  <2>1. IsFiniteSet({x}) /\ Cardinality({x}) = 1 /\ y \notin {x}
    BY FS_Singleton
  <2>2. Cardinality({x} \cup {y}) = 2
    BY <2>1, FS_AddElement
  <2>3. {x} \cup {y} = {x, y}
    OBVIOUS
  <2> QED BY <2>2, <2>3
<1>2. Cardinality({}) = 0 /\ \A x : Cardinality({x}) = 1
  BY FS_EmptySet, FS_Singleton
<1>3. ASSUME NEW x, NEW y, NEW S, S \subseteq {x, y}, x # y
      PROVE  Cardinality(S) = (IF x \in S THEN 1 ELSE 0) + (IF y \in S THEN 1 ELSE 0)
  <2>1. S = {} \/ S = {x} \/ S = {y} \/ S = {x, y}
    BY <1>3
  <2>2. CASE S = {}
    BY <1>2, <2>2
  <2>3. CASE S = {x}
    <3>1. Cardinality({x}) = 1
      BY <1>2
    <3>2. x \in S /\ y \notin S
      BY <1>3, <2>3
    <3> QED BY <2>3, <3>1, <3>2
  <2>4. CASE S = {y}
    <3>1. Cardinality({y}) = 1
      BY <1>2
    <3>2. x \notin S /\ y \in S
      BY <1>3, <2>4
    <3> QED BY <2>4, <3>1, <3>2
  <2>5. CASE S = {x, y}
    <3>1. Cardinality({x, y}) = 2
      BY <1>1, <1>3
    <3>2. x \in S /\ y \in S
      BY <2>5
    <3> QED BY <2>5, <3>1, <3>2
  <2> QED BY <2>1, <2>2, <2>3, <2>4, <2>5
<1>4. announced \subseteq {"start", "end", "error"}
  BY CbAssumption
<1>5. Cardinality(announced \ {"error"})
        = (IF "start" \in announced \ {"error"} THEN 1 ELSE 0)
          + (IF "end" \in announced \ {"error"} THEN 1 ELSE 0)
  <2>1. PICK S : S = announced \ {"error"}
    OBVIOUS
  <2>2. S \subseteq {"start", "end"} /\ "start" # "end"
    BY <1>4, <2>1
  <2>3. Cardinality(S) = (IF "start" \in S THEN 1 ELSE 0) + (IF "end" \in S THEN 1 ELSE 0)
    BY <1>3, <2>2
  <2> QED BY <2>1, <2>3
<1>6. Cardinality(announced \ {"end"})
        = (IF "start" \in announced \ {"end"} THEN 1 ELSE 0)
          + (IF "error" \in announced \ {"end"} THEN 1 ELSE 0)
  <2>1. PICK S : S = announced \ {"end"}
    OBVIOUS
  <2>2. S \subseteq {"start", "error"} /\ "start" # "error"
    BY <1>4, <2>1
  <2>3. Cardinality(S) = (IF "start" \in S THEN 1 ELSE 0) + (IF "error" \in S THEN 1 ELSE 0)
    BY <1>3, <2>2
  <2> QED BY <2>1, <2>3
<1> QED BY <1>5, <1>6 DEF Once

LEMMA CallbackTypes == GaugeInv => CbTypeOK
<1> SUFFICES ASSUME GaugeInv PROVE CbTypeOK
  OBVIOUS
<1>1. announced \subseteq Events
  BY CbAssumption DEF GaugeInv, CbInv, Events
<1>2. \A r \in CbRequests : \A call \in tasks[r] : \E i \in DOMAIN callbacks : callbacks[i].id = call[2]
  BY DEF GaugeInv, CbInv, TasksInv, Ids
<1>3. metrics.active \in Int /\ spans.open \subseteq CbRequests
  BY DEF GaugeInv, RecordsInv, Counters
<1> QED BY <1>1, <1>2, <1>3 DEF GaugeInv, CbInv, TasksInv, HeardInv, CbTypeOK

LEMMA GaugeInvImplies == GaugeInv => EveryoneHearsOnce /\ GaugeFollowsEvents
<1> SUFFICES ASSUME GaugeInv PROVE EveryoneHearsOnce /\ GaugeFollowsEvents
  OBVIOUS
<1>1. EveryoneHearsOnce
  <2> SUFFICES ASSUME NEW r \in CbRequests, PlainDispatch, handling[r] = "answered",
                      NEW id \in CallbackIds
               PROVE  IF id \in Ids(callbacks)
                      THEN \/ heard[r][id] = Cardinality(announced \ {"error"})
                           \/ heard[r][id] = Cardinality(announced \ {"end"})
                      ELSE heard[r][id] = 0
    BY DEF EveryoneHearsOnce, Ids
  <2>1. ~Pending(r, id) /\ Plain /\ heard[r][id] \in Nat
    BY DEF GaugeInv, CbInv, TasksInv, HeardInv, Pending, Plain, PlainDispatch
  <2>2. IF id \in Ids(callbacks) THEN heard[r][id] + 0 \in Due("answered") ELSE heard[r][id] = 0
    BY <2>1 DEF GaugeInv, CbInv, HeardInv
  <2>3. announced \in EventSets
    BY DEF GaugeInv, CbInv
  <2> QED BY <2>1, <2>2, <2>3, EventSetSizes DEF Due
<1>2. GaugeFollowsEvents
  <2> SUFFICES ASSUME AllDispatched PROVE GaugeFollowsEvents
    BY DEF GaugeFollowsEvents
  <2>1. Full /\ \A r \in CbRequests : \A id : ~Pending(r, id)
    BY DEF AllDispatched, Full, Plain, PlainDispatch, Pending, Told
  <2>2. \A id : Open(id) = In({"running"})
    BY <2>1 DEF Open, In
  <2>3. \A i \in DOMAIN callbacks : Uses(callbacks[i].id)
    BY <2>1 DEF Uses, Ids
  <2>4. Uses("prometheus") => metrics.active = Cardinality(In({"running"}))
    BY <2>2 DEF GaugeInv, MetricsInv
  <2>5. Uses("opentelemetry") => spans.open = In({"running"})
    BY <2>2 DEF GaugeInv, SpansInv
  <2>6. ASSUME Uses("opentelemetry"), NEW r \in In({"ending", "failing", "answered"})
        PROVE  /\ {s.kind : s \in Ended(r)} = {"root", "generation"}
               /\ Cardinality({s.status : s \in Ended(r)}) = 1
               /\ \A s \in Ended(r) : s.parent <=> s.kind = "generation"
    <3>1. PICK status : Ended(r) = Pair(r, status)
      BY <2>1, <2>6 DEF GaugeInv, SpansInv, SpansOf, In
    <3>2. {s.status : s \in Pair(r, status)} = {status}
      BY DEF Pair
    <3>3. {s.kind : s \in Pair(r, status)} = {"root", "generation"}
      BY DEF Pair
    <3>4. \A s \in Pair(r, status) : s.parent <=> s.kind = "generation"
      BY DEF Pair
    <3> QED BY <3>1, <3>2, <3>3, <3>4, FS_Singleton
  <2>7. ASSUME Uses("langfuse"), NEW r \in In({"ending", "failing", "answered"})
        PROVE  /\ Len(traced[r]) = 3 /\ traced[r][1] = traced[r][3]
               /\ traced[r][2] \in {"generation DEFAULT", "generation ERROR"}
    <3>1. PICK generation \in {"generation DEFAULT", "generation ERROR"} :
             traced[r] = <<"trace-create", generation, "trace-create">>
      BY <2>1, <2>7 DEF GaugeInv, TracesInv, TraceOf, In
    <3>2. PICK trace : trace = traced[r] /\ trace = <<"trace-create", generation, "trace-create">>
      BY <3>1
    <3>3. PICK create : create = "trace-create" /\ trace = <<create, generation, create>>
      BY ONLY <3>2
    <3>4. Len(trace) = 3 /\ trace[1] = create /\ trace[2] = generation /\ trace[3] = create
      BY ONLY <3>3
    <3> QED BY <3>1, <3>2, <3>4
  <2>8. ASSUME Uses("prometheus"), Uses("opentelemetry")
        PROVE  metrics.error = Cardinality({s \in spans.ended : s.kind = "root" /\ s.status = "error"})
    <3> DEFINE R == {s \in spans.ended : s.kind = "root" /\ s.status = "error"}
               Root(r) == [of |-> r, kind |-> "root", parent |-> FALSE, status |-> "error"]
               f == [r \in Erred |-> Root(r)]
    <3>1. \A r \in CbRequests : r \in Erred <=> Ended(r) = Pair(r, "error")
      <4> SUFFICES ASSUME NEW r \in CbRequests PROVE r \in Erred <=> Ended(r) = Pair(r, "error")
        OBVIOUS
      <4>1. SpansOf(r) /\ ~Pending(r, "opentelemetry") /\ ~Pending(r, "prometheus")
        BY <2>1, <2>8 DEF GaugeInv, SpansInv
      <4>2. Pair(r, "end") # Pair(r, "error") /\ Pair(r, "error") # {}
        <5>1. Root(r) \in Pair(r, "error") /\ Root(r) \notin Pair(r, "end")
          BY DEF Pair
        <5> QED BY <5>1
      <4>3. handling[r] \in {"none", "running", "ending", "failing", "answered"}
        BY DEF GaugeInv, CbInv, TasksInv
      <4> QED BY <4>1, <4>2, <4>3 DEF Erred, SpansOf
    <3>2. \A r \in Erred : Root(r) \in R
      <4> SUFFICES ASSUME NEW r \in Erred PROVE Root(r) \in R
        OBVIOUS
      <4>1. Root(r) \in Ended(r)
        BY <3>1 DEF Erred, Pair
      <4> QED BY <4>1 DEF Ended
    <3>3. \A s \in R : \E r \in Erred : Root(r) = s
      <4> SUFFICES ASSUME NEW s \in R PROVE \E r \in Erred : Root(r) = s
        OBVIOUS
      <4>1. s \in Ended(s.of) /\ s.of \in CbRequests /\ s.kind = "root" /\ s.status = "error"
        BY DEF GaugeInv, RecordsInv, Ended
      <4>2. SpansOf(s.of) /\ Ended(s.of) # {}
        BY <2>8, <4>1 DEF GaugeInv, SpansInv
      <4>3. PICK status : Ended(s.of) = Pair(s.of, status) /\ status \in {"end", "error"}
        BY <4>2 DEF SpansOf
      <4>4. s = [of |-> s.of, kind |-> "root", parent |-> FALSE, status |-> status] /\ status = "error"
        BY <4>1, <4>3 DEF Pair
      <4> QED BY <3>1, <4>1, <4>3, <4>4
    <3>4. f \in Bijection(Erred, R)
      <4>1. f \in [Erred -> R]
        BY <3>2
      <4>2. \A a, b \in Erred : f[a] = f[b] => a = b
        OBVIOUS
      <4>3. \A s \in R : \E r \in Erred : f[r] = s
        BY <3>3
      <4> QED BY <4>1, <4>2, <4>3 DEF Bijection, Injection, Surjection, IsInjective
    <3>5. IsFiniteSet(Erred)
      BY SetsFinite DEF Erred
    <3>6. Cardinality(R) = Cardinality(Erred)
      <4>1. ExistsBijection(Erred, R)
        BY <3>4 DEF ExistsBijection
      <4> HIDE DEF R
      <4> QED BY <3>5, <4>1, FS_Bijection
    <3> QED BY <2>8, <3>6 DEF GaugeInv, ErrorsInv
  <2> QED BY <2>3, <2>4, <2>5, <2>6, <2>7, <2>8 DEF GaugeFollowsEvents
<1> QED BY <1>1, <1>2

LEMMA CallbacksSafe == CbSpec => [](EveryoneHearsOnce /\ GaugeFollowsEvents /\ CbTypeOK)
<1>1. CbSpec => []GaugeInv
  BY GaugeInit, GaugeStep, PTL DEF CbSpec
<1> QED BY <1>1, GaugeInvImplies, CallbackTypes, PTL

-----------------------------------------------------------------------------
(* The components beside one another, as the runs explore them.            *)

\* A step of the composition is, for each component, a step of its own or
\* leaves its state alone.
LEMMA PartsStep ==
    ASSUME [BackgroundNext]_bundleVars
    PROVE  /\ [Next]_vars /\ [BmNext]_bmvars /\ [DlNext]_dlvars /\ [CbNext]_cbVars
           /\ [RlNext]_rlvars /\ [GwNext]_gwVars /\ [OpNext]_opVars /\ [LdNext]_ldvars
  BY DEF BackgroundNext, bundleVars

\* The invariants of all the components.
BackgroundInv ==
    /\ PoolInv /\ BatchInv /\ DeliveryInv /\ GaugeInv
    /\ RowsInv /\ GatewayInv /\ OpTypeOK /\ SecretsInv

LEMMA BackgroundInitially == BackgroundInit => BackgroundInv
  BY PoolInit, BatchInit, DeliveryInit, GaugeInit, RowsInit, GatewayInit, ResourcesInit,
     SecretsInit DEF BackgroundInit, BackgroundInv

LEMMA BackgroundStep == BackgroundInv /\ [BackgroundNext]_bundleVars => BackgroundInv'
  BY PartsStep, PoolStep, BatchStep, DeliveryStep, GaugeStep, RowsStep, GatewayStep,
     ResourcesStep, SecretsStep DEF BackgroundInv

LEMMA BackgroundInvariant == BackgroundSpec => []BackgroundInv
  BY BackgroundInitially, BackgroundStep, PTL DEF BackgroundSpec

\* The types of the state of every component: what the code declares of it, and
\* the bounds of the model.
THEOREM BackgroundTypes == BackgroundSpec => []TypesOK
<1>1. BackgroundInv => TypesOK
  BY PoolInvImplies, BatchInvImplies, DeliveryInvImplies, CallbackTypes, RowsInvImplies,
     GatewayInvImplies, SecretsInvImplies DEF BackgroundInv, TypesOK
<1> QED BY <1>1, BackgroundInvariant, PTL

\* What has happened is told once, to everyone who asked: the events of the
\* webhooks, of Langfuse and of the exporters, those of the callbacks, and the
\* rows of a log.
THEOREM EventsToldOnce == BackgroundSpec => []EventsTold
<1>1. BackgroundInv => EventsTold
  BY DeliveryInvImplies, GaugeInvImplies, RowsInvImplies DEF BackgroundInv, EventsTold
<1> QED BY <1>1, BackgroundInvariant, PTL
=============================================================================
