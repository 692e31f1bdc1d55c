------------------------------ MODULE EdgeProofs ------------------------------
(***************************************************************************)
(* Proofs about what stands between a client and the router: the limits,   *)
(* the middleware, guardrails and the cache, the accounts, sign-in, grants *)
(* and budgets, and the application's life, for any number of requests,    *)
(* tenants, users, keys, handlers, callbacks, sets and names, whatever the *)
(* limits, guardrails, texts, periods, costs and times.                    *)
(***************************************************************************)
EXTENDS MCEdge, SequenceTheorems, FiniteSetTheorems, NaturalsInduction,
        WellFoundedInduction, TLAPS

-----------------------------------------------------------------------------
(* The rate limiter.                                                       *)

LimiterInv == RateTypeOK /\ WindowsFaithful

LEMMA LimiterInit == RateInit => LimiterInv
BY LimiterAssumption DEF RateInit, LimiterInv, RateTypeOK, WindowsFaithful, pruned, InWindow, NotAdmitted

\* A window that loses no request of the last minute, and no other scope's
\* windows, keep the invariant.
LEMMA PruningKeeps ==
    ASSUME LimiterInv,
           timestamps' \in [Scopes -> SUBSET Calls],
           UNCHANGED <<clock, rpm, admitted>>,
           \A b \in Scopes : timestamps'[b] = timestamps[b] \/ timestamps'[b] = pruned(b)
    PROVE  LimiterInv'
<1>1. RateTypeOK'
  BY DEF LimiterInv, RateTypeOK
<1>2. ASSUME NEW b \in Scopes
      PROVE  /\ \A r \in timestamps'[b] : ScopesAre(r, b) /\ admitted'[r] \in 0..clock'
             /\ pruned(b)' = InWindow(b)'
  <2>1. pruned(b)' = pruned(b)
    BY <1>2 DEF pruned
  <2>2. InWindow(b)' = InWindow(b)
    BY DEF InWindow
  <2>3. timestamps'[b] \subseteq timestamps[b]
    BY <1>2 DEF pruned
  <2> QED
    BY <2>1, <2>2, <2>3 DEF LimiterInv, WindowsFaithful
<1> QED
  BY <1>1, <1>2 DEF LimiterInv, WindowsFaithful, ScopesAre

LEMMA AdmitKeeps ==
    ASSUME LimiterInv, NEW r \in Calls, Admit(r)
    PROVE  LimiterInv'
<1>1. RateTypeOK'
  BY DEF LimiterInv, RateTypeOK, Admit, pruned
<1>2. ASSUME NEW b \in Scopes
      PROVE  /\ \A s \in timestamps'[b] : ScopesAre(s, b) /\ admitted'[s] \in 0..clock'
             /\ pruned(b)' = InWindow(b)'
  <2> USE DEF LimiterInv, RateTypeOK
  <2>1. /\ admitted[r] = NotAdmitted /\ clock' = clock /\ clock \in Nat
        /\ admitted'[r] = clock
        /\ \A s \in Calls : s # r => admitted'[s] = admitted[s]
    BY DEF Admit
  <2>2. /\ \A s \in timestamps[b] : s \in Calls /\ ScopesAre(s, b) /\ admitted[s] \in 0..clock
        /\ r \notin timestamps[b]
    BY <2>1 DEF WindowsFaithful, NotAdmitted
  <2>3. pruned(b) = InWindow(b)
    BY DEF WindowsFaithful
  <2>4. CASE ScopesAre(r, b)
    <3>1. timestamps'[b] = pruned(b) \cup {r}
      BY <2>4 DEF Admit
    <3>2. pruned(b)' = pruned(b) \cup {r}
      BY <2>1, <2>2, <3>1, LimiterAssumption DEF pruned
    <3>3. InWindow(b)' = InWindow(b) \cup {r}
      BY <2>1, <2>4, LimiterAssumption DEF InWindow, NotAdmitted
    <3> QED
      BY <2>1, <2>2, <2>3, <2>4, <3>1, <3>2, <3>3 DEF pruned
  <2>5. CASE ~ScopesAre(r, b)
    <3>1. timestamps'[b] = timestamps[b]
      BY <2>5 DEF Admit
    <3>2. pruned(b)' = pruned(b)
      BY <2>1, <2>2, <3>1 DEF pruned
    <3>3. InWindow(b)' = InWindow(b)
      BY <2>1, <2>5 DEF InWindow
    <3> QED
      BY <2>1, <2>2, <2>3, <3>1, <3>2, <3>3
  <2> QED
    BY <2>4, <2>5
<1> QED
  BY <1>1, <1>2 DEF LimiterInv, WindowsFaithful, ScopesAre

LEMMA DenyKeeps ==
    ASSUME LimiterInv, NEW r \in Calls, Deny(r)
    PROVE  LimiterInv'
<1>1. PICK i \in DOMAIN ScopesOf[r] :
        timestamps' = [b \in Scopes |-> IF LookedAt(r, i, b) THEN pruned(b) ELSE timestamps[b]]
  BY DEF Deny
<1>2. \A b \in Scopes : timestamps'[b] = timestamps[b] \/ timestamps'[b] = pruned(b)
  BY <1>1
<1>3. timestamps' \in [Scopes -> SUBSET Calls]
  BY <1>1 DEF LimiterInv, RateTypeOK, pruned
<1> QED
  BY <1>2, <1>3, PruningKeeps DEF Deny

LEMMA AdvanceKeeps ==
    ASSUME LimiterInv, Advance
    PROVE  LimiterInv'
<1>1. RateTypeOK'
  BY DEF LimiterInv, RateTypeOK, Advance
<1>2. ASSUME NEW b \in Scopes
      PROVE  /\ \A s \in timestamps'[b] : ScopesAre(s, b) /\ admitted'[s] \in 0..clock'
             /\ pruned(b)' = InWindow(b)'
  <2> USE DEF LimiterInv, RateTypeOK, Advance
  <2>1. \A s \in Calls : admitted[s] \in Int
    BY DEF NotAdmitted
  <2>2. \A s \in timestamps[b] : s \in Calls /\ ScopesAre(s, b) /\ admitted[s] \in 0..clock
    BY DEF WindowsFaithful
  <2>3. pruned(b) = InWindow(b)
    BY DEF WindowsFaithful
  <2>4. pruned(b)' = {s \in pruned(b) : admitted[s] > clock + 1 - Minute}
    BY <2>1, <2>2, LimiterAssumption DEF pruned
  <2>5. InWindow(b)' = {s \in InWindow(b) : admitted[s] > clock + 1 - Minute}
    BY <2>1, LimiterAssumption DEF InWindow
  <2> QED
    BY <2>2, <2>3, <2>4, <2>5
<1> QED
  BY <1>1, <1>2 DEF LimiterInv, WindowsFaithful, ScopesAre

LEMMA ResetKeeps ==
    ASSUME LimiterInv, ResetWindows
    PROVE  LimiterInv'
<1>1. RateTypeOK'
  BY DEF LimiterInv, RateTypeOK, ResetWindows
<1>2. \A b \in Scopes : timestamps'[b] = {} /\ pruned(b)' = {} /\ InWindow(b)' = {}
  BY DEF ResetWindows, pruned, InWindow
<1> QED
  BY <1>1, <1>2 DEF LimiterInv, WindowsFaithful

LEMMA LimiterStep == LimiterInv /\ [RateNext]_ratevars => LimiterInv'
<1> SUFFICES ASSUME LimiterInv, [RateNext]_ratevars PROVE LimiterInv'
  OBVIOUS
<1>1. ASSUME NEW r \in Calls, Admit(r) PROVE LimiterInv'
  BY <1>1, AdmitKeeps
<1>2. ASSUME NEW r \in Calls, Deny(r) PROVE LimiterInv'
  BY <1>2, DenyKeeps
<1>3. ASSUME NEW b \in Scopes, NEW n \in Limits, SetConfig(b, n) PROVE LimiterInv'
  <2>1. RateTypeOK'
    BY <1>3 DEF LimiterInv, RateTypeOK, SetConfig
  <2> QED
    BY <1>3, <2>1 DEF LimiterInv, WindowsFaithful, SetConfig, pruned, InWindow, ScopesAre
<1>4. CASE ResetWindows
  BY <1>4, ResetKeeps
<1>5. CASE Advance
  BY <1>5, AdvanceKeeps
<1>6. CASE UNCHANGED ratevars
  BY <1>6 DEF ratevars, LimiterInv, RateTypeOK, WindowsFaithful, pruned, InWindow, ScopesAre
<1> QED
  BY <1>1, <1>2, <1>3, <1>4, <1>5, <1>6 DEF RateNext

LEMMA LimiterInvariant == RateSpec => []LimiterInv
<1> QED
  BY LimiterInit, LimiterStep, PTL DEF RateSpec

-----------------------------------------------------------------------------
\* The limiter's state keeps its types.
THEOREM RateTypeCorrect == RateSpec => []RateTypeOK
<1>1. LimiterInv => RateTypeOK
  BY DEF LimiterInv
<1> QED
  BY <1>1, LimiterInvariant, PTL

\* In every scope the limiter counts exactly the requests it admitted in the
\* current window.
THEOREM WindowsCorrect == RateSpec => []WindowsFaithful
<1>1. LimiterInv => WindowsFaithful
  BY DEF LimiterInv
<1> QED
  BY <1>1, LimiterInvariant, PTL

-----------------------------------------------------------------------------
\* A request is admitted into a scope only below its limit, and adds one.
LEMMA OneMore ==
    ASSUME LimiterInv, NEW r \in Calls, Admit(r),
           NEW b \in Scopes, ScopesAre(r, b), rpm[b] # Unlimited
    PROVE  Cardinality(InWindow(b)') <= rpm[b]
<1> USE DEF LimiterInv, RateTypeOK
<1>1. rpm[b] \in Nat
  BY LimiterAssumption
<1>2. IsFiniteSet(InWindow(b))
  BY LimiterAssumption, FS_Subset DEF InWindow
<1>3. Cardinality(InWindow(b)) < rpm[b]
  <2>1. pruned(b) = InWindow(b)
    BY DEF WindowsFaithful
  <2>2. Cardinality(InWindow(b)) \in Nat
    BY <1>2, FS_CardinalityType
  <2> QED
    BY <1>1, <2>1, <2>2 DEF Admit, exceeded
<1>4. InWindow(b)' = InWindow(b) \cup {r}
  BY LimiterAssumption DEF Admit, InWindow, NotAdmitted
<1>5. r \notin InWindow(b)
  BY DEF Admit, InWindow
<1>6. Cardinality(InWindow(b) \cup {r}) = Cardinality(InWindow(b)) + 1
  BY <1>2, <1>5, FS_AddElement
<1>7. Cardinality(InWindow(b)) \in Nat
  BY <1>2, FS_CardinalityType
<1>8. Cardinality(InWindow(b)) + 1 <= rpm[b]
  BY <1>1, <1>3, <1>7
<1> QED
  BY <1>4, <1>6, <1>8

\* No window that ends with an admission holds more requests than the limit.
THEOREM LimitCorrect == RateSpec => LimitHonoured
<1>1. LimiterInv /\ [RateNext]_ratevars => [AdmissionBounded]_ratevars
  <2> SUFFICES ASSUME LimiterInv, RateNext, NEW s \in Calls,
                      admitted'[s] # admitted[s], admitted'[s] # NotAdmitted,
                      NEW b \in Scopes, ScopesAre(s, b), rpm[b] # Unlimited
               PROVE  Cardinality(InWindow(b)') <= rpm[b]
    BY DEF AdmissionBounded
  <2>1. ASSUME NEW r \in Calls, Admit(r) PROVE Cardinality(InWindow(b)') <= rpm[b]
    <3>1. r = s
      BY <2>1 DEF Admit, LimiterInv, RateTypeOK
    <3> QED
      BY <2>1, <3>1, OneMore
  <2>2. ASSUME NEW r \in Calls, Deny(r) PROVE FALSE
    BY <2>2 DEF Deny
  <2>3. ASSUME NEW c \in Scopes, NEW n \in Limits, SetConfig(c, n) PROVE FALSE
    BY <2>3 DEF SetConfig
  <2>4. CASE ResetWindows
    BY <2>4 DEF ResetWindows
  <2>5. CASE Advance
    BY <2>5 DEF Advance
  <2> QED
    BY <2>1, <2>2, <2>3, <2>4, <2>5 DEF RateNext
<1> QED
  BY <1>1, LimiterInvariant, PTL DEF RateSpec, LimitHonoured

-----------------------------------------------------------------------------
\* A nonempty set of natural numbers has a least element.
LEMMA LeastExists ==
    ASSUME NEW T, T \subseteq Nat, T # {}
    PROVE  \E n \in T : \A k \in T : n <= k
<1>1. PICK n \in T : \A k \in T : ~ (<<k, n>> \in OpToRel(<, Nat))
  BY NatLessThanWellFounded, WFMin
<1>2. \A k \in T : ~ (k < n)
  BY <1>1 DEF OpToRel
<1> QED
  BY <1>2

\* The Retry-After is that of the oldest request in the window.
LEMMA OldestLeaves ==
    ASSUME LimiterInv, NEW b \in Scopes, pruned(b) # {}
    PROVE  /\ retry_after(b) \in 1..Minute
           /\ \E r \in pruned(b) : retry_after(b) = stays(r)
           /\ \A r \in pruned(b) : retry_after(b) <= stays(r)
<1> DEFINE T == {stays(r) : r \in pruned(b)}
<1>1. \A r \in pruned(b) : stays(r) \in 1..Minute
  BY LimiterAssumption DEF LimiterInv, RateTypeOK, WindowsFaithful, pruned, stays
<1>2. PICK n \in T : \A k \in T : n <= k
  <2>1. T \subseteq Nat /\ T # {}
    BY <1>1, LimiterAssumption
  <2> HIDE DEF T
  <2> QED
    BY <2>1, LeastExists
<1>3. \E m \in 0..Minute : /\ \E r \in pruned(b) : m = stays(r)
                           /\ \A r \in pruned(b) : m <= stays(r)
  BY <1>1, <1>2, LimiterAssumption
<1>4. /\ retry_after(b) \in 0..Minute
      /\ \E r \in pruned(b) : retry_after(b) = stays(r)
      /\ \A r \in pruned(b) : retry_after(b) <= stays(r)
  BY <1>3 DEF retry_after
<1> QED
  BY <1>1, <1>4

\* How long a scope stays full: until its oldest request leaves.
LEMMA RoomIsMade ==
    ASSUME LimiterInv, NEW b \in Scopes, rpm[b] > 0, Cardinality(pruned(b)) = rpm[b],
           NEW wait \in Nat
    PROVE  /\ retry_after(b) \in 1..Minute
           /\ RoomAfter(b, wait) <=> wait >= retry_after(b)
<1>1. IsFiniteSet(pruned(b)) /\ pruned(b) \subseteq Calls
  <2>1. pruned(b) \subseteq Calls
    BY DEF LimiterInv, RateTypeOK, pruned
  <2> QED
    BY <2>1, LimiterAssumption, FS_Subset
<1>2. pruned(b) # {} /\ rpm[b] \in Nat
  <2>1. Cardinality(pruned(b)) \in Nat
    BY <1>1, FS_CardinalityType
  <2>2. pruned(b) # {}
    BY <1>1, <2>1, FS_EmptySet
  <2> QED
    BY <2>1, <2>2
<1>3. /\ retry_after(b) \in 1..Minute
      /\ \E r \in pruned(b) : retry_after(b) = stays(r)
      /\ \A r \in pruned(b) : retry_after(b) <= stays(r)
  BY <1>2, OldestLeaves
<1> DEFINE Left == {r \in pruned(b) : admitted[r] > clock + wait - Minute}
<1>4. Left = {r \in pruned(b) : wait < stays(r)}
  <2>1. /\ clock \in Int /\ Minute \in Int /\ wait \in Int
        /\ \A r \in pruned(b) : admitted[r] \in Int
    BY <1>1, LimiterAssumption DEF LimiterInv, RateTypeOK, NotAdmitted
  <2>2. \A r \in pruned(b) : admitted[r] > clock + wait - Minute <=> wait < stays(r)
    BY <2>1 DEF stays
  <2> QED
    BY <2>2
<1>5. /\ Left \subseteq pruned(b)
      /\ Left = pruned(b) <=> wait < retry_after(b)
  <2>1. \A r \in pruned(b) : stays(r) \in Int
    BY <1>1, LimiterAssumption DEF stays, LimiterInv, RateTypeOK, NotAdmitted
  <2> QED
    BY <1>3, <1>4, <2>1, LimiterAssumption
<1>6. /\ Cardinality(Left) \in Nat
      /\ Cardinality(Left) <= rpm[b]
      /\ Cardinality(Left) = rpm[b] => Left = pruned(b)
  <2> HIDE DEF Left
  <2>1. IsFiniteSet(Left) /\ Cardinality(Left) <= Cardinality(pruned(b))
        /\ (Cardinality(pruned(b)) = Cardinality(Left) => pruned(b) = Left)
    BY <1>1, <1>5, FS_Subset
  <2> QED
    BY <2>1, FS_CardinalityType
<1>7. Cardinality(Left) < rpm[b] <=> Left # pruned(b)
  <2> HIDE DEF Left
  <2> QED
    BY <1>2, <1>6
<1> QED
  BY <1>3, <1>5, <1>7, LimiterAssumption DEF RoomAfter

\* The seconds a client is told are the least whole number that is more than what is left.
LEMMA ToldInSeconds ==
    ASSUME NEW left \in Nat, NEW s \in Nat \ {0}
    PROVE  /\ left \div s \in Nat
           /\ s * (left \div s + 1) \in Nat
           /\ left < s * (left \div s + 1)
           /\ s * (left \div s + 1) <= left + s
<1>1. PICK q \in Int : q = left \div s
  OBVIOUS
<1>2. q \in Nat /\ s * q <= left /\ left < s * q + s
  BY <1>1
<1>3. s * (q + 1) = s * q + s /\ s * q \in Nat
  BY <1>2
<1> QED
  BY <1>1, <1>2, <1>3

\* A client that is refused is told a time that suffices, and no more than a second more.
LEMMA RetrySuffices == LimiterInv => RetryAfterSuffices
<1> SUFFICES ASSUME LimiterInv, NEW b \in Scopes, rpm[b] > 0, Cardinality(pruned(b)) = rpm[b]
             PROVE  /\ RoomAfter(b, Second * retry_header(b))
                    /\ \A wait \in 0..(Second * retry_header(b)) :
                         wait + Second < Second * retry_header(b) => ~RoomAfter(b, wait)
  BY DEF RetryAfterSuffices
<1>1. retry_after(b) \in Nat /\ Second \in Nat \ {0}
  <2>1. 0 \in Nat
    OBVIOUS
  <2>2. retry_after(b) \in 1..Minute
    BY <2>1, RoomIsMade
  <2> QED
    BY <2>2, LimiterAssumption
<1>2. PICK told \in Nat : /\ told = Second * retry_header(b)
                          /\ retry_after(b) < told /\ told <= retry_after(b) + Second
  BY <1>1, ToldInSeconds DEF retry_header
<1>3. RoomAfter(b, told)
  BY <1>1, <1>2, RoomIsMade
<1>4. ASSUME NEW wait \in 0..told, wait + Second < told
      PROVE  ~RoomAfter(b, wait)
  <2>1. wait \in Nat /\ wait < retry_after(b)
    BY <1>1, <1>2, <1>4
  <2> QED
    BY <1>1, <2>1, RoomIsMade
<1> QED
  BY <1>2, <1>3, <1>4

\* The Retry-After of a scope that is just full suffices, and is at most a second too long.
THEOREM RetryCorrect == RateSpec => []RetryAfterSuffices
BY RetrySuffices, LimiterInvariant, PTL

-----------------------------------------------------------------------------
(* The rows of users, teams, memberships and keys.                         *)

AccountRows == [user : AcUsers \cup {Nobody}, team : AcTeams \cup {Nobody},
                expires : Expiries \cup Nat \cup {body.expires : body \in Bodies},
                budget : {body.budget : body \in Bodies}, active : BOOLEAN, spend : {0}]

\* What a handler has read: for a new member, a user that is still there and a team that
\* is or was; for a rotation, a key that is still there, and a row that was.
Reads ==
    [op : {"none"}, key : {Nobody}, user : {Nobody}, team : {Nobody}, row : {Nobody}, seen : {{}}]
      \cup [op : {"delete"}, key : {Nobody}, user : {Nobody}, team : acTeams \cup acGone,
            row : {Nobody}, seen : SUBSET AcKeys]
      \cup [op : {"member"}, key : {Nobody}, user : DOMAIN acUsers, team : acTeams \cup acGone,
            row : {Nobody}, seen : {{}}]
      \cup [op : {"rotate"}, key : DOMAIN keys, user : {Nobody}, team : {Nobody},
            row : AccountRows, seen : {{}}]

AccountsInv ==
    /\ DOMAIN acUsers \subseteq AcUsers /\ acTeams \subseteq AcTeams /\ acGone \subseteq AcTeams
    /\ members \subseteq AcUsers \X AcTeams
    /\ DOMAIN keys \subseteq AcKeys /\ keys \in [DOMAIN keys -> AccountRows]
    /\ handler \in [Handlers -> Reads]
    /\ acNow \in Nat /\ enforces \in BOOLEAN
    /\ ReferencesSound

LEMMA AccountsInit == AcInit => AccountsInv
<1> SUFFICES ASSUME AcInit PROVE AccountsInv
  OBVIOUS
<1>1. NoRead \in Reads
  BY DEF NoRead, Reads
<1>2. DOMAIN acUsers = {} /\ DOMAIN keys = {} /\ keys \in [DOMAIN keys -> AccountRows]
  BY DEF AcInit
<1> QED BY <1>1, <1>2 DEF AcInit, AccountsInv, ReferencesSound, Referenced

\* Keys, users and the ids of teams stay, and a handler keeps what it has read.
LEMMA ReadsStay ==
    ASSUME DOMAIN keys \subseteq DOMAIN keys', DOMAIN acUsers \subseteq DOMAIN acUsers',
           acTeams \cup acGone \subseteq acTeams' \cup acGone'
    PROVE  Reads \subseteq Reads'
  BY DEF Reads, AccountRows

LEMMA CreateUserKeeps ==
    ASSUME AccountsInv, NEW u \in AcUsers, CreateUser(u) \/ DeactivateUser(u)
    PROVE  AccountsInv'
<1>1. DOMAIN acUsers' = DOMAIN acUsers \cup {u}
  BY DEF CreateUser, DeactivateUser, With
<1>2. UNCHANGED <<acTeams, acGone, members, keys, handler, acNow, enforces>>
  BY DEF CreateUser, DeactivateUser
<1>3. Reads \subseteq Reads'
  BY <1>1, <1>2, ReadsStay
<1>4. Referenced => Referenced'
  BY <1>1, <1>2 DEF Referenced, refers
<1> QED BY <1>1, <1>2, <1>3, <1>4 DEF AccountsInv, ReferencesSound

LEMMA RemoveMemberKeeps ==
    ASSUME AccountsInv, NEW u \in AcUsers, NEW t \in AcTeams, RemoveMember(u, t)
    PROVE  AccountsInv'
<1>1. UNCHANGED <<acUsers, acTeams, acGone, keys, handler, acNow, enforces, Reads>>
  BY DEF RemoveMember, Reads
<1>2. members' \subseteq members
  BY DEF RemoveMember
<1>3. Referenced => Referenced'
  BY <1>1, <1>2 DEF Referenced, refers
<1> QED BY <1>1, <1>2, <1>3 DEF AccountsInv, ReferencesSound

LEMMA ReadKeeps ==
    ASSUME AccountsInv, NEW h \in Handlers,
           \/ \E t \in AcTeams : ReadTeam(h, t)
           \/ \E k \in AcKeys : ReadKey(h, k)
           \/ \E u \in AcUsers, t \in AcTeams : ReadMember(h, u, t)
           \/ RotateFails(h) \/ AddFails(h)
    PROVE  AccountsInv'
<1>1. UNCHANGED <<acUsers, acTeams, acGone, members, keys, acNow, enforces, Reads>>
  BY DEF ReadTeam, ReadKey, ReadMember, RotateFails, AddFails, Reads
<1>2. /\ NoRead \in Reads
      /\ \A t \in acTeams, ks \in SUBSET AcKeys :
           [NoRead EXCEPT !.op = "delete", !.team = t, !.seen = ks] \in Reads
      /\ \A u \in DOMAIN acUsers, t \in acTeams :
           [NoRead EXCEPT !.op = "member", !.user = u, !.team = t] \in Reads
      /\ \A k \in DOMAIN keys : [NoRead EXCEPT !.op = "rotate", !.key = k, !.row = keys[k]] \in Reads
  BY DEF NoRead, Reads, AccountsInv
<1>3. handler' \in [Handlers -> Reads]
  <2>1. handler \in [Handlers -> Reads]
    BY DEF AccountsInv
  <2>2. ASSUME NEW t \in AcTeams, ReadTeam(h, t)
        PROVE  handler' \in [Handlers -> Reads]
    <3>1. {k \in DOMAIN keys : keys[k].team = t} \in SUBSET AcKeys
      BY DEF AccountsInv
    <3> QED BY <1>2, <2>1, <2>2, <3>1 DEF ReadTeam
  <2>3. ASSUME NEW k \in AcKeys, ReadKey(h, k)
        PROVE  handler' \in [Handlers -> Reads]
    BY <1>2, <2>1, <2>3 DEF ReadKey
  <2>4. ASSUME NEW u \in AcUsers, NEW t \in AcTeams, ReadMember(h, u, t)
        PROVE  handler' \in [Handlers -> Reads]
    BY <1>2, <2>1, <2>4 DEF ReadMember
  <2>5. ASSUME RotateFails(h) \/ AddFails(h)
        PROVE  handler' \in [Handlers -> Reads]
    BY <1>2, <2>1, <2>5 DEF RotateFails, AddFails
  <2> QED BY <2>2, <2>3, <2>4, <2>5
<1>4. UNCHANGED ReferencesSound
  BY <1>1 DEF ReferencesSound, Referenced, refers
<1> QED BY <1>1, <1>3, <1>4 DEF AccountsInv

\* The user a new member was looked up as is there, and the team is or was.
LEMMA AddMemberKeeps ==
    ASSUME AccountsInv, NEW h \in Handlers, AddMember(h)
    PROVE  AccountsInv'
<1>1. UNCHANGED <<acUsers, acTeams, acGone, keys, acNow, enforces, Reads>>
  BY DEF AddMember, Reads
<1>2. PICK u \in DOMAIN acUsers, t \in acTeams \cup acGone :
        handler[h].user = u /\ handler[h].team = t
  BY DEF AddMember, AccountsInv, Reads
<1>3. members' = members \cup {<<u, t>>} /\ (enforces => refers(u, t))
  BY <1>2 DEF AddMember
<1>4. handler' \in [Handlers -> Reads]
  <2>1. NoRead \in Reads
    BY DEF NoRead, Reads
  <2> QED BY <2>1 DEF AddMember, AccountsInv
<1>5. ReferencesSound'
  BY <1>1, <1>2, <1>3 DEF AccountsInv, ReferencesSound, Referenced, refers
<1>6. members' \subseteq AcUsers \X AcTeams
  BY <1>2, <1>3 DEF AccountsInv
<1> QED BY <1>1, <1>4, <1>5, <1>6 DEF AccountsInv

\* Where the database enforces foreign keys, nothing names the team that goes.
LEMMA DeleteTeamKeeps ==
    ASSUME AccountsInv, NEW h \in Handlers, DeleteTeam(h)
    PROVE  AccountsInv'
<1>1. UNCHANGED <<acUsers, acNow, enforces>> /\ DOMAIN keys' = DOMAIN keys
  BY DEF DeleteTeam
<1>2. PICK t \in acTeams \cup acGone : handler[h].team = t
  BY DEF DeleteTeam, AccountsInv, Reads
<1>3. PICK cleared \in SUBSET DOMAIN keys :
        /\ enforces => \A k \in DOMAIN keys : keys[k].team = t => k \in cleared
        /\ keys' = [k \in DOMAIN keys |->
              IF k \in cleared THEN [keys[k] EXCEPT !.team = Nobody] ELSE keys[k]]
  BY <1>2 DEF DeleteTeam
<1>4. /\ acTeams' = acTeams \ {t} /\ acGone' = acGone \cup {t}
      /\ members' = {m \in members : enforces => m[2] # t}
  BY <1>2 DEF DeleteTeam
<1>5. handler' \in [Handlers -> Reads']
  <2>1. NoRead \in Reads' /\ Reads \subseteq Reads'
    BY <1>1, <1>4, ReadsStay DEF NoRead, Reads
  <2> QED BY <2>1 DEF DeleteTeam, AccountsInv
<1>6. ASSUME NEW k \in DOMAIN keys
      PROVE  /\ keys'[k] \in AccountRows /\ keys'[k].user = keys[k].user
             /\ keys'[k].team = IF k \in cleared THEN Nobody ELSE keys[k].team
  BY <1>3 DEF AccountsInv, AccountRows
<1>7. keys' \in [DOMAIN keys' -> AccountRows]
  BY <1>3, <1>6
<1>8. enforces => Referenced'
  <2> SUFFICES ASSUME enforces PROVE Referenced'
    BY <1>1
  <2>1. Referenced
    BY DEF AccountsInv, ReferencesSound
  <2>2. ASSUME NEW m \in members'
        PROVE  m[1] \in DOMAIN acUsers' \cup {Nobody} /\ m[2] \in acTeams' \cup {Nobody}
    BY <1>1, <1>4, <2>1 DEF Referenced, refers
  <2>3. ASSUME NEW k \in DOMAIN keys'
        PROVE  keys'[k].user \in DOMAIN acUsers' \cup {Nobody} /\ keys'[k].team \in acTeams' \cup {Nobody}
    <3>1. k \in DOMAIN keys /\ keys[k].user \in DOMAIN acUsers' \cup {Nobody}
      BY <1>1, <2>1, <2>3 DEF Referenced, refers
    <3>2. keys[k].team \in acTeams \cup {Nobody} /\ (keys[k].team = t => k \in cleared)
      BY <1>3, <2>1, <3>1 DEF Referenced, refers
    <3> QED BY <1>4, <1>6, <3>1, <3>2
  <2> QED BY <2>2, <2>3 DEF Referenced, refers
<1>9. \A m \in members' : m[1] \in DOMAIN acUsers' /\ m[2] \in acTeams' \cup acGone'
  BY <1>1, <1>4 DEF AccountsInv, ReferencesSound
<1>10. acTeams' \subseteq AcTeams /\ acGone' \subseteq AcTeams /\ members' \subseteq AcUsers \X AcTeams
  BY <1>2, <1>4 DEF AccountsInv
<1> QED BY <1>1, <1>5, <1>7, <1>8, <1>9, <1>10 DEF AccountsInv, ReferencesSound

LEMMA GenerateKeyKeeps ==
    ASSUME AccountsInv, NEW k \in AcKeys, NEW body \in Bodies, GenerateKey(k, body)
    PROVE  AccountsInv'
<1> DEFINE row == [user |-> body.user, team |-> body.team, expires |-> body.expires,
                   budget |-> body.budget, active |-> TRUE, spend |-> 0]
<1>1. keys' = With(keys, k, row)
      /\ UNCHANGED <<acUsers, acTeams, acGone, members, handler, acNow, enforces>>
  BY DEF GenerateKey
<1>2. row \in AccountRows
  BY AccountsAssumption DEF AccountRows
<1>3. DOMAIN keys' = DOMAIN keys \cup {k} /\ keys' \in [DOMAIN keys' -> AccountRows]
  <2>1. keys \in [DOMAIN keys -> AccountRows]
    BY DEF AccountsInv
  <2> HIDE DEF row
  <2> QED BY <1>1, <1>2, <2>1 DEF With
<1>4. handler' \in [Handlers -> Reads']
  BY <1>1, <1>3, ReadsStay DEF AccountsInv
<1>5. enforces => Referenced'
  <2>1. enforces => refers(row.user, row.team)
    BY DEF GenerateKey
  <2>2. keys'[k] = row /\ \A j \in DOMAIN keys \ {k} : keys'[j] = keys[j]
    BY <1>1 DEF With
  <2>3. UNCHANGED <<acUsers, acTeams, members>>
    BY <1>1
  <2> HIDE DEF row
  <2> QED BY <1>3, <2>1, <2>2, <2>3 DEF AccountsInv, ReferencesSound, Referenced, refers
<1> HIDE DEF row
<1> QED BY <1>1, <1>3, <1>4, <1>5 DEF AccountsInv, ReferencesSound

LEMMA ChangeKeyKeeps ==
    ASSUME AccountsInv, NEW k \in AcKeys,
           DeleteKey(k) \/ \E expires \in Expiries \ {Never} : UpdateKey(k, expires)
    PROVE  AccountsInv'
<1>1. UNCHANGED <<acUsers, acTeams, acGone, members, handler, acNow, enforces>>
      /\ DOMAIN keys' = DOMAIN keys
  BY DEF DeleteKey, UpdateKey
<1>2. UNCHANGED Reads
  BY <1>1 DEF Reads
<1>3. ASSUME NEW j \in DOMAIN keys
      PROVE  keys'[j] \in AccountRows /\ keys'[j].user = keys[j].user /\ keys'[j].team = keys[j].team
  <2>1. keys[j] \in AccountRows /\ keys \in [DOMAIN keys -> AccountRows]
    BY DEF AccountsInv
  <2>2. CASE DeleteKey(k)
    BY <2>1, <2>2 DEF DeleteKey, AccountRows
  <2>3. ASSUME NEW expires \in Expiries \ {Never}, UpdateKey(k, expires)
        PROVE  keys'[j] \in AccountRows /\ keys'[j].user = keys[j].user /\ keys'[j].team = keys[j].team
    BY <2>1, <2>3 DEF UpdateKey, AccountRows
  <2> QED BY <2>2, <2>3
<1>4. keys' \in [DOMAIN keys' -> AccountRows]
  <2>1. keys' = [j \in DOMAIN keys |-> keys'[j]]
    BY DEF DeleteKey, UpdateKey, AccountsInv
  <2> QED BY <1>1, <1>3, <2>1
<1>5. Referenced => Referenced'
  BY <1>1, <1>3 DEF Referenced, refers
<1> QED BY <1>1, <1>2, <1>4, <1>5 DEF AccountsInv, ReferencesSound

\* The row a rotation ends is the one there is, not the one that was read.
LEMMA RotateKeyIs ==
    ASSUME AccountsInv, NEW h \in Handlers, NEW new \in AcKeys, NEW grace \in 0..1,
           RotateKey(h, new, grace)
    PROVE  \E old \in DOMAIN keys, row \in AccountRows, end \in AccountRows :
              /\ enforces => refers(row.user, row.team)
              /\ new \notin DOMAIN keys
              /\ DOMAIN keys' = DOMAIN keys \cup {new} /\ keys' \in [DOMAIN keys' -> AccountRows]
              /\ keys'[new] = [row EXCEPT !.active = TRUE, !.spend = 0]
              /\ \A k \in DOMAIN keys \ {old} : keys'[k] = keys[k]
              /\ keys'[old] = end /\ end.user = keys[old].user /\ end.team = keys[old].team
              /\ ~keys[old].active => ~end.active
<1>1. PICK old \in DOMAIN keys, row \in AccountRows : handler[h].key = old /\ handler[h].row = row
  BY DEF AccountsInv, RotateKey, Reads
<1>2. PICK end : end = IF grace > 0 THEN [keys[old] EXCEPT !.expires = acNow + grace]
                                    ELSE [keys[old] EXCEPT !.active = FALSE]
  OBVIOUS
<1>3. /\ end \in AccountRows /\ end.user = keys[old].user /\ end.team = keys[old].team
      /\ ~keys[old].active => ~end.active
  <2>1. PICK later : later = acNow + grace /\ later \in Nat
    BY DEF AccountsInv
  <2>2. keys[old] \in AccountRows
    BY DEF AccountsInv
  <2> QED BY <1>2, <2>1, <2>2 DEF AccountRows
<1>4. PICK added : added = [row EXCEPT !.active = TRUE, !.spend = 0]
  OBVIOUS
<1>5. added \in AccountRows
  BY <1>4 DEF AccountRows
<1>6. PICK others : others = [keys EXCEPT ![old] = end]
  OBVIOUS
<1>7. /\ enforces => refers(row.user, row.team)
      /\ new \notin DOMAIN keys
      /\ keys' = With(others, new, added)
  BY <1>1, <1>2, <1>4, <1>6 DEF RotateKey
<1>8. /\ DOMAIN others = DOMAIN keys /\ others \in [DOMAIN others -> AccountRows] /\ others[old] = end
      /\ \A k \in DOMAIN keys \ {old} : others[k] = keys[k]
  BY <1>3, <1>6 DEF AccountsInv
<1>9. /\ DOMAIN keys' = DOMAIN keys \cup {new} /\ keys' \in [DOMAIN keys' -> AccountRows]
      /\ keys'[new] = added /\ \A k \in DOMAIN keys : keys'[k] = others[k]
  BY <1>5, <1>7, <1>8 DEF With
<1>10. /\ \A k \in DOMAIN keys \ {old} : keys'[k] = keys[k]
       /\ keys'[old] = end /\ keys'[new] = [row EXCEPT !.active = TRUE, !.spend = 0]
  BY <1>4, <1>8, <1>9
<1> QED BY <1>3, <1>7, <1>9, <1>10

LEMMA RotateKeyKeeps ==
    ASSUME AccountsInv, NEW h \in Handlers, NEW new \in AcKeys, NEW grace \in 0..1,
           RotateKey(h, new, grace)
    PROVE  AccountsInv'
<1>1. PICK old \in DOMAIN keys, row \in AccountRows, end \in AccountRows :
        /\ enforces => refers(row.user, row.team)
        /\ new \notin DOMAIN keys
        /\ DOMAIN keys' = DOMAIN keys \cup {new} /\ keys' \in [DOMAIN keys' -> AccountRows]
        /\ keys'[new] = [row EXCEPT !.active = TRUE, !.spend = 0]
        /\ \A k \in DOMAIN keys \ {old} : keys'[k] = keys[k]
        /\ keys'[old] = end /\ end.user = keys[old].user /\ end.team = keys[old].team
        /\ ~keys[old].active => ~end.active
  BY RotateKeyIs
<1>2. UNCHANGED <<acUsers, acTeams, acGone, members, acNow, enforces>>
  BY DEF RotateKey
<1>3. handler' \in [Handlers -> Reads']
  <2>1. NoRead \in Reads'
    BY DEF NoRead, Reads
  <2>2. handler \in [Handlers -> Reads']
    BY <1>1, <1>2, ReadsStay DEF AccountsInv
  <2> QED BY <2>1, <2>2 DEF RotateKey
<1>4. keys'[new].user = row.user /\ keys'[new].team = row.team
  BY <1>1 DEF AccountRows
<1>5. enforces => Referenced'
  BY <1>1, <1>2, <1>4 DEF AccountsInv, ReferencesSound, Referenced, refers
<1> QED BY <1>1, <1>2, <1>3, <1>5 DEF AccountsInv, ReferencesSound

LEMMA AccountsStep ==
    ASSUME AccountsInv, [AcNext]_acvars
    PROVE  AccountsInv'
<1>1. ASSUME NEW u \in AcUsers, CreateUser(u) \/ DeactivateUser(u)
      PROVE  AccountsInv'
  BY <1>1, CreateUserKeeps
<1>2. ASSUME NEW t \in AcTeams, CreateTeam(t)
      PROVE  AccountsInv'
  <2>1. /\ UNCHANGED <<acUsers, acGone, members, keys, handler, acNow, enforces>>
        /\ acTeams' = acTeams \cup {t}
    BY <1>2 DEF CreateTeam
  <2>2. Reads \subseteq Reads'
    BY <2>1, ReadsStay
  <2>3. Referenced => Referenced'
    BY <2>1 DEF Referenced, refers
  <2> QED BY <2>1, <2>2, <2>3 DEF AccountsInv, ReferencesSound
<1>3. ASSUME NEW u \in AcUsers, NEW t \in AcTeams,
             RemoveMember(u, t) \/ \E h \in Handlers : ReadMember(h, u, t)
      PROVE  AccountsInv'
  BY <1>3, RemoveMemberKeeps, ReadKeeps
<1>4. ASSUME NEW k \in AcKeys, NEW body \in Bodies, GenerateKey(k, body)
      PROVE  AccountsInv'
  BY <1>4, GenerateKeyKeeps
<1>5. ASSUME NEW k \in AcKeys, DeleteKey(k) \/ \E expires \in Expiries \ {Never} : UpdateKey(k, expires)
      PROVE  AccountsInv'
  BY <1>5, ChangeKeyKeeps
<1>6. ASSUME NEW h \in Handlers, NEW t \in AcTeams, ReadTeam(h, t)
      PROVE  AccountsInv'
  BY <1>6, ReadKeeps
<1>7. ASSUME NEW h \in Handlers, NEW k \in AcKeys, NEW grace \in 0..1, RotateKey(h, k, grace)
      PROVE  AccountsInv'
  BY <1>7, RotateKeyKeeps
<1>8. ASSUME NEW h \in Handlers, NEW k \in AcKeys, ReadKey(h, k)
      PROVE  AccountsInv'
  BY <1>8, ReadKeeps
<1>9. ASSUME NEW h \in Handlers, DeleteTeam(h) \/ RotateFails(h) \/ AddMember(h) \/ AddFails(h)
      PROVE  AccountsInv'
  BY <1>9, DeleteTeamKeeps, AddMemberKeeps, ReadKeeps
<1>10. CASE /\ UNCHANGED <<acUsers, acTeams, acGone, members, keys, handler, enforces>>
            /\ acNow' \in Nat
  <2>1. UNCHANGED <<Reads, Referenced>>
    BY <1>10 DEF Reads, Referenced, refers
  <2> QED BY <1>10, <2>1 DEF AccountsInv, ReferencesSound
<1>11. ASSUME NEW r \in AcRequests, NEW k \in AcKeys, AdmitKey(r, k)
       PROVE  AccountsInv'
  BY <1>10, <1>11 DEF AdmitKey, AccountsInv
<1>12. ASSUME NEW r \in AcRequests, NEW cost \in 0..1, LogSpend(r, cost)
       PROVE  AccountsInv'
  BY <1>10, <1>12 DEF LogSpend, AccountsInv
<1>13. CASE AcTick \/ UNCHANGED acvars
  BY <1>10, <1>13 DEF AcTick, AccountsInv, acvars
<1> QED
  BY <1>1, <1>2, <1>3, <1>4, <1>5, <1>6, <1>7, <1>8, <1>9, <1>11, <1>12, <1>13 DEF AcNext

\* No step takes a key out of the table or makes a deactivated one active again.
LEMMA DeactivatedStep ==
    ASSUME AccountsInv, [AcNext]_acvars
    PROVE  \A k \in DOMAIN keys : k \in DOMAIN keys' /\ (~keys[k].active => ~keys'[k].active)
<1> SUFFICES ASSUME NEW k \in DOMAIN keys
             PROVE  k \in DOMAIN keys' /\ (~keys[k].active => ~keys'[k].active)
  OBVIOUS
<1>1. keys \in [DOMAIN keys -> AccountRows] /\ keys[k] \in AccountRows
  BY DEF AccountsInv
<1>2. ASSUME NEW h \in Handlers, DeleteTeam(h)
      PROVE  k \in DOMAIN keys' /\ (~keys[k].active => ~keys'[k].active)
  BY <1>1, <1>2 DEF DeleteTeam, AccountRows
<1>3. ASSUME NEW j \in AcKeys, NEW body \in Bodies, GenerateKey(j, body)
      PROVE  k \in DOMAIN keys' /\ (~keys[k].active => ~keys'[k].active)
  BY <1>3 DEF GenerateKey, With
<1>4. ASSUME NEW j \in AcKeys, DeleteKey(j)
      PROVE  k \in DOMAIN keys' /\ (~keys[k].active => ~keys'[k].active)
  BY <1>1, <1>4 DEF DeleteKey, AccountRows
<1>5. ASSUME NEW j \in AcKeys, NEW expires \in Expiries \ {Never}, UpdateKey(j, expires)
      PROVE  k \in DOMAIN keys' /\ (~keys[k].active => ~keys'[k].active)
  BY <1>1, <1>5 DEF UpdateKey, AccountRows
<1>6. ASSUME NEW h \in Handlers, NEW new \in AcKeys, NEW grace \in 0..1, RotateKey(h, new, grace)
      PROVE  k \in DOMAIN keys' /\ (~keys[k].active => ~keys'[k].active)
  <2>1. PICK old \in DOMAIN keys, row \in AccountRows, end \in AccountRows :
          /\ enforces => refers(row.user, row.team)
          /\ new \notin DOMAIN keys
          /\ DOMAIN keys' = DOMAIN keys \cup {new} /\ keys' \in [DOMAIN keys' -> AccountRows]
          /\ keys'[new] = [row EXCEPT !.active = TRUE, !.spend = 0]
          /\ \A i \in DOMAIN keys \ {old} : keys'[i] = keys[i]
          /\ keys'[old] = end /\ end.user = keys[old].user /\ end.team = keys[old].team
          /\ ~keys[old].active => ~end.active
    BY <1>6, RotateKeyIs
  <2> QED BY <2>1
<1>7. CASE UNCHANGED keys
  BY <1>7
<1> QED
  BY <1>2, <1>3, <1>4, <1>5, <1>6, <1>7
  DEF AcNext, CreateUser, DeactivateUser, CreateTeam, ReadMember, AddMember, AddFails,
      RemoveMember, ReadTeam, ReadKey, RotateFails, AdmitKey, LogSpend, AcTick, acvars

\* What is logged for a key is a sum of costs.
LoggedInv == logged \in [AcKeys -> Nat]

LEMMA LoggedStep == ASSUME LoggedInv, [AcNext]_acvars PROVE LoggedInv'
<1>1. ASSUME NEW r \in AcRequests, NEW cost \in 0..1, LogSpend(r, cost)
      PROVE  LoggedInv'
  <2>0. PICK f \in [AcKeys -> Nat] : f = logged
    BY DEF LoggedInv
  <2>1. PICK k : k = served[r]
    OBVIOUS
  <2>2. logged' = [f EXCEPT ![k] = f[k] + cost]
    BY <1>1, <2>0, <2>1 DEF LogSpend
  <2>3. \A j \in AcKeys : logged'[j] \in Nat
    BY <2>2
  <2> QED BY <2>2, <2>3 DEF LoggedInv
<1>2. CASE UNCHANGED logged
  BY <1>2 DEF LoggedInv
<1> QED
  BY <1>1, <1>2
  DEF AcNext, CreateUser, DeactivateUser, CreateTeam, ReadMember, AddMember, AddFails, RemoveMember,
      ReadTeam, DeleteTeam, GenerateKey, UpdateKey, DeleteKey, ReadKey, RotateKey, RotateFails, AdmitKey, AcTick, acvars

-----------------------------------------------------------------------------
(* Single sign-on: states, callbacks and sessions.                         *)

SignOns == [at : {"new", "exchange", "authenticated", "refused"},
            state : Tokens \cup {"none"}, provider : SsoProviders \cup {"none"}]

\* A state that a callback holds has been issued and is no longer pending, and no other
\* callback holds it; one that is being discovered is still pending.
SignInInv ==
    /\ SiTypeOK /\ EndedStays
    /\ callback \in [Callbacks -> SignOns]
    /\ login \in [Tokens -> {"none", "discover", "redirected", "failed"}]
    /\ \A t \in DOMAIN pending : pending[t] \in SsoProviders /\ login[t] # "none"
    /\ \A t \in Tokens : login[t] = "discover" => t \in DOMAIN pending /\ pending[t] \in Oidc
    /\ \A t \in issued : login[t] = "redirected"
    /\ \A c \in Callbacks : callback[c].at = "new" => callback[c].state = "none"
    /\ \A c \in Callbacks : callback[c].at \in {"exchange", "authenticated"} => callback[c].state # "none"
    /\ \A c \in Callbacks : callback[c].state # "none" =>
          /\ callback[c].state \in issued /\ callback[c].state \notin DOMAIN pending
          /\ \A d \in Callbacks : callback[d].state = callback[c].state => c = d

LEMMA SignInInit == SiInit => SignInInv
  BY DEF SiInit, SignInInv, SiTypeOK, EndedStays, SignOns

LEMMA LoginKeeps ==
    ASSUME SignInInv, NEW t \in Tokens, NEW p \in SsoProviders, Login(t, p)
    PROVE  SignInInv'
<1> USE DEF SignInInv
<1>1. /\ DOMAIN pending' = DOMAIN pending \cup {t} /\ pending'[t] = p
      /\ \A u \in DOMAIN pending \ {t} : pending'[u] = pending[u]
  BY DEF Login, Plus
<1>2. login'[t] = IF p \in Oidc \ discovered THEN "discover" ELSE "redirected"
  BY DEF Login
<1>3. \A u \in Tokens \ {t} : login'[u] = login[u]
  BY DEF Login
<1>4. /\ UNCHANGED <<discovered, callback, sessions, ended>>
      /\ issued' = IF p \in Oidc \ discovered THEN issued ELSE issued \cup {t}
      /\ login[t] = "none" /\ t \notin DOMAIN pending /\ t \notin issued
  BY DEF Login
<1>5. \A c \in Callbacks : callback[c].state # t
  BY <1>4, SignInAssumption
<1>6. (SiTypeOK /\ EndedStays)'
  BY <1>1, <1>4 DEF SiTypeOK, EndedStays
<1>7. login' \in [Tokens -> {"none", "discover", "redirected", "failed"}]
  BY DEF Login
<1>8. \A u \in Tokens : login'[u] = "discover" => u \in DOMAIN pending' /\ pending'[u] \in Oidc
  BY <1>1, <1>2, <1>3
<1>9. \A u \in issued' : login'[u] = "redirected"
  BY <1>2, <1>3, <1>4, <1>6 DEF SiTypeOK
<1>10. \A u \in DOMAIN pending' : pending'[u] \in SsoProviders /\ login'[u] # "none"
  BY <1>1, <1>2, <1>3 DEF SiTypeOK
<1>11. \A c \in Callbacks : callback'[c].state # "none" =>
          callback'[c].state \in issued' /\ callback'[c].state \notin DOMAIN pending'
  BY <1>1, <1>4, <1>5
<1> QED BY <1>4, <1>6, <1>7, <1>8, <1>9, <1>10, <1>11

LEMMA DiscoveryKeeps ==
    ASSUME SignInInv, NEW t \in Tokens, Discovered(t) \/ DiscoveryFails(t)
    PROVE  SignInInv'
<1> USE DEF SignInInv
<1>1. \A c \in Callbacks : callback[c].state # t
  BY SignInAssumption DEF Discovered, DiscoveryFails
<1>2. (SiTypeOK /\ EndedStays)'
  BY DEF SiTypeOK, EndedStays, Discovered, DiscoveryFails
<1>3. /\ login' \in [Tokens -> {"none", "discover", "redirected", "failed"}]
      /\ login'[t] = IF Discovered(t) THEN "redirected" ELSE "failed"
      /\ \A u \in Tokens \ {t} : login'[u] = login[u]
  BY DEF Discovered, DiscoveryFails
<1>4. /\ UNCHANGED <<pending, callback>> /\ login[t] = "discover" /\ t \notin issued
      /\ issued' = IF Discovered(t) THEN issued \cup {t} ELSE issued
  BY DEF Discovered, DiscoveryFails
<1>5. \A u \in issued' : login'[u] = "redirected"
  BY <1>3, <1>4 DEF SiTypeOK
<1>6. \A u \in DOMAIN pending : login'[u] # "none"
  BY <1>3 DEF SiTypeOK
<1> QED BY <1>1, <1>2, <1>3, <1>4, <1>5, <1>6

LEMMA CallbackKeeps ==
    ASSUME SignInInv, NEW c \in Callbacks, NEW t \in Tokens, Callback(c, t)
    PROVE  SignInInv'
<1> USE DEF SignInInv
<1>1. /\ callback[c].at = "new" /\ callback[c].state = "none" /\ t \in issued
      /\ UNCHANGED <<discovered, issued, login, sessions, ended>>
  BY DEF Callback
<1>2. CASE t \in DOMAIN pending
  <2>1. /\ DOMAIN pending' = DOMAIN pending \ {t}
        /\ \A u \in DOMAIN pending' : pending'[u] = pending[u]
    BY <1>2 DEF Callback, Less
  <2>2. \A d \in Callbacks : callback[d].state # t
    BY <1>2, SignInAssumption
  <2>3. PICK signon : signon = [at |-> "exchange", state |-> t, provider |-> pending[t]]
    OBVIOUS
  <2>4. /\ callback' = [callback EXCEPT ![c] = signon] /\ signon \in SignOns
        /\ signon.at = "exchange" /\ signon.state = t
    BY <1>2, <2>3 DEF Callback, SignOns
  <2>5. /\ callback' \in [Callbacks -> SignOns] /\ callback'[c] = signon
        /\ \A d \in Callbacks \ {c} : callback'[d] = callback[d]
    BY <2>4
  <2>6. (SiTypeOK /\ EndedStays)'
    BY <1>1, <2>1, <2>4, <2>5 DEF SiTypeOK, EndedStays
  <2>7. \A u \in Tokens : login[u] = "discover" => u # t
    BY <1>1
  <2> QED BY <1>1, <2>1, <2>2, <2>4, <2>5, <2>6, <2>7, SignInAssumption
<1>3. CASE t \notin DOMAIN pending
  <2>1. /\ pending' = pending /\ callback' \in [Callbacks -> SignOns]
        /\ callback'[c].at = "refused" /\ callback'[c].state = "none"
        /\ \A d \in Callbacks \ {c} : callback'[d] = callback[d]
    BY <1>1, <1>3 DEF Callback, SignOns
  <2>2. (SiTypeOK /\ EndedStays)'
    BY <1>1, <2>1 DEF SiTypeOK, EndedStays
  <2> QED BY <1>1, <2>1, <2>2
<1> QED BY <1>2, <1>3

LEMMA SignedInKeeps ==
    ASSUME SignInInv, NEW c \in Callbacks, SignedIn(c) \/ SignInFails(c)
    PROVE  SignInInv'
<1> USE DEF SignInInv
<1>1. /\ UNCHANGED <<discovered, issued, pending, login, ended>>
      /\ callback[c].at = "exchange" /\ c \notin ended
  BY DEF SignedIn, SignInFails, SiTypeOK
<1>2. /\ callback' \in [Callbacks -> SignOns] /\ callback'[c].state = callback[c].state
      /\ callback'[c].at = IF SignedIn(c) THEN "authenticated" ELSE "refused"
      /\ \A d \in Callbacks \ {c} : callback'[d] = callback[d]
  BY DEF SignedIn, SignInFails, SignOns
<1>3. DOMAIN sessions' = DOMAIN sessions \cup (IF SignedIn(c) THEN {c} ELSE {})
  BY DEF SignedIn, SignInFails, Plus
<1>4. (SiTypeOK /\ EndedStays)'
  BY <1>1, <1>2, <1>3 DEF SiTypeOK, EndedStays
<1> QED BY <1>1, <1>2, <1>4

\* A session is dropped into those that have ended, or stays where it is.
LEMMA SessionsKeep ==
    ASSUME SignInInv,
           \/ \E c \in Callbacks : UseSession(c) \/ Logout(c) \/ RenewSession(c)
           \/ CleanupExpired \/ SiTick
    PROVE  SignInInv'
<1>1. UNCHANGED <<discovered, issued, pending, login, callback>>
  BY DEF UseSession, Logout, RenewSession, CleanupExpired, SiTick
<1>2. /\ DOMAIN sessions' \cup ended' \subseteq DOMAIN sessions \cup ended
      /\ DOMAIN sessions' \cap ended' = {}
  <2>1. \A c \in Callbacks : /\ DOMAIN Less(sessions, {c}) = DOMAIN sessions \ {c}
                             /\ DOMAIN Plus(sessions, c, SessionTtl) = DOMAIN sessions \cup {c}
    BY DEF Less, Plus
  <2>2. DOMAIN sessions \cap ended = {}
    BY DEF SignInInv, EndedStays
  <2>3. ASSUME NEW c \in Callbacks, UseSession(c) \/ Logout(c)
        PROVE  /\ DOMAIN sessions' \cup ended' \subseteq DOMAIN sessions \cup ended
               /\ DOMAIN sessions' \cap ended' = {}
    <3>1. c \in DOMAIN sessions /\ DOMAIN sessions' = DOMAIN sessions \ {c} /\ ended' = ended \cup {c}
      BY <2>1, <2>3 DEF UseSession, Logout
    <3> QED BY <2>2, <3>1
  <2>4. ASSUME NEW c \in Callbacks, RenewSession(c)
        PROVE  /\ DOMAIN sessions' \cup ended' \subseteq DOMAIN sessions \cup ended
               /\ DOMAIN sessions' \cap ended' = {}
    <3>1. \/ DOMAIN sessions' = DOMAIN sessions \cup {c} /\ ended' = ended
          \/ DOMAIN sessions' = DOMAIN sessions \ {c} /\ ended' = ended \cup {c}
      BY <2>1, <2>4 DEF RenewSession
    <3>2. c \in DOMAIN sessions
      BY <2>4 DEF RenewSession
    <3> QED BY <2>2, <3>1, <3>2
  <2>5. CASE CleanupExpired
    <3>1. DOMAIN sessions' = DOMAIN sessions \ (DOMAIN sessions \ Live)
      BY <2>5 DEF CleanupExpired, Less
    <3> QED BY <2>2, <2>5, <3>1 DEF CleanupExpired
  <2>6. CASE SiTick
    BY <2>2, <2>6 DEF SiTick
  <2> QED BY <2>3, <2>4, <2>5, <2>6
<1> QED BY <1>1, <1>2 DEF SignInInv, SiTypeOK, EndedStays

LEMMA SignInStep ==
    ASSUME SignInInv, [SiNext]_sivars
    PROVE  SignInInv'
<1>1. CASE UNCHANGED sivars
  BY <1>1 DEF SignInInv, SiTypeOK, EndedStays, sivars
<1> QED
  BY <1>1, LoginKeeps, DiscoveryKeeps, CallbackKeeps, SignedInKeeps, SessionsKeep DEF SiNext

LEMMA SignInSound == SignInInv => StateUsedOnce /\ EndedStays
  BY DEF SignInInv, StateUsedOnce

-----------------------------------------------------------------------------
(* The inheritance of permission sets.                                     *)

LEMMA Climb ==
    ASSUME NEW L \in Nat, NEW S, 0 \in S, \A n \in 1..L : n - 1 \in S => n \in S
    PROVE  \A n \in 0..L : n \in S
<1> DEFINE Bad == {n \in 0..L : n \notin S}
<1> SUFFICES ASSUME Bad # {} PROVE FALSE
  OBVIOUS
<1>1. PICK n \in Bad : \A k \in Bad : n <= k
  <2>1. Bad \subseteq Nat
    OBVIOUS
  <2> HIDE DEF Bad
  <2> QED BY <2>1, LeastExists
<1>2. n \in 1..L /\ n - 1 \in 0..L /\ n - 1 < n
  BY <1>1
<1>3. n - 1 \in S
  BY <1>1, <1>2
<1> QED BY <1>1, <1>2, <1>3

-----------------------------------------------------------------------------
PermissionsInv ==
    /\ DOMAIN sets \subseteq SetNames /\ sets \in [DOMAIN sets -> SetShapes]

\* The calls made so far, as a function of their number.
Called(name) ==
    CHOOSE f : f = [n \in 0 .. AllCalls |->
        IF n = 0 THEN [todo |-> <<name>>, visited |-> {}, granted |-> {}]
        ELSE IF f[n - 1].todo = <<>> THEN f[n - 1] ELSE Visit(f[n - 1])]
Calls_next(name, f, n) ==
    IF n = 0 THEN [todo |-> <<name>>, visited |-> {}, granted |-> {}]
    ELSE IF f[n - 1].todo = <<>> THEN f[n - 1] ELSE Visit(f[n - 1])

LEMMA AllCallsNat == PermissionsInv => AllCalls \in Nat /\ IsFiniteSet(DOMAIN sets)
<1> SUFFICES ASSUME PermissionsInv PROVE AllCalls \in Nat /\ IsFiniteSet(DOMAIN sets)
  OBVIOUS
<1>1. IsFiniteSet(DOMAIN sets)
  BY PermissionAssumption, FS_Subset DEF PermissionsInv
<1>2. PICK c \in Nat : c = Cardinality(DOMAIN sets)
  BY <1>1, FS_CardinalityType
<1> QED BY <1>1, <1>2, PermissionAssumption DEF AllCalls

LEMMA CalledIs ==
    ASSUME PermissionsInv, NEW name
    PROVE  /\ resolve_permissions(name) = Called(name)[AllCalls]
           /\ Called(name)[0] = [todo |-> <<name>>, visited |-> {}, granted |-> {}]
           /\ \A n \in 1..AllCalls : Called(name)[n] =
                IF Called(name)[n - 1].todo = <<>> THEN Called(name)[n - 1]
                ELSE Visit(Called(name)[n - 1])
<1> DEFINE S == {m \in 0..AllCalls : \E f : f = [n \in 0..m |-> Calls_next(name, f, n)]}
<1>0. PICK L \in Nat : L = AllCalls
  BY AllCallsNat
<1>1. 0 \in S
  <2>1. PICK f : f = [n \in 0..0 |-> [todo |-> <<name>>, visited |-> {}, granted |-> {}]]
    OBVIOUS
  <2>2. f = [n \in 0..0 |-> Calls_next(name, f, n)]
    BY <2>1 DEF Calls_next
  <2> QED BY <1>0, <2>2
<1>2. ASSUME NEW m \in 1..L, m - 1 \in S PROVE m \in S
  <2>1. PICK f : f = [n \in 0..(m - 1) |-> Calls_next(name, f, n)]
    BY <1>2
  <2>2. PICK f2 : f2 = [n \in 0..m |-> IF n = m THEN Calls_next(name, f, m) ELSE f[n]]
    OBVIOUS
  <2>3. \A n \in 0..(m - 1) : f2[n] = f[n]
    BY <2>2
  <2>4. ASSUME NEW n \in 0..m PROVE f2[n] = Calls_next(name, f2, n)
    <3>1. Calls_next(name, f, n) = Calls_next(name, f2, n)
      <4>1. CASE n = 0
        BY <4>1 DEF Calls_next
      <4>2. CASE n # 0
        <5>1. f[n - 1] = f2[n - 1]
          BY <2>3, <4>2
        <5> QED BY <5>1 DEF Calls_next
      <4> QED BY <4>1, <4>2
    <3>2. f2[n] = Calls_next(name, f, n)
      <4>1. CASE n = m
        BY <2>2, <4>1
      <4>2. CASE n # m
        <5>1. n \in 0..(m - 1)
          BY <4>2
        <5>2. f[n] = Calls_next(name, f, n)
          BY <2>1, <5>1
        <5> QED BY <2>3, <5>1, <5>2
      <4> QED BY <4>1, <4>2
    <3> QED BY <3>1, <3>2
  <2>5. f2 = [n \in 0..m |-> f2[n]]
    BY <2>2
  <2>6. f2 = [n \in 0..m |-> Calls_next(name, f2, n)]
    BY <2>4, <2>5
  <2> QED BY <1>0, <1>2, <2>6
<1>3. AllCalls \in S
  <2> HIDE DEF S
  <2>1. \A n \in 0..L : n \in S
    BY <1>0, <1>1, <1>2, Climb
  <2> QED BY <1>0, <2>1
<1>4. PICK f : f = [n \in 0..AllCalls |-> Calls_next(name, f, n)]
  BY <1>3
<1>5. Called(name) = [n \in 0..AllCalls |-> Calls_next(name, Called(name), n)]
  BY <1>4, Zenon DEF Called, Calls_next
<1>6. resolve_permissions(name) = Called(name)[AllCalls]
  BY DEF resolve_permissions, Called
<1> HIDE DEF Called
<1>7. Called(name)[0] = Calls_next(name, Called(name), 0)
  BY <1>0, <1>5
<1>8. \A n \in 1..AllCalls : Called(name)[n] = Calls_next(name, Called(name), n) /\ n # 0
  BY <1>0, <1>5
<1> QED BY <1>6, <1>7, <1>8 DEF Calls_next

LEMMA RangeTail ==
    ASSUME NEW T, NEW q \in Seq(T), q # <<>>
    PROVE  /\ Head(q) \in T /\ Tail(q) \in Seq(T) /\ Len(Tail(q)) = Len(q) - 1 /\ Len(q) \in Nat \ {0}
           /\ Range(q) = {Head(q)} \cup Range(Tail(q)) /\ Range(q) \subseteq T
<1>1. /\ Head(q) \in T /\ Tail(q) \in Seq(T) /\ Len(Tail(q)) = Len(q) - 1 /\ Len(q) \in Nat \ {0}
      /\ Head(q) = q[1] /\ \A i \in 1..Len(Tail(q)) : Tail(q)[i] = q[i + 1]
  BY HeadTailProperties, EmptySeq
<1>2. DOMAIN q = 1..Len(q) /\ DOMAIN Tail(q) = 1..Len(Tail(q)) /\ \A i \in 1..Len(q) : q[i] \in T
  BY <1>1
<1>3. ASSUME NEW i \in 1..Len(q)
      PROVE  q[i] = Head(q) \/ q[i] \in Range(Tail(q))
  <2>1. CASE i = 1
    BY <1>1, <2>1
  <2>2. CASE i # 1
    <3>1. PICK j \in 1..Len(Tail(q)) : j = i - 1 /\ j + 1 = i
      BY <1>1, <2>2
    <3>2. Tail(q)[j] = q[i]
      BY <1>1, <3>1
    <3> QED BY <1>2, <3>2 DEF Range
  <2> QED BY <2>1, <2>2
<1>4. \A j \in 1..Len(Tail(q)) : j + 1 \in 1..Len(q)
  BY <1>1
<1>5. 1 \in 1..Len(q)
  BY <1>1
<1> QED BY <1>1, <1>2, <1>3, <1>4, <1>5 DEF Range

LEMMA RangeConcat ==
    ASSUME NEW T, NEW a \in Seq(T), NEW b \in Seq(T)
    PROVE  /\ a \o b \in Seq(T) /\ Len(a \o b) = Len(a) + Len(b)
           /\ Range(a \o b) = Range(a) \cup Range(b)
<1>1. /\ a \o b \in Seq(T) /\ Len(a \o b) = Len(a) + Len(b) /\ Len(a) \in Nat /\ Len(b) \in Nat
      /\ \A i \in 1..(Len(a) + Len(b)) : (a \o b)[i] = IF i <= Len(a) THEN a[i] ELSE b[i - Len(a)]
  BY ConcatProperties, LenProperties
<1>2. PICK c \in Seq(T) : c = a \o b
  BY <1>1
<1>3. PICK m \in Nat, n \in Nat : m = Len(a) /\ n = Len(b) /\ Len(c) = m + n
  BY <1>1, <1>2
<1>4. DOMAIN a = 1..m /\ DOMAIN b = 1..n /\ DOMAIN c = 1..(m + n)
  BY <1>3
<1>5. \A i \in 1..m : i \in 1..(m + n) /\ c[i] = a[i]
  BY <1>1, <1>2, <1>3
<1>6. \A i \in 1..n : i + m \in 1..(m + n) /\ c[i + m] = b[i]
  BY <1>1, <1>2, <1>3
<1>7. \A i \in 1..(m + n) : i \in 1..m \/ i - m \in 1..n
  OBVIOUS
<1>8. ASSUME NEW i \in 1..(m + n)
      PROVE  c[i] \in Range(a) \cup Range(b)
  <2>1. CASE i \in 1..m
    BY <1>4, <1>5, <2>1 DEF Range
  <2>2. CASE i - m \in 1..n
    <3>1. PICK j \in 1..n : j = i - m /\ j + m = i
      BY <2>2
    <3> QED BY <1>4, <1>6, <3>1 DEF Range
  <2> QED BY <1>7, <2>1, <2>2
<1>9. Range(c) = Range(a) \cup Range(b)
  <2>1. Range(c) = {c[i] : i \in 1..(m + n)} /\ Range(a) = {a[i] : i \in 1..m} /\ Range(b) = {b[i] : i \in 1..n}
    BY <1>4 DEF Range
  <2>2. \A i \in 1..m : a[i] \in Range(c)
    BY <1>5, <2>1
  <2>3. \A i \in 1..n : b[i] \in Range(c)
    BY <1>6, <2>1
  <2> QED BY <1>8, <2>1, <2>2, <2>3
<1> QED BY <1>1, <1>2, <1>9

LEMMA ReachedIs ==
    ASSUME PermissionsInv, NEW name \in SetNames
    PROVE  /\ name \in Reached(name) /\ Reached(name) \subseteq SetNames
           /\ \A n \in Reached(name) \cap DOMAIN sets : Range(sets[n].parents) \subseteq Reached(name)
           /\ \A S \in SUBSET SetNames :
                name \in S /\ (\A n \in S \cap DOMAIN sets : Range(sets[n].parents) \subseteq S)
                  => Reached(name) \subseteq S
<1>1. \A n \in DOMAIN sets : Range(sets[n].parents) \subseteq SetNames
  BY PermissionAssumption DEF PermissionsInv, Range
<1> QED BY <1>1 DEF Reached

\* What the calls made so far have found: what is visited or waits is reached, and the
\* parents of what is visited are visited or wait; and the calls left are enough.
Found(name, s, left) ==
    /\ s.todo \in Seq(SetNames) /\ s.visited \subseteq SetNames
    /\ s.visited \cup Range(s.todo) \subseteq Reached(name)
    /\ name \in s.visited \cup Range(s.todo)
    /\ \A n \in s.visited \cap DOMAIN sets :
          Range(sets[n].parents) \subseteq s.visited \cup Range(s.todo)
    /\ s.granted = UNION {sets[n].grants : n \in s.visited \cap DOMAIN sets}
    /\ s.todo # <<>> => Len(s.todo) + MaxParents * Cardinality(DOMAIN sets \ s.visited) <= left

LEMMA VisitFinds ==
    ASSUME PermissionsInv, NEW name \in SetNames, NEW s, NEW left \in Int,
           Found(name, s, left), s.todo # <<>>,
           s = [todo |-> s.todo, visited |-> s.visited, granted |-> s.granted]
    PROVE  /\ Found(name, Visit(s), left - 1)
           /\ Visit(s) = [todo |-> Visit(s).todo, visited |-> Visit(s).visited,
                          granted |-> Visit(s).granted]
<1>1. PICK todo \in Seq(SetNames), visited \in SUBSET SetNames, granted \in {s.granted} :
        /\ todo = s.todo /\ visited = s.visited /\ granted = s.granted
        /\ s = [todo |-> todo, visited |-> visited, granted |-> granted]
  BY DEF Found
<1>2. PICK x \in SetNames, rest \in Seq(SetNames) :
        /\ x = Head(todo) /\ rest = Tail(todo) /\ Len(rest) = Len(todo) - 1 /\ Len(todo) \in Nat \ {0}
        /\ Range(todo) = {x} \cup Range(rest)
  <2>1. todo # <<>>
    BY <1>1
  <2>2. /\ Head(todo) \in SetNames /\ Tail(todo) \in Seq(SetNames) /\ Len(Tail(todo)) = Len(todo) - 1
        /\ Len(todo) \in Nat \ {0} /\ Range(todo) = {Head(todo)} \cup Range(Tail(todo))
    BY <2>1, RangeTail
  <2> QED BY <2>2
<1>3. PICK c \in Nat : c = Cardinality(DOMAIN sets \ visited)
  BY AllCallsNat, FS_Subset, FS_CardinalityType
<1>4. PICK w \in Int : w = MaxParents * c
  BY PermissionAssumption
<1>5. Len(rest) + w <= left - 1
  BY <1>1, <1>2, <1>3, <1>4 DEF Found
<1>6. /\ visited \cup {x} \cup Range(rest) \subseteq Reached(name)
      /\ name \in visited \cup {x} \cup Range(rest)
      /\ \A n \in visited \cap DOMAIN sets : Range(sets[n].parents) \subseteq visited \cup {x} \cup Range(rest)
      /\ granted = UNION {sets[n].grants : n \in visited \cap DOMAIN sets}
  BY <1>1, <1>2 DEF Found
<1>7. CASE x \in visited
  <2>1. Visit(s) = [todo |-> rest, visited |-> visited, granted |-> granted]
    BY <1>1, <1>2, <1>7 DEF Visit
  <2>2. Found(name, [todo |-> rest, visited |-> visited, granted |-> granted], left - 1)
    BY <1>3, <1>4, <1>5, <1>6, <1>7 DEF Found
  <2> QED BY <2>1, <2>2
<1>8. CASE x \notin visited /\ x \notin DOMAIN sets
  <2>1. Visit(s) = [todo |-> rest, visited |-> visited \cup {x}, granted |-> granted]
    BY <1>1, <1>2, <1>8 DEF Visit
  <2>2. DOMAIN sets \ (visited \cup {x}) = DOMAIN sets \ visited
        /\ (visited \cup {x}) \cap DOMAIN sets = visited \cap DOMAIN sets
    BY <1>8
  <2>3. Found(name, [todo |-> rest, visited |-> visited \cup {x}, granted |-> granted], left - 1)
    BY <1>3, <1>4, <1>5, <1>6, <2>2 DEF Found
  <2> QED BY <2>1, <2>3
<1>9. CASE x \notin visited /\ x \in DOMAIN sets
  <2>1. PICK parents \in Seq(SetNames), grants \in {sets[x].grants} :
          parents = sets[x].parents /\ grants = sets[x].grants /\ Len(parents) <= MaxParents
    BY <1>9, PermissionAssumption DEF PermissionsInv
  <2>2. PICK next \in Seq(SetNames) :
          /\ next = parents \o rest /\ Len(next) = Len(parents) + Len(rest)
          /\ Range(next) = Range(parents) \cup Range(rest)
    <3>1. /\ parents \o rest \in Seq(SetNames) /\ Len(parents \o rest) = Len(parents) + Len(rest)
          /\ Range(parents \o rest) = Range(parents) \cup Range(rest)
      BY RangeConcat
    <3> QED BY <3>1
  <2>3. Visit(s) = [todo |-> next, visited |-> visited \cup {x}, granted |-> granted \cup grants]
    BY <1>1, <1>2, <1>9, <2>1, <2>2 DEF Visit
  <2>4. Cardinality(DOMAIN sets \ (visited \cup {x})) = c - 1 /\ c - 1 \in Nat
    <3>1. IsFiniteSet(DOMAIN sets \ visited) /\ x \in DOMAIN sets \ visited
      BY <1>9, AllCallsNat, FS_Subset
    <3>2. (DOMAIN sets \ visited) \ {x} = DOMAIN sets \ (visited \cup {x})
      OBVIOUS
    <3>3. PICK D : D = DOMAIN sets \ visited
      OBVIOUS
    <3>4. /\ Cardinality(D \ {x}) = Cardinality(D) - 1 /\ Cardinality(D \ {x}) \in Nat
      BY <3>1, <3>3, FS_RemoveElement, FS_CardinalityType
    <3> QED BY <1>3, <3>2, <3>3, <3>4
  <2>5. MaxParents * (c - 1) = w - MaxParents
    <3>1. MaxParents \in Int
      BY PermissionAssumption
    <3> QED BY <1>3, <1>4, <3>1
  <2>6. Len(next) + MaxParents * Cardinality(DOMAIN sets \ (visited \cup {x})) <= left - 1
    <3>1. PICK m \in Nat, n \in Nat, l \in Nat : m = MaxParents /\ n = Len(parents) /\ l = Len(rest)
      BY PermissionAssumption, LenProperties
    <3>2. PICK k \in Int : k = MaxParents * Cardinality(DOMAIN sets \ (visited \cup {x})) /\ k = w - m
      BY <2>4, <2>5, <3>1
    <3>3. Len(next) = n + l
      BY <2>2, <3>1
    <3>4. n <= m /\ l + w <= left - 1
      BY <1>5, <2>1, <3>1
    <3>5. (n + l) + (w - m) <= left - 1
      BY ONLY <3>4, m \in Nat, n \in Nat, l \in Nat, w \in Int, left \in Int
    <3> QED BY <3>2, <3>3, <3>5
  <2>7. Range(parents) \subseteq Reached(name)
    BY <1>6, <1>9, <2>1, ReachedIs
  <2>8. granted \cup grants = UNION {sets[n].grants : n \in (visited \cup {x}) \cap DOMAIN sets}
    BY <1>6, <1>9, <2>1
  <2>9. \A n \in (visited \cup {x}) \cap DOMAIN sets :
          Range(sets[n].parents) \subseteq (visited \cup {x}) \cup Range(next)
    BY <1>6, <2>1, <2>2
  <2>10. Found(name, [todo |-> next, visited |-> visited \cup {x}, granted |-> granted \cup grants], left - 1)
    BY <1>6, <2>2, <2>6, <2>7, <2>8, <2>9 DEF Found
  <2> QED BY <2>3, <2>10
<1> QED BY <1>7, <1>8, <1>9

\* resolve_permissions() ends and finds what is reached, for every inheritance.
LEMMA PermissionsSound == PermissionsInv => PermissionsInherited
<1> SUFFICES ASSUME PermissionsInv, NEW name \in SetNames
             PROVE  LET r == resolve_permissions(name)
                    IN /\ r.todo = <<>>
                       /\ r.granted = UNION {sets[n].grants : n \in Reached(name) \cap DOMAIN sets}
                       /\ \A p \in Grants : check_permission(p, <<name>>) <=> p \in r.granted
  BY DEF PermissionsInherited
<1>0. PICK L \in Nat : L = AllCalls
  BY AllCallsNat
<1>1. PICK f : f = Called(name)
  OBVIOUS
<1>2. /\ resolve_permissions(name) = f[L]
      /\ f[0] = [todo |-> <<name>>, visited |-> {}, granted |-> {}]
      /\ \A n \in 1..L : f[n] = IF f[n - 1].todo = <<>> THEN f[n - 1] ELSE Visit(f[n - 1])
  BY <1>0, <1>1, CalledIs
<1> DEFINE S == {n \in 0..L :
                   /\ Found(name, f[n], L - n)
                   /\ f[n] = [todo |-> f[n].todo, visited |-> f[n].visited, granted |-> f[n].granted]}
<1>3. 0 \in S
  <2>1. <<name>> \in Seq(SetNames) /\ Len(<<name>>) = 1 /\ Range(<<name>>) = {name}
    BY DEF Range
  <2>2. 1 + MaxParents * Cardinality(DOMAIN sets \ {}) <= L - 0
    <3>1. DOMAIN sets \ {} = DOMAIN sets
      OBVIOUS
    <3> QED BY <1>0, <3>1 DEF AllCalls
  <2>3. name \in Reached(name)
    BY ReachedIs
  <2>4. Found(name, [todo |-> <<name>>, visited |-> {}, granted |-> {}], L - 0)
    BY <2>1, <2>2, <2>3 DEF Found
  <2> QED BY <1>2, <2>4
<1>4. ASSUME NEW n \in 1..L, n - 1 \in S PROVE n \in S
  <2>1. PICK s : s = f[n - 1]
    OBVIOUS
  <2>2. PICK left \in Int : left = L - (n - 1) /\ left - 1 = L - n
    OBVIOUS
  <2>3. Found(name, s, left) /\ s = [todo |-> s.todo, visited |-> s.visited, granted |-> s.granted]
    BY <1>4, <2>1, <2>2
  <2>4. CASE s.todo = <<>>
    <3>1. f[n] = s
      BY <1>2, <2>1, <2>4
    <3>2. Found(name, s, left - 1)
      BY <2>3, <2>4 DEF Found
    <3> QED BY <2>2, <2>3, <3>1, <3>2
  <2>5. CASE s.todo # <<>>
    <3>1. f[n] = Visit(s)
      BY <1>2, <2>1, <2>5
    <3>2. /\ Found(name, Visit(s), left - 1)
          /\ Visit(s) = [todo |-> Visit(s).todo, visited |-> Visit(s).visited,
                         granted |-> Visit(s).granted]
      BY <2>3, <2>5, VisitFinds
    <3> QED BY <2>2, <3>1, <3>2
  <2> QED BY <2>4, <2>5
<1>5. Found(name, f[L], 0)
  <2> HIDE DEF S
  <2>1. L \in S
    BY <1>3, <1>4, Climb
  <2> USE DEF S
  <2>2. L - L = 0
    OBVIOUS
  <2> QED BY <2>1, <2>2
<1>6. PICK r : r = f[L]
  OBVIOUS
<1>7. r.todo = <<>>
  <2>1. SUFFICES ASSUME r.todo # <<>> PROVE FALSE
    OBVIOUS
  <2>2. PICK c \in Nat : c = Cardinality(DOMAIN sets \ r.visited)
    BY AllCallsNat, FS_Subset, FS_CardinalityType
  <2>3. PICK w \in Nat : w = MaxParents * c
    BY PermissionAssumption
  <2>4. PICK l \in Nat : l = Len(r.todo) /\ l # 0
    BY <1>5, <1>6, <2>1, RangeTail DEF Found
  <2>5. l + w <= 0
    BY <1>5, <1>6, <2>1, <2>2, <2>3, <2>4 DEF Found
  <2> QED BY <2>4, <2>5
<1>8. Range(r.todo) = {}
  BY <1>7 DEF Range
<1>9. r.visited = Reached(name)
  <2>1. /\ r.visited \in SUBSET SetNames /\ r.visited \subseteq Reached(name) /\ name \in r.visited
        /\ \A n \in r.visited \cap DOMAIN sets : Range(sets[n].parents) \subseteq r.visited
    BY <1>5, <1>6, <1>8 DEF Found
  <2>2. Reached(name) \subseteq r.visited
    BY <2>1, ReachedIs
  <2> QED BY <2>1, <2>2
<1>10. r.granted = UNION {sets[n].grants : n \in Reached(name) \cap DOMAIN sets}
  BY <1>5, <1>6, <1>9 DEF Found
<1>11. \A p \in Grants : check_permission(p, <<name>>) <=> p \in r.granted
  <2>1. Range(<<name>>) = {name}
    BY DEF Range
  <2> QED BY <1>2, <1>6, <2>1 DEF check_permission
<1> QED BY <1>2, <1>6, <1>7, <1>10, <1>11

LEMMA SetsStep ==
    ASSUME PermissionsInv, SetsNext
    PROVE  PermissionsInv'
<1>1. ASSUME NEW name \in SetNames, NEW shape \in SetShapes, RegisterSet(name, shape)
      PROVE  PermissionsInv'
  BY <1>1 DEF RegisterSet, PermissionsInv
<1>2. ASSUME NEW name \in SetNames, RemoveSet(name)
      PROVE  PermissionsInv'
  BY <1>2 DEF RemoveSet, PermissionsInv, Restrict
<1> QED BY <1>1, <1>2 DEF SetsNext

-----------------------------------------------------------------------------
(* The webhook authenticator and its cache.                                *)

WebhookCalls == [header : Headers, answer : {"none", "yes", "no"}]
WebhookEntries == [at : Int, arrived : Int]

\* An entry is stored when its answer arrives, and stays as it is.
WebhookInv ==
    /\ aa_now \in 0 .. AaMaxTime /\ says \in [Headers -> {"yes", "no"}]
    /\ DOMAIN wh_cache \subseteq Headers /\ wh_cache \in [DOMAIN wh_cache -> WebhookEntries]
    /\ DOMAIN wh_calls \subseteq WhCalls /\ wh_calls \in [DOMAIN wh_calls -> WebhookCalls]
    /\ \A h \in DOMAIN wh_cache :
         wh_cache[h].at = wh_cache[h].arrived /\ wh_cache[h].at <= aa_now
    /\ \A age \in wh_hits : age \in Int /\ age <= WhTtl

LEMMA WebhookInit == AaInit => WebhookInv
  BY WebhookAssumption DEF AaInit, WebhookInv

LEMMA WhHitKeeps ==
    ASSUME WebhookInv, NEW h \in Headers, WhHit(h)
    PROVE  WebhookInv'
<1>1. PICK now \in Int, at \in Int :
        /\ now = aa_now /\ at = wh_cache[h].at /\ at = wh_cache[h].arrived
        /\ now - at <= WhTtl
  BY DEF WebhookInv, WebhookEntries, WhHit, fresh
<1>2. now - at \in Int /\ now - at <= WhTtl
  BY <1>1, WebhookAssumption
<1>3. wh_hits' = wh_hits \cup {now - at}
  BY <1>1 DEF WhHit
<1> QED BY <1>2, <1>3 DEF WhHit, WebhookInv

LEMMA WhSendKeeps ==
    ASSUME WebhookInv, NEW c \in WhCalls, NEW h \in Headers, WhSend(c, h)
    PROVE  WebhookInv'
<1>1. /\ UNCHANGED <<says, wh_hits, aa_now>> /\ DOMAIN wh_cache' = DOMAIN wh_cache \ {h}
      /\ wh_cache' \in [DOMAIN wh_cache' -> WebhookEntries]
      /\ \A d \in DOMAIN wh_cache' : wh_cache'[d] = wh_cache[d]
  BY DEF WhSend, Restrict, WebhookInv
<1>2. PICK held : held = [header |-> h, answer |-> "none"]
  OBVIOUS
<1>3. held \in WebhookCalls
  BY <1>2 DEF WebhookCalls, WebhookInv
<1>4. /\ DOMAIN wh_calls' = DOMAIN wh_calls \cup {c} /\ wh_calls' \in [DOMAIN wh_calls' -> WebhookCalls]
      /\ wh_calls'[c] = held /\ \A d \in DOMAIN wh_calls \ {c} : wh_calls'[d] = wh_calls[d]
  BY <1>2, <1>3 DEF WhSend, WebhookInv
<1> QED BY <1>1, <1>3, <1>4, WebhookAssumption DEF WebhookInv

LEMMA WhAnswerKeeps ==
    ASSUME WebhookInv, NEW c \in WhCalls, WhAnswer(c)
    PROVE  WebhookInv'
<1>1. PICK held \in WebhookCalls : held = wh_calls[c] /\ c \in DOMAIN wh_calls
  BY DEF WhAnswer, WebhookInv
<1>2. PICK answer \in {"yes", "no"} : answer = says[held.header]
  BY <1>1 DEF WebhookInv, WebhookCalls
<1>3. PICK next : next = [held EXCEPT !.answer = answer]
  OBVIOUS
<1>4. next \in WebhookCalls
  BY <1>1, <1>2, <1>3 DEF WebhookCalls
<1>5. wh_calls' = [wh_calls EXCEPT ![c] = next]
  BY <1>1, <1>2, <1>3 DEF WhAnswer
<1>6. /\ DOMAIN wh_calls' = DOMAIN wh_calls /\ wh_calls' \in [DOMAIN wh_calls' -> WebhookCalls]
      /\ wh_calls'[c] = next /\ \A d \in DOMAIN wh_calls \ {c} : wh_calls'[d] = wh_calls[d]
  BY <1>1, <1>4, <1>5 DEF WebhookInv
<1> QED BY <1>1, <1>4, <1>6 DEF WhAnswer, WebhookInv

LEMMA WhEndsKeeps ==
    ASSUME WebhookInv, NEW c \in WhCalls, WhEnds(c) \/ WhFails(c)
    PROVE  WebhookInv'
<1>1. /\ UNCHANGED <<says, wh_hits, aa_now>> /\ DOMAIN wh_calls' \subseteq DOMAIN wh_calls
      /\ wh_calls' \in [DOMAIN wh_calls' -> WebhookCalls]
      /\ \A d \in DOMAIN wh_calls' : wh_calls'[d] = wh_calls[d]
  BY DEF WhEnds, WhFails, Restrict, WebhookInv
<1>2. CASE UNCHANGED wh_cache
  BY <1>1, <1>2 DEF WebhookInv
<1>3. CASE ~UNCHANGED wh_cache
  <2>1. PICK held \in WebhookCalls : held = wh_calls[c] /\ c \in DOMAIN wh_calls
    BY DEF WhEnds, WhFails, WebhookInv
  <2>2. PICK entry : entry = [at |-> aa_now, arrived |-> aa_now]
    OBVIOUS
  <2>3. entry \in WebhookEntries /\ entry.at = aa_now /\ entry.arrived = aa_now
    BY <2>1, <2>2 DEF WebhookEntries, WebhookCalls, WebhookInv
  <2>4. wh_cache' = [h \in DOMAIN wh_cache \cup {held.header} |->
                       IF h = held.header THEN entry ELSE wh_cache[h]]
    BY <1>3, <2>1, <2>2 DEF WhEnds, WhFails
  <2>5. /\ DOMAIN wh_cache' = DOMAIN wh_cache \cup {held.header} /\ held.header \in Headers
        /\ wh_cache' \in [DOMAIN wh_cache' -> WebhookEntries] /\ wh_cache'[held.header] = entry
        /\ \A h \in DOMAIN wh_cache \ {held.header} : wh_cache'[h] = wh_cache[h]
    BY <2>1, <2>3, <2>4 DEF WebhookInv, WebhookCalls
  <2>6. entry.arrived = entry.at /\ entry.at <= aa_now
    BY <2>3 DEF WebhookInv
  <2> QED BY <1>1, <2>5, <2>6 DEF WebhookInv
<1> QED BY <1>2, <1>3

LEMMA AaTickKeeps ==
    ASSUME WebhookInv, AaTick
    PROVE  WebhookInv'
<1>1. /\ UNCHANGED <<says, wh_cache, wh_calls, wh_hits>>
      /\ aa_now \in Int /\ aa_now' = aa_now + 1 /\ aa_now' \in 0..AaMaxTime
  BY WebhookAssumption DEF AaTick, WebhookInv
<1>2. ASSUME NEW h \in DOMAIN wh_cache
      PROVE  wh_cache[h].at <= aa_now'
  BY <1>1 DEF WebhookInv, WebhookEntries
<1> QED BY <1>1, <1>2 DEF WebhookInv

LEMMA WebhookStep ==
    ASSUME WebhookInv, WebhookNext
    PROVE  WebhookInv'
<1>1. CASE ClearCache
  BY <1>1 DEF ClearCache, WebhookInv
<1>2. ASSUME NEW h \in Headers, WhDecides(h)
      PROVE  WebhookInv'
  BY <1>2 DEF WhDecides, WebhookInv
<1> QED
  BY <1>1, <1>2, WhHitKeeps, WhSendKeeps, WhAnswerKeeps, WhEndsKeeps, AaTickKeeps DEF WebhookNext

LEMMA WebhookSound == WebhookInv => AcceptedRecently
  BY DEF WebhookInv, AcceptedRecently

-----------------------------------------------------------------------------
(* The budgets of providers and tags.                                      *)

BudgetRecords == [max : Nat, period : Nat] \cup {None}
StateRecords == [spend : Nat, start : Int]

\* Nothing was charged that the state of a name does not show: all of it before now, and
\* in the period that is over if there is one.
BudgetInv ==
    /\ buNow \in Moments
    /\ budgets \in [Names -> BudgetRecords] /\ states \in [Names -> StateRecords]
    /\ charges \in [Names -> [Moments -> Int]]
    /\ \A n \in Names :
         /\ budgets[n] = None => states[n] = NoState
         /\ states[n] = NoState => \A t \in Moments : charges[n][t] = 0
         /\ states[n] # NoState =>
              states[n].start \in 0..buNow /\ states[n].spend = charges[n][states[n].start]
         /\ \A t \in Moments : t > buNow => charges[n][t] = 0
         /\ budgets[n] # None /\ should_reset(n, states[n], buNow) => charges[n][buNow] = 0

LEMMA BudgetInit == BuInit => BudgetInv
<1> SUFFICES ASSUME BuInit PROVE BudgetInv
  OBVIOUS
<1>1. 0 \in Moments /\ None \in BudgetRecords /\ NoState \in StateRecords
  BY BudgetAssumption DEF Moments, None, BudgetRecords, NoState, StateRecords
<1>2. Uncharged \in [Moments -> Int] /\ \A t \in Moments : Uncharged[t] = 0
  BY DEF Uncharged
<1> QED BY <1>1, <1>2 DEF BuInit, BudgetInv, Moments

LEMMA TickIs ==
    ASSUME BudgetInv, Tick
    PROVE  buNow' \in Moments /\ buNow' > buNow /\ buNow \in Nat
  BY BudgetAssumption DEF BudgetInv, Tick, Moments

\* A look at a state before it is charged: the period it shows is not over, it began no
\* later than now, and the spend is what was charged since.
LEMMA RefreshedIs ==
    ASSUME BudgetInv, NEW n \in Names, NEW now \in Moments, now >= buNow, budgets[n] # None,
           now = buNow \/ charges[n][now] = 0
    PROVE  /\ refreshed(n, now) \in StateRecords
           /\ refreshed(n, now) # NoState /\ refreshed(n, now).start \in 0..now
           /\ refreshed(n, now).spend = charges[n][refreshed(n, now).start]
           /\ ~should_reset(n, refreshed(n, now), now)
<1>1. PICK budget \in [max : Nat, period : Nat] : budget = budgets[n]
  BY DEF BudgetInv, BudgetRecords
<1>2. PICK state \in StateRecords : state = states[n]
  BY DEF BudgetInv
<1>3. now \in Nat /\ buNow \in Nat
  BY DEF Moments, BudgetInv
<1>4. \/ charges[n][now] = 0
      \/ states[n] # NoState /\ now = buNow /\ ~should_reset(n, states[n], buNow)
  BY DEF BudgetInv
<1>5. CASE states[n] = NoState
  <2>1. /\ tracked(n, now) = [spend |-> 0, start |-> now]
        /\ refreshed(n, now) = [spend |-> 0, start |-> now]
    BY <1>5 DEF tracked, refreshed
  <2>2. ~should_reset(n, [spend |-> 0, start |-> now], now)
    BY <1>1, <1>3 DEF should_reset
  <2> QED BY <1>3, <1>4, <1>5, <2>1, <2>2 DEF StateRecords, NoState
<1>6. CASE states[n] # NoState /\ ~should_reset(n, states[n], now)
  <2>1. refreshed(n, now) = states[n]
    BY <1>6 DEF tracked, refreshed
  <2>2. states[n].start \in 0..buNow /\ states[n].spend = charges[n][states[n].start]
    BY <1>6 DEF BudgetInv
  <2> QED BY <1>2, <1>3, <1>6, <2>1, <2>2
<1>7. CASE states[n] # NoState /\ should_reset(n, states[n], now)
  <2>1. refreshed(n, now) = [spend |-> 0, start |-> now]
    BY <1>7 DEF tracked, refreshed
  <2>2. ~should_reset(n, [spend |-> 0, start |-> now], now)
    BY <1>1, <1>3 DEF should_reset
  <2> QED BY <1>3, <1>4, <1>7, <2>1, <2>2 DEF StateRecords, NoState
<1> QED BY <1>5, <1>6, <1>7

\* The clock alone: what was charged was charged earlier.
LEMMA LaterKeeps ==
    ASSUME BudgetInv, Tick, UNCHANGED charges, NEW n \in Names
    PROVE  \A t \in Moments : t >= buNow' => charges'[n][t] = 0
  BY TickIs DEF BudgetInv, Moments

LEMMA SetBudgetKeeps ==
    ASSUME BudgetInv, NEW n \in Names, NEW max \in Budgets, NEW period \in Periods,
           SetBudget(n, max, period)
    PROVE  BudgetInv'
<1>1. /\ Tick /\ UNCHANGED <<states, charges>> /\ buNow' \in Moments /\ buNow' > buNow /\ buNow \in Nat
  BY TickIs DEF SetBudget
<1>2. /\ budgets' \in [Names -> BudgetRecords] /\ budgets'[n] # None
      /\ \A m \in Names \ {n} : budgets'[m] = budgets[m]
  <2>1. PICK b : b = [max |-> max, period |-> period]
    OBVIOUS
  <2>2. b \in BudgetRecords /\ b.period # None.period
    BY <2>1, BudgetAssumption DEF BudgetRecords, None
  <2>3. budgets' = [budgets EXCEPT ![n] = b]
    BY <2>1 DEF SetBudget
  <2> QED BY <2>2, <2>3 DEF BudgetInv
<1>3. \A m \in Names : \A t \in Moments : t >= buNow' => charges'[m][t] = 0
  BY <1>1, LaterKeeps
<1>4. \A m \in Names : states[m] # NoState => states[m].start \in 0..buNow'
  BY <1>1 DEF BudgetInv, Moments
<1> QED BY <1>1, <1>2, <1>3, <1>4 DEF BudgetInv, Moments

LEMMA RemoveBudgetKeeps ==
    ASSUME BudgetInv, NEW n \in Names, RemoveBudget(n)
    PROVE  BudgetInv'
<1>1. /\ Tick /\ buNow' \in Moments /\ buNow' > buNow /\ buNow \in Nat
  BY TickIs DEF RemoveBudget
<1>2. None \in BudgetRecords /\ NoState \in StateRecords
  BY DEF None, BudgetRecords, NoState, StateRecords
<1>3. Uncharged \in [Moments -> Int] /\ \A t \in Moments : Uncharged[t] = 0
  BY DEF Uncharged
<1>4. /\ budgets' \in [Names -> BudgetRecords] /\ states' \in [Names -> StateRecords]
      /\ charges' \in [Names -> [Moments -> Int]]
      /\ budgets'[n] = None /\ states'[n] = NoState /\ charges'[n] = Uncharged
      /\ \A m \in Names \ {n} : /\ budgets'[m] = budgets[m] /\ states'[m] = states[m]
                                /\ charges'[m] = charges[m]
  BY <1>2, <1>3 DEF RemoveBudget, BudgetInv
<1>5. \A m \in Names : \A t \in Moments : t >= buNow' => charges'[m][t] = 0
  <2>1. \A m \in Names : \A t \in Moments : t > buNow => charges[m][t] = 0
    BY DEF BudgetInv
  <2>2. \A t \in Moments : t >= buNow' => t > buNow
    BY <1>1 DEF Moments
  <2> QED BY <1>3, <1>4, <2>1, <2>2
<1>6. \A m \in Names : states'[m] # NoState =>
         states'[m].start \in 0..buNow' /\ states'[m].spend = charges'[m][states'[m].start]
  BY <1>1, <1>4 DEF BudgetInv, Moments
<1>7. \A m \in Names : /\ budgets'[m] = None => states'[m] = NoState
                       /\ states'[m] = NoState => \A t \in Moments : charges'[m][t] = 0
  BY <1>3, <1>4 DEF BudgetInv
<1> QED BY <1>1, <1>4, <1>5, <1>6, <1>7 DEF BudgetInv, Moments

LEMMA RecordSpendKeeps ==
    ASSUME BudgetInv, NEW p \in Providers, NEW tags \in SUBSET Tags, NEW cost \in Costs,
           RecordSpend(p, tags, cost)
    PROVE  BudgetInv'
<1> DEFINE charged == {n \in tags \cup {p} : budgets[n] # None}
<1>1. /\ Tick /\ buNow' \in Moments /\ buNow' > buNow /\ buNow \in Nat /\ cost \in Nat /\ cost > 0
  BY TickIs, BudgetAssumption DEF RecordSpend
<1>2. UNCHANGED budgets /\ charged \subseteq Names
  BY DEF RecordSpend, Names
<1>3. ASSUME NEW n \in Names
      PROVE  /\ charges'[n] \in [Moments -> Int]
             /\ n \notin charged => charges'[n] = charges[n]
             /\ n \in charged => \A t \in Moments :
                  charges'[n][t] = IF t <= buNow' THEN charges[n][t] + cost ELSE charges[n][t]
  <2>1. charges[n] \in [Moments -> Int]
    BY DEF BudgetInv
  <2>2. charges'[n] = [t \in Moments |-> charges[n][t] + (IF n \in charged /\ t <= buNow' THEN cost ELSE 0)]
    BY <1>2 DEF RecordSpend
  <2>3. \A t \in Moments : charges[n][t] + 0 = charges[n][t] /\ charges[n][t] + cost \in Int
    BY <1>1, <2>1
  <2>4. ASSUME NEW t \in Moments
        PROVE  charges'[n][t] = IF n \in charged /\ t <= buNow' THEN charges[n][t] + cost ELSE charges[n][t]
    BY <2>2, <2>3
  <2>5. charges'[n] \in [Moments -> Int]
    BY <2>1, <2>2, <2>3
  <2>6. n \notin charged => charges'[n] = charges[n]
    BY <2>1, <2>4, <2>5
  <2> HIDE DEF charged
  <2> QED BY <2>4, <2>5, <2>6
<1>4. charges' \in [Names -> [Moments -> Int]]
  BY <1>3 DEF RecordSpend
<1>5. ASSUME NEW n \in Names, n \notin charged
      PROVE  states'[n] = states[n] /\ charges'[n] = charges[n] /\ charges[n][buNow'] = 0
  <2>1. charges'[n] = charges[n]
    BY <1>3, <1>5
  <2> QED BY <1>1, <1>5, <2>1 DEF RecordSpend, BudgetInv
<1>6. ASSUME NEW n \in charged
      PROVE  /\ states'[n] \in StateRecords /\ states'[n] # NoState /\ budgets[n] # None
             /\ states'[n].start \in 0..buNow' /\ states'[n].spend = charges'[n][states'[n].start]
             /\ ~should_reset(n, states'[n], buNow')
             /\ \A t \in Moments : t > buNow' => charges'[n][t] = 0
  <2>1. n \in Names /\ budgets[n] # None /\ charges[n][buNow'] = 0
    BY <1>1, <1>2 DEF BudgetInv
  <2>2. PICK state : state = refreshed(n, buNow')
    OBVIOUS
  <2>3. /\ state \in StateRecords /\ state.start \in 0..buNow'
        /\ state.spend = charges[n][state.start] /\ ~should_reset(n, state, buNow')
    <3>1. buNow' >= buNow
      BY <1>1 DEF Moments
    <3> HIDE DEF charged
    <3> QED BY <1>1, <2>1, <2>2, <3>1, RefreshedIs
  <2>4. PICK sum \in Nat : sum = state.spend + cost
    BY <1>1, <2>3 DEF StateRecords
  <2>5. states'[n] = [state EXCEPT !.spend = sum]
    BY <2>1, <2>2, <2>4 DEF RecordSpend
  <2>6. states'[n] \in StateRecords /\ states'[n].start = state.start /\ states'[n].spend = sum
    BY <2>3, <2>5 DEF StateRecords
  <2>7. state.start \in Moments /\ charges'[n][state.start] = charges[n][state.start] + cost
    <3>1. state.start \in Moments /\ state.start <= buNow'
      BY <1>1, <2>3, BudgetAssumption DEF Moments
    <3> HIDE DEF charged
    <3> QED BY <1>3, <1>6, <2>1, <3>1
  <2>8. \A t \in Moments : t > buNow' => charges'[n][t] = 0
    <3>1. \A t \in Moments : t > buNow => charges[n][t] = 0
      BY <2>1 DEF BudgetInv
    <3>2. \A t \in Moments : t > buNow' => t > buNow /\ ~(t <= buNow')
      BY <1>1 DEF Moments
    <3> HIDE DEF charged
    <3> QED BY <1>3, <1>6, <2>1, <3>1, <3>2
  <2> QED BY <2>1, <2>3, <2>4, <2>6, <2>7, <2>8, <1>1 DEF should_reset, NoState
<1>7. states' \in [Names -> StateRecords]
  <2>1. states' = [n \in Names |-> states'[n]]
    BY DEF RecordSpend
  <2> QED BY <1>5, <1>6, <2>1 DEF BudgetInv
<1>8. \A n \in Names : states'[n] # NoState =>
         states'[n].start \in 0..buNow' /\ states'[n].spend = charges'[n][states'[n].start]
  BY <1>1, <1>5, <1>6 DEF BudgetInv, Moments
<1>9. \A n \in Names : \A t \in Moments : t > buNow' => charges'[n][t] = 0
  BY <1>1, <1>5, <1>6 DEF BudgetInv, Moments
<1>10. \A n \in Names : /\ budgets[n] = None => states'[n] = NoState
                        /\ states'[n] = NoState => \A t \in Moments : charges'[n][t] = 0
  BY <1>5, <1>6 DEF BudgetInv
<1>11. \A n \in Names : should_reset(n, states'[n], buNow') => charges'[n][buNow'] = 0
  BY <1>5, <1>6
<1> HIDE DEF charged
<1> QED BY <1>1, <1>2, <1>4, <1>7, <1>8, <1>9, <1>10, <1>11 DEF BudgetInv, should_reset

\* Each name's state is looked at, begins again, or stays.
LEMMA LooksKeep ==
    ASSUME BudgetInv, Tick, UNCHANGED <<budgets, charges>>,
           states' = [n \in Names |-> states'[n]],
           \A n \in Names :
             \/ states'[n] = states[n]
             \/ budgets[n] # None /\ states'[n] = refreshed(n, buNow')
             \/ states[n] # NoState /\ states'[n] = [spend |-> 0, start |-> buNow']
    PROVE  BudgetInv'
<1>1. /\ buNow' \in Moments /\ buNow' > buNow /\ buNow \in Nat
  BY TickIs
<1>2. \A n \in Names : \A t \in Moments : t >= buNow' => charges[n][t] = 0
  BY LaterKeeps
<1>3. ASSUME NEW n \in Names
      PROVE  /\ states'[n] \in StateRecords
             /\ budgets[n] = None => states'[n] = NoState
             /\ states'[n] = NoState => states[n] = NoState
             /\ states'[n] # NoState =>
                  states'[n].start \in 0..buNow' /\ states'[n].spend = charges[n][states'[n].start]
  <2>1. CASE states'[n] = states[n]
    BY <1>1, <2>1 DEF BudgetInv, Moments
  <2>2. CASE budgets[n] # None /\ states'[n] = refreshed(n, buNow')
    <3>1. charges[n][buNow'] = 0
      <4>1. buNow' >= buNow'
        BY <1>1 DEF Moments
      <4> QED BY <1>1, <1>2, <4>1
    <3>2. buNow' >= buNow
      BY <1>1 DEF Moments
    <3>3. /\ states'[n] \in StateRecords /\ states'[n] # NoState /\ states'[n].start \in 0..buNow'
          /\ states'[n].spend = charges[n][states'[n].start]
      BY <1>1, <2>2, <3>1, <3>2, RefreshedIs
    <3> QED BY <2>2, <3>3
  <2>3. CASE states[n] # NoState /\ states'[n] = [spend |-> 0, start |-> buNow']
    <3>1. charges[n][buNow'] = 0 /\ buNow' \in 0..buNow' /\ buNow' \in Int /\ buNow' # -1
      <4>1. buNow' >= buNow'
        BY <1>1 DEF Moments
      <4> QED BY <1>1, <1>2, <4>1 DEF Moments
    <3>2. /\ states'[n] \in StateRecords /\ states'[n].spend = 0 /\ states'[n].start = buNow'
          /\ states'[n].start # NoState.start
      BY <2>3, <3>1 DEF StateRecords, NoState
    <3>3. budgets[n] # None
      BY <2>3 DEF BudgetInv
    <3> QED BY <3>1, <3>2, <3>3
  <2> QED BY <2>1, <2>2, <2>3
<1> QED BY <1>1, <1>2, <1>3 DEF BudgetInv, should_reset, Moments

LEMMA BudgetStep ==
    ASSUME BudgetInv, [BuNext]_buvars
    PROVE  BudgetInv'
<1>1. ASSUME NEW looked, Check(looked)
      PROVE  BudgetInv'
  BY <1>1, LooksKeep DEF Check
<1>2. ASSUME NEW resets, Reset(resets)
      PROVE  BudgetInv'
  BY <1>2, LooksKeep DEF Reset
<1>3. CASE UNCHANGED buvars
  BY <1>3 DEF buvars, BudgetInv, should_reset
<1> QED
  BY <1>1, <1>2, <1>3, SetBudgetKeeps, RemoveBudgetKeeps, RecordSpendKeeps DEF BuNext

LEMMA BudgetSound == BudgetInv => BuTypeOK /\ SpendIsThePeriods
<1> SUFFICES ASSUME BudgetInv PROVE BuTypeOK /\ SpendIsThePeriods
  OBVIOUS
<1>1. BuTypeOK
  BY DEF BudgetInv, BuTypeOK, StateRecords, BudgetRecords, NoState, Moments
<1>2. ASSUME NEW n \in Names, budgets[n] # None
      PROVE  /\ spent(n) = charges[n][refreshed(n, buNow).start]
             /\ budgets[n].period > 0 => buNow - refreshed(n, buNow).start < budgets[n].period
  <2>1. PICK state \in StateRecords : state = refreshed(n, buNow)
    BY <1>2, RefreshedIs DEF BudgetInv, Moments
  <2>2. state.start \in 0..buNow /\ state.spend = charges[n][state.start] /\ ~should_reset(n, state, buNow)
    BY <1>2, <2>1, RefreshedIs DEF BudgetInv, Moments
  <2>3. budgets[n].period \in Nat /\ buNow \in Nat
    BY <1>2 DEF BudgetInv, BudgetRecords, Moments
  <2> QED BY <2>1, <2>2, <2>3 DEF spent, should_reset
<1> QED BY <1>1, <1>2 DEF SpendIsThePeriods

-----------------------------------------------------------------------------
(* The start-up and the shutdown.                                          *)

\* Which steps of the start-up survive a failure, where the callbacks come among them,
\* and what of what they open the shutdown knows to close.
StepFacts(i, step) ==
    /\ step.caught => step.part \in {"database", "redis"}
    /\ step.part \in {"database", "plugins"} => i < 18
    /\ step.part = "callbacks" <=> i = 18
    /\ \/ step.opens \in NeverClosed \cup {Nothing}
       \/ \E j \in 1..7 : ShutdownSteps[j].part = step.part /\ ShutdownSteps[j].closes = step.opens

LEMMA StepsFacts ==
    /\ DOMAIN Steps = 1..20 /\ Len(Steps) = 20 /\ Len(ShutdownSteps) = 7
    /\ \A i \in 1..20 : StepFacts(i, Steps[i])
<1>1. DOMAIN Steps = 1..20 /\ Len(Steps) = 20
  BY DEF Steps, CoreSteps, RoutingSteps, ServiceSteps, EdgeSteps
<1>2. Len(ShutdownSteps) = 7
  BY DEF ShutdownSteps
<1>3. \A i \in 1..20 : Steps[i].caught => Steps[i].part \in {"database", "redis"}
  BY DEF Steps, CoreSteps, RoutingSteps, ServiceSteps, EdgeSteps, Part
<1>4. \A i \in 1..20 :
        /\ Steps[i].part \in {"database", "plugins"} => i < 18
        /\ Steps[i].part = "callbacks" <=> i = 18
  BY DEF Steps, CoreSteps, RoutingSteps, ServiceSteps, EdgeSteps, Part
<1>5. \A i \in 1..20 :
        \/ Steps[i].opens \in NeverClosed \cup {Nothing}
        \/ \E j \in 1..7 : /\ ShutdownSteps[j].part = Steps[i].part
                          /\ ShutdownSteps[j].closes = Steps[i].opens
  BY SMTT(30) DEF Steps, CoreSteps, RoutingSteps, ServiceSteps, EdgeSteps, NeverClosed, Nothing,
                  ShutdownSteps, Closing, Part
<1>6. ASSUME NEW i \in 1..20 PROVE StepFacts(i, Steps[i])
  BY <1>3, <1>4, <1>5 DEF StepFacts
<1> QED BY <1>1, <1>2, <1>6

\* What the parts of the steps so far have come to, and who is called back.
Prepared(i) ==
    Steps[i].part \in configured => Steps[i].part \in present \cup {"database", "redis"}
CalledBack ==
    /\ "spend_log" \in called_back <=> "database" \in present
    /\ "plugin" \in called_back <=> "plugins" \in present

\* What is open and can be closed is closed by a step of the shutdown from the n-th on.
ClosedFrom(n) ==
    \A o \in open \ (NeverClosed \cup unclosed) : \E j \in n..7 :
        ShutdownSteps[j].closes = o /\ ShutdownSteps[j].part \in present

LifecycleInv ==
    /\ AlTypeOK
    /\ Always \subseteq configured
    /\ \A p \in configured : \E i \in 1..20 : Steps[i].part = p
    /\ phase = "starting" =>
         /\ \A i \in 1..20 : i < next_step => Prepared(i)
         /\ next_step > 18 => CalledBack
    /\ phase = "serving" => next_step = 1 /\ (\A i \in 1..20 : Prepared(i)) /\ CalledBack
    /\ phase \in {"stopping", "aborted"} => next_step \in 1..7
    /\ phase \in {"starting", "serving"} => ClosedFrom(1)
    /\ phase = "stopping" => ClosedFrom(next_step)
    /\ phase = "stopped" => open \subseteq NeverClosed \cup unclosed
    /\ phase = "aborted" => ClosedFrom(next_step + 1)

LEMMA LifecycleInit == AlInit => LifecycleInv
<1> SUFFICES ASSUME AlInit PROVE LifecycleInv
  OBVIOUS
<1>1. \A p \in Always : \E i \in 1..20 : Steps[i].part = p
  <2>1. /\ 1 \in 1..20 /\ 3 \in 1..20 /\ 18 \in 1..20
        /\ Steps[1].part = "database" /\ Steps[3].part = "router" /\ Steps[18].part = "callbacks"
    BY DEF Steps, CoreSteps, RoutingSteps, ServiceSteps, EdgeSteps, Part
  <2> QED BY <2>1 DEF Always
<1>2. \A p \in configured : \E i \in 1..20 : Steps[i].part = p
  BY <1>1, LifecycleAssumption, StepsFacts DEF AlInit
<1>3. AlTypeOK
  BY LifecycleAssumption, StepsFacts DEF AlInit, AlTypeOK
<1> QED BY <1>2, <1>3 DEF AlInit, LifecycleInv, ClosedFrom

LEMMA StepDoneKeeps ==
    ASSUME LifecycleInv, StepDone
    PROVE  LifecycleInv'
<1>1. PICK step : step = Steps[next_step]
  OBVIOUS
<1>2. /\ phase = "starting" /\ next_step \in 1..20 /\ StepFacts(next_step, step)
      /\ UNCHANGED <<configured, backend_is, unclosed, failures>>
  BY <1>1, StepsFacts DEF StepDone, LifecycleInv, AlTypeOK
<1>3. /\ present \subseteq present' /\ present' \subseteq present \cup {step.part}
      /\ present' \subseteq configured
      /\ step.part \in configured => step.part \in present'
      /\ open' \subseteq open \cup ({step.opens} \ {Nothing})
      /\ step.part \notin configured => UNCHANGED <<present, open, called_back>>
      /\ step.part # "callbacks" => UNCHANGED called_back
      /\ step.part = "callbacks" /\ step.part \in configured => called_back' = Registered
  BY <1>1 DEF StepDone, Opened, LifecycleInv, AlTypeOK
<1>4. /\ next_step < 20 => next_step' = next_step + 1 /\ phase' = "starting"
      /\ next_step = 20 => next_step' = 1 /\ phase' = "serving"
  BY <1>2, StepsFacts DEF StepDone, Advance_to
<1>5. AlTypeOK'
  BY <1>2, <1>3, <1>4, StepsFacts DEF LifecycleInv, AlTypeOK
<1>6. \A i \in 1..20 : i <= next_step => Prepared(i)'
  BY <1>1, <1>2, <1>3 DEF LifecycleInv, Prepared
<1>7. next_step >= 18 => CalledBack'
  <2>1. CASE next_step = 18
    <3>1. step.part = "callbacks" /\ step.part \in configured
      BY <1>2, <2>1 DEF StepFacts, LifecycleInv, Always
    <3>2. "database" \in present' <=> "database" \in present
      BY <1>3, <3>1
    <3>3. "plugins" \in present' <=> "plugins" \in present
      BY <1>3, <3>1
    <3> QED BY <1>3, <3>1, <3>2, <3>3 DEF CalledBack, Registered
  <2>2. CASE next_step > 18
    <3>1. step.part \notin {"database", "plugins", "callbacks"} /\ CalledBack
      BY <1>2, <2>2 DEF StepFacts, LifecycleInv
    <3> QED BY <1>3, <3>1 DEF CalledBack
  <2> QED BY <1>2, <2>1, <2>2
<1>8. ClosedFrom(1)'
  <2> SUFFICES ASSUME NEW o \in open' \ (NeverClosed \cup unclosed)
               PROVE  \E j \in 1..7 : ShutdownSteps[j].closes = o /\ ShutdownSteps[j].part \in present'
    BY <1>2 DEF ClosedFrom
  <2>1. CASE o \in open
    BY <1>2, <1>3, <2>1 DEF LifecycleInv, ClosedFrom
  <2>2. CASE o \notin open
    <3>1. o = step.opens /\ o # Nothing /\ step.part \in present'
      BY <1>3, <2>2
    <3> QED BY <1>2, <3>1 DEF StepFacts
  <2> QED BY <2>1, <2>2
<1>9. CASE next_step < 20
  <2>1. \A i \in 1..20 : i < next_step' => i <= next_step
    BY <1>2, <1>4, <1>9
  <2>2. next_step' > 18 => next_step >= 18
    BY <1>2, <1>4, <1>9
  <2> QED BY <1>2, <1>4, <1>5, <1>6, <1>7, <1>8, <1>9, <2>1, <2>2 DEF LifecycleInv
<1>10. CASE next_step = 20
  <2>1. \A i \in 1..20 : i <= next_step
    BY <1>10
  <2> QED BY <1>2, <1>4, <1>5, <1>6, <1>7, <1>8, <1>10, <2>1 DEF LifecycleInv
<1> QED BY <1>2, <1>9, <1>10

LEMMA StepFailsKeeps ==
    ASSUME LifecycleInv, StepFails
    PROVE  LifecycleInv'
<1>1. PICK step : step = Steps[next_step]
  OBVIOUS
<1>2. /\ phase = "starting" /\ next_step \in 1..20 /\ StepFacts(next_step, step)
      /\ step.part \in configured /\ failures' \in 1..AlMaxFailures
      /\ UNCHANGED <<configured, backend_is, present, called_back, unclosed>>
  BY <1>1, StepsFacts, LifecycleAssumption DEF StepFails, LifecycleInv, AlTypeOK
<1>3. CASE step.caught
  <2>1. phase' = "starting" /\ step.part \in {"database", "redis"} /\ next_step < 18
    <3>1. step.part \in {"database", "redis"} /\ UNCHANGED phase
      BY <1>1, <1>2, <1>3 DEF StepFails, StepFacts
    <3>2. \A i \in 1..20 : Steps[i].part = "redis" => i < 18
      BY DEF Steps, CoreSteps, RoutingSteps, ServiceSteps, EdgeSteps, Part
    <3> QED BY <1>1, <1>2, <3>1, <3>2 DEF StepFacts
  <2>2. next_step' = next_step + 1
    BY <1>1, <1>2, <1>3, <2>1, StepsFacts DEF StepFails, Advance_to
  <2>3. \A i \in 1..20 : i < next_step' => i < next_step \/ i = next_step
    BY <1>2, <2>2
  <2>4. \A i \in 1..20 : i < next_step' => Prepared(i)'
    BY <1>1, <1>2, <2>1, <2>3 DEF LifecycleInv, Prepared
  <2>5. AlTypeOK'
    BY <1>2, <2>1, <2>2, StepsFacts DEF LifecycleInv, AlTypeOK
  <2>6. ~(next_step' > 18) /\ open' \subseteq open \cup {"orphan_engine"}
    BY <1>1, <1>2, <1>3, <2>1, <2>2 DEF StepFails
  <2>7. ClosedFrom(1)'
    BY <1>2, <2>6 DEF LifecycleInv, ClosedFrom, NeverClosed
  <2> QED BY <1>2, <2>1, <2>4, <2>5, <2>6, <2>7 DEF LifecycleInv
<1>4. CASE ~step.caught
  <2>1. phase' = "failed" /\ UNCHANGED <<next_step, open>> /\ failures' \in 0..AlMaxFailures
    BY <1>1, <1>2, <1>4 DEF StepFails
  <2> QED BY <1>2, <2>1 DEF LifecycleInv, AlTypeOK
<1> QED BY <1>3, <1>4

\* What a step of the shutdown leaves open is for a later one to close.
ClosingLeaves ==
    \A o \in open' \ (NeverClosed \cup unclosed') : \E j \in 1..7 :
        j > next_step /\ ShutdownSteps[j].closes = o /\ ShutdownSteps[j].part \in present

LEMMA ClosesKeep ==
    ASSUME LifecycleInv, Stop \/ CloseDone \/ CloseFails
    PROVE  LifecycleInv'
<1>1. UNCHANGED <<configured, backend_is, present, called_back>>
  BY DEF Stop, CloseDone, CloseFails
<1>2. CASE Stop
  BY <1>1, <1>2, StepsFacts DEF Stop, LifecycleInv, AlTypeOK, ClosedFrom
<1>3. ASSUME phase = "stopping" PROVE next_step \in 1..7 /\ ClosedFrom(next_step)
  BY <1>3 DEF LifecycleInv
<1>4. ASSUME phase = "stopping", Next_closing
      PROVE  /\ next_step < 7 => next_step' = next_step + 1 /\ phase' = "stopping"
             /\ next_step = 7 => next_step' = 1 /\ phase' = "stopped"
  BY <1>3, <1>4, StepsFacts DEF Next_closing, Advance_to
<1>5. ASSUME phase = "stopping", Next_closing, ClosingLeaves, AlTypeOK'
      PROVE  LifecycleInv'
  <2>1. CASE next_step < 7
    <3>1. next_step' = next_step + 1 /\ phase' = "stopping"
      BY <1>4, <1>5, <2>1
    <3>2. \A j \in 1..7 : j > next_step => j \in next_step'..7
      BY <1>3, <1>5, <2>1, <3>1
    <3>3. ClosedFrom(next_step)'
      BY <1>1, <1>5, <3>2 DEF ClosedFrom, ClosingLeaves
    <3> QED BY <1>1, <1>3, <1>5, <2>1, <3>1, <3>3 DEF LifecycleInv
  <2>2. CASE next_step = 7
    <3>1. next_step' = 1 /\ phase' = "stopped"
      BY <1>4, <1>5, <2>2
    <3>2. open' \subseteq NeverClosed \cup unclosed'
      BY <1>5, <2>2 DEF ClosingLeaves
    <3> QED BY <1>1, <1>5, <3>1, <3>2 DEF LifecycleInv
  <2> QED BY <1>3, <1>5, <2>1, <2>2
<1>6. CASE CloseDone
  <2>1. PICK step : step = ShutdownSteps[next_step]
    OBVIOUS
  <2>2. /\ phase = "stopping" /\ UNCHANGED <<unclosed, failures>> /\ Next_closing
        /\ open' = IF step.part \in present THEN open \ {step.closes} ELSE open
    BY <1>6, <2>1 DEF CloseDone
  <2>3. ClosingLeaves
    BY <1>3, <2>1, <2>2 DEF ClosedFrom, ClosingLeaves
  <2>4. AlTypeOK'
    BY <1>1, <1>3, <1>4, <2>2, StepsFacts DEF LifecycleInv, AlTypeOK
  <2> QED BY <1>5, <2>2, <2>3, <2>4
<1>7. CASE CloseFails
  <2>1. PICK step : step = ShutdownSteps[next_step]
    OBVIOUS
  <2>2. /\ phase = "stopping" /\ failures' \in 0..AlMaxFailures /\ UNCHANGED open
        /\ unclosed' = unclosed \cup {step.closes}
        /\ \/ Next_closing
           \/ phase' = "aborted" /\ UNCHANGED next_step
    BY <1>7, <2>1, LifecycleAssumption DEF CloseFails, LifecycleInv, AlTypeOK
  <2>3. ClosingLeaves
    BY <1>3, <2>1, <2>2 DEF ClosedFrom, ClosingLeaves
  <2>4. CASE Next_closing
    <3>1. AlTypeOK'
      BY <1>1, <1>3, <1>4, <2>2, <2>4, StepsFacts DEF LifecycleInv, AlTypeOK
    <3> QED BY <1>5, <2>2, <2>3, <2>4, <3>1
  <2>5. CASE phase' = "aborted" /\ UNCHANGED next_step
    <3>1. \A j \in 1..7 : j > next_step => j \in (next_step + 1)..7
      BY <1>3, <2>2
    <3>2. ClosedFrom(next_step + 1)'
      BY <1>1, <2>3, <2>5, <3>1 DEF ClosedFrom, ClosingLeaves
    <3> QED BY <1>1, <1>3, <2>2, <2>5, <3>2 DEF LifecycleInv, AlTypeOK
  <2> QED BY <2>2, <2>4, <2>5
<1> QED BY <1>2, <1>6, <1>7

LEMMA LifecycleStep ==
    ASSUME LifecycleInv, [AlNext]_alvars
    PROVE  LifecycleInv'
<1>1. CASE UNCHANGED alvars
  BY <1>1 DEF alvars, LifecycleInv, AlTypeOK, Prepared, CalledBack, ClosedFrom
<1> QED BY <1>1, StepDoneKeeps, StepFailsKeeps, ClosesKeep DEF AlNext

LEMMA LifecycleHolds == LifecycleInv => ServesWhatItHas /\ ShutdownCloses
<1> SUFFICES ASSUME LifecycleInv PROVE ServesWhatItHas /\ ShutdownCloses
  OBVIOUS
<1>1. ServesWhatItHas
  BY DEF LifecycleInv, ServesWhatItHas, Prepared, CalledBack
<1>2. ShutdownCloses
  <2>1. DOMAIN ShutdownSteps = 1..7
    BY DEF ShutdownSteps
  <2>2. \A j \in 1..7 : phase = "aborted" /\ j \in (next_step + 1)..7 => j > next_step
    BY DEF LifecycleInv
  <2> QED BY <2>1, <2>2 DEF LifecycleInv, ShutdownCloses, ClosedFrom
<1> QED BY <1>1, <1>2

\* A function that is computed step by step exists.
Computable(L, T, start, step) ==
    \E f \in [0..L -> T] : f = [i \in 0..L |-> IF i = 0 THEN start ELSE step[i][f[i - 1]]]

LEMMA StepByStep ==
    ASSUME NEW L \in Nat, NEW T, NEW start \in T, NEW step \in [1..L -> [T -> T]]
    PROVE  Computable(L, T, start, step)
<1> DEFINE S == {m \in 0..L : \E f \in [0..m -> T] :
                    \A i \in 0..m : f[i] = IF i = 0 THEN start ELSE step[i][f[i - 1]]}
<1>1. 0 \in S
  <2>1. PICK f : f = [i \in 0..0 |-> start]
    OBVIOUS
  <2>2. f \in [0..0 -> T] /\ \A i \in 0..0 : f[i] = IF i = 0 THEN start ELSE step[i][f[i - 1]]
    BY <2>1
  <2> QED BY <2>2
<1>2. ASSUME NEW m \in 1..L, m - 1 \in S PROVE m \in S
  <2>1. PICK f \in [0..(m - 1) -> T] : \A i \in 0..(m - 1) : f[i] = IF i = 0 THEN start ELSE step[i][f[i - 1]]
    BY <1>2
  <2>2. PICK f2 : f2 = [i \in 0..m |-> IF i = m THEN step[m][f[m - 1]] ELSE f[i]]
    OBVIOUS
  <2>3. \A i \in 0..(m - 1) : f2[i] = f[i] /\ f[i] \in T
    BY <2>1, <2>2
  <2>4. f2[m] = step[m][f[m - 1]] /\ step[m][f[m - 1]] \in T /\ f2[m - 1] = f[m - 1]
    <3>1. m \in 0..m /\ m - 1 \in 0..(m - 1)
      OBVIOUS
    <3>2. f[m - 1] \in T /\ step[m] \in [T -> T]
      BY <2>1, <3>1
    <3> QED BY <2>2, <2>3, <3>1, <3>2
  <2>5. f2 \in [0..m -> T]
    <3>1. \A i \in 0..m : f2[i] \in T
      BY <2>3, <2>4
    <3> QED BY <2>2, <3>1
  <2>6. ASSUME NEW i \in 0..m PROVE f2[i] = IF i = 0 THEN start ELSE step[i][f2[i - 1]]
    <3>1. CASE i = m
      BY <2>4, <3>1
    <3>2. CASE i = 0
      BY <2>1, <2>3, <3>2
    <3>3. CASE i # m /\ i # 0
      <4>1. i \in 0..(m - 1) /\ i - 1 \in 0..(m - 1)
        BY <3>3
      <4> QED BY <2>1, <2>3, <3>3, <4>1
    <3> QED BY <3>1, <3>2, <3>3
  <2> QED BY <2>5, <2>6
<1>3. L \in S
  <2> HIDE DEF S
  <2>1. \A n \in 0..L : n \in S
    BY <1>1, <1>2, Climb
  <2> QED BY <2>1
<1>4. PICK f \in [0..L -> T] : \A i \in 0..L : f[i] = IF i = 0 THEN start ELSE step[i][f[i - 1]]
  BY <1>3
<1>5. f = [i \in 0..L |-> IF i = 0 THEN start ELSE step[i][f[i - 1]]]
  BY <1>4
<1> QED BY <1>5 DEF Computable

-----------------------------------------------------------------------------
(* The guardrails.                                                         *)

\* What a guardrail that works lets pass holds nothing of what it keeps out.
Passes(guard, messages) ==
    guard.works => \A i \in DOMAIN messages : messages[i].plain => messages[i].text \cap keeps_out(guard) = {}
PassesOut(guard, content) == guard.works /\ guard.responses => content \cap keeps_out(guard) = {}

\* Messages of which only some of the text was taken out.
Cut(messages, cut) ==
    /\ DOMAIN cut = DOMAIN messages
    /\ \A i \in DOMAIN messages : cut[i].plain = messages[i].plain /\ cut[i].text \subseteq messages[i].text

Screening == [action : {"allow", "block", "modify"}, content : Messages]
Checking  == [action : {"allow", "block", "modify"}, content : SUBSET Taints]

LEMMA CutPasses ==
    ASSUME NEW guard, NEW M, NEW N, Passes(guard, M), Cut(M, N)
    PROVE  Passes(guard, N)
BY DEF Passes, Cut

LEMMA MessagesAre ==
    ASSUME NEW M \in Messages
    PROVE  /\ \A i \in DOMAIN M : M[i] \in [text : SUBSET Taints, plain : BOOLEAN]
           /\ DOMAIN M = 1..Len(M) /\ Len(M) \in Nat
<1>1. PICK T : T = [text : SUBSET Taints, plain : BOOLEAN]
  OBVIOUS
<1>2. M \in Seq(T)
  BY <1>1 DEF Messages
<1>3. (\A i \in DOMAIN M : M[i] \in T) /\ DOMAIN M = 1..Len(M) /\ Len(M) \in Nat
  BY <1>2
<1> QED BY <1>1, <1>3

LEMMA CleanedMessages ==
    ASSUME NEW guard \in Guards, NEW M \in Messages, NEW P, NEW v, v = check_and_clean(guard, P, M)
    PROVE  \/ v = ALLOW /\ \A i \in DOMAIN M : M[i].plain => M[i].text \cap P = {}
           \/ v = BLOCK
           \/ \E N \in Messages : /\ v = MODIFY(N) /\ Cut(M, N)
                                  /\ \A i \in DOMAIN N : N[i].plain => N[i].text \cap P = {}
<1>1. PICK hit : hit = {i \in plain(M) : P \cap M[i].text # {}}
  OBVIOUS
<1>2. PICK N : N = [i \in DOMAIN M |-> IF i \in hit THEN [M[i] EXCEPT !.text = @ \ P] ELSE M[i]]
  OBVIOUS
<1>3. v = IF hit = {} THEN ALLOW ELSE IF guard.mode = "block" THEN BLOCK ELSE MODIFY(N)
  BY <1>1, <1>2 DEF check_and_clean
<1>4. CASE hit = {}
  <2>1. \A i \in DOMAIN M : M[i].plain => M[i].text \cap P = {}
    BY <1>1, <1>4 DEF plain
  <2> QED BY <1>3, <1>4, <2>1
<1>5. CASE hit # {} /\ guard.mode = "block"
  BY <1>3, <1>5
<1>6. CASE hit # {} /\ guard.mode # "block"
  <2>1. ASSUME NEW i \in DOMAIN M
        PROVE  /\ N[i] \in [text : SUBSET Taints, plain : BOOLEAN]
               /\ N[i].plain = M[i].plain /\ N[i].text \subseteq M[i].text
               /\ N[i].plain => N[i].text \cap P = {}
    <3>1. M[i] \in [text : SUBSET Taints, plain : BOOLEAN]
      BY MessagesAre
    <3>2. CASE i \in hit
      <4>1. N[i] = [M[i] EXCEPT !.text = @ \ P]
        BY <1>2, <3>2
      <4> QED BY <3>1, <4>1
    <3>3. CASE i \notin hit
      <4>1. N[i] = M[i]
        BY <1>2, <3>3
      <4>2. M[i].plain => M[i].text \cap P = {}
        BY <1>1, <3>3 DEF plain
      <4> QED BY <3>1, <4>1, <4>2
    <3> QED BY <3>2, <3>3
  <2>2. DOMAIN N = DOMAIN M
    BY <1>2
  <2>3. N \in Messages
    <3>1. N \in [1..Len(M) -> [text : SUBSET Taints, plain : BOOLEAN]]
      BY <1>2, <2>1, MessagesAre
    <3> QED BY <3>1, MessagesAre DEF Messages
  <2>4. Cut(M, N)
    BY <2>1, <2>2 DEF Cut
  <2> QED BY <1>3, <1>6, <2>1, <2>2, <2>3, <2>4
<1> QED BY <1>4, <1>5, <1>6

\* What a guardrail says of a request.
LEMMA GuardSays ==
    ASSUME NEW guard \in Guards, NEW M \in Messages, NEW user, NEW v, v = check_request(guard, M, user)
    PROVE  \/ v = ALLOW /\ Passes(guard, M)
           \/ v = BLOCK
           \/ \E N \in Messages : v = MODIFY(N) /\ Cut(M, N) /\ Passes(guard, N)
<1>0. guard.kind \in {"pii", "secret", "keyword", "moderation", "users"} /\ guard.works \in BOOLEAN
  BY DEF Guards
<1>1. CASE ~guard.works
  BY <1>1 DEF check_request, Passes
<1>2. CASE guard.works /\ guard.kind = "pii"
  <2>1. v = check_and_clean(guard, Pii, M) /\ keeps_out(guard) = Pii
    BY <1>2 DEF check_request, pii_check_request, keeps_out
  <2> QED BY <2>1, CleanedMessages DEF Passes
<1>3. CASE guard.works /\ guard.kind = "secret"
  <2>1. v = check_and_clean(guard, Secrets, M) /\ keeps_out(guard) = Secrets
    BY <1>3 DEF check_request, secret_check_request, keeps_out
  <2> QED BY <2>1, CleanedMessages DEF Passes
<1>4. CASE guard.works /\ guard.kind = "keyword"
  <2>1. v = keyword_check_request(M) /\ keeps_out(guard) = Keywords
    BY <1>4 DEF check_request, keeps_out
  <2>2. v = BLOCK \/ (v = ALLOW /\ \A i \in plain(M) : Keywords \cap M[i].text = {})
    BY <2>1 DEF keyword_check_request
  <2> QED BY <2>1, <2>2 DEF Passes, plain
<1>5. CASE guard.works /\ guard.kind = "moderation"
  <2>1. v = moderation_check_request(guard, M)
    BY <1>5 DEF check_request
  <2>2. keeps_out(guard) = IF guard.mode = "block" THEN Categories \ guard.tolerates ELSE {}
    BY <1>5 DEF keeps_out
  <2>3. PICK flags : flags = (Categories \cap UNION {M[i].text : i \in plain(M)}) \ guard.tolerates
    OBVIOUS
  <2>4. v = IF flags # {} /\ guard.mode = "block" THEN BLOCK ELSE ALLOW
    BY <2>1, <2>3 DEF moderation_check_request, build_result, apply_thresholds, backend_flags
  <2>5. ASSUME v = ALLOW, NEW i \in DOMAIN M, M[i].plain
        PROVE  M[i].text \cap keeps_out(guard) = {}
    <3>1. CASE guard.mode = "block"
      <4>1. flags = {}
        BY <2>4, <2>5, <3>1 DEF ALLOW, BLOCK
      <4>2. M[i].text \subseteq UNION {M[k].text : k \in plain(M)}
        BY <2>5 DEF plain
      <4> QED BY <2>2, <2>3, <3>1, <4>1, <4>2
    <3> QED BY <2>2, <3>1
  <2> QED BY <2>4, <2>5 DEF Passes
<1>6. CASE guard.works /\ guard.kind = "users"
  <2>1. v = check_user(user) /\ keeps_out(guard) = {}
    BY <1>6 DEF check_request, keeps_out
  <2> QED BY <2>1 DEF check_user, Passes
<1> QED BY <1>0, <1>1, <1>2, <1>3, <1>4, <1>5, <1>6

\* What a guardrail says of a response.
LEMMA GuardSaysOut ==
    ASSUME NEW guard \in Guards, NEW c \in SUBSET Taints, NEW v, v = check_response(guard, c)
    PROVE  \/ v = ALLOW /\ PassesOut(guard, c)
           \/ v = BLOCK
           \/ \E d \in SUBSET Taints : v = MODIFY(d) /\ d \subseteq c /\ PassesOut(guard, d)
<1>0. guard.kind \in {"pii", "secret", "keyword", "moderation", "users"} /\ guard.works \in BOOLEAN /\ guard.responses \in BOOLEAN
  BY DEF Guards
<1>1. CASE ~guard.works \/ ~guard.responses \/ guard.kind = "users"
  BY <1>1 DEF check_response, PassesOut, keeps_out
<1>2. ASSUME guard.works, guard.responses, NEW P, keeps_out(guard) = P, v = clean(guard, P, c)
      PROVE  \/ v = ALLOW /\ PassesOut(guard, c)
             \/ v = BLOCK
             \/ \E d \in SUBSET Taints : v = MODIFY(d) /\ d \subseteq c /\ PassesOut(guard, d)
  <2>1. CASE P \cap c = {}
    BY <1>2, <2>1 DEF clean, PassesOut
  <2>2. CASE P \cap c # {} /\ guard.mode = "block"
    BY <1>2, <2>2 DEF clean
  <2>3. CASE P \cap c # {} /\ guard.mode # "block"
    <3>1. v = MODIFY(c \ P)
      BY <1>2, <2>3 DEF clean
    <3>2. c \ P \in SUBSET Taints /\ c \ P \subseteq c /\ PassesOut(guard, c \ P)
      BY <1>2 DEF PassesOut
    <3> QED BY <3>1, <3>2
  <2> QED BY <2>1, <2>2, <2>3
<1>3. CASE guard.works /\ guard.responses /\ guard.kind = "pii"
  <2>1. v = clean(guard, Pii, c) /\ keeps_out(guard) = Pii
    BY <1>3 DEF check_response, pii_check_response, keeps_out
  <2> QED BY <1>2, <1>3, <2>1
<1>4. CASE guard.works /\ guard.responses /\ guard.kind = "secret"
  <2>1. v = clean(guard, Secrets, c) /\ keeps_out(guard) = Secrets
    BY <1>4 DEF check_response, secret_check_response, keeps_out
  <2> QED BY <1>2, <1>4, <2>1
<1>5. CASE guard.works /\ guard.responses /\ guard.kind = "keyword"
  <2>1. v = keyword_check_response(c) /\ keeps_out(guard) = Keywords
    BY <1>5 DEF check_response, keeps_out
  <2> QED BY <2>1 DEF keyword_check_response, PassesOut
<1>6. CASE guard.works /\ guard.responses /\ guard.kind = "moderation"
  <2>1. v = moderation_check_response(guard, c)
    BY <1>6 DEF check_response
  <2>2. keeps_out(guard) = IF guard.mode = "block" THEN Categories \ guard.tolerates ELSE {}
    BY <1>6 DEF keeps_out
  <2>3. v = IF (Categories \cap c) \ guard.tolerates # {} /\ guard.mode = "block" THEN BLOCK ELSE ALLOW
    BY <2>1 DEF moderation_check_response, build_result, apply_thresholds, backend_flags
  <2> QED BY <2>2, <2>3 DEF PassesOut, ALLOW, BLOCK
<1> QED BY <1>0, <1>1, <1>3, <1>4, <1>5, <1>6

\* One turn of a pipeline.
RequestStep(gs, user) == [i \in 1..Len(gs) |-> [r \in Screening |-> turn(r, gs[i], check_request(gs[i], r.content, user))]]
ResponseStep(gs)      == [i \in 1..Len(gs) |-> [r \in Checking |-> turn(r, gs[i], check_response(gs[i], r.content))]]

\* What is asked after the first n guardrails has passed those of them that are enabled.
PassedRequest(gs, n, r)  == r.action # "block" => \A j \in 1..n : gs[j].enabled => Passes(gs[j], r.content)
PassedResponse(gs, n, r) == r.action # "block" => \A j \in 1..n : gs[j].enabled => PassesOut(gs[j], r.content)

LEMMA RequestTurn ==
    ASSUME NEW gs \in Seq(Guards), NEW user, NEW r \in Screening, NEW n \in 1..Len(gs), PassedRequest(gs, n - 1, r),
           NEW q, q = turn(r, gs[n], check_request(gs[n], r.content, user))
    PROVE  q \in Screening /\ PassedRequest(gs, n, q)
<1>1. PICK guard \in Guards, M \in Messages : guard = gs[n] /\ M = r.content
  BY DEF Screening
<1>2. PICK v : v = check_request(guard, M, user)
  OBVIOUS
<1>3. q = turn(r, guard, v) /\ guard.enabled \in BOOLEAN
  BY <1>1, <1>2 DEF Guards
<1>4. \A j \in 1..n : j \in 1..(n - 1) \/ j = n
  OBVIOUS
<1>5. CASE ~guard.enabled \/ r.action = "block"
  BY <1>1, <1>3, <1>4, <1>5 DEF turn, PassedRequest
<1>6. CASE guard.enabled /\ r.action # "block"
  <2>1. CASE v = ALLOW /\ Passes(guard, M)
    BY <1>1, <1>3, <1>4, <1>6, <2>1 DEF turn, PassedRequest, ALLOW
  <2>2. CASE v = BLOCK
    <3>1. q = [r EXCEPT !.action = "block"]
      BY <1>3, <1>6, <2>2 DEF turn, BLOCK
    <3> QED BY <3>1 DEF PassedRequest, Screening
  <2>3. CASE \E N \in Messages : v = MODIFY(N) /\ Cut(M, N) /\ Passes(guard, N)
    <3>1. PICK N \in Messages : v = MODIFY(N) /\ Cut(M, N) /\ Passes(guard, N)
      BY <2>3
    <3>2. q = [action |-> "modify", content |-> N]
      BY <1>3, <1>6, <3>1 DEF turn, MODIFY
    <3>3. \A j \in 1..(n - 1) : gs[j].enabled => Passes(gs[j], N)
      BY <1>1, <1>6, <3>1, CutPasses DEF PassedRequest
    <3> QED BY <1>1, <1>4, <3>1, <3>2, <3>3 DEF PassedRequest, Screening
  <2> QED BY <1>2, <2>1, <2>2, <2>3, GuardSays
<1> QED BY <1>5, <1>6

LEMMA ResponseTurn ==
    ASSUME NEW gs \in Seq(Guards), NEW r \in Checking, NEW n \in 1..Len(gs), PassedResponse(gs, n - 1, r),
           NEW q, q = turn(r, gs[n], check_response(gs[n], r.content))
    PROVE  q \in Checking /\ PassedResponse(gs, n, q)
<1>1. PICK guard \in Guards, c \in SUBSET Taints : guard = gs[n] /\ c = r.content
  BY DEF Checking
<1>2. PICK v : v = check_response(guard, c)
  OBVIOUS
<1>3. q = turn(r, guard, v) /\ guard.enabled \in BOOLEAN
  BY <1>1, <1>2 DEF Guards
<1>4. \A j \in 1..n : j \in 1..(n - 1) \/ j = n
  OBVIOUS
<1>5. CASE ~guard.enabled \/ r.action = "block"
  BY <1>1, <1>3, <1>4, <1>5 DEF turn, PassedResponse
<1>6. CASE guard.enabled /\ r.action # "block"
  <2>1. CASE v = ALLOW /\ PassesOut(guard, c)
    BY <1>1, <1>3, <1>4, <1>6, <2>1 DEF turn, PassedResponse, ALLOW
  <2>2. CASE v = BLOCK
    <3>1. q = [r EXCEPT !.action = "block"]
      BY <1>3, <1>6, <2>2 DEF turn, BLOCK
    <3> QED BY <3>1 DEF PassedResponse, Checking
  <2>3. CASE \E d \in SUBSET Taints : v = MODIFY(d) /\ d \subseteq c /\ PassesOut(guard, d)
    <3>1. PICK d \in SUBSET Taints : v = MODIFY(d) /\ d \subseteq c /\ PassesOut(guard, d)
      BY <2>3
    <3>2. q = [action |-> "modify", content |-> d]
      BY <1>3, <1>6, <3>1 DEF turn, MODIFY
    <3>3. \A j \in 1..(n - 1) : gs[j].enabled => PassesOut(gs[j], d)
      BY <1>1, <1>6, <3>1 DEF PassedResponse, PassesOut
    <3> QED BY <1>1, <1>4, <3>1, <3>2, <3>3 DEF PassedResponse, Checking
  <2> QED BY <1>2, <2>1, <2>2, <2>3, GuardSaysOut
<1> QED BY <1>5, <1>6

\* A request that is not refused has passed every guardrail that is enabled and works.
LEMMA RequestPasses ==
    ASSUME NEW gs \in Seq(Guards), NEW M \in Messages, NEW user
    PROVE  /\ run_request_guardrails(gs, M, user) \in Screening
           /\ PassedRequest(gs, Len(gs), run_request_guardrails(gs, M, user))
<1>1. PICK L \in Nat : L = Len(gs)
  OBVIOUS
<1>2. PICK start : start = [action |-> "allow", content |-> M]
  OBVIOUS
<1>3. start \in Screening /\ start.action = "allow" /\ start.content = M
  BY <1>2 DEF Screening
<1>4. \A n \in 1..L : gs[n] \in Guards
  BY <1>1
<1> DEFINE Upto(f) == [i \in 0..Len(gs) |->
             IF i = 0 THEN [action |-> "allow", content |-> M]
             ELSE turn(f[i - 1], gs[i], check_request(gs[i], f[i - 1].content, user))]
<1>5. ASSUME NEW n \in 1..L, NEW r \in Screening
      PROVE  turn(r, gs[n], check_request(gs[n], r.content, user)) \in Screening
  <2>1. PICK v : v = check_request(gs[n], r.content, user)
    OBVIOUS
  <2>2. \/ v = ALLOW \/ v = BLOCK \/ \E N \in Messages : v = MODIFY(N)
    <3>1. r.content \in Messages
      BY DEF Screening
    <3> QED BY <1>4, <2>1, <3>1, GuardSays
  <2>3. CASE v = ALLOW
    BY <2>1, <2>3 DEF turn, ALLOW
  <2>4. CASE v = BLOCK
    BY <2>1, <2>4 DEF turn, BLOCK, Screening
  <2>5. CASE \E N \in Messages : v = MODIFY(N)
    BY <2>1, <2>5 DEF turn, MODIFY, Screening
  <2> QED BY <2>2, <2>3, <2>4, <2>5
<1>6. PICK step : step = RequestStep(gs, user)
  OBVIOUS
<1>7. step \in [1..L -> [Screening -> Screening]]
  BY <1>1, <1>5, <1>6 DEF RequestStep
<1>8. PICK f \in [0..L -> Screening] : f = [i \in 0..L |-> IF i = 0 THEN start ELSE step[i][f[i - 1]]]
  <2>1. Computable(L, Screening, start, step)
    BY <1>3, <1>7, StepByStep
  <2> QED BY <2>1 DEF Computable
<1>9. f = Upto(f)
  <2>1. ASSUME NEW i \in 0..L, i # 0
        PROVE  step[i][f[i - 1]] = turn(f[i - 1], gs[i], check_request(gs[i], f[i - 1].content, user))
    <3>1. i \in 1..L /\ i - 1 \in 0..L
      BY <2>1
    <3>2. f[i - 1] \in Screening
      BY <3>1
    <3> QED BY <1>1, <1>6, <3>1, <3>2 DEF RequestStep
  <2>2. \A i \in 0..L : f[i] = IF i = 0 THEN start
          ELSE turn(f[i - 1], gs[i], check_request(gs[i], f[i - 1].content, user))
    BY <1>8, <2>1
  <2> QED BY <1>1, <1>2, <1>8, <2>2
<1>10. PICK h : h = CHOOSE u : u = Upto(u)
  OBVIOUS
<1>11. h = Upto(h)
  BY <1>9, <1>10
<1>12. run_request_guardrails(gs, M, user) = h[L]
  BY <1>1, <1>10 DEF run_request_guardrails
<1>13. /\ h[0] = start
       /\ \A i \in 1..L : h[i] = turn(h[i - 1], gs[i], check_request(gs[i], h[i - 1].content, user))
  BY <1>1, <1>2, <1>11
<1> DEFINE S == {n \in 0..L : h[n] \in Screening /\ PassedRequest(gs, n, h[n])}
<1>14. 0 \in S
  BY <1>3, <1>13 DEF PassedRequest
<1>15. ASSUME NEW n \in 1..L, n - 1 \in S PROVE n \in S
  <2>1. h[n - 1] \in Screening /\ PassedRequest(gs, n - 1, h[n - 1])
    BY <1>15
  <2>2. h[n] = turn(h[n - 1], gs[n], check_request(gs[n], h[n - 1].content, user))
    BY <1>13
  <2>3. h[n] \in Screening /\ PassedRequest(gs, n, h[n])
    BY <1>1, <2>1, <2>2, RequestTurn
  <2> QED BY <2>3
<1>16. L \in S
  <2> HIDE DEF S
  <2>1. \A n \in 0..L : n \in S
    BY <1>14, <1>15, Climb
  <2> QED BY <2>1
<1> QED BY <1>1, <1>12, <1>16

\* A response that is not refused has passed every guardrail that looks at responses.
LEMMA ResponsePasses ==
    ASSUME NEW gs \in Seq(Guards), NEW c \in SUBSET Taints
    PROVE  /\ run_response_guardrails(gs, c) \in Checking
           /\ PassedResponse(gs, Len(gs), run_response_guardrails(gs, c))
<1>1. PICK L \in Nat : L = Len(gs)
  OBVIOUS
<1>2. PICK start : start = [action |-> "allow", content |-> c]
  OBVIOUS
<1>3. start \in Checking /\ start.action = "allow" /\ start.content = c
  BY <1>2 DEF Checking
<1>4. \A n \in 1..L : gs[n] \in Guards
  BY <1>1
<1> DEFINE Upto(f) == [i \in 0..Len(gs) |->
             IF i = 0 THEN [action |-> "allow", content |-> c]
             ELSE turn(f[i - 1], gs[i], check_response(gs[i], f[i - 1].content))]
<1>5. ASSUME NEW n \in 1..L, NEW r \in Checking
      PROVE  turn(r, gs[n], check_response(gs[n], r.content)) \in Checking
  <2>1. PICK v : v = check_response(gs[n], r.content)
    OBVIOUS
  <2>2. \/ v = ALLOW \/ v = BLOCK \/ \E d \in SUBSET Taints : v = MODIFY(d)
    <3>1. r.content \in SUBSET Taints
      BY DEF Checking
    <3> QED BY <1>4, <2>1, <3>1, GuardSaysOut
  <2>3. CASE v = ALLOW
    BY <2>1, <2>3 DEF turn, ALLOW
  <2>4. CASE v = BLOCK
    BY <2>1, <2>4 DEF turn, BLOCK, Checking
  <2>5. CASE \E d \in SUBSET Taints : v = MODIFY(d)
    BY <2>1, <2>5 DEF turn, MODIFY, Checking
  <2> QED BY <2>2, <2>3, <2>4, <2>5
<1>6. PICK step : step = ResponseStep(gs)
  OBVIOUS
<1>7. step \in [1..L -> [Checking -> Checking]]
  BY <1>1, <1>5, <1>6 DEF ResponseStep
<1>8. PICK f \in [0..L -> Checking] : f = [i \in 0..L |-> IF i = 0 THEN start ELSE step[i][f[i - 1]]]
  <2>1. Computable(L, Checking, start, step)
    BY <1>3, <1>7, StepByStep
  <2> QED BY <2>1 DEF Computable
<1>9. f = Upto(f)
  <2>1. ASSUME NEW i \in 0..L, i # 0
        PROVE  step[i][f[i - 1]] = turn(f[i - 1], gs[i], check_response(gs[i], f[i - 1].content))
    <3>1. i \in 1..L /\ i - 1 \in 0..L
      BY <2>1
    <3>2. f[i - 1] \in Checking
      BY <3>1
    <3> QED BY <1>1, <1>6, <3>1, <3>2 DEF ResponseStep
  <2>2. \A i \in 0..L : f[i] = IF i = 0 THEN start
          ELSE turn(f[i - 1], gs[i], check_response(gs[i], f[i - 1].content))
    BY <1>8, <2>1
  <2> QED BY <1>1, <1>2, <1>8, <2>2
<1>10. PICK h : h = CHOOSE u : u = Upto(u)
  OBVIOUS
<1>11. h = Upto(h)
  BY <1>9, <1>10
<1>12. run_response_guardrails(gs, c) = h[L]
  BY <1>1, <1>10 DEF run_response_guardrails
<1>13. /\ h[0] = start
       /\ \A i \in 1..L : h[i] = turn(h[i - 1], gs[i], check_response(gs[i], h[i - 1].content))
  BY <1>1, <1>2, <1>11
<1> DEFINE S == {n \in 0..L : h[n] \in Checking /\ PassedResponse(gs, n, h[n])}
<1>14. 0 \in S
  BY <1>3, <1>13 DEF PassedResponse
<1>15. ASSUME NEW n \in 1..L, n - 1 \in S PROVE n \in S
  <2>1. h[n - 1] \in Checking /\ PassedResponse(gs, n - 1, h[n - 1])
    BY <1>15
  <2>2. h[n] = turn(h[n - 1], gs[n], check_response(gs[n], h[n - 1].content))
    BY <1>13
  <2>3. h[n] \in Checking /\ PassedResponse(gs, n, h[n])
    BY <1>1, <2>1, <2>2, ResponseTurn
  <2> QED BY <2>3
<1>16. L \in S
  <2> HIDE DEF S
  <2>1. \A n \in 0..L : n \in S
    BY <1>14, <1>15, Climb
  <2> QED BY <2>1
<1> QED BY <1>1, <1>12, <1>16

-----------------------------------------------------------------------------
(* The response cache.                                                     *)

LEMMA RemoveAtFacts ==
    ASSUME NEW S, NEW s \in Seq(S), IsInjective(s), NEW i \in 1..Len(s)
    PROVE  /\ RemoveAt(s, i) \in Seq(S) /\ Len(RemoveAt(s, i)) = Len(s) - 1
           /\ IsInjective(RemoveAt(s, i))
           /\ Range(RemoveAt(s, i)) = Range(s) \ {s[i]}
<1> DEFINE a == SubSeq(s, 1, i - 1)
           b == SubSeq(s, i + 1, Len(s))
           from(k) == IF k < i THEN k ELSE k + 1
<1>0. Len(s) \in Nat /\ i \in Nat /\ DOMAIN s = 1..Len(s)
  OBVIOUS
<1>1. /\ a \in Seq(S) /\ Len(a) = i - 1
      /\ \A k \in 1..(i - 1) : a[k] = s[k]
  BY SubSeqProperties
<1>2. /\ b \in Seq(S) /\ Len(b) = Len(s) - i
      /\ \A k \in 1..(Len(s) - i) : b[k] = s[k + i]
  BY SubSeqProperties
<1> HIDE DEF a, b
<1>3. PICK r : r = a \o b
  OBVIOUS
<1>4. /\ r \in Seq(S) /\ Len(r) = Len(a) + Len(b)
      /\ \A k \in 1..(Len(a) + Len(b)) : r[k] = IF k <= Len(a) THEN a[k] ELSE b[k - Len(a)]
  BY <1>1, <1>2, <1>3, ConcatProperties
<1>5. Len(r) = Len(s) - 1 /\ DOMAIN r = 1..(Len(s) - 1)
  BY <1>0, <1>1, <1>2, <1>4
<1>6. ASSUME NEW k \in 1..(Len(s) - 1) PROVE from(k) \in 1..Len(s) /\ from(k) # i /\ r[k] = s[from(k)]
  <2>1. CASE k < i
    <3>1. k \in 1..(i - 1) /\ k <= Len(a) /\ k \in 1..(Len(a) + Len(b)) /\ k \in 1..Len(s)
      BY <1>0, <1>1, <1>2, <2>1
    <3>2. r[k] = a[k] /\ a[k] = s[k]
      BY <1>1, <1>4, <3>1
    <3> QED BY <1>0, <2>1, <3>1, <3>2
  <2>2. CASE ~(k < i)
    <3>1. k - (i - 1) \in 1..(Len(s) - i) /\ (k - (i - 1)) + i = k + 1 /\ k + 1 \in 1..Len(s)
      BY <1>0, <2>2
    <3>2. b[k - (i - 1)] = s[k + 1]
      BY <1>2, <3>1
    <3>3. r[k] = b[k - (i - 1)]
      <4>1. k \in 1..(Len(a) + Len(b)) /\ ~(k <= Len(a))
        BY <1>0, <1>1, <1>2, <2>2
      <4> QED BY <1>1, <1>4, <4>1
    <3> QED BY <1>0, <2>2, <3>1, <3>2, <3>3
  <2> QED BY <2>1, <2>2
<1>7. \A m \in 1..Len(s) : m # i => \E k \in 1..(Len(s) - 1) : from(k) = m
  <2> TAKE m \in 1..Len(s)
  <2>1. m < i => m \in 1..(Len(s) - 1) /\ from(m) = m
    BY <1>0
  <2>2. m > i => m - 1 \in 1..(Len(s) - 1) /\ from(m - 1) = m
    BY <1>0
  <2> QED BY <1>0, <2>1, <2>2
<1>8. \A k, m \in 1..(Len(s) - 1) : from(k) = from(m) => k = m
  BY <1>0
<1> HIDE DEF from
<1>9. \A m \in 1..Len(s) : s[m] = s[i] => m = i
  BY <1>0 DEF IsInjective
<1>10. IsInjective(r)
  BY <1>0, <1>5, <1>6, <1>8 DEF IsInjective
<1>11. Range(r) = Range(s) \ {s[i]}
  <2>1. \A k \in DOMAIN r : r[k] \in Range(s) \ {s[i]}
    BY <1>0, <1>5, <1>6, <1>9 DEF Range
  <2>2. \A m \in 1..Len(s) : m # i => \E k \in DOMAIN r : r[k] = s[m]
    BY <1>5, <1>6, <1>7
  <2> QED BY <1>0, <2>1, <2>2 DEF Range
<1> QED BY <1>3, <1>4, <1>5, <1>10, <1>11 DEF RemoveAt, a, b

LEMMA AppendFacts ==
    ASSUME NEW S, NEW s \in Seq(S), NEW e \in S
    PROVE  /\ Append(s, e) \in Seq(S) /\ Append(s, e) # <<>> /\ Last(Append(s, e)) = e
           /\ Range(Append(s, e)) = Range(s) \cup {e}
           /\ IsInjective(s) /\ e \notin Range(s) => IsInjective(Append(s, e))
<1>1. PICK n \in Nat, r \in Seq(S) :
        /\ n = Len(s) /\ r = Append(s, e) /\ r # <<>> /\ Len(r) = n + 1
        /\ \A i \in 1..n : r[i] = s[i]
        /\ r[n + 1] = e
  <2>1. /\ Append(s, e) \in Seq(S) /\ Append(s, e) # <<>> /\ Len(Append(s, e)) = Len(s) + 1
        /\ \A i \in 1..Len(s) : Append(s, e)[i] = s[i]
        /\ Append(s, e)[Len(s) + 1] = e
    BY AppendProperties
  <2>2. PICK n \in Nat, r \in Seq(S) : n = Len(s) /\ r = Append(s, e)
    BY <2>1, LenProperties
  <2>3. /\ r # <<>> /\ Len(r) = n + 1 /\ \A i \in 1..n : r[i] = s[i]
        /\ r[n + 1] = e
    BY <2>1, <2>2
  <2> QED BY <2>2, <2>3
<1>2. DOMAIN s = 1..n /\ DOMAIN r = 1..(n + 1) /\ n + 1 \in 1..(n + 1) /\ \A i \in 1..(n + 1) : i \in 1..n \/ i = n + 1
  BY <1>1, LenProperties
<1>3. Last(r) = e
  BY <1>1 DEF Last
<1>4. Range(r) = Range(s) \cup {e}
  <2>1. \A i \in DOMAIN r : r[i] \in Range(s) \cup {e}
    BY <1>1, <1>2 DEF Range
  <2>2. \A i \in DOMAIN s : i \in DOMAIN r /\ r[i] = s[i]
    BY <1>1, <1>2
  <2>3. n + 1 \in DOMAIN r /\ r[n + 1] = e
    BY <1>1, <1>2
  <2> QED BY <2>1, <2>2, <2>3 DEF Range
<1>5. ASSUME IsInjective(s), e \notin Range(s) PROVE IsInjective(r)
  <2> SUFFICES ASSUME NEW i \in DOMAIN r, NEW k \in DOMAIN r, r[i] = r[k] PROVE i = k
    BY DEF IsInjective
  <2>1. \A j \in DOMAIN s : r[j] # e
    BY <1>1, <1>2, <1>5 DEF Range
  <2>2. i \in DOMAIN s <=> k \in DOMAIN s
    BY <1>1, <1>2, <2>1
  <2>3. CASE i \in DOMAIN s
    BY <1>1, <1>2, <1>5, <2>2, <2>3 DEF IsInjective
  <2>4. CASE i \notin DOMAIN s
    BY <1>2, <2>2, <2>4
  <2> QED BY <2>3, <2>4
<1> QED BY <1>1, <1>3, <1>4, <1>5

Responses == [text : SUBSET Taints, rest : SUBSET Taints, origin : CpCalls \cup {"none"}, posts : Nat]
Keyed     == [messages : Messages, tenant : Tenants]
Entries   == [key : Keyed, response : Responses, expired : BOOLEAN]

\* A cache has one entry for a key.
Cache(s) ==
    /\ s \in Seq(Entries) /\ IsInjective(s)
    /\ \A d, e \in Range(s) : d.key = e.key => d = e

LEMMA CacheKeys ==
    ASSUME NEW s, Cache(s)
    PROVE  /\ \A i, j \in DOMAIN s : s[i].key = s[j].key => i = j
           /\ DOMAIN s = 1..Len(s) /\ Len(s) \in Nat
           /\ \A i \in DOMAIN s : s[i] \in Entries /\ s[i] \in Range(s)
<1>1. DOMAIN s = 1..Len(s) /\ Len(s) \in Nat /\ \A i \in DOMAIN s : s[i] \in Entries
  BY DEF Cache
<1>2. \A i \in DOMAIN s : s[i] \in Range(s)
  BY DEF Range
<1>3. \A i, j \in DOMAIN s : s[i] = s[j] => i = j
  BY DEF Cache, IsInjective
<1>4. ASSUME NEW i \in DOMAIN s, NEW j \in DOMAIN s, s[i].key = s[j].key PROVE i = j
  <2>1. s[i] = s[j]
    BY <1>2, <1>4 DEF Cache
  <2> QED BY <1>3, <2>1
<1> QED BY <1>1, <1>2, <1>4

LEMMA RemoveOne ==
    ASSUME NEW s, Cache(s), NEW i \in DOMAIN s, NEW q, q = RemoveAt(s, i)
    PROVE  Cache(q) /\ Range(q) = Range(s) \ {s[i]} /\ Len(q) = Len(s) - 1
<1>1. s \in Seq(Entries) /\ IsInjective(s) /\ i \in 1..Len(s)
  BY CacheKeys DEF Cache
<1>2. /\ q \in Seq(Entries) /\ Len(q) = Len(s) - 1 /\ IsInjective(q)
      /\ Range(q) = Range(s) \ {s[i]}
  BY <1>1, RemoveAtFacts
<1> QED BY <1>2 DEF Cache

\* The cache without a key.
LEMMA WithoutKey ==
    ASSUME Cache(store), NEW key, NEW q, q = without(key)
    PROVE  /\ Cache(q) /\ Range(q) = {e \in Range(store) : e.key # key}
           /\ Len(q) \in Nat /\ Len(q) <= Len(store)
           /\ entry_at(key) # {} => Len(q) = Len(store) - 1
<1>1. Len(store) \in Nat
  BY CacheKeys
<1>2. CASE entry_at(key) = {}
  <2>1. q = store
    BY <1>2 DEF without
  <2>2. \A i \in DOMAIN store : store[i].key # key
    BY <1>2 DEF entry_at
  <2>3. \A e \in Range(store) : e.key # key
    BY <2>2 DEF Range
  <2> QED BY <1>1, <1>2, <2>1, <2>3
<1>3. CASE entry_at(key) # {}
  <2>1. PICK i \in entry_at(key) : q = RemoveAt(store, i)
    BY <1>3 DEF without
  <2>2. i \in DOMAIN store /\ store[i].key = key /\ store[i] \in Range(store)
    BY <2>1, CacheKeys DEF entry_at
  <2>3. Cache(q) /\ Range(q) = Range(store) \ {store[i]} /\ Len(q) = Len(store) - 1
    BY <2>1, <2>2, RemoveOne
  <2>4. \A e \in Range(store) : e.key = key <=> e = store[i]
    BY <2>2 DEF Cache
  <2>5. Len(q) \in Nat
    BY <2>3, CacheKeys
  <2> QED BY <1>1, <2>3, <2>4, <2>5
<1> QED BY <1>2, <1>3

\* An entry for a key the cache does not have.
LEMMA AddEntry ==
    ASSUME NEW s, Cache(s), NEW e \in Entries, \A d \in Range(s) : d.key # e.key, NEW q, q = Append(s, e)
    PROVE  Cache(q) /\ Range(q) = Range(s) \cup {e} /\ Len(q) = Len(s) + 1
<1>1. s \in Seq(Entries) /\ IsInjective(s) /\ e \notin Range(s)
  BY DEF Cache
<1>2. q \in Seq(Entries) /\ Range(q) = Range(s) \cup {e} /\ IsInjective(q)
  BY <1>1, AppendFacts
<1>3. Len(q) = Len(s) + 1
  BY <1>1, AppendProperties
<1>4. ASSUME NEW c \in Range(q), NEW d \in Range(q), c.key = d.key PROVE c = d
  <2>1. c \in Range(s) \/ c = e
    BY <1>2
  <2>2. d \in Range(s) \/ d = e
    BY <1>2
  <2> QED BY <1>4, <2>1, <2>2 DEF Cache
<1> QED BY <1>2, <1>3, <1>4 DEF Cache

\* The cache without its oldest entry.
LEMMA DropOldest ==
    ASSUME NEW s, Cache(s), Len(s) > 0, NEW q, q = Tail(s)
    PROVE  Cache(q) /\ Range(q) \subseteq Range(s) /\ Len(q) = Len(s) - 1
<1>1. s \in Seq(Entries) /\ s # <<>> /\ Len(s) \in Nat
  BY DEF Cache
<1>2. q \in Seq(Entries) /\ Len(q) = Len(s) - 1 /\ \A i \in 1..Len(q) : q[i] = s[i + 1]
  BY <1>1, HeadTailProperties
<1>3. DOMAIN q = 1..Len(q) /\ DOMAIN s = 1..Len(s) /\ \A i \in 1..Len(q) : i \in Nat /\ i + 1 \in 1..Len(s)
  BY <1>1, <1>2
<1>4. Range(q) \subseteq Range(s)
  BY <1>2, <1>3 DEF Range
<1>5. \A i, j \in DOMAIN s : s[i] = s[j] => i = j
  BY DEF Cache, IsInjective
<1>6. ASSUME NEW i \in DOMAIN q, NEW j \in DOMAIN q, q[i] = q[j] PROVE i = j
  <2>1. s[i + 1] = s[j + 1] /\ i + 1 \in DOMAIN s /\ j + 1 \in DOMAIN s
    BY <1>2, <1>3, <1>6
  <2>2. i + 1 = j + 1
    BY <1>5, <2>1
  <2> QED BY <1>3, <2>2
<1>7. IsInjective(q)
  BY <1>6 DEF IsInjective
<1> QED BY <1>2, <1>4, <1>7 DEF Cache

LEMMA AfterGet ==
    ASSUME Cache(store), NEW key, NEW q, q = after_get(key)
    PROVE  Cache(q) /\ Range(q) \subseteq Range(store) /\ Len(q) \in Nat /\ Len(q) <= Len(store)
<1>1. CASE q = store
  BY <1>1, CacheKeys
<1>2. CASE q = without(key)
  BY <1>2, WithoutKey
<1>3. CASE entry_at(key) # {} /\ \E i \in entry_at(key) : q = Append(without(key), store[i])
  <2>1. PICK i \in entry_at(key) : q = Append(without(key), store[i])
    BY <1>3
  <2>2. i \in DOMAIN store /\ store[i].key = key /\ store[i] \in Range(store) /\ store[i] \in Entries
        /\ Len(store) \in Nat
    BY <2>1, CacheKeys DEF entry_at
  <2>3. PICK w : w = without(key)
    OBVIOUS
  <2>4. Cache(w) /\ Range(w) = {e \in Range(store) : e.key # key} /\ Len(w) = Len(store) - 1
    BY <1>3, <2>3, WithoutKey
  <2>5. PICK e : e = store[i]
    OBVIOUS
  <2>6. Cache(q) /\ Range(q) = Range(w) \cup {e} /\ Len(q) = Len(w) + 1
    BY <2>1, <2>2, <2>3, <2>4, <2>5, AddEntry
  <2> QED BY <2>2, <2>4, <2>5, <2>6
<1> QED BY <1>1, <1>2, <1>3 DEF after_get

LEMMA AfterSet ==
    ASSUME Cache(store), NEW key \in Keyed, NEW response \in Responses, NEW q, q = after_set(key, response),
           backend = "memory" => Len(store) <= MaxItems
    PROVE  /\ Cache(q) /\ (backend = "memory" => Len(q) <= MaxItems)
           /\ \A e \in Range(q) : e \in Range(store) \/ (e.key = key /\ e.response = response)
<1>1. PICK w : w = without(key)
  OBVIOUS
<1>2. PICK e : e = [key |-> key, response |-> response, expired |-> FALSE]
  OBVIOUS
<1>3. e \in Entries /\ e.key = key /\ e.response = response
  BY <1>2 DEF Entries
<1>4. /\ Cache(w) /\ Range(w) = {d \in Range(store) : d.key # key}
      /\ Len(w) \in Nat /\ Len(w) <= Len(store)
  BY <1>1, WithoutKey
<1>5. PICK all : all = Append(w, e)
  OBVIOUS
<1>6. Cache(all) /\ Range(all) = Range(w) \cup {e} /\ Len(all) = Len(w) + 1
  BY <1>3, <1>4, <1>5, AddEntry
<1>7. q = IF backend = "memory" /\ Len(all) > MaxItems THEN Tail(all) ELSE all
  BY <1>1, <1>2, <1>5 DEF after_set
<1>8. Cache(Tail(all)) /\ Range(Tail(all)) \subseteq Range(all) /\ Len(Tail(all)) = Len(all) - 1
  <2>1. Len(all) > 0
    BY <1>4, <1>6
  <2> QED BY <1>6, <2>1, DropOldest
<1>9. MaxItems \in Nat /\ Len(store) \in Nat
  BY CompletionAssumption, CacheKeys
<1>10. CASE backend = "memory" /\ Len(all) > MaxItems
  BY <1>3, <1>4, <1>6, <1>7, <1>8, <1>9, <1>10
<1>11. CASE ~(backend = "memory" /\ Len(all) > MaxItems)
  BY <1>3, <1>4, <1>6, <1>7, <1>9, <1>11
<1> QED BY <1>10, <1>11

\* The entries of a cache in another order, or some of them.
LEMMA SomeEntries ==
    ASSUME Cache(store), NEW S, S \subseteq Range(store), NEW q, q = SetToSeq(S)
    PROVE  Cache(q) /\ Range(q) = S
<1>1. IsFiniteSet(S)
  <2>1. IsFiniteSet(Range(store))
    <3>1. Len(store) \in Nat /\ DOMAIN store = 1..Len(store)
      BY CacheKeys
    <3>2. IsFiniteSet(1..Len(store))
      BY <3>1, FS_Interval
    <3>3. store \in Surjection(1..Len(store), Range(store))
      <4>1. store \in [1..Len(store) -> Range(store)]
        BY <3>1, CacheKeys DEF Cache
      <4>2. \A t \in Range(store) : \E i \in 1..Len(store) : store[i] = t
        BY <3>1 DEF Range
      <4> QED BY <4>1, <4>2 DEF Surjection
    <3> QED BY <3>2, <3>3, FS_Surjection
  <2> QED BY <2>1, FS_Subset
<1>2. PICK n \in Nat : n = Cardinality(S)
  BY <1>1, FS_CardinalityType
<1>3. ExistsBijection(1..n, S)
  BY <1>1, <1>2, FS_CardinalityType
<1>4. PICK f \in [1..n -> S] : (\A x, y \in 1..n : f[x] = f[y] => x = y) /\ \A t \in S : \E x \in 1..n : f[x] = t
  BY <1>3 DEF ExistsBijection, Bijection, Injection, Surjection, IsInjective
<1>5. IsInjective(f)
  BY <1>4 DEF IsInjective
<1>6. q \in [1..n -> S] /\ IsInjective(q)
  BY <1>2, <1>4, <1>5 DEF SetToSeq
<1>7. Range(q) = S
  <2>1. q \in Injection(1..n, S)
    BY <1>6 DEF Injection
  <2>2. Cardinality(1..n) = n
    <3>1. 1 \in Int /\ n \in Int /\ ~(1 > n) => n - 1 + 1 = n
      OBVIOUS
    <3>2. Cardinality(1..n) = IF 1 > n THEN 0 ELSE n - 1 + 1
      BY <3>1, FS_Interval
    <3> QED BY <3>2
  <2>3. q \in Surjection(1..n, S)
    BY <1>1, <1>2, <2>1, <2>2, FS_Injection
  <2> QED BY <1>6, <2>3 DEF Surjection, Range
<1>8. q \in Seq(Entries)
  <2>1. \A i \in 1..n : q[i] \in Entries
    <3>1. \A e \in Range(store) : e \in Entries
      BY CacheKeys DEF Range
    <3> QED BY <1>6, <3>1
  <2> QED BY <1>6, <2>1
<1> QED BY <1>6, <1>7, <1>8 DEF Cache

-----------------------------------------------------------------------------
(* The completion route.                                                   *)

Places == {"new", "refused", "stream", "streamed", "lookup", "call", "check", "store", "post", "answered"}
CallStates == [at : Places, messages : Messages, response : Responses, hit : BOOLEAN,
               sent : BOOLEAN, reported : BOOLEAN]

\* Messages and texts that have passed every enabled guardrail.
Clean(gs, messages)   == \A j \in DOMAIN gs : gs[j].enabled => Passes(gs[j], messages)
CleanOut(gs, content) == \A j \in DOMAIN gs : gs[j].enabled => PassesOut(gs[j], content)

\* Request o is one of the tenant, and the messages are what it sends to a provider.
Sourced(calls, o, tenant, messages) ==
    o \in CpCalls /\ Tenant[o] = tenant /\ calls[o].at # "new" /\ calls[o].messages = messages

CallSound(gs, calls, r) ==
    /\ Clean(gs, calls[r].messages)
    /\ calls[r].at \in {"check", "store", "post", "answered"} =>
         /\ Sourced(calls, calls[r].response.origin, Tenant[r], calls[r].messages)
         /\ calls[r].response.posts = IF calls[r].at = "answered" THEN 1 ELSE 0
    /\ calls[r].at \in {"store", "post", "answered"} => CleanOut(gs, calls[r].response.text)

\* An entry has what a request of its tenant with its messages was answered.
EntrySound(gs, calls, e) ==
    /\ Sourced(calls, e.response.origin, e.key.tenant, e.key.messages)
    /\ e.response.posts = 0 /\ CleanOut(gs, e.response.text)

CpInv ==
    /\ guardrails \in Setups /\ backend \in {"memory", "redis"}
    /\ Cache(store) /\ (backend = "memory" => Len(store) <= MaxItems)
    /\ call \in [CpCalls -> CallStates]
    /\ \A r \in CpCalls : CallSound(guardrails, call, r)
    /\ \A e \in Range(store) : EntrySound(guardrails, call, e)

LEMMA SourcedStays ==
    ASSUME NEW calls, NEW after, NEW o, NEW tenant, NEW messages, Sourced(calls, o, tenant, messages),
           \A r \in CpCalls : calls[r].at # "new" => after[r].at # "new" /\ after[r].messages = calls[r].messages
    PROVE  Sourced(after, o, tenant, messages)
BY DEF Sourced

\* What a step of one request has to show.
LEMMA RequestMoves ==
    ASSUME CpInv, NEW r \in CpCalls, NEW c \in CallStates, Move(r, c), guardrails' = guardrails, backend' = backend,
           c.at # "new", call[r].at # "new" => c.messages = call[r].messages, Clean(guardrails, c.messages),
           c.at \in {"check", "store", "post", "answered"} =>
             /\ c.response.origin = r \/ Sourced(call, c.response.origin, Tenant[r], c.messages)
             /\ c.response.posts = IF c.at = "answered" THEN 1 ELSE 0,
           c.at \in {"store", "post", "answered"} => CleanOut(guardrails, c.response.text),
           Cache(store'), backend = "memory" => Len(store') <= MaxItems,
           \A e \in Range(store') : e \in Range(store) \/ EntrySound(guardrails, call, e)
    PROVE  CpInv'
<1>1. PICK calls, after : calls = call /\ after = call'
  OBVIOUS
<1>2. after = [calls EXCEPT ![r] = c] /\ calls \in [CpCalls -> CallStates]
  BY <1>1 DEF Move, CpInv
<1>3. after \in [CpCalls -> CallStates] /\ after[r] = c /\ \A p \in CpCalls : p # r => after[p] = calls[p]
  BY <1>2
<1>4. \A p \in CpCalls : calls[p].at # "new" => after[p].at # "new" /\ after[p].messages = calls[p].messages
  BY <1>1, <1>3
<1>5. PICK gs : gs = guardrails
  OBVIOUS
<1>6. ASSUME NEW p \in CpCalls PROVE CallSound(gs, after, p)
  <2>1. CASE p = r
    <3>1. after[p] = c
      BY <1>3, <2>1
    <3>2. c.at \in {"check", "store", "post", "answered"} => Sourced(after, c.response.origin, Tenant[r], c.messages)
      <4>1. ASSUME c.response.origin = r PROVE Sourced(after, c.response.origin, Tenant[r], c.messages)
        BY <1>3, <4>1 DEF Sourced
      <4>2. ASSUME Sourced(calls, c.response.origin, Tenant[r], c.messages)
            PROVE  Sourced(after, c.response.origin, Tenant[r], c.messages)
        BY <1>4, <4>2, SourcedStays
      <4> QED BY <1>1, <4>1, <4>2
    <3> QED BY <1>5, <2>1, <3>1, <3>2 DEF CallSound
  <2>2. CASE p # r
    <3>1. after[p] = calls[p] /\ CallSound(gs, calls, p)
      BY <1>1, <1>3, <1>5, <2>2 DEF CpInv
    <3>2. ASSUME Sourced(calls, calls[p].response.origin, Tenant[p], calls[p].messages)
          PROVE  Sourced(after, calls[p].response.origin, Tenant[p], calls[p].messages)
      BY <1>4, <3>2, SourcedStays
    <3> QED BY <3>1, <3>2 DEF CallSound
  <2> QED BY <2>1, <2>2
<1>7. ASSUME NEW e, EntrySound(gs, calls, e) PROVE EntrySound(gs, after, e)
  <2>1. Sourced(calls, e.response.origin, e.key.tenant, e.key.messages)
    BY <1>7 DEF EntrySound
  <2>2. Sourced(after, e.response.origin, e.key.tenant, e.key.messages)
    BY <1>4, <2>1, SourcedStays
  <2> QED BY <1>7, <2>2 DEF EntrySound
<1>8. \A e \in Range(store') : EntrySound(gs, after, e)
  BY <1>1, <1>5, <1>7 DEF CpInv
<1>9. \A p \in CpCalls : CallSound(guardrails', call', p)
  BY <1>1, <1>5, <1>6
<1>10. \A e \in Range(store') : EntrySound(guardrails', call', e)
  BY <1>1, <1>5, <1>8
<1> QED BY <1>1, <1>3, <1>9, <1>10 DEF CpInv

\* What a step of the cache alone has to show.
LEMMA CacheMoves ==
    ASSUME CpInv, UNCHANGED <<guardrails, backend, call>>,
           Cache(store'), backend = "memory" => Len(store') <= MaxItems,
           \A e \in Range(store') : \E d \in Range(store) : e.key = d.key /\ e.response = d.response
    PROVE  CpInv'
<1>1. PICK gs, calls : gs = guardrails /\ calls = call
  OBVIOUS
<1>2. \A e \in Range(store') : EntrySound(gs, calls, e)
  BY <1>1 DEF CpInv, EntrySound
<1>3. \A e \in Range(store') : EntrySound(guardrails', call', e)
  BY <1>1, <1>2
<1>4. \A r \in CpCalls : CallSound(guardrails', call', r)
  BY DEF CpInv
<1> QED BY <1>3, <1>4 DEF CpInv

LEMMA CallIs ==
    ASSUME CpInv, NEW r \in CpCalls
    PROVE  call[r] \in CallStates /\ CallSound(guardrails, call, r)
BY DEF CpInv

LEMMA Same ==
    ASSUME CpInv
    PROVE  Cache(store) /\ (backend = "memory" => Len(store) <= MaxItems) /\ guardrails \in Seq(Guards)
BY CompletionAssumption DEF CpInv

LEMMA CpStarts == ASSUME CpInit PROVE CpInv
<1>1. <<>> \in Messages
  <2>1. PICK T : T = [text : SUBSET Taints, plain : BOOLEAN]
    OBVIOUS
  <2>2. <<>> \in Seq(T)
    OBVIOUS
  <2> QED BY <2>1, <2>2 DEF Messages
<1>2. NoResponse \in Responses /\ Idle \in CallStates /\ Idle.at = "new" /\ Idle.messages = <<>>
  BY <1>1 DEF NoResponse, Responses, Idle, CallStates, Places
<1>3. Cache(<<>>) /\ Range(<<>>) = {} /\ Len(<<>>) = 0
  <2>1. DOMAIN <<>> = {} /\ <<>> \in Seq(Entries) /\ Len(<<>>) = 0
    OBVIOUS
  <2> QED BY <2>1 DEF Cache, IsInjective, Range
<1>4. 0 <= MaxItems
  BY CompletionAssumption
<1>5. ASSUME NEW r \in CpCalls PROVE CallSound(guardrails, call, r)
  <2>1. call[r].at = "new" /\ call[r].messages = <<>>
    BY <1>2 DEF CpInit
  <2>2. DOMAIN <<>> = {}
    OBVIOUS
  <2> QED BY <2>1, <2>2 DEF CallSound, Clean, Passes
<1> QED BY <1>2, <1>3, <1>4, <1>5 DEF CpInit, CpInv

\* What the transforms make of messages.
LEMMA Transformed ==
    ASSUME NEW M \in Messages
    PROVE  transformed(M) \in Messages
<1>1. PICK T : T = [text : SUBSET Taints, plain : BOOLEAN]
  OBVIOUS
<1>2. PICK N : N = transformed(M)
  OBVIOUS
<1>3. ASSUME NEW i \in DOMAIN M PROVE N[i] \in T
  <2>1. M[i] \in [text : SUBSET Taints, plain : BOOLEAN]
    BY MessagesAre
  <2>2. N[i] = [M[i] EXCEPT !.text = @ \cup Injected]
    BY <1>2 DEF transformed
  <2> QED BY <1>1, <2>1, <2>2, CompletionAssumption
<1>4. N \in [1..Len(M) -> T] /\ Len(M) \in Nat
  BY <1>2, <1>3, MessagesAre DEF transformed
<1>5. N \in Seq(T)
  BY <1>4
<1> QED BY <1>1, <1>2, <1>5 DEF Messages

LEMMA Screen_keeps ==
    ASSUME CpInv, NEW r \in CpCalls, Screen(r)
    PROVE  CpInv'
<1>1. PICK gs \in Seq(Guards), M \in Messages : gs = guardrails /\ M = transformed(Prompt[r])
  BY Same, Transformed, CompletionAssumption
<1>2. PICK verdict : verdict = run_request_guardrails(gs, M, User[r])
  OBVIOUS
<1>3. verdict \in Screening /\ PassedRequest(gs, Len(gs), verdict)
  BY <1>2, RequestPasses
<1>4. PICK c : c = IF verdict.action = "block" THEN [call[r] EXCEPT !.at = "refused"]
                   ELSE [call[r] EXCEPT !.at = IF Streamed[r] THEN "stream" ELSE "lookup", !.messages = verdict.content]
  OBVIOUS
<1>5. Move(r, c) /\ UNCHANGED <<guardrails, backend, store>> /\ call[r].at = "new"
  BY <1>1, <1>2, <1>4 DEF Screen
<1>6. call[r] \in CallStates /\ Clean(gs, call[r].messages)
  BY <1>1, CallIs DEF CallSound
<1>7. c \in CallStates /\ c.at \in {"refused", "stream", "lookup"}
  BY <1>3, <1>4, <1>6 DEF CallStates, Places, Screening
<1>8. Clean(gs, c.messages)
  <2>1. CASE verdict.action = "block"
    BY <1>4, <1>6, <2>1 DEF CallStates
  <2>2. CASE verdict.action # "block"
    <3>1. c.messages = verdict.content
      BY <1>4, <1>6, <2>2 DEF CallStates
    <3>2. DOMAIN gs = 1..Len(gs)
      OBVIOUS
    <3> QED BY <1>3, <2>2, <3>1, <3>2 DEF PassedRequest, Clean
  <2> QED BY <2>1, <2>2
<1> QED BY <1>1, <1>5, <1>7, <1>8, Same, RequestMoves

\* The steps that change neither the messages of a request nor a response.
LEMMA Plain_keeps ==
    ASSUME CpInv, NEW r \in CpCalls,
           Stream(r) \/ Failed(r) \/ DispatchRequestEnd(r) \/ PostResponse(r)
    PROVE  CpInv'
<1>1. call[r] \in CallStates /\ CallSound(guardrails, call, r)
  BY CallIs
<1>2. CASE Stream(r)
  <2>1. PICK c : c = [call[r] EXCEPT !.at = "streamed", !.sent = TRUE]
    OBVIOUS
  <2>2. c \in CallStates /\ c.at = "streamed" /\ c.messages = call[r].messages
    BY <1>1, <2>1 DEF CallStates, Places
  <2>3. Move(r, c) /\ UNCHANGED <<guardrails, backend, store>> /\ Clean(guardrails, c.messages)
    BY <1>1, <1>2, <2>1, <2>2 DEF Stream, CallSound
  <2> QED BY <2>2, <2>3, Same, RequestMoves
<1>3. CASE Failed(r)
  <2>1. PICK c : c = [call[r] EXCEPT !.at = "refused", !.sent = TRUE]
    OBVIOUS
  <2>2. c \in CallStates /\ c.at = "refused" /\ c.messages = call[r].messages
    BY <1>1, <2>1 DEF CallStates, Places
  <2>3. Move(r, c) /\ UNCHANGED <<guardrails, backend, store>> /\ Clean(guardrails, c.messages)
    BY <1>1, <1>3, <2>1, <2>2 DEF Failed, CallSound
  <2> QED BY <2>2, <2>3, Same, RequestMoves
<1>4. CASE DispatchRequestEnd(r)
  <2>1. PICK c : c = [call[r] EXCEPT !.reported = TRUE]
    OBVIOUS
  <2>2. /\ c \in CallStates /\ c.at = call[r].at /\ c.messages = call[r].messages
        /\ c.response = call[r].response
    BY <1>1, <2>1 DEF CallStates
  <2>3. Move(r, c) /\ UNCHANGED <<guardrails, backend, store>> /\ call[r].at = "answered"
    BY <1>4, <2>1 DEF DispatchRequestEnd
  <2>4. /\ Clean(guardrails, c.messages) /\ c.response.posts = 1
        /\ Sourced(call, c.response.origin, Tenant[r], c.messages)
        /\ CleanOut(guardrails, c.response.text)
    BY <1>1, <2>2, <2>3 DEF CallSound
  <2> QED BY <2>2, <2>3, <2>4, Same, RequestMoves
<1>5. CASE PostResponse(r)
  <2>1. PICK c : c = [call[r] EXCEPT !.at = "answered", !.response.posts = @ + 1]
    OBVIOUS
  <2>2. Move(r, c) /\ UNCHANGED <<guardrails, backend, store>> /\ call[r].at = "post"
    BY <1>5, <2>1 DEF PostResponse
  <2>3. PICK d \in Responses : d = call[r].response
    BY <1>1 DEF CallStates
  <2>4. PICK e : e = [d EXCEPT !.posts = d.posts + 1]
    OBVIOUS
  <2>5. e \in Responses /\ e.text = d.text /\ e.origin = d.origin /\ e.posts = d.posts + 1
    BY <2>3, <2>4 DEF Responses
  <2>6. c = [call[r] EXCEPT !.at = "answered", !.response = e]
    BY <2>1, <2>3, <2>4
  <2>7. c \in CallStates /\ c.at = "answered" /\ c.messages = call[r].messages /\ c.response = e
    BY <1>1, <2>5, <2>6 DEF CallStates, Places
  <2>8. /\ Clean(guardrails, c.messages) /\ d.posts = 0
        /\ Sourced(call, d.origin, Tenant[r], c.messages)
        /\ CleanOut(guardrails, d.text)
    BY <1>1, <2>2, <2>3, <2>7 DEF CallSound
  <2>9. c.response.posts = 1
    BY <2>5, <2>7, <2>8
  <2> QED BY <2>2, <2>5, <2>7, <2>8, <2>9, Same, RequestMoves
<1> QED BY <1>2, <1>3, <1>4, <1>5

\* The key of a request, and what an entry under it holds.
LEMMA KeyIs ==
    ASSUME CpInv, NEW r \in CpCalls
    PROVE  build_cache_key(call[r].messages, Tenant[r]) \in Keyed
BY CallIs DEF build_cache_key, Keyed, Tenants, CallStates

LEMMA Hit_keeps ==
    ASSUME CpInv, NEW r \in CpCalls, Hit(r)
    PROVE  CpInv'
<1>1. PICK key : key = build_cache_key(call[r].messages, Tenant[r])
  OBVIOUS
<1>2. PICK i \in entry_at(key) : Move(r, [call[r] EXCEPT !.at = "post", !.hit = TRUE, !.response = store[i].response])
  BY <1>1 DEF Hit
<1>3. UNCHANGED <<guardrails, backend>> /\ call[r].at = "lookup" /\ store' = after_get(key)
  BY <1>1 DEF Hit
<1>4. PICK e : e = store[i]
  OBVIOUS
<1>5. e \in Entries /\ e \in Range(store) /\ e.key = key
  BY <1>2, <1>4, Same, CacheKeys DEF entry_at
<1>6. EntrySound(guardrails, call, e) /\ e.response \in Responses /\ e.key.messages = call[r].messages /\ e.key.tenant = Tenant[r]
  BY <1>1, <1>5 DEF CpInv, Entries, build_cache_key
<1>7. call[r] \in CallStates /\ CallSound(guardrails, call, r)
  BY CallIs
<1>8. PICK c : c = [call[r] EXCEPT !.at = "post", !.hit = TRUE, !.response = e.response]
  OBVIOUS
<1>9. c \in CallStates /\ c.at = "post" /\ c.messages = call[r].messages /\ c.response = e.response
  BY <1>6, <1>7, <1>8 DEF CallStates, Places
<1>10. Clean(guardrails, c.messages) /\ Move(r, c)
  BY <1>2, <1>4, <1>7, <1>8, <1>9 DEF CallSound
<1>11. /\ Sourced(call, c.response.origin, Tenant[r], c.messages) /\ c.response.posts = 0
       /\ CleanOut(guardrails, c.response.text)
  BY <1>6, <1>9 DEF EntrySound
<1>12. Cache(store') /\ Range(store') \subseteq Range(store) /\ Len(store') \in Nat /\ Len(store') <= Len(store)
  BY <1>3, Same, AfterGet
<1>13. backend = "memory" => Len(store') <= MaxItems
  BY <1>12, Same, CompletionAssumption, CacheKeys
<1> QED BY <1>3, <1>9, <1>10, <1>11, <1>12, <1>13, RequestMoves

LEMMA Miss_keeps ==
    ASSUME CpInv, NEW r \in CpCalls, Miss(r)
    PROVE  CpInv'
<1>1. PICK key : key = build_cache_key(call[r].messages, Tenant[r])
  OBVIOUS
<1>2. UNCHANGED <<guardrails, backend>> /\ call[r].at = "lookup" /\ (store' = after_get(key) \/ store' = store)
  BY <1>1 DEF Miss
<1>3. PICK c : c = [call[r] EXCEPT !.at = "call"]
  OBVIOUS
<1>4. call[r] \in CallStates /\ CallSound(guardrails, call, r)
  BY CallIs
<1>5. c \in CallStates /\ c.at = "call" /\ c.messages = call[r].messages
  BY <1>3, <1>4 DEF CallStates, Places
<1>6. Move(r, c) /\ Clean(guardrails, c.messages)
  BY <1>3, <1>4, <1>5 DEF Miss, CallSound
<1>7. Cache(store') /\ Range(store') \subseteq Range(store) /\ Len(store') \in Nat /\ Len(store') <= Len(store)
  <2>1. CASE store' = store
    BY <2>1, Same, CacheKeys
  <2>2. CASE store' = after_get(key)
    BY <2>2, Same, AfterGet
  <2> QED BY <1>2, <2>1, <2>2
<1>8. backend = "memory" => Len(store') <= MaxItems
  BY <1>7, Same, CompletionAssumption, CacheKeys
<1> QED BY <1>2, <1>5, <1>6, <1>7, <1>8, RequestMoves

LEMMA Answered_keeps ==
    ASSUME CpInv, NEW r \in CpCalls, NEW a \in Answers, Answered(r, a)
    PROVE  CpInv'
<1>1. PICK d : d = [text |-> a.text, rest |-> a.rest, origin |-> r, posts |-> 0]
  OBVIOUS
<1>2. d \in Responses /\ d.origin = r /\ d.posts = 0
  BY <1>1, CompletionAssumption DEF Responses
<1>3. PICK c : c = [call[r] EXCEPT !.at = "check", !.sent = TRUE, !.response = d]
  OBVIOUS
<1>4. call[r] \in CallStates /\ CallSound(guardrails, call, r)
  BY CallIs
<1>5. c \in CallStates /\ c.at = "check" /\ c.messages = call[r].messages /\ c.response = d
  BY <1>2, <1>3, <1>4 DEF CallStates, Places
<1>6. Move(r, c) /\ UNCHANGED <<guardrails, backend, store>> /\ Clean(guardrails, c.messages)
  BY <1>1, <1>3, <1>4, <1>5 DEF Answered, CallSound
<1> QED BY <1>2, <1>5, <1>6, Same, RequestMoves

LEMMA CheckResponse_keeps ==
    ASSUME CpInv, NEW r \in CpCalls, CheckResponse(r)
    PROVE  CpInv'
<1>1. call[r] \in CallStates /\ CallSound(guardrails, call, r) /\ call[r].at = "check"
  BY CallIs DEF CheckResponse
<1>2. PICK d \in Responses : d = call[r].response
  BY <1>1 DEF CallStates
<1>3. PICK gs \in Seq(Guards) : gs = guardrails
  BY Same
<1>4. PICK said \in SUBSET Taints : said = d.text
  BY <1>2 DEF Responses
<1>5. PICK verdict : verdict = run_response_guardrails(gs, said)
  OBVIOUS
<1>6. verdict \in Checking /\ PassedResponse(gs, Len(gs), verdict)
  BY <1>5, ResponsePasses
<1>7. PICK e : e = [d EXCEPT !.text = verdict.content]
  OBVIOUS
<1>8. e \in Responses /\ e.text = verdict.content /\ e.origin = d.origin /\ e.posts = d.posts
  BY <1>6, <1>7 DEF Responses, Checking
<1>9. PICK c : c = IF verdict.action = "block" THEN [call[r] EXCEPT !.at = "refused"]
                   ELSE [call[r] EXCEPT !.at = "store", !.response = e]
  OBVIOUS
<1>10. [call[r] EXCEPT !.at = "store", !.response.text = verdict.content] = [call[r] EXCEPT !.at = "store", !.response = e]
  BY <1>1, <1>2, <1>7 DEF CallStates
<1>11. Move(r, c) /\ UNCHANGED <<guardrails, backend, store>>
  BY <1>2, <1>3, <1>4, <1>5, <1>9, <1>10 DEF CheckResponse
<1>12. c \in CallStates /\ c.at \in {"refused", "store"} /\ c.messages = call[r].messages
  BY <1>1, <1>8, <1>9 DEF CallStates, Places
<1>13. Clean(guardrails, c.messages) /\ Sourced(call, d.origin, Tenant[r], c.messages) /\ d.posts = 0
  BY <1>1, <1>2, <1>12 DEF CallSound
<1>14. ASSUME c.at = "store" PROVE c.response = e /\ CleanOut(gs, e.text)
  <2>1. verdict.action # "block" /\ c.response = e
    BY <1>1, <1>9, <1>14 DEF CallStates
  <2>2. DOMAIN gs = 1..Len(gs)
    OBVIOUS
  <2> QED BY <1>6, <1>8, <2>1, <2>2 DEF PassedResponse, CleanOut
<1> QED BY <1>3, <1>8, <1>11, <1>12, <1>13, <1>14, Same, RequestMoves

LEMMA Store_keeps ==
    ASSUME CpInv, NEW r \in CpCalls, Store(r)
    PROVE  CpInv'
<1>1. call[r] \in CallStates /\ CallSound(guardrails, call, r) /\ call[r].at = "store"
  BY CallIs DEF Store
<1>2. PICK key \in Keyed : key = build_cache_key(call[r].messages, Tenant[r])
  BY KeyIs
<1>3. PICK d \in Responses : d = call[r].response
  BY <1>1 DEF CallStates
<1>4. UNCHANGED <<guardrails, backend>> /\ (store' = after_set(key, d) \/ store' = store)
  BY <1>2, <1>3 DEF Store
<1>5. PICK c : c = [call[r] EXCEPT !.at = "post"]
  OBVIOUS
<1>6. c \in CallStates /\ c.at = "post" /\ c.messages = call[r].messages /\ c.response = d
  BY <1>1, <1>3, <1>5 DEF CallStates, Places
<1>7. Move(r, c)
  BY <1>5 DEF Store
<1>8. /\ Clean(guardrails, c.messages) /\ d.posts = 0
      /\ Sourced(call, d.origin, Tenant[r], c.messages) /\ CleanOut(guardrails, d.text)
  BY <1>1, <1>3, <1>6 DEF CallSound
<1>9. ASSUME NEW e, e.key = key, e.response = d PROVE EntrySound(guardrails, call, e)
  BY <1>2, <1>6, <1>8, <1>9 DEF EntrySound, build_cache_key
<1>10. /\ Cache(store') /\ (backend = "memory" => Len(store') <= MaxItems)
       /\ \A e \in Range(store') : e \in Range(store) \/ (e.key = key /\ e.response = d)
  <2>1. CASE store' = store
    BY <2>1, Same
  <2>2. CASE store' = after_set(key, d)
    BY <2>2, Same, AfterSet
  <2> QED BY <1>4, <2>1, <2>2
<1>11. \A e \in Range(store') : e \in Range(store) \/ EntrySound(guardrails, call, e)
  BY <1>9, <1>10
<1> QED BY <1>4, <1>6, <1>7, <1>8, <1>10, <1>11, RequestMoves

LEMMA Expire_keeps ==
    ASSUME CpInv, NEW i \in DOMAIN store, Expire(i)
    PROVE  CpInv'
<1>1. PICK s, q : s = store /\ q = store'
  OBVIOUS
<1>2. Cache(s) /\ i \in 1..Len(s) /\ DOMAIN s = 1..Len(s) /\ Len(s) \in Nat
  BY <1>1, Same, CacheKeys
<1>3. q = [s EXCEPT ![i].expired = TRUE] /\ UNCHANGED <<guardrails, backend, call>>
  BY <1>1 DEF Expire
<1>4. PICK e : e = [s[i] EXCEPT !.expired = TRUE]
  OBVIOUS
<1>5. s[i] \in Entries /\ e \in Entries /\ e.key = s[i].key /\ e.response = s[i].response
  <2>1. s[i] \in Entries
    BY <1>2, CacheKeys
  <2> QED BY <1>4, <2>1 DEF Entries
<1>6. q = [s EXCEPT ![i] = e]
  BY <1>3, <1>4
<1>7. DOMAIN q = DOMAIN s /\ \A k \in DOMAIN s : q[k].key = s[k].key /\ q[k].response = s[k].response /\ q[k] \in Entries
  <2>1. \A k \in DOMAIN s : s[k] \in Entries
    BY <1>2, CacheKeys
  <2> QED BY <1>2, <1>5, <1>6, <2>1
<1>8. q \in Seq(Entries) /\ Len(q) = Len(s)
  <2>1. q \in [1..Len(s) -> Entries]
    BY <1>2, <1>6, <1>7
  <2> QED BY <1>2, <2>1
<1>9. \A k, m \in DOMAIN q : q[k].key = q[m].key => k = m
  <2>1. \A k, m \in DOMAIN s : s[k].key = s[m].key => k = m
    BY <1>2, CacheKeys
  <2> QED BY <1>7, <2>1
<1>10. Cache(q)
  BY <1>8, <1>9 DEF Cache, IsInjective, Range
<1>11. \A d \in Range(q) : \E b \in Range(s) : d.key = b.key /\ d.response = b.response
  BY <1>7 DEF Range
<1>12. backend = "memory" => Len(q) <= MaxItems
  BY <1>1, <1>8, Same
<1> QED BY <1>1, <1>3, <1>10, <1>11, <1>12, CacheMoves

LEMMA ClearResponses_keeps == ASSUME CpInv, ClearResponses PROVE CpInv'
<1>1. PICK S : S = {store[i] : i \in {j \in DOMAIN store : store[j].key.tenant # NoTenant}}
  OBVIOUS
<1>2. UNCHANGED <<guardrails, backend, call>> /\ store' = IF backend = "memory" THEN <<>> ELSE SetToSeq(S)
  BY <1>1 DEF ClearResponses
<1>3. CASE backend = "memory"
  <2>1. DOMAIN <<>> = {} /\ <<>> \in Seq(Entries) /\ Len(<<>>) = 0
    OBVIOUS
  <2>2. Cache(<<>>) /\ Range(<<>>) = {} /\ 0 <= MaxItems
    BY <2>1, CompletionAssumption DEF Cache, IsInjective, Range
  <2> QED BY <1>2, <1>3, <2>1, <2>2, CacheMoves
<1>4. CASE backend # "memory"
  <2>1. S \subseteq Range(store)
    BY <1>1 DEF Range
  <2>2. Cache(store') /\ Range(store') = S
    BY <1>2, <1>4, <2>1, Same, SomeEntries
  <2> QED BY <1>2, <1>4, <2>1, <2>2, CacheMoves
<1> QED BY <1>3, <1>4

LEMMA Invalidate_keeps ==
    ASSUME CpInv, NEW messages, Invalidate(messages)
    PROVE  CpInv'
<1>1. PICK key : key = build_cache_key(messages, NoTenant)
  OBVIOUS
<1>2. UNCHANGED <<guardrails, backend, call>> /\ store' = without(key)
  BY <1>1 DEF Invalidate
<1>3. Cache(store') /\ Range(store') \subseteq Range(store) /\ Len(store') \in Nat /\ Len(store') <= Len(store)
  BY <1>2, Same, WithoutKey
<1>4. backend = "memory" => Len(store') <= MaxItems
  BY <1>3, Same, CompletionAssumption, CacheKeys
<1> QED BY <1>2, <1>3, <1>4, CacheMoves

LEMMA CpSteps_keep == ASSUME CpInv, CpNext PROVE CpInv'
<1>1. ASSUME NEW r \in CpCalls,
             \/ Screen(r) \/ Stream(r) \/ Hit(r) \/ Miss(r) \/ Failed(r)
             \/ CheckResponse(r) \/ Store(r) \/ PostResponse(r) \/ DispatchRequestEnd(r)
             \/ \E a \in Answers : Answered(r, a)
      PROVE  CpInv'
  BY <1>1, Screen_keeps, Plain_keeps, Hit_keeps, Miss_keeps, CheckResponse_keeps, Store_keeps, Answered_keeps
<1>2. ASSUME NEW i \in DOMAIN store, Expire(i) PROVE CpInv'
  BY <1>2, Expire_keeps
<1>3. ASSUME NEW r \in CpCalls, Invalidate(call[r].messages) PROVE CpInv'
  BY <1>3, Invalidate_keeps
<1> QED BY <1>1, <1>2, <1>3, ClearResponses_keeps DEF CpNext

\* What the invariant says of requests and answers.
LEMMA CpSound == ASSUME CpInv PROVE Screened /\ TenantsApart /\ TransformedOnce /\ CpTypeOK
<1>1. PICK gs \in Seq(Guards) : gs = guardrails
  BY Same
<1>2. ASSUME NEW r \in Sent, NEW i \in DOMAIN call[r].messages, call[r].messages[i].plain
      PROVE  call[r].messages[i].text \cap forbidden_in_requests(guardrails) = {}
  <2>1. Clean(gs, call[r].messages)
    BY <1>1, <1>2, CallIs DEF Sent, CallSound
  <2>2. ASSUME NEW j \in DOMAIN gs, gs[j].enabled, gs[j].works
        PROVE  call[r].messages[i].text \cap keeps_out(gs[j]) = {}
    BY <1>2, <2>1, <2>2 DEF Clean, Passes
  <2> QED BY <1>1, <2>2 DEF forbidden_in_requests
<1>3. ASSUME NEW r \in AnswerSeen
      PROVE  /\ call[r].response.text \cap forbidden_in_responses(guardrails) = {}
             /\ Sourced(call, call[r].response.origin, Tenant[r], call[r].messages)
             /\ call[r].response.posts = 1
  <2>1. CallSound(gs, call, r) /\ call[r].at = "answered"
    BY <1>1, <1>3, CallIs DEF AnswerSeen
  <2>2. ASSUME NEW j \in DOMAIN gs, gs[j].enabled, gs[j].works, gs[j].responses
        PROVE  call[r].response.text \cap keeps_out(gs[j]) = {}
    BY <2>1, <2>2 DEF CallSound, CleanOut, PassesOut
  <2>3. call[r].response.text \cap forbidden_in_responses(guardrails) = {}
    BY <1>1, <2>2 DEF forbidden_in_responses
  <2> QED BY <2>1, <2>3 DEF CallSound
<1>4. \A i \in DOMAIN store : store[i].response.posts = 0
  BY DEF CpInv, EntrySound, Range
<1>5. CpTypeOK
  <2>1. \A r \in CpCalls : call[r].response.text \cup call[r].response.rest \subseteq Taints
    BY CallIs DEF CallStates, Responses
  <2>2. \A i, j \in DOMAIN store : store[i].key = store[j].key => i = j
    BY Same, CacheKeys
  <2> QED BY <2>1, <2>2 DEF CpInv, CpTypeOK
<1> QED BY <1>2, <1>3, <1>4, <1>5 DEF Screened, TenantsApart, TransformedOnce, Sourced

-----------------------------------------------------------------------------
(* The middleware of the application.                                      *)

ShapeKeys == {"none"} \cup {s.key : s \in Shapes}

\* A request in the middleware.
Asked(q) ==
    /\ q = [shape |-> q.shape, layer |-> q.layer, context |-> q.context, answer |-> q.answer]
    /\ q.layer \in 0..5 /\ q.answer \in {"none", "200", "403", "413", "429"}
    /\ q.shape \in Shapes \cup {NoShape} /\ (q.layer # 0 => q.shape \in Shapes)
    /\ q.context.key \in ShapeKeys

Admits(setting, ip) == ip \notin setting.blocked /\ (setting.allowed = {} \/ ip \in setting.allowed)

\* What a request has passed when it is at a layer.
PassedLayers(setting, q, seen) ==
    /\ q.layer \in 2..5 => "auth" \in seen
    /\ q.layer \in 4..5 => Admits(setting, q.shape.ip)
    /\ q.layer = 5 => q.shape.size <= SizeLimit
    /\ "handler" \in seen => q.layer = 5

\* The requests that are past the limit.
PastLimit(requests) == {r \in AxRequests : requests[r].layer \in 3..5}

AxInv ==
    /\ ax_setting \in Settings
    /\ DOMAIN ax_request = AxRequests /\ DOMAIN ax_seen = AxRequests
    /\ ax_request = [r \in AxRequests |-> ax_request[r]] /\ ax_seen = [r \in AxRequests |-> ax_seen[r]]
    /\ \A r \in AxRequests : Asked(ax_request[r]) /\ PassedLayers(ax_setting, ax_request[r], ax_seen[r])
    /\ ax_counted \in Seq(ShapeKeys) /\ Len(ax_counted) <= Cardinality(PastLimit(ax_request))

LEMMA LayersAre ==
    /\ DOMAIN Layers = 1..5 /\ Len(Layers) = 5
    /\ Layers[1] = "auth" /\ Layers[2] = "rate_limit" /\ Layers[3] = "ip_filter"
    /\ Layers[4] = "size_limit" /\ Layers[5] = "handler"
BY DEF Layers

LEMMA AxStarts == ASSUME AxInit PROVE AxInv
<1>1. PICK q : q = [shape |-> NoShape, layer |-> 0, context |-> Anonymous, answer |-> "none"]
  OBVIOUS
<1>2. Asked(q) /\ PassedLayers(ax_setting, q, {}) /\ q.layer = 0
  BY <1>1 DEF Asked, Anonymous, ShapeKeys, PassedLayers
<1>3. \A r \in AxRequests : ax_request[r] = q /\ ax_seen[r] = {}
  BY <1>1 DEF AxInit
<1>4. PastLimit(ax_request) = {}
  BY <1>2, <1>3 DEF PastLimit
<1>5. Len(ax_counted) <= Cardinality(PastLimit(ax_request)) /\ ax_counted \in Seq(ShapeKeys)
  <2>1. Cardinality({}) = 0
    BY FS_EmptySet
  <2>2. ax_counted = <<>> /\ Len(<<>>) = 0 /\ <<>> \in Seq(ShapeKeys)
    BY DEF AxInit
  <2> QED BY <1>4, <2>1, <2>2
<1> QED BY <1>2, <1>3, <1>5 DEF AxInit, AxInv

\* What a step of one request has to show.
LEMMA LayerMoves ==
    ASSUME AxInv, NEW r \in AxRequests, NEW q, NEW seen,
           ax_request' = [ax_request EXCEPT ![r] = q], ax_seen' = [ax_seen EXCEPT ![r] = seen],
           ax_setting' = ax_setting, Asked(q), PassedLayers(ax_setting, q, seen),
           ax_request[r].layer \in 3..5 => q.layer \in 3..5,
           \/ ax_counted' = ax_counted
           \/ /\ \E k \in ShapeKeys : ax_counted' = Append(ax_counted, k)
              /\ ax_request[r].layer = 2 /\ q.layer = 3
    PROVE  AxInv'
<1>1. PICK old, new, was, is : old = ax_request /\ new = ax_request' /\ was = ax_seen /\ is = ax_seen'
  OBVIOUS
<1>2. /\ DOMAIN new = AxRequests /\ new = [p \in AxRequests |-> new[p]] /\ new[r] = q
      /\ DOMAIN is = AxRequests /\ is = [p \in AxRequests |-> is[p]] /\ is[r] = seen
      /\ \A p \in AxRequests : p # r => new[p] = old[p] /\ is[p] = was[p]
  BY <1>1 DEF AxInv
<1>3. PICK setting : setting = ax_setting
  OBVIOUS
<1>4. \A p \in AxRequests : Asked(new[p]) /\ PassedLayers(setting, new[p], is[p])
  BY <1>1, <1>2, <1>3 DEF AxInv
<1>5. PICK P, Q : P = PastLimit(old) /\ Q = PastLimit(new)
  OBVIOUS
<1>6. P \subseteq Q /\ Q \subseteq AxRequests
  BY <1>1, <1>2, <1>5 DEF PastLimit
<1>7. IsFiniteSet(P) /\ IsFiniteSet(Q)
  BY <1>6, AxAssumption, FS_Subset
<1>8. Cardinality(P) <= Cardinality(Q) /\ Cardinality(P) \in Nat /\ Cardinality(Q) \in Nat
  BY <1>6, <1>7, FS_Subset, FS_CardinalityType
<1>9. Len(ax_counted) \in Nat /\ Len(ax_counted) <= Cardinality(P)
  BY <1>1, <1>5 DEF AxInv
<1>10. ax_counted' \in Seq(ShapeKeys) /\ Len(ax_counted') <= Cardinality(Q)
  <2>1. CASE ax_counted' = ax_counted
    BY <1>8, <1>9, <2>1 DEF AxInv
  <2>2. CASE /\ \E k \in ShapeKeys : ax_counted' = Append(ax_counted, k)
             /\ ax_request[r].layer = 2 /\ q.layer = 3
    <3>1. PICK k \in ShapeKeys : ax_counted' = Append(ax_counted, k)
      BY <2>2
    <3>2. ax_counted' \in Seq(ShapeKeys) /\ Len(ax_counted') = Len(ax_counted) + 1
      BY <3>1 DEF AxInv
    <3>3. r \notin P /\ P \cup {r} \subseteq Q
      BY <1>1, <1>2, <1>5, <1>6, <2>2 DEF PastLimit
    <3>4. IsFiniteSet(P \cup {r}) /\ Cardinality(P \cup {r}) = Cardinality(P) + 1
      BY <1>7, <3>3, FS_AddElement
    <3>5. Cardinality(P \cup {r}) <= Cardinality(Q)
      BY <1>7, <3>3, FS_Subset
    <3> QED BY <1>8, <1>9, <3>2, <3>4, <3>5
  <2> QED BY <2>1, <2>2
<1>11. ax_setting' \in Settings
  BY DEF AxInv
<1>12. \A p \in AxRequests : Asked(ax_request'[p]) /\ PassedLayers(ax_setting', ax_request'[p], ax_seen'[p])
  BY <1>1, <1>3, <1>4
<1> QED BY <1>1, <1>2, <1>5, <1>10, <1>11, <1>12 DEF AxInv

LEMMA AskedIs ==
    ASSUME AxInv, NEW r \in AxRequests
    PROVE  Asked(ax_request[r]) /\ PassedLayers(ax_setting, ax_request[r], ax_seen[r])
BY DEF AxInv

\* A request at a layer has seen that layer after its step.
LEMMA AtLayer ==
    ASSUME AxInv, NEW r \in AxRequests, NEW name, At_layer(r, name), name \in {"auth", "rate_limit", "ip_filter", "size_limit", "handler"},
           NEW seen, seen = ax_seen[r] \cup {name}
    PROVE  /\ ax_seen' = [ax_seen EXCEPT ![r] = seen]
           /\ ax_request[r].answer = "none"
           /\ name = "auth" => ax_request[r].layer = 1
           /\ name = "rate_limit" => ax_request[r].layer = 2
           /\ name = "ip_filter" => ax_request[r].layer = 3
           /\ name = "size_limit" => ax_request[r].layer = 4
           /\ name = "handler" => ax_request[r].layer = 5
           /\ "auth" \in ax_seen[r] => "auth" \in seen
           /\ "handler" \in seen => "handler" \in ax_seen[r] \/ name = "handler"
<1>1. ax_request[r].layer \in 1..5 /\ Layers[ax_request[r].layer] = name /\ ax_request[r].answer = "none"
  BY LayersAre DEF At_layer
<1>2. ax_request[r].layer \in {1, 2, 3, 4, 5}
  BY <1>1
<1> QED BY <1>1, <1>2, LayersAre DEF At_layer

LEMMA Arrive_keeps ==
    ASSUME AxInv, NEW r \in AxRequests, NEW s \in Shapes, Arrive(r, s)
    PROVE  AxInv'
<1>1. PICK p : p = ax_request[r]
  OBVIOUS
<1>2. Asked(p) /\ PassedLayers(ax_setting, p, ax_seen[r]) /\ p.layer = 0
  BY <1>1, AskedIs DEF Arrive
<1>3. PICK q : q = [shape |-> s, layer |-> 1, context |-> p.context, answer |-> p.answer]
  OBVIOUS
<1>4. [p EXCEPT !.shape = s, !.layer = 1] = q
  <2>1. PICK m : m = [shape |-> s, layer |-> p.layer, context |-> p.context, answer |-> p.answer]
    OBVIOUS
  <2>2. [p EXCEPT !.shape = s] = m
    BY <1>2, <2>1 DEF Asked
  <2>3. [m EXCEPT !.layer = 1] = q
    BY <1>3, <2>1
  <2>4. [p EXCEPT !.shape = s, !.layer = 1] = [[p EXCEPT !.shape = s] EXCEPT !.layer = 1]
    OBVIOUS
  <2> QED BY <2>2, <2>3, <2>4
<1>5. ax_request' = [ax_request EXCEPT ![r] = q]
  BY <1>1, <1>4 DEF Arrive, AxInv
<1>6. ax_seen' = [ax_seen EXCEPT ![r] = ax_seen[r]]
  BY DEF Arrive, AxInv
<1>7. Asked(q) /\ PassedLayers(ax_setting, q, ax_seen[r])
  BY <1>2, <1>3 DEF Asked, PassedLayers
<1>8. UNCHANGED <<ax_setting, ax_counted>> /\ (ax_request[r].layer \in 3..5 => q.layer \in 3..5)
  BY <1>1, <1>2 DEF Arrive
<1> QED BY <1>1, <1>5, <1>6, <1>7, <1>8, LayerMoves

LEMMA ResolvedKey ==
    ASSUME NEW s \in Shapes, NEW reachable, NEW c, c = _resolve_auth(s, reachable)
    PROVE  c.key \in ShapeKeys
BY DEF _resolve_auth, ShapeKeys, Anonymous

\* A request passes its layer, or is answered.
Passed(q) == [shape |-> q.shape, layer |-> q.layer + 1, context |-> q.context, answer |-> q.answer]
Refused(q, status) == [shape |-> q.shape, layer |-> q.layer, context |-> q.context, answer |-> status]

LEMMA PassIs ==
    ASSUME AxInv, NEW r \in AxRequests, NEW q, q = ax_request[r]
    PROVE  /\ Pass(r) => ax_request' = [ax_request EXCEPT ![r] = Passed(q)]
           /\ \A status : Answer_with(r, status) => ax_request' = [ax_request EXCEPT ![r] = Refused(q, status)]
<1>1. Asked(q)
  BY AskedIs
<1>2. [q EXCEPT !.layer = q.layer + 1] = Passed(q)
  BY <1>1 DEF Asked, Passed
<1>3. \A status : [q EXCEPT !.answer = status] = Refused(q, status)
  BY <1>1 DEF Asked, Refused
<1> QED BY <1>2, <1>3 DEF Pass, Answer_with

LEMMA PassedIs ==
    ASSUME NEW q, NEW p, p = Passed(q)
    PROVE  p.shape = q.shape /\ p.layer = q.layer + 1 /\ p.context = q.context /\ p.answer = q.answer
BY DEF Passed

LEMMA RefusedIs ==
    ASSUME NEW q, NEW status, NEW p, p = Refused(q, status)
    PROVE  p.shape = q.shape /\ p.layer = q.layer /\ p.context = q.context /\ p.answer = status
BY DEF Refused

LEMMA Authenticate_keeps ==
    ASSUME AxInv, NEW r \in AxRequests, Authenticate(r)
    PROVE  AxInv'
<1>1. PICK p : p = ax_request[r]
  OBVIOUS
<1>2. PICK seen : seen = ax_seen[r] \cup {"auth"}
  OBVIOUS
<1>3. /\ ax_seen' = [ax_seen EXCEPT ![r] = seen] /\ p.layer = 1 /\ "auth" \in seen
      /\ "handler" \in seen => "handler" \in ax_seen[r]
  BY <1>1, <1>2, AtLayer DEF Authenticate
<1>4. Asked(p) /\ PassedLayers(ax_setting, p, ax_seen[r]) /\ p.shape \in Shapes
  BY <1>1, <1>3, AskedIs DEF Asked
<1>5. PICK context : /\ context.key \in ShapeKeys
                     /\ ax_request' = [ax_request EXCEPT ![r].layer = @ + 1, ![r].context = context]
  <2>1. Anonymous.key \in ShapeKeys
    BY DEF Anonymous, ShapeKeys
  <2>2. \A reachable \in BOOLEAN : _resolve_auth(p.shape, reachable).key \in ShapeKeys
    BY <1>4, ResolvedKey
  <2> QED BY <1>1, <2>1, <2>2 DEF Authenticate
<1>6. PICK q : q = [shape |-> p.shape, layer |-> 2, context |-> context, answer |-> p.answer]
  OBVIOUS
<1>7. [p EXCEPT !.layer = p.layer + 1, !.context = context] = q
  <2>1. PICK m : m = [shape |-> p.shape, layer |-> 2, context |-> p.context, answer |-> p.answer]
    OBVIOUS
  <2>2. [p EXCEPT !.layer = p.layer + 1] = m
    BY <1>3, <1>4, <2>1 DEF Asked
  <2>3. [m EXCEPT !.context = context] = q
    BY <1>6, <2>1
  <2>4. [p EXCEPT !.layer = p.layer + 1, !.context = context] = [[p EXCEPT !.layer = p.layer + 1] EXCEPT !.context = context]
    OBVIOUS
  <2> QED BY <2>2, <2>3, <2>4
<1>8. ax_request' = [ax_request EXCEPT ![r] = q]
  BY <1>1, <1>5, <1>7 DEF AxInv
<1>9. Asked(q) /\ PassedLayers(ax_setting, q, seen)
  BY <1>3, <1>4, <1>5, <1>6 DEF Asked, PassedLayers
<1>10. UNCHANGED <<ax_setting, ax_counted>> /\ (ax_request[r].layer \in 3..5 => q.layer \in 3..5)
  BY <1>1, <1>3 DEF Authenticate
<1> QED BY <1>3, <1>8, <1>9, <1>10, LayerMoves

LEMMA Limit_keeps ==
    ASSUME AxInv, NEW r \in AxRequests, Limit(r)
    PROVE  AxInv'
<1>1. PICK p : p = ax_request[r]
  OBVIOUS
<1>2. PICK seen : seen = ax_seen[r] \cup {"rate_limit"}
  OBVIOUS
<1>3. /\ ax_seen' = [ax_seen EXCEPT ![r] = seen] /\ p.layer = 2 /\ ("auth" \in ax_seen[r] => "auth" \in seen)
      /\ "handler" \in seen => "handler" \in ax_seen[r]
  BY <1>1, <1>2, AtLayer DEF Limit
<1>4. Asked(p) /\ PassedLayers(ax_setting, p, ax_seen[r]) /\ UNCHANGED ax_setting
  BY <1>1, AskedIs DEF Limit
<1>5. CASE Pass(r)
  <2>1. PICK q : q = Passed(p)
    OBVIOUS
  <2>2. q.shape = p.shape /\ q.layer = 3 /\ q.context = p.context /\ q.answer = p.answer
    BY <1>3, <2>1, PassedIs
  <2>3. Asked(q) /\ PassedLayers(ax_setting, q, seen)
    BY <1>3, <1>4, <2>1, <2>2 DEF Asked, PassedLayers, Passed
  <2>4. ax_request' = [ax_request EXCEPT ![r] = q]
    BY <1>1, <1>5, <2>1, PassIs
  <2>5. ax_counted' = ax_counted \/ ax_counted' = Append(ax_counted, p.context.key)
    BY <1>1 DEF Limit
  <2>6. p.context.key \in ShapeKeys
    BY <1>4 DEF Asked
  <2>7. ax_request[r].layer \in 3..5 => q.layer \in 3..5
    BY <1>1, <1>3
  <2>8. ax_counted' = ax_counted \/ (\E k \in ShapeKeys : ax_counted' = Append(ax_counted, k))
    BY <2>5, <2>6
  <2>9. ax_request[r].layer = 2 /\ q.layer = 3
    BY <1>1, <1>3, <2>2
  <2> QED BY <1>3, <1>4, <2>3, <2>4, <2>7, <2>8, <2>9, LayerMoves
<1>6. CASE Answer_with(r, "429") /\ UNCHANGED ax_counted
  <2>1. PICK q : q = Refused(p, "429")
    OBVIOUS
  <2>2. q.shape = p.shape /\ q.layer = p.layer /\ q.context = p.context /\ q.answer = "429"
    BY <2>1, RefusedIs
  <2>3. Asked(q) /\ PassedLayers(ax_setting, q, seen)
    BY <1>3, <1>4, <2>1, <2>2 DEF Asked, PassedLayers, Refused
  <2>4. ax_request' = [ax_request EXCEPT ![r] = q]
    BY <1>1, <1>6, <2>1, PassIs
  <2> QED BY <1>1, <1>3, <1>4, <1>6, <2>2, <2>3, <2>4, LayerMoves
<1> QED BY <1>5, <1>6 DEF Limit

LEMMA Filter_keeps ==
    ASSUME AxInv, NEW r \in AxRequests, Filter(r)
    PROVE  AxInv'
<1>1. PICK p : p = ax_request[r]
  OBVIOUS
<1>2. PICK seen : seen = ax_seen[r] \cup {"ip_filter"}
  OBVIOUS
<1>3. /\ ax_seen' = [ax_seen EXCEPT ![r] = seen] /\ p.layer = 3 /\ ("auth" \in ax_seen[r] => "auth" \in seen)
      /\ "handler" \in seen => "handler" \in ax_seen[r]
  BY <1>1, <1>2, AtLayer DEF Filter
<1>4. Asked(p) /\ PassedLayers(ax_setting, p, ax_seen[r]) /\ UNCHANGED <<ax_setting, ax_counted>>
  BY <1>1, AskedIs DEF Filter
<1>5. CASE Pass(r) /\ allowed_in(p.shape.ip)
  <2>1. PICK q : q = Passed(p)
    OBVIOUS
  <2>2. q.shape = p.shape /\ q.layer = 4 /\ q.context = p.context /\ q.answer = p.answer
    BY <1>3, <2>1, PassedIs
  <2>3. Asked(q) /\ PassedLayers(ax_setting, q, seen)
    BY <1>3, <1>4, <1>5, <2>1, <2>2 DEF Asked, PassedLayers, Passed, allowed_in, Admits
  <2>4. ax_request' = [ax_request EXCEPT ![r] = q]
    BY <1>1, <1>5, <2>1, PassIs
  <2>5. ax_request[r].layer \in 3..5 => q.layer \in 3..5
    BY <2>2
  <2> QED BY <1>3, <1>4, <2>3, <2>4, <2>5, LayerMoves
<1>6. CASE Answer_with(r, "403")
  <2>1. PICK q : q = Refused(p, "403")
    OBVIOUS
  <2>2. q.shape = p.shape /\ q.layer = p.layer /\ q.context = p.context /\ q.answer = "403"
    BY <2>1, RefusedIs
  <2>3. Asked(q) /\ PassedLayers(ax_setting, q, seen)
    BY <1>3, <1>4, <2>1, <2>2 DEF Asked, PassedLayers, Refused
  <2>4. ax_request' = [ax_request EXCEPT ![r] = q]
    BY <1>1, <1>6, <2>1, PassIs
  <2> QED BY <1>1, <1>3, <1>4, <2>2, <2>3, <2>4, LayerMoves
<1> QED BY <1>1, <1>5, <1>6 DEF Filter

LEMMA Measure_keeps ==
    ASSUME AxInv, NEW r \in AxRequests, Measure(r)
    PROVE  AxInv'
<1>1. PICK p : p = ax_request[r]
  OBVIOUS
<1>2. PICK seen : seen = ax_seen[r] \cup {"size_limit"}
  OBVIOUS
<1>3. /\ ax_seen' = [ax_seen EXCEPT ![r] = seen] /\ p.layer = 4 /\ ("auth" \in ax_seen[r] => "auth" \in seen)
      /\ "handler" \in seen => "handler" \in ax_seen[r]
  BY <1>1, <1>2, AtLayer DEF Measure
<1>4. Asked(p) /\ PassedLayers(ax_setting, p, ax_seen[r]) /\ UNCHANGED <<ax_setting, ax_counted>>
  BY <1>1, AskedIs DEF Measure
<1>5. CASE Pass(r) /\ ~(p.shape.size > SizeLimit)
  <2>1. PICK q : q = Passed(p)
    OBVIOUS
  <2>2. q.shape = p.shape /\ q.layer = 5 /\ q.context = p.context /\ q.answer = p.answer
    BY <1>3, <2>1, PassedIs
  <2>3. p.shape.size <= SizeLimit
    BY <1>3, <1>4, <1>5, AxAssumption DEF Asked
  <2>4. Asked(q) /\ PassedLayers(ax_setting, q, seen)
    BY <1>3, <1>4, <2>1, <2>2, <2>3 DEF Asked, PassedLayers, Passed
  <2>5. ax_request' = [ax_request EXCEPT ![r] = q]
    BY <1>1, <1>5, <2>1, PassIs
  <2>6. ax_request[r].layer \in 3..5 => q.layer \in 3..5
    BY <2>2
  <2> QED BY <1>3, <1>4, <2>4, <2>5, <2>6, LayerMoves
<1>6. CASE Answer_with(r, "413")
  <2>1. PICK q : q = Refused(p, "413")
    OBVIOUS
  <2>2. q.shape = p.shape /\ q.layer = p.layer /\ q.context = p.context /\ q.answer = "413"
    BY <2>1, RefusedIs
  <2>3. Asked(q) /\ PassedLayers(ax_setting, q, seen)
    BY <1>3, <1>4, <2>1, <2>2 DEF Asked, PassedLayers, Refused
  <2>4. ax_request' = [ax_request EXCEPT ![r] = q]
    BY <1>1, <1>6, <2>1, PassIs
  <2> QED BY <1>1, <1>3, <1>4, <2>2, <2>3, <2>4, LayerMoves
<1> QED BY <1>1, <1>5, <1>6 DEF Measure

LEMMA Handle_keeps ==
    ASSUME AxInv, NEW r \in AxRequests, Handle(r)
    PROVE  AxInv'
<1>1. PICK p : p = ax_request[r]
  OBVIOUS
<1>2. PICK seen : seen = ax_seen[r] \cup {"handler"}
  OBVIOUS
<1>3. ax_seen' = [ax_seen EXCEPT ![r] = seen] /\ p.layer = 5 /\ ("auth" \in ax_seen[r] => "auth" \in seen)
  BY <1>1, <1>2, AtLayer DEF Handle
<1>4. Asked(p) /\ PassedLayers(ax_setting, p, ax_seen[r]) /\ UNCHANGED <<ax_setting, ax_counted>>
  BY <1>1, AskedIs DEF Handle
<1>5. PICK q : q = Refused(p, "200")
  OBVIOUS
<1>6. q.shape = p.shape /\ q.layer = p.layer /\ q.context = p.context /\ q.answer = "200"
  BY <1>5, RefusedIs
<1>7. Asked(q) /\ PassedLayers(ax_setting, q, seen)
  BY <1>3, <1>4, <1>5, <1>6 DEF Asked, PassedLayers, Refused
<1>8. ax_request' = [ax_request EXCEPT ![r] = q]
  BY <1>1, <1>5, PassIs DEF Handle
<1> QED BY <1>1, <1>3, <1>4, <1>6, <1>7, <1>8, LayerMoves

LEMMA WindowMoves_keeps == ASSUME AxInv, WindowMoves PROVE AxInv'
<1>1. UNCHANGED <<ax_setting, ax_request, ax_seen>>
  BY DEF WindowMoves
<1>2. ax_counted' \in Seq(ShapeKeys) /\ Len(ax_counted') = Len(ax_counted) - 1 /\ Len(ax_counted) \in Nat
  BY DEF WindowMoves, AxInv
<1>3. PICK P : P = PastLimit(ax_request)
  OBVIOUS
<1>4. Cardinality(P) \in Nat /\ Len(ax_counted) <= Cardinality(P)
  <2>1. P \subseteq AxRequests
    BY <1>3 DEF PastLimit
  <2>2. IsFiniteSet(P)
    BY <2>1, AxAssumption, FS_Subset
  <2> QED BY <1>3, <2>2, FS_CardinalityType DEF AxInv
<1>5. Len(ax_counted') <= Cardinality(P)
  BY <1>2, <1>4
<1>6. PICK requests, seen : requests = ax_request /\ seen = ax_seen
  OBVIOUS
<1>7. PastLimit(ax_request') = P
  BY <1>1, <1>3
<1>8. \A r \in AxRequests : Asked(ax_request'[r]) /\ PassedLayers(ax_setting', ax_request'[r], ax_seen'[r])
  BY <1>1, AskedIs
<1> QED BY <1>1, <1>2, <1>5, <1>7, <1>8 DEF AxInv

LEMMA AxSteps_keep == ASSUME AxInv, [AxNext]_axvars PROVE AxInv'
<1>1. CASE UNCHANGED axvars
  BY <1>1 DEF axvars, AxInv
<1>2. ASSUME NEW r \in AxRequests,
             \/ \E s \in Shapes : Arrive(r, s)
             \/ Authenticate(r) \/ Limit(r) \/ Filter(r) \/ Measure(r) \/ Handle(r)
      PROVE  AxInv'
  BY <1>2, Arrive_keeps, Authenticate_keeps, Limit_keeps, Filter_keeps, Measure_keeps, Handle_keeps
<1> QED BY <1>1, <1>2, WindowMoves_keeps DEF AxNext

\* What the invariant says of requests in the middleware.
LEMMA AxSound == ASSUME AxInv PROVE HandledScreened /\ AxTypeOK
<1>1. ASSUME NEW r \in AxRequests, "handler" \in ax_seen[r]
      PROVE  ax_request[r].shape.size <= SizeLimit /\ allowed_in(ax_request[r].shape.ip)
  BY <1>1, AskedIs DEF PassedLayers, Admits, allowed_in
<1>2. Len(ax_counted) <= Cardinality(AxRequests)
  <2>1. PICK P : P = PastLimit(ax_request) /\ P \subseteq AxRequests
    BY DEF PastLimit
  <2>2. /\ Cardinality(P) <= Cardinality(AxRequests) /\ Cardinality(AxRequests) \in Nat
        /\ IsFiniteSet(P)
    BY <2>1, AxAssumption, FS_Subset, FS_CardinalityType
  <2>3. Cardinality(P) \in Nat
    BY <2>2, FS_CardinalityType
  <2>4. Len(ax_counted) \in Nat /\ Len(ax_counted) <= Cardinality(P)
    BY <2>1 DEF AxInv
  <2> QED BY <2>2, <2>3, <2>4
<1>3. AxTypeOK
  BY <1>2, AskedIs, LayersAre DEF AxTypeOK, AxInv, Asked
<1> QED BY <1>1, <1>3 DEF HandledScreened

\* A step of one request changes no other.
Only(r) == \A p \in AxRequests : ax_request'[p] # ax_request[p] => p = r

\* Only the limit counts, and what it counts is the request it lets pass.
LEMMA CountedStep ==
    ASSUME AxInv, [AxNext]_axvars
    PROVE  \A r \in AxRequests :
              Len(ax_counted') > Len(ax_counted) /\ ax_request'[r] # ax_request[r] =>
                  Last(ax_counted') = ax_request'[r].context.key
                  /\ "auth" \in ax_seen'[r]
<1>0. Len(ax_counted) \in Nat
  BY DEF AxInv
<1>1. CASE ax_counted' = ax_counted
  BY <1>0, <1>1
<1>2. CASE WindowMoves
  BY <1>2 DEF WindowMoves
<1>3. ASSUME NEW r \in AxRequests, Limit(r), ax_counted' # ax_counted,
             NEW o \in AxRequests, ax_request'[o] # ax_request[o]
      PROVE  Last(ax_counted') = ax_request'[o].context.key /\ "auth" \in ax_seen'[o]
  <2>1. PICK q, p : q = ax_request[r] /\ p = Passed(q)
    OBVIOUS
  <2>2. Pass(r) /\ ax_counted' = Append(ax_counted, q.context.key)
    BY <1>3, <2>1 DEF Limit
  <2>3. ax_request' = [ax_request EXCEPT ![r] = p]
    BY <2>1, <2>2, PassIs
  <2>4. o = r /\ ax_request'[o] = p
    BY <1>3, <2>3 DEF AxInv
  <2>5. p.context = q.context
    BY <2>1, PassedIs
  <2>6. Last(ax_counted') = q.context.key
    <3>1. PICK k \in ShapeKeys : k = q.context.key
      BY <2>1, AskedIs DEF Asked
    <3>2. ax_counted \in Seq(ShapeKeys)
      BY DEF AxInv
    <3> QED BY <2>2, <3>1, <3>2, AppendFacts
  <2>7. PICK seen : seen = ax_seen[r] \cup {"rate_limit"}
    OBVIOUS
  <2>8. ax_seen' = [ax_seen EXCEPT ![r] = seen] /\ q.layer = 2
    <3>1. At_layer(r, "rate_limit")
      BY <1>3 DEF Limit
    <3> QED BY <2>1, <2>7, <3>1, AtLayer
  <2>9. "auth" \in seen /\ ax_seen'[r] = seen
    BY <2>1, <2>7, <2>8, AskedIs DEF PassedLayers, AxInv
  <2> QED BY <2>4, <2>5, <2>6, <2>9
<1> QED BY <1>1, <1>2, <1>3 DEF AxNext, axvars, Arrive, Authenticate, Filter, Measure, Handle

-----------------------------------------------------------------------------
(* The redaction of one text.                                              *)

Matches == [start : 1..TextLength, end : 2..(TextLength + 1), with : Replacements]

\* The order of redaction is one: every match has its place.
LEMMA PlacesApart ==
    ASSUME NEW L \in Nat, NEW ms, DOMAIN ms = 1..L, \A i \in 1..L : ms[i].start \in Int
    PROVE  /\ \A i \in 1..L : place(ms, i) \in 1..L
           /\ \A i, j \in 1..L : place(ms, i) < place(ms, j) <=> i \in sooner(ms, j)
           /\ \A i, j \in 1..L : place(ms, i) = place(ms, j) => i = j
           /\ \A k \in 1..L : \E i \in 1..L : place(ms, i) = k
<1>1. IsFiniteSet(1..L) /\ Cardinality(1..L) = L
  <2>1. IsFiniteSet(1..L) /\ Cardinality(1..L) = IF 1 > L THEN 0 ELSE L - 1 + 1
    BY FS_Interval
  <2> QED BY <2>1
<1>2. ASSUME NEW i \in 1..L PROVE place(ms, i) = 1 + Cardinality(sooner(ms, i))
  BY DEF place
<1>3. ASSUME NEW i \in 1..L
      PROVE  /\ IsFiniteSet(sooner(ms, i)) /\ Cardinality(sooner(ms, i)) \in Nat
             /\ Cardinality(sooner(ms, i)) <= L - 1
  <2>1. sooner(ms, i) \in SUBSET ((1..L) \ {i})
    BY DEF sooner
  <2>2. IsFiniteSet((1..L) \ {i}) /\ Cardinality((1..L) \ {i}) = L - 1
    BY <1>1, FS_RemoveElement
  <2> QED BY <2>1, <2>2, FS_Subset, FS_CardinalityType
<1>4. ASSUME NEW i \in 1..L, NEW j \in 1..L, i \in sooner(ms, j)
      PROVE  Cardinality(sooner(ms, i)) < Cardinality(sooner(ms, j))
  <2>1. sooner(ms, i) \cup {i} \in SUBSET sooner(ms, j)
    BY <1>4 DEF sooner
  <2>2. i \notin sooner(ms, i)
    BY DEF sooner
  <2>3. Cardinality(sooner(ms, i) \cup {i}) = Cardinality(sooner(ms, i)) + 1
    BY <1>3, <2>2, FS_AddElement
  <2>4. Cardinality(sooner(ms, i) \cup {i}) <= Cardinality(sooner(ms, j))
    BY <1>3, <2>1, FS_Subset
  <2> QED BY <1>3, <2>3, <2>4
<1>5. \A i, j \in 1..L : i # j => i \in sooner(ms, j) \/ j \in sooner(ms, i)
  <2> SUFFICES ASSUME NEW i \in 1..L, NEW j \in 1..L, i # j PROVE i \in sooner(ms, j) \/ j \in sooner(ms, i)
    OBVIOUS
  <2>1. PICK a \in Int, b \in Int : a = ms[i].start /\ b = ms[j].start
    OBVIOUS
  <2>2. a > b \/ b > a \/ (a = b /\ (i < j \/ j < i))
    OBVIOUS
  <2>3. ASSUME NEW p \in 1..L, NEW q \in 1..L
        PROVE  p \in sooner(ms, q) <=> ms[p].start > ms[q].start \/ (ms[p].start = ms[q].start /\ p < q)
    BY DEF sooner
  <2>4. i \in sooner(ms, j) <=> a > b \/ (a = b /\ i < j)
    BY <2>1, <2>3
  <2>5. j \in sooner(ms, i) <=> b > a \/ (b = a /\ j < i)
    BY <2>1, <2>3
  <2> QED BY <2>2, <2>4, <2>5
<1>6. \A i, j \in 1..L : Cardinality(sooner(ms, i)) < Cardinality(sooner(ms, j)) <=> i \in sooner(ms, j)
  <2>1. \A i \in 1..L : i \notin sooner(ms, i)
    BY DEF sooner
  <2> QED BY <1>3, <1>4, <1>5, <2>1
<1>7. \A i, j \in 1..L : Cardinality(sooner(ms, i)) = Cardinality(sooner(ms, j)) => i = j
  BY <1>3, <1>4, <1>5
<1>8. ASSUME NEW i \in 1..L PROVE place(ms, i) \in 1..L
  <2>1. PICK c \in Nat : c = Cardinality(sooner(ms, i)) /\ c <= L - 1
    BY <1>3
  <2> QED BY <1>2, <2>1
<1>9. \A i, j \in 1..L : place(ms, i) = place(ms, j) => i = j
  BY <1>2, <1>3, <1>7
<1>10. \A k \in 1..L : \E i \in 1..L : place(ms, i) = k
  <2>1. PICK f : f = [i \in 1..L |-> place(ms, i)]
    OBVIOUS
  <2>2. f \in Injection(1..L, 1..L)
    BY <1>8, <1>9, <2>1 DEF Injection, IsInjective
  <2>3. f \in Surjection(1..L, 1..L)
    BY <1>1, <2>2, FS_Injection
  <2> QED BY <2>1, <2>3 DEF Surjection
<1>11. ASSUME NEW i \in 1..L, NEW j \in 1..L PROVE place(ms, i) < place(ms, j) <=> i \in sooner(ms, j)
  <2>1. PICK a \in Nat, b \in Nat : a = Cardinality(sooner(ms, i)) /\ b = Cardinality(sooner(ms, j))
    BY <1>3
  <2> QED BY <1>2, <1>6, <2>1
<1> QED BY <1>8, <1>9, <1>10, <1>11

\* Some match is the k-th to be redacted.
Redacts(ms, L, k) == \E i \in 1..L : place(ms, i) = k /\ later_first(ms)[k] = ms[i]

\* What is redacted, in its order.
LEMMA OrderedIs ==
    ASSUME NEW L \in Nat, NEW ms, DOMAIN ms = 1..L, \A i \in 1..L : ms[i] \in Matches
    PROVE  /\ DOMAIN later_first(ms) = 1..L
           /\ \A k \in 1..L : Redacts(ms, L, k)
           /\ \A i \in 1..L : place(ms, i) \in 1..L /\ later_first(ms)[place(ms, i)] = ms[i]
<1>1. \A i \in 1..L : ms[i].start \in Int
  BY RedactionAssumption DEF Matches
<1>2. ASSUME NEW k \in 1..L
      PROVE  \E i \in 1..L : place(ms, i) = k /\ later_first(ms)[k] = ms[i]
  <2>1. PICK c : c = CHOOSE i \in DOMAIN ms : place(ms, i) = k
    OBVIOUS
  <2>2. \E i \in 1..L : place(ms, i) = k
    BY <1>1, PlacesApart
  <2>3. c \in 1..L /\ place(ms, c) = k
    BY <2>1, <2>2, Zenon
  <2>4. later_first(ms)[k] = ms[c]
    BY <2>1 DEF later_first
  <2> QED BY <2>3, <2>4
<1>3. ASSUME NEW i \in 1..L PROVE place(ms, i) \in 1..L /\ later_first(ms)[place(ms, i)] = ms[i]
  <2>1. place(ms, i) \in 1..L
    BY <1>1, PlacesApart
  <2>2. PICK j \in 1..L : place(ms, j) = place(ms, i) /\ later_first(ms)[place(ms, i)] = ms[j]
    BY <1>2, <2>1
  <2>3. j = i
    BY <1>1, <2>2, PlacesApart
  <2> QED BY <2>1, <2>2, <2>3
<1>4. DOMAIN later_first(ms) = 1..L
  BY DEF later_first
<1>5. \A k \in 1..L : Redacts(ms, L, k)
  BY <1>2 DEF Redacts
<1> QED BY <1>3, <1>4, <1>5

\* What replacing a match makes of the text, position by position.
LEMMA ReplacedIs ==
    ASSUME NEW t \in Seq(0..TextLength), NEW m \in Matches
    PROVE  /\ replaced(t, m) \in Seq(0..TextLength)
           /\ m.start <= Len(t) /\ m.end <= Len(t) + 1 /\ m.start < m.end =>
                /\ Len(replaced(t, m)) = Len(t) - (m.end - m.start) + m.with
                /\ \A i \in 1..(m.start - 1) : replaced(t, m)[i] = t[i]
                /\ \A i \in m.start..(m.start + m.with - 1) : replaced(t, m)[i] = 0
                /\ \A i \in m.end..Len(t) : replaced(t, m)[i - m.end + m.start + m.with] = t[i]
<1>a. PICK T \in Nat : T = TextLength
  BY RedactionAssumption
<1>b. PICK L \in Nat : L = Len(t)
  BY LenProperties
<1>c. PICK a \in Nat : a = m.start /\ a >= 1 /\ a <= T
  BY <1>a DEF Matches
<1>d. PICK e \in Nat : e = m.end /\ e >= 2
  BY <1>a DEF Matches
<1>e. PICK w \in Nat : w = m.with
  BY RedactionAssumption DEF Matches
<1>1. /\ T \in Nat /\ L \in Nat /\ a \in Nat /\ e \in Nat /\ w \in Nat
      /\ a = m.start /\ e = m.end /\ w = m.with /\ T = TextLength /\ L = Len(t) /\ a >= 1 /\ e >= 2
  BY <1>a, <1>b, <1>c, <1>d, <1>e
<1>2. DOMAIN t = 1..L /\ \A i \in 1..L : t[i] \in 0..T
  BY <1>1, LenProperties
<1>3. PICK u \in Nat : u = (IF a - 1 < L THEN a - 1 ELSE L)
  BY <1>1
<1>4. PICK front : front = SubSeq(t, 1, u)
  OBVIOUS
<1>5. front \in Seq(0..T) /\ Len(front) = u /\ \A i \in 1..u : front[i] = t[i]
  <2>1. \A i \in 1..u : t[i] \in 0..T
    BY <1>2, <1>3
  <2>2. /\ SubSeq(t, 1, u) \in Seq(0..T)
        /\ Len(SubSeq(t, 1, u)) = (IF 1 <= u THEN u - 1 + 1 ELSE 0)
        /\ \A i \in 1..(u - 1 + 1) : SubSeq(t, 1, u)[i] = t[1 + i - 1]
    BY <2>1, SubSeqProperties
  <2> QED BY <1>3, <1>4, <2>2
<1>6. PICK zeros : zeros = Placeholder(w)
  OBVIOUS
<1>7. zeros \in Seq(0..T) /\ Len(zeros) = w /\ \A i \in 1..w : zeros[i] = 0
  <2>1. zeros \in [1..w -> 0..T]
    BY <1>6 DEF Placeholder
  <2>2. zeros \in Seq(0..T)
    BY <2>1, SeqDef
  <2> QED BY <1>6, <2>2, <2>1, LenProperties DEF Placeholder
<1>8. PICK back : back = SubSeq(t, e, L)
  OBVIOUS
<1>9. /\ back \in Seq(0..T) /\ Len(back) = (IF e <= L THEN L - e + 1 ELSE 0)
      /\ \A i \in 1..(L - e + 1) : back[i] = t[e + i - 1]
  <2>1. \A i \in e..L : t[i] \in 0..T
    BY <1>1, <1>2
  <2>2. /\ SubSeq(t, e, L) \in Seq(0..T)
        /\ Len(SubSeq(t, e, L)) = (IF e <= L THEN L - e + 1 ELSE 0)
        /\ \A i \in 1..(L - e + 1) : SubSeq(t, e, L)[i] = t[e + i - 1]
    BY <2>1, SubSeqProperties
  <2> QED BY <1>8, <2>2
<1>10. replaced(t, m) = (front \o zeros) \o back
  BY <1>1, <1>3, <1>4, <1>6, <1>8 DEF replaced
<1>11. PICK head : head = front \o zeros
  OBVIOUS
<1>12. /\ head \in Seq(0..T) /\ Len(head) = u + w
       /\ \A i \in 1..(u + w) : head[i] = IF i <= u THEN front[i] ELSE zeros[i - u]
  BY <1>5, <1>7, <1>11, ConcatProperties
<1>13. PICK new : new = head \o back
  OBVIOUS
<1>14. PICK B \in Nat : B = Len(back)
  BY <1>1, <1>9
<1>15. /\ new \in Seq(0..T) /\ Len(new) = u + w + B
       /\ \A i \in 1..(u + w + B) : new[i] = IF i <= u + w THEN head[i] ELSE back[i - (u + w)]
  <2>1. /\ head \o back \in Seq(0..T) /\ Len(head \o back) = Len(head) + Len(back)
        /\ \A i \in 1..(Len(head) + Len(back)) :
             (head \o back)[i] = IF i <= Len(head) THEN head[i] ELSE back[i - Len(head)]
    BY <1>9, <1>12, ConcatProperties
  <2> QED BY <1>12, <1>13, <1>14, <2>1
<1>16. new = replaced(t, m)
  BY <1>10, <1>11, <1>13
<1>17. ASSUME a <= L, e <= L + 1, a < e
       PROVE  /\ Len(new) = L - (e - a) + w
              /\ \A i \in 1..(a - 1) : new[i] = t[i]
              /\ \A i \in a..(a + w - 1) : new[i] = 0
              /\ \A i \in e..L : new[i - e + a + w] = t[i]
  <2>1. u = a - 1 /\ B = L - e + 1
    <3>1. u = a - 1
      BY <1>1, <1>3, <1>17
    <3>2. B = L - e + 1
      <4>1. B = IF e <= L THEN L - e + 1 ELSE 0
        BY <1>9, <1>14
      <4> QED BY <4>1, <1>17
    <3> QED BY <3>1, <3>2
  <2>2. Len(new) = L - (e - a) + w
    BY <1>15, <2>1
  <2>3. ASSUME NEW i \in 1..(a - 1) PROVE new[i] = t[i]
    <3>1. i \in 1..u /\ i \in 1..(u + w) /\ i \in 1..(u + w + B) /\ i <= u + w /\ i <= u
      BY <2>1
    <3> QED BY <1>5, <1>12, <1>15, <3>1
  <2>4. ASSUME NEW i \in a..(a + w - 1) PROVE new[i] = 0
    <3>1. /\ i \in 1..(u + w) /\ i \in 1..(u + w + B) /\ i <= u + w /\ ~(i <= u)
          /\ i - u \in 1..w
      BY <2>1
    <3>2. new[i] = head[i]
      BY <1>15, <3>1
    <3>3. head[i] = zeros[i - u]
      BY <1>12, <3>1
    <3> QED BY <1>7, <3>1, <3>2, <3>3
  <2>5. ASSUME NEW i \in e..L PROVE new[i - e + a + w] = t[i]
    <3>1. PICK k \in Nat : k = i - e + 1
      OBVIOUS
    <3>2. k \in 1..B /\ u + w + k = i - e + a + w /\ e + k - 1 = i
      BY <2>1, <3>1
    <3>3. new[u + w + k] = back[k]
      BY <1>15, <3>2
    <3>4. back[k] = t[i]
      BY <1>9, <2>1, <3>2
    <3> QED BY <3>2, <3>3, <3>4
  <2> QED BY <2>2, <2>3, <2>4, <2>5
<1> QED BY <1>1, <1>15, <1>16, <1>17

\* The text after the first redactions: in front of the last of them as it was, and behind
\* it what was not matched, in order.
Redacted(t, b, gone) ==
    /\ b \in 1..(TextLength + 1) /\ Len(t) >= b - 1
    /\ \A i \in 1..(b - 1) : t[i] = i
    /\ \A v \in 1..TextLength : (\E i \in 1..Len(t) : t[i] = v) <=> v \notin gone
    /\ \A i, j \in 1..Len(t) : i < j /\ t[i] # 0 /\ t[j] # 0 => t[i] < t[j]

LEMMA OneMoreRedacted ==
    ASSUME NEW t \in Seq(0..TextLength), NEW b \in Int, NEW gone, Redacted(t, b, gone),
           NEW m \in Matches, m.start < m.end, m.end <= b
    PROVE  Redacted(replaced(t, m), m.start, gone \cup (m.start..(m.end - 1)))
<1>a. PICK T \in Nat : T = TextLength
  BY RedactionAssumption
<1>b. PICK L \in Nat : L = Len(t)
  BY LenProperties
<1>c. PICK a \in Nat : a = m.start /\ a >= 1 /\ a <= T
  BY <1>a DEF Matches
<1>d. PICK e \in Nat : e = m.end /\ e >= 2
  BY <1>a DEF Matches
<1>e. PICK w \in Nat : w = m.with
  BY RedactionAssumption DEF Matches
<1>1. /\ T \in Nat /\ L \in Nat /\ a \in Nat /\ e \in Nat /\ w \in Nat
      /\ a = m.start /\ e = m.end /\ w = m.with /\ T = TextLength /\ L = Len(t) /\ a >= 1 /\ a <= T
  BY <1>a, <1>b, <1>c, <1>d, <1>e
<1>2. PICK n : n = replaced(t, m)
  OBVIOUS
<1>3. a < e /\ e <= b /\ b <= L + 1 /\ b \in 1..(T + 1)
  BY <1>1 DEF Redacted
<1>4. /\ n \in Seq(0..T) /\ Len(n) = L - (e - a) + w
      /\ \A i \in 1..(a - 1) : n[i] = t[i]
      /\ \A i \in a..(a + w - 1) : n[i] = 0
      /\ \A i \in e..L : n[i - e + a + w] = t[i]
  <2>1. m.start <= Len(t) /\ m.end <= Len(t) + 1 /\ m.start < m.end
    BY <1>1, <1>3
  <2> QED BY <1>1, <1>2, <2>1, ReplacedIs
<1>5. PICK N \in Nat : N = Len(n) /\ N = L - (e - a) + w
  BY <1>1, <1>3, <1>4
<1>6. \A i \in 1..(b - 1) : t[i] = i
  BY DEF Redacted
<1>7. \A i, j \in 1..L : i < j /\ t[i] # 0 /\ t[j] # 0 => t[i] < t[j]
  BY <1>1 DEF Redacted
<1>8. \A v \in 1..T : (\E i \in 1..L : t[i] = v) <=> v \notin gone
  BY <1>1 DEF Redacted
<1>9. \A i \in 1..L : t[i] \in 0..T
  BY <1>1, LenProperties
\* Where the new positions come from.
<1>10. ASSUME NEW i \in 1..N, n[i] # 0
       PROVE  \/ i < a /\ n[i] = t[i]
              \/ i >= a + w /\ i - w - a + e \in e..L /\ n[i] = t[i - w - a + e]
  <2>1. CASE i < a
    BY <1>4, <2>1
  <2>2. CASE i \in a..(a + w - 1)
    BY <1>4, <1>10, <2>2
  <2>3. CASE i >= a + w
    <3>1. PICK k \in e..L : k = i - w - a + e /\ i = k - e + a + w
      BY <1>3, <1>5, <2>3
    <3> QED BY <1>4, <2>3, <3>1
  <2> QED BY <1>1, <2>1, <2>2, <2>3
<1>11. ASSUME NEW i \in 1..N, NEW j \in 1..N, i < j, n[i] # 0, n[j] # 0 PROVE n[i] < n[j]
  <2>1. PICK k \in 1..L : n[i] = t[k] /\ ((i < a /\ k = i) \/ (i >= a + w /\ k = i - w - a + e))
    <3>1. CASE i < a /\ n[i] = t[i]
      <4>1. i \in 1..L
        BY <1>3, <3>1
      <4> QED BY <3>1, <4>1
    <3>2. CASE i >= a + w /\ i - w - a + e \in e..L /\ n[i] = t[i - w - a + e]
      <4>1. i - w - a + e \in 1..L
        BY <1>d, <3>2
      <4> QED BY <3>2, <4>1
    <3> QED BY <1>10, <1>11, <3>1, <3>2
  <2>2. PICK l \in 1..L : n[j] = t[l] /\ ((j < a /\ l = j) \/ (j >= a + w /\ l = j - w - a + e))
    <3>1. CASE j < a /\ n[j] = t[j]
      <4>1. j \in 1..L
        BY <1>3, <3>1
      <4> QED BY <3>1, <4>1
    <3>2. CASE j >= a + w /\ j - w - a + e \in e..L /\ n[j] = t[j - w - a + e]
      <4>1. j - w - a + e \in 1..L
        BY <1>d, <3>2
      <4> QED BY <3>2, <4>1
    <3> QED BY <1>10, <1>11, <3>1, <3>2
  <2>3. k < l
    BY <1>3, <1>11, <2>1, <2>2
  <2> QED BY <1>7, <1>11, <2>1, <2>2, <2>3
<1>12. ASSUME NEW v \in 1..T
       PROVE  (\E i \in 1..N : n[i] = v) <=> v \notin gone \cup (a..(e - 1))
  <2>1. ASSUME NEW i \in 1..N, n[i] = v PROVE v \notin gone /\ v \notin a..(e - 1)
    <3>1. PICK k \in 1..L : v = t[k] /\ (k < a \/ k >= e)
      <4>1. CASE i < a /\ n[i] = t[i]
        <5>1. i \in 1..L
          BY <1>3, <4>1
        <5> QED BY <2>1, <4>1, <5>1
      <4>2. CASE i >= a + w /\ i - w - a + e \in e..L /\ n[i] = t[i - w - a + e]
        <5>1. i - w - a + e \in 1..L /\ i - w - a + e >= e
          BY <1>d, <4>2
        <5> QED BY <2>1, <4>2, <5>1
      <4>3. n[i] # 0
        BY <2>1
      <4> QED BY <1>10, <4>1, <4>2, <4>3
    <3>2. v \notin gone
      BY <1>8, <3>1
    <3>3. CASE k < a
      <4>1. k \in 1..(b - 1)
        BY <1>3, <3>3
      <4>2. v = k
        BY <1>6, <3>1, <4>1
      <4> QED BY <3>2, <3>3, <4>2
    <3>4. CASE k >= e /\ v \in a..(e - 1)
      <4>1. v \in 1..L /\ v < k /\ t[v] = v
        BY <1>3, <1>6, <3>4
      <4> QED BY <1>7, <3>1, <4>1
    <3> QED BY <3>1, <3>2, <3>3, <3>4
  <2>2. ASSUME v \notin gone, v \notin a..(e - 1) PROVE \E i \in 1..N : n[i] = v
    <3>1. PICK k \in 1..L : t[k] = v
      BY <1>8, <2>2
    <3>2. CASE k < a
      <4>1. k \in 1..N /\ k \in 1..(a - 1)
        BY <1>3, <1>5, <3>2
      <4> QED BY <1>4, <3>1, <4>1
    <3>3. CASE k \in a..(e - 1)
      BY <1>3, <1>6, <2>2, <3>1, <3>3
    <3>4. CASE k >= e
      <4>1. k \in e..L
        BY <3>4
      <4>2. PICK i \in 1..N : i = k - e + a + w
        <5>0. k - e + a + w <= N /\ k - e + a + w >= 1 /\ k - e + a + w \in Int
          <6>1. N = L - (e - a) + w /\ a >= 1 /\ e <= k /\ k <= L
            BY <1>c, <1>5, <4>1
          <6>2. w \in Nat /\ a \in Nat /\ e \in Nat /\ k \in Nat /\ L \in Nat
            BY <1>1
          <6> QED BY <6>1, <6>2
        <5>1. k - e + a + w \in 1..N
          <6>1. PICK i \in Int : i = k - e + a + w
            BY <5>0
          <6>2. i \in 1..N
            BY <1>5, <5>0, <6>1
          <6> QED BY <6>1, <6>2
        <5> QED BY <5>1
      <4> QED BY <1>4, <3>1, <4>1, <4>2
    <3> QED BY <1>1, <3>2, <3>3, <3>4
  <2> QED BY <2>1, <2>2
<1>13. a \in 1..(T + 1) /\ N >= a - 1
  <2>1. a <= T /\ a >= 1
    BY <1>1
  <2> QED BY <1>3, <1>5, <2>1
<1>14. ASSUME NEW i \in 1..(a - 1) PROVE n[i] = i
  <2>1. i \in 1..(b - 1)
    BY <1>3
  <2> QED BY <1>4, <1>6, <2>1
<1> QED BY <1>1, <1>2, <1>5, <1>11, <1>12, <1>13, <1>14 DEF Redacted

\* The texts on the way: one after each of the matches, in the order of redaction.
Redacting(ms) ==
    CHOOSE f : f = [k \in 0..Len(later_first(ms)) |->
        IF k = 0 THEN text ELSE replaced(f[k - 1], later_first(ms)[k])]

LEMMA RedactingIs ==
    ASSUME NEW L \in Nat, NEW ms, L = Len(ms), DOMAIN ms = 1..L, \A i \in 1..L : ms[i] \in Matches
    PROVE  /\ redact(ms) = Redacting(ms)[L] /\ Redacting(ms)[0] = text
           /\ Redacting(ms) \in [0..L -> Seq(0..TextLength)]
           /\ \A k \in 1..L : Redacting(ms)[k] = replaced(Redacting(ms)[k - 1], later_first(ms)[k])
<1>1. PICK o : o = later_first(ms)
  OBVIOUS
<1>2. DOMAIN o = 1..L /\ \A k \in 1..L : o[k] \in Matches
  <2>1. /\ DOMAIN later_first(ms) = 1..L
        /\ \A k \in 1..L : Redacts(ms, L, k)
    BY OrderedIs
  <2>2. ASSUME NEW k \in 1..L PROVE o[k] \in Matches
    BY <1>1, <2>1 DEF Redacts
  <2> QED BY <1>1, <2>1, <2>2
<1>3. o \in Seq(Matches) /\ Len(o) = L
  <2>1. o = [k \in DOMAIN ms |-> ms[CHOOSE i \in DOMAIN ms : place(ms, i) = k]]
    BY <1>1 DEF later_first
  <2>2. o = [k \in 1..L |-> o[k]]
    BY <1>2, <2>1
  <2>3. o \in [1..L -> Matches]
    BY <1>2, <2>2
  <2>4. o \in Seq(Matches)
    BY <2>3, SeqDef
  <2> QED BY <2>3, <2>4, LenProperties
<1>4. PICK T : T = Seq(0..TextLength)
  OBVIOUS
<1>5. text \in T
  <2>1. text \in [1..TextLength -> 0..TextLength]
    BY RedactionAssumption DEF text
  <2> QED BY <1>4, <2>1, RedactionAssumption, SeqDef
<1>6. PICK step : step = [k \in 1..L |-> [t \in T |-> replaced(t, o[k])]]
  OBVIOUS
<1>7. step \in [1..L -> [T -> T]]
  <2>1. ASSUME NEW k \in 1..L, NEW t \in T PROVE replaced(t, o[k]) \in T
    BY <1>2, <1>4, ReplacedIs
  <2> QED BY <1>6, <2>1
<1>8. PICK f \in [0..L -> T] : f = [i \in 0..L |-> IF i = 0 THEN text ELSE step[i][f[i - 1]]]
  <2>1. Computable(L, T, text, step)
    BY <1>5, <1>7, StepByStep
  <2> QED BY <2>1 DEF Computable
<1>9. \A i \in 0..L : f[i] \in T /\ f[i] = IF i = 0 THEN text ELSE step[i][f[i - 1]]
  BY <1>8
<1>10. \A i \in 1..L : step[i][f[i - 1]] = replaced(f[i - 1], o[i])
  <2> SUFFICES ASSUME NEW i \in 1..L PROVE step[i][f[i - 1]] = replaced(f[i - 1], o[i])
    OBVIOUS
  <2>1. i - 1 \in 0..L
    OBVIOUS
  <2>2. f[i - 1] \in T
    BY <1>9, <2>1
  <2> QED BY <1>6, <2>2
<1>11. f = [i \in 0..L |-> IF i = 0 THEN text ELSE replaced(f[i - 1], o[i])]
  <2>1. \A i \in 0..L : f[i] = IF i = 0 THEN text ELSE replaced(f[i - 1], o[i])
    <3> SUFFICES ASSUME NEW i \in 0..L PROVE f[i] = IF i = 0 THEN text ELSE replaced(f[i - 1], o[i])
      OBVIOUS
    <3>1. CASE i = 0
      BY <1>9, <3>1
    <3>2. CASE i \in 1..L
      BY <1>9, <1>10, <3>2
    <3> QED BY <3>1, <3>2
  <2> QED BY <1>8, <2>1
<1>12. ASSUME NEW h, h = [i \in 0..L |-> IF i = 0 THEN text ELSE replaced(h[i - 1], o[i])] PROVE h = f
  <2>1. PICK S : S = {i \in 0..L : h[i] = f[i]}
    OBVIOUS
  <2>2. h[0] = text /\ f[0] = text
    BY <1>9, <1>12
  <2>3. \A i \in 1..L : h[i] = replaced(h[i - 1], o[i])
    BY <1>12
  <2>4. \A i \in 1..L : f[i] = replaced(f[i - 1], o[i])
    BY <1>9, <1>10
  <2>5. ASSUME NEW i \in 1..L, i - 1 \in S PROVE i \in S
    BY <2>1, <2>3, <2>4, <2>5
  <2>6. 0 \in S
    BY <2>1, <2>2
  <2>7. \A i \in 0..L : i \in S
    BY <2>5, <2>6, Climb
  <2>8. \A i \in 0..L : h[i] = f[i]
    BY <2>1, <2>7
  <2>9. h = [i \in 0..L |-> h[i]] /\ f = [i \in 0..L |-> f[i]]
    BY <1>8, <1>12
  <2> QED BY <2>8, <2>9
<1>13. Redacting(ms) = f
  <2>1. Redacting(ms) = CHOOSE h : h = [k \in 0..L |-> IF k = 0 THEN text ELSE replaced(h[k - 1], o[k])]
    BY <1>1, <1>3 DEF Redacting
  <2> QED BY <1>11, <1>12, <2>1
<1>14. redact(ms) = Redacting(ms)[L]
  BY <1>1, <1>3 DEF redact, Redacting
<1>15. f \in [0..L -> Seq(0..TextLength)] /\ f[0] = text /\ \A k \in 1..L : f[k] = replaced(f[k - 1], o[k])
  <2>1. \A k \in 1..L : f[k] = replaced(f[k - 1], o[k])
    BY <1>9, <1>10
  <2>2. f \in [0..L -> Seq(0..TextLength)]
    BY <1>4, <1>8, Zenon
  <2>3. f[0] = text
    BY <1>9
  <2> QED BY <2>1, <2>2, <2>3
<1> QED BY <1>1, <1>13, <1>14, <1>15

Matched(ms, k) == UNION {later_first(ms)[j].start..(later_first(ms)[j].end - 1) : j \in 1..k}
EndOf(ms, k) == IF k = 0 THEN TextLength + 1 ELSE later_first(ms)[k].start

LEMMA RedactedUpto ==
    ASSUME NEW L \in Nat, NEW ms, L = Len(ms), DOMAIN ms = 1..L,
           \A i \in 1..L : ms[i] \in Matches /\ ms[i].start < ms[i].end,
           \A i, j \in 1..L : i # j => ms[i].end <= ms[j].start \/ ms[j].end <= ms[i].start
    PROVE  \A k \in 0..L : Redacted(Redacting(ms)[k], EndOf(ms, k), Matched(ms, k))
<1>1. PICK o : o = later_first(ms)
  OBVIOUS
<1>2. PICK f : f = Redacting(ms)
  OBVIOUS
<1>3. \A k \in 1..L : \E i \in 1..L : place(ms, i) = k /\ o[k] = ms[i]
  <2>1. \A i \in 1..L : ms[i] \in Matches
    OBVIOUS
  <2>2. \A k \in 1..L : Redacts(ms, L, k)
    BY <2>1, OrderedIs
  <2> QED BY <1>1, <2>2 DEF Redacts
<1>4. \A i \in 1..L : ms[i].start \in Int /\ ms[i].end \in Int
  <2>1. TextLength \in Nat
    BY RedactionAssumption
  <2> QED BY <2>1 DEF Matches
<1>5. ASSUME NEW k \in 1..L, NEW l \in 1..L, k < l PROVE o[l].end <= o[k].start
  <2>1. PICK i \in 1..L : place(ms, i) = k /\ o[k] = ms[i]
    BY <1>3
  <2>2. PICK j \in 1..L : place(ms, j) = l /\ o[l] = ms[j]
    BY <1>3
  <2>3. i \in sooner(ms, j)
    BY <1>4, <1>5, <2>1, <2>2, PlacesApart
  <2>4. ms[i].start >= ms[j].start /\ i # j
    BY <1>4, <2>3, <1>5, <2>1, <2>2 DEF sooner
  <2>5. ms[i].end <= ms[j].start \/ ms[j].end <= ms[i].start
    BY <2>4
  <2>6. ms[i].start < ms[i].end
    OBVIOUS
  <2> QED BY <1>4, <2>1, <2>2, <2>4, <2>5, <2>6
<1>6. ASSUME NEW k \in 1..L PROVE o[k] \in Matches /\ o[k].start < o[k].end
  BY <1>3
<1>7. PICK S : S = {k \in 0..L : Redacted(f[k], EndOf(ms, k), Matched(ms, k))}
  OBVIOUS
<1>8. 0 \in S
  <2>1. f[0] = text
    BY <1>2, RedactingIs
  <2>2. EndOf(ms, 0) = TextLength + 1
    BY DEF EndOf
  <2>3. Matched(ms, 0) = {}
    BY DEF Matched
  <2>4. PICK T \in Nat : T = TextLength
    BY RedactionAssumption
  <2>5. text = [i \in 1..T |-> i]
    BY <2>4 DEF text
  <2>6. text \in Seq(1..T)
    <3>1. text \in [1..T -> 1..T]
      BY <2>5
    <3> QED BY <3>1, SeqDef
  <2>7. Len(text) = T
    BY <2>5, <2>6, LenProperties
  <2>8. \A i \in 1..T : text[i] = i
    BY <2>5
  <2>9. Redacted(text, T + 1, {})
    BY <2>4, <2>7, <2>8 DEF Redacted
  <2> QED BY <1>7, <2>1, <2>2, <2>3, <2>4, <2>9
<1>9. ASSUME NEW k \in 1..L, k - 1 \in S PROVE k \in S
  <2>1. f[k] = replaced(f[k - 1], o[k]) /\ f[k - 1] \in Seq(0..TextLength)
    <3>1. k - 1 \in 0..L
      OBVIOUS
    <3> QED BY <1>1, <1>2, <3>1, RedactingIs
  <2>2. Redacted(f[k - 1], EndOf(ms, k - 1), Matched(ms, k - 1))
    BY <1>7, <1>9
  <2>3. EndOf(ms, k - 1) \in Int /\ o[k].end <= EndOf(ms, k - 1)
    <3>0. PICK T \in Nat : T = TextLength
      BY RedactionAssumption
    <3>1. CASE k = 1
      <4>1. EndOf(ms, k - 1) = T + 1
        BY <3>0, <3>1 DEF EndOf
      <4>2. o[k].end \in 2..(T + 1)
        BY <1>6, <3>0 DEF Matches
      <4> QED BY <4>1, <4>2
    <3>2. CASE k # 1
      <4>1. k - 1 \in 1..L /\ k - 1 < k /\ k - 1 # 0
        BY <3>2
      <4>2. EndOf(ms, k - 1) = o[k - 1].start
        BY <1>1, <4>1 DEF EndOf
      <4>3. o[k - 1].start \in 1..T
        BY <1>6, <3>0, <4>1 DEF Matches
      <4> QED BY <1>5, <4>1, <4>2, <4>3
    <3> QED BY <3>1, <3>2
  <2>4. PICK b \in Int : b = EndOf(ms, k - 1)
    BY <2>3
  <2>5. Redacted(f[k], o[k].start, Matched(ms, k - 1) \cup (o[k].start..(o[k].end - 1)))
    BY <1>6, <2>1, <2>2, <2>3, <2>4, OneMoreRedacted
  <2>6. Matched(ms, k) = Matched(ms, k - 1) \cup (o[k].start..(o[k].end - 1))
    <3>1. 1..k = (1..(k - 1)) \cup {k}
      OBVIOUS
    <3> QED BY <1>1, <3>1 DEF Matched
  <2>7. EndOf(ms, k) = o[k].start
    BY <1>1 DEF EndOf
  <2>8. Redacted(f[k], EndOf(ms, k), Matched(ms, k))
    BY <2>5, <2>6, <2>7
  <2> QED BY <1>7, <2>8
<1>10. \A k \in 0..L : k \in S
  BY <1>8, <1>9, Climb
<1> QED BY <1>2, <1>7, <1>10

RedactionInv == RdTypeOK /\ DisjointRedacted

LEMMA ScannedIs ==
    ASSUME scanned \in MatchLists
    PROVE  /\ Len(scanned) \in Nat /\ DOMAIN scanned = 1..Len(scanned)
           /\ \A i \in 1..Len(scanned) : scanned[i] \in Matches /\ scanned[i].start < scanned[i].end
<1>1. scanned \in Seq(Matches)
  BY RedactionAssumption DEF Matches
<1>2. Len(scanned) \in Nat /\ DOMAIN scanned = 1..Len(scanned) /\ \A i \in 1..Len(scanned) : scanned[i] \in Matches
  BY <1>1, LenProperties
<1>3. \A i \in 1..Len(scanned) : scanned[i].start < scanned[i].end
  BY <1>2, RedactionAssumption
<1> QED BY <1>2, <1>3

LEMMA RedactionInit == RdInit => RedactionInv
<1> SUFFICES ASSUME RdInit PROVE RedactionInv
  OBVIOUS
<1>1. result \in Seq(0..TextLength)
  BY DEF RdInit
<1> QED BY <1>1 DEF RdInit, RedactionInv, RdTypeOK, DisjointRedacted

LEMMA RedactKeeps == ASSUME RedactionInv, Redact PROVE RedactionInv'
<1>1. scanned \in MatchLists /\ scanned' = scanned /\ result' = redact(scanned)
  BY DEF RedactionInv, RdTypeOK, Redact
<1>2. PICK L \in Nat : L = Len(scanned)
  BY <1>1, ScannedIs
<1>3. DOMAIN scanned = 1..L /\ \A i \in 1..L : scanned[i] \in Matches /\ scanned[i].start < scanned[i].end
  BY <1>1, <1>2, ScannedIs
<1>4. result' = Redacting(scanned)[L] /\ result' \in Seq(0..TextLength)
  BY <1>1, <1>2, <1>3, RedactingIs
<1>5. ASSUME disjoint' PROVE RedactedExactly'
  <2>1. \A i, j \in 1..L : i # j => scanned[i].end <= scanned[j].start \/ scanned[j].end <= scanned[i].start
    BY <1>1, <1>3, <1>5 DEF disjoint
  <2>2. Redacted(result', EndOf(scanned, L), Matched(scanned, L))
    BY <1>2, <1>3, <1>4, <2>1, RedactedUpto
  <2>3. Matched(scanned, L) = matched'
    <3>1. \A k \in 1..L : \E i \in 1..L : later_first(scanned)[k] = scanned[i]
      <4>1. \A k \in 1..L : Redacts(scanned, L, k)
        BY <1>3, OrderedIs
      <4> QED BY <4>1 DEF Redacts
    <3>2. ASSUME NEW i \in 1..L PROVE \E k \in 1..L : later_first(scanned)[k] = scanned[i]
      <4>1. place(scanned, i) \in 1..L /\ later_first(scanned)[place(scanned, i)] = scanned[i]
        BY <1>3, OrderedIs
      <4> QED BY <4>1
    <3>3. matched' = UNION {scanned[i].start..(scanned[i].end - 1) : i \in 1..L}
      BY <1>1, <1>3 DEF matched
    <3> QED BY <3>1, <3>2, <3>3 DEF Matched
  <2>a. PICK r : r = result'
    OBVIOUS
  <2>b. PICK T \in Nat : T = TextLength
    BY RedactionAssumption
  <2>c. r \in Seq(0..T)
    BY <1>4, <2>a, <2>b
  <2>d. PICK N \in Nat : N = Len(r)
    BY <2>c, LenProperties
  <2>e. PICK gone : gone = matched'
    OBVIOUS
  <2>4. /\ r = result' /\ N = Len(r) /\ T = TextLength /\ gone = matched'
        /\ DOMAIN r = 1..N /\ \A i \in 1..N : r[i] \in 0..T
    BY <2>a, <2>b, <2>c, <2>d, <2>e, LenProperties
  <2>5. /\ \A v \in 1..T : (\E i \in 1..N : r[i] = v) <=> v \notin gone
        /\ \A i, j \in 1..N : i < j /\ r[i] # 0 /\ r[j] # 0 => r[i] < r[j]
    BY <2>2, <2>3, <2>4 DEF Redacted
  <2>6. {r[i] : i \in 1..N} \ {0} = (1..T) \ gone
    BY <2>4, <2>5
  <2> QED BY <2>4, <2>5, <2>6 DEF RedactedExactly
<1> QED BY <1>1, <1>4, <1>5 DEF RedactionInv, RdTypeOK, DisjointRedacted

LEMMA RedactionStep == ASSUME RedactionInv, [Redact]_rdvars PROVE RedactionInv'
<1>1. CASE UNCHANGED rdvars
  BY <1>1 DEF rdvars, RedactionInv, RdTypeOK, DisjointRedacted, RedactedExactly, disjoint, matched
<1> QED BY <1>1, RedactKeeps

-----------------------------------------------------------------------------
(* The components of MCEdge beside one another.                            *)

\* What each component keeps, whichever of them moves.
EdgeInv ==
    /\ LimiterInv /\ AxInv /\ CpInv /\ AccountsInv /\ LoggedInv /\ SignInInv
    /\ PermissionsInv /\ WebhookInv /\ BudgetInv /\ LifecycleInv /\ RedactionInv

LEMMA EdgeStarts == EdgeInit => EdgeInv
<1> SUFFICES ASSUME EdgeInit PROVE EdgeInv
  OBVIOUS
<1>1. RateInit /\ AxInit /\ CpInit /\ RdInit /\ AcInit /\ SiInit /\ AaInit /\ BuInit /\ AlInit
  BY DEF EdgeInit
<1>2. PermissionsInv
  BY <1>1 DEF AaInit, PermissionsInv
<1>3. AxInv /\ CpInv /\ LoggedInv
  BY <1>1, AxStarts, CpStarts DEF AcInit, LoggedInv
<1> QED
  BY <1>1, <1>2, <1>3, LimiterInit, AccountsInit, SignInInit, WebhookInit, BudgetInit, LifecycleInit, RedactionInit
  DEF EdgeInv

\* One component moves, or none.
LEMMA EdgeMoves ==
    ASSUME [EdgeNext]_bundleVars
    PROVE  /\ [RateNext]_ratevars /\ [AxNext]_axvars /\ (CpNext \/ UNCHANGED cpvars)
           /\ [AcNext]_acvars /\ [SiNext]_sivars
           /\ SetsNext \/ UNCHANGED sets
           /\ WebhookNext \/ UNCHANGED <<says, wh_cache, wh_calls, wh_hits, aa_now>>
           /\ [BuNext]_buvars /\ [AlNext]_alvars /\ [Redact]_rdvars
<1>1. SetsNext => UNCHANGED <<says, wh_cache, wh_calls, wh_hits, aa_now>>
  BY DEF SetsNext, RegisterSet, RemoveSet
<1>2. WebhookNext => UNCHANGED sets
  BY DEF WebhookNext, WhHit, WhDecides, WhSend, WhAnswer, WhEnds, WhFails, ClearCache, AaTick
<1> QED BY <1>1, <1>2 DEF EdgeNext, bundleVars, avars

LEMMA EdgeSteps_keep == EdgeInv /\ [EdgeNext]_bundleVars => EdgeInv'
<1> SUFFICES ASSUME EdgeInv, [EdgeNext]_bundleVars PROVE EdgeInv'
  OBVIOUS
<1>1. LimiterInv'
  BY EdgeMoves, LimiterStep DEF EdgeInv
<1>2. AccountsInv' /\ SignInInv' /\ LoggedInv'
  BY EdgeMoves, AccountsStep, SignInStep, LoggedStep DEF EdgeInv
<1>3. PermissionsInv'
  <2>1. CASE UNCHANGED sets
    BY <2>1 DEF EdgeInv, PermissionsInv
  <2> QED BY <2>1, EdgeMoves, SetsStep DEF EdgeInv
<1>4. WebhookInv'
  <2>1. CASE UNCHANGED <<says, wh_cache, wh_calls, wh_hits, aa_now>>
    BY <2>1 DEF EdgeInv, WebhookInv
  <2> QED BY <2>1, EdgeMoves, WebhookStep DEF EdgeInv
<1>5. BudgetInv' /\ LifecycleInv' /\ RedactionInv'
  BY EdgeMoves, BudgetStep, LifecycleStep, RedactionStep DEF EdgeInv
<1>6. AxInv'
  BY EdgeMoves, AxSteps_keep DEF EdgeInv
<1>7. CpInv'
  <2>1. CASE UNCHANGED cpvars
    <3>1. UNCHANGED <<guardrails, backend, call>> /\ store' = store
      BY <2>1 DEF cpvars
    <3>2. CpInv
      BY DEF EdgeInv
    <3> QED BY <3>1, <3>2, Same, CacheMoves
  <2> QED BY <2>1, EdgeMoves, CpSteps_keep DEF EdgeInv
<1> QED BY <1>1, <1>2, <1>3, <1>4, <1>5, <1>6, <1>7 DEF EdgeInv

LEMMA EdgeInvariant == EdgeSpec => []EdgeInv
<1> QED BY EdgeStarts, EdgeSteps_keep, PTL DEF EdgeSpec

\* Every component of the edge keeps the types and the bounds of its state, among them: the
\* cache has one entry for a key and no more than it may, and no more requests are counted
\* than there are.
THEOREM EdgeTypes == EdgeSpec => []TypesOK
<1>1. ASSUME EdgeInv PROVE TypesOK
  <2>1. RateTypeOK /\ AxTypeOK /\ CpTypeOK /\ BuTypeOK
    BY <1>1, AxSound, CpSound, BudgetSound DEF EdgeInv, LimiterInv
  <2>2. AcTypeOK
    BY <1>1, AccountsAssumption DEF EdgeInv, AccountsInv, LoggedInv, AcTypeOK, AccountRows, Expiries
  <2>3. SiTypeOK /\ AlTypeOK
    BY <1>1 DEF EdgeInv, SignInInv, LifecycleInv
  <2>4. AaTypeOK
    <3>1. DOMAIN sets \subseteq SetNames /\ Range(sets) \subseteq SetShapes
      BY <1>1 DEF EdgeInv, PermissionsInv, Range
    <3>2. \A h \in DOMAIN wh_cache : wh_cache[h].arrived <= wh_cache[h].at
      BY <1>1 DEF EdgeInv, WebhookInv, WebhookEntries
    <3> QED BY <1>1, <3>1, <3>2 DEF EdgeInv, WebhookInv, AaTypeOK
  <2> QED BY <2>1, <2>2, <2>3, <2>4 DEF TypesOK
<1> QED BY <1>1, EdgeInvariant, PTL

\* In every scope the limiter counts exactly the requests it admitted in the current window,
\* and the whole seconds it tells a client to wait are enough for a scope that is just full,
\* and at most one more than it takes.
THEOREM LimiterCorrect == EdgeSpec => []LimiterExact
<1>1. EdgeInv => LimiterExact
  BY RetrySuffices DEF EdgeInv, LimiterInv, LimiterExact
<1> QED BY <1>1, EdgeInvariant, PTL

\* Where no two patterns match the same characters, a redacted text is the text without what
\* they matched, in its order: for any text, matches in any order and replacements of any
\* length.
THEOREM RedactionCorrect == EdgeSpec => []RedactionExact
<1>1. EdgeInv => RedactionExact
  BY DEF EdgeInv, RedactionInv, RedactionExact
<1> QED BY <1>1, EdgeInvariant, PTL

\* What a provider is asked and a client is answered has passed what stands between them:
\* a handled request passed the address filter and the size limit, and is counted against
\* its own key; a prompt, and the content of an answer's first choice, passed every enabled
\* guardrail that works, whatever the guardrails are, in whichever order they run and
\* whatever they take out; an answer from the cache was made for the same prompt of the same
\* key or team, or of another caller with neither; and it is transformed once.
THEOREM RequestsCorrect == EdgeSpec => RequestsScreened
<1>1. EdgeInv => HandledScreened /\ Screened /\ TenantsApart /\ TransformedOnce
  BY AxSound, CpSound DEF EdgeInv
<1>2. EdgeInv /\ [EdgeNext]_bundleVars =>
        [\A r \in AxRequests :
            Len(ax_counted') > Len(ax_counted) /\ ax_request'[r] # ax_request[r] =>
                Last(ax_counted') = ax_request'[r].context.key /\ "auth" \in ax_seen'[r]]_axvars
  BY EdgeMoves, CountedStep DEF EdgeInv
<1> QED BY <1>1, <1>2, EdgeInvariant, PTL DEF RequestsScreened, CountedForKey, EdgeSpec

\* Accounts, sessions and grants stay sound: where the database enforces foreign keys, what
\* refers to a team or a user refers to one there is, and where it does not, a membership
\* names a user there is and a team there is or was; a deactivated key, a used state and an
\* ended session stay so, whichever handlers overlap; a set grants what its ancestors grant,
\* whatever cycles and gaps the inheritance has; a webhook's verdict is no older than its
\* time to live; and what is spent is what was charged in the current period, whichever call
\* noticed that it began.
THEOREM AccountsCorrect == EdgeSpec => AccountsSound
<1>1. EdgeInv => /\ ReferencesSound /\ SpendIsThePeriods
                 /\ StateUsedOnce /\ EndedStays
                 /\ PermissionsInherited /\ AcceptedRecently
  BY BudgetSound, SignInSound, PermissionsSound, WebhookSound DEF EdgeInv, AccountsInv
<1>2. EdgeInv /\ [EdgeNext]_bundleVars =>
        [\A k \in DOMAIN keys : k \in DOMAIN keys' /\ (~keys[k].active => ~keys'[k].active)]_acvars
  BY EdgeMoves, DeactivatedStep DEF EdgeInv
<1> QED BY <1>1, <1>2, EdgeInvariant, PTL DEF AccountsSound, DeactivatedStays, EdgeSpec

\* The application serves with what its configuration asks for, and once it has shut down
\* it leaves open only what no step of the shutdown closes or what a failed step kept, for
\* every configuration and whichever steps of the start-up and of the shutdown fail.
THEOREM LifecycleCorrect == EdgeSpec => []LifecycleSound
<1>1. EdgeInv => LifecycleSound
  BY LifecycleHolds DEF EdgeInv, LifecycleSound
<1> QED BY <1>1, EdgeInvariant, PTL
=============================================================================
