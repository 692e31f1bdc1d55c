---------------------------- MODULE ComputedProofs ----------------------------
(***************************************************************************)
(* Proofs about what is computed on the way to a provider and back: the    *)
(* request transforms, the conversation that a provider is sent and the    *)
(* stream of its answer; and what is together in MCTools.                  *)
(***************************************************************************)
EXTENDS ToolsProofs, ContentProofs

-----------------------------------------------------------------------------
(* What of a sequence is in a set.                                         *)

OnlyStep(s, S, T) == [i \in 1..Len(s) |-> [t \in Seq(T) |-> IF s[i] \in S THEN Append(t, s[i]) ELSE t]]
OnlyUpto(s, S) == CHOOSE f : f = [i \in 0..Len(s) |->
    IF i = 0 THEN <<>> ELSE IF s[i] \in S THEN Append(f[i - 1], s[i]) ELSE f[i - 1]]

LEMMA OnlyUptoIs ==
    ASSUME NEW T, NEW s \in Seq(T), NEW S
    PROVE  /\ Only(s, S) = OnlyUpto(s, S)[Len(s)]
           /\ OnlyUpto(s, S) \in [0..Len(s) -> Seq(T)]
           /\ OnlyUpto(s, S)[0] = <<>>
           /\ \A i \in 1..Len(s) : OnlyUpto(s, S)[i] =
                IF s[i] \in S THEN Append(OnlyUpto(s, S)[i - 1], s[i]) ELSE OnlyUpto(s, S)[i - 1]
<1>1. PICK L \in Nat : L = Len(s)
  BY LenProperties
<1>2. \A i \in 1..L : s[i] \in T
  BY <1>1, LenProperties
<1>3. PICK step : step = OnlyStep(s, S, T)
  OBVIOUS
<1>4. step \in [1..L -> [Seq(T) -> Seq(T)]]
  <2>1. \A i \in 1..L, t \in Seq(T) : (IF s[i] \in S THEN Append(t, s[i]) ELSE t) \in Seq(T)
    BY <1>2, AppendProperties
  <2> QED BY <1>1, <1>3, <2>1 DEF OnlyStep
<1>0. PICK none \in Seq(T) : none = <<>>
  BY EmptySeq, Zenon
<1>5. PICK f : f = Computed(L, none, step)
  OBVIOUS
<1>7. f \in [0..L -> Seq(T)] /\ f[0] = none /\ \A i \in 1..L : f[i] = step[i][f[i - 1]]
  <2>1. PICK Q : Q = Seq(T)
    OBVIOUS
  <2>2. none \in Q /\ step \in [1..L -> [Q -> Q]]
    BY <1>4, <2>1
  <2>3. f \in [0..L -> Q] /\ f[0] = none /\ \A i \in 1..L : f[i] = step[i][f[i - 1]]
    BY <1>5, <2>2, ComputedIs
  <2> QED BY <2>1, <2>3
<1>8. \A i \in 1..L : f[i] = IF s[i] \in S THEN Append(f[i - 1], s[i]) ELSE f[i - 1]
  <2> SUFFICES ASSUME NEW i \in 1..L
               PROVE  f[i] = IF s[i] \in S THEN Append(f[i - 1], s[i]) ELSE f[i - 1]
    OBVIOUS
  <2>1. f[i - 1] \in Seq(T) /\ f[i] = step[i][f[i - 1]]
    BY <1>7
  <2>2. step[i] = [t \in Seq(T) |-> IF s[i] \in S THEN Append(t, s[i]) ELSE t]
    BY <1>1, <1>3 DEF OnlyStep
  <2> QED BY <2>1, <2>2
<1>9. f = [i \in 0..Len(s) |-> IF i = 0 THEN none ELSE IF s[i] \in S THEN Append(f[i - 1], s[i]) ELSE f[i - 1]]
  <2>1. ASSUME NEW i \in 0..L
        PROVE  f[i] = IF i = 0 THEN none ELSE IF s[i] \in S THEN Append(f[i - 1], s[i]) ELSE f[i - 1]
    <3>1. CASE i = 0
      BY <1>7, <3>1
    <3>2. CASE i # 0
      <4>1. i \in 1..L
        BY <3>2
      <4> QED BY <1>8, <3>2, <4>1, Zenon
    <3> QED BY <3>1, <3>2
  <2>2. f = [i \in 0..L |-> f[i]]
    BY <1>7
  <2> QED BY <1>1, <2>1, <2>2
<1>10. PICK h : h = OnlyUpto(s, S)
  OBVIOUS
<1>11. h = [i \in 0..Len(s) |-> IF i = 0 THEN none ELSE IF s[i] \in S THEN Append(h[i - 1], s[i]) ELSE h[i - 1]]
  BY <1>0, <1>9, <1>10, Zenon DEF OnlyUpto
<1>12. h[0] = none /\ \A i \in 1..L : h[i] = IF s[i] \in S THEN Append(h[i - 1], s[i]) ELSE h[i - 1]
  <2>1. \A i \in 0..L : h[i] = IF i = 0 THEN none ELSE IF s[i] \in S THEN Append(h[i - 1], s[i]) ELSE h[i - 1]
    BY <1>1, <1>11
  <2> QED BY <2>1
<1> DEFINE N == {i \in 0..L : h[i] \in Seq(T)}
<1>13. 0 \in N
  BY <1>12
<1>14. ASSUME NEW i \in 1..L, i - 1 \in N PROVE i \in N
  <2>1. h[i - 1] \in Seq(T) /\ s[i] \in T
    BY <1>2, <1>14
  <2>2. Append(h[i - 1], s[i]) \in Seq(T)
    BY <2>1, AppendProperties
  <2>3. h[i] = Append(h[i - 1], s[i]) \/ h[i] = h[i - 1]
    BY <1>12
  <2>4. h[i] \in Seq(T)
    BY <2>1, <2>2, <2>3, Zenon
  <2> QED BY <2>4
<1>15. \A i \in 0..L : h[i] \in Seq(T)
  <2> HIDE DEF N
  <2>1. \A i \in 0..L : i \in N
    BY <1>13, <1>14, ClimbTo
  <2> QED BY <2>1 DEF N
<1>16. h \in [0..L -> Seq(T)]
  <2>1. h = [i \in 0..L |-> h[i]]
    BY <1>1, <1>11
  <2> QED BY <1>15, <2>1
<1>17. Only(s, S) = OnlyUpto(s, S)[Len(s)]
  BY DEF Only, OnlyUpto
<1> QED BY <1>0, <1>1, <1>10, <1>12, <1>16, <1>17

LEMMA OnlyNone == ASSUME NEW S PROVE Only(<<>>, S) = <<>>
<1>0. PICK T : T = {}
  OBVIOUS
<1>1. PICK s \in Seq(T) : s = <<>> /\ Len(s) = 0
  BY EmptySeq
<1>2. /\ Only(s, S) = OnlyUpto(s, S)[Len(s)]
      /\ OnlyUpto(s, S)[0] = <<>>
  BY OnlyUptoIs
<1>3. Only(s, S) = OnlyUpto(s, S)[0]
  BY <1>1, <1>2, Zenon
<1> QED BY <1>1, <1>2, <1>3, Zenon

\* One element more is there or not.
LEMMA OnlyMore ==
    ASSUME NEW T, NEW s \in Seq(T), NEW e \in T, NEW S
    PROVE  Only(Append(s, e), S) = IF e \in S THEN Append(Only(s, S), e) ELSE Only(s, S)
<1>1. PICK L \in Nat : L = Len(s)
  BY LenProperties
<1>2. PICK t \in Seq(T) : t = Append(s, e)
  BY AppendProperties
<1>3. Len(t) = L + 1 /\ t[L + 1] = e /\ \A i \in 1..L : t[i] = s[i]
  BY <1>1, <1>2, AppendProperties
<1>4. PICK f : f = OnlyUpto(s, S)
  OBVIOUS
<1>5. PICK h : h = OnlyUpto(t, S)
  OBVIOUS
<1>6. /\ Only(s, S) = f[L] /\ f[0] = <<>>
      /\ \A i \in 1..L : f[i] = IF s[i] \in S THEN Append(f[i - 1], s[i]) ELSE f[i - 1]
  BY <1>1, <1>4, OnlyUptoIs
<1>7. /\ Only(t, S) = h[L + 1] /\ h[0] = <<>>
      /\ \A i \in 1..(L + 1) : h[i] = IF t[i] \in S THEN Append(h[i - 1], t[i]) ELSE h[i - 1]
  BY <1>3, <1>5, OnlyUptoIs
<1> DEFINE N == {i \in 0..L : h[i] = f[i]}
<1>8. 0 \in N
  BY <1>6, <1>7
<1>9. ASSUME NEW i \in 1..L, i - 1 \in N PROVE i \in N
  <2>1. h[i - 1] = f[i - 1] /\ t[i] = s[i] /\ i \in 1..(L + 1)
    BY <1>3, <1>9
  <2> QED BY <1>6, <1>7, <2>1
<1>10. h[L] = f[L]
  <2> HIDE DEF N
  <2>1. \A i \in 0..L : i \in N
    BY <1>8, <1>9, ClimbTo
  <2> QED BY <2>1 DEF N
<1>11. h[L + 1] = IF e \in S THEN Append(h[L], e) ELSE h[L]
  <2>1. L + 1 \in 1..(L + 1) /\ (L + 1) - 1 = L
    OBVIOUS
  <2>2. h[L + 1] = IF t[L + 1] \in S THEN Append(h[(L + 1) - 1], t[L + 1]) ELSE h[(L + 1) - 1]
    BY <1>7, <2>1
  <2> QED BY <1>3, <2>1, <2>2
<1> QED BY <1>2, <1>6, <1>7, <1>10, <1>11

LEMMA OnlyIn ==
    ASSUME NEW T, NEW s \in Seq(T), NEW S
    PROVE  Only(s, S) \in Seq(T) /\ Only(s, S) \in Seq(T \cap S)
<1> DEFINE G == {t \in Seq(T) : Only(t, S) \in Seq(T \cap S)}
<1>1. <<>> \in G
  <2>1. Only(<<>>, S) \in Seq(T \cap S) /\ <<>> \in Seq(T)
    BY OnlyNone, EmptySeq, Zenon
  <2> QED BY <2>1, Zenon
<1>2. ASSUME NEW t \in Seq(T), NEW e \in T, t \in G PROVE Append(t, e) \in G
  <2>1. Only(t, S) \in Seq(T \cap S)
    BY <1>2
  <2>2. Append(t, e) \in Seq(T)
    BY AppendProperties
  <2>3. e \in S => Append(Only(t, S), e) \in Seq(T \cap S)
    <3> SUFFICES ASSUME e \in S PROVE Append(Only(t, S), e) \in Seq(T \cap S)
      OBVIOUS
    <3>1. e \in T \cap S
      OBVIOUS
    <3> QED BY <2>1, <3>1, AppendProperties
  <2> QED BY <2>1, <2>2, <2>3, OnlyMore
<1>3. s \in G
  <2> HIDE DEF G
  <2> QED BY <1>1, <1>2, ByAppend
<1>4. Only(s, S) \in Seq(T \cap S) /\ T \cap S \subseteq T
  BY <1>3
<1> QED BY <1>4, SeqMonotonic

LEMMA OnlyOfBoth ==
    ASSUME NEW T, NEW s \in Seq(T), NEW t \in Seq(T), NEW S
    PROVE  Only(s \o t, S) = Only(s, S) \o Only(t, S)
<1> DEFINE G == {u \in Seq(T) : Only(s \o u, S) = Only(s, S) \o Only(u, S)}
<1>1. <<>> \in G
  <2>0. s \o <<>> = s /\ Only(s, S) \in Seq(T)
    <3>1. Only(s, S) \in Seq(T)
      BY OnlyIn
    <3> QED BY <3>1, ConcatEmptySeq
  <2>1. Only(<<>>, S) = <<>>
    BY OnlyNone, Zenon
  <2>2. Only(s, S) \o <<>> = Only(s, S)
    BY <2>0, ConcatEmptySeq
  <2> QED BY <2>0, <2>1, <2>2
<1>2. ASSUME NEW u \in Seq(T), NEW e \in T, u \in G PROVE Append(u, e) \in G
  <2>1. Only(s \o u, S) = Only(s, S) \o Only(u, S)
    BY <1>2
  <2>2. s \o u \in Seq(T) /\ Append(u, e) \in Seq(T) /\ Only(s, S) \in Seq(T) /\ Only(u, S) \in Seq(T)
    BY ConcatProperties, AppendProperties, OnlyIn
  <2>3. s \o Append(u, e) = Append(s \o u, e)
    OBVIOUS
  <2>4. Only(s, S) \o Append(Only(u, S), e) = Append(Only(s, S) \o Only(u, S), e)
    BY <2>2
  <2>5. Only(Append(s \o u, e), S) = IF e \in S THEN Append(Only(s \o u, S), e) ELSE Only(s \o u, S)
    BY <2>2, OnlyMore
  <2>6. Only(Append(u, e), S) = IF e \in S THEN Append(Only(u, S), e) ELSE Only(u, S)
    BY OnlyMore
  <2> QED BY <2>1, <2>2, <2>3, <2>4, <2>5, <2>6
<1>3. t \in G
  <2> HIDE DEF G
  <2> QED BY <1>1, <1>2, ByAppend
<1> QED BY <1>3

\* A sequence that lies in the set is kept as it is; one that lies outside goes.
LEMMA OnlyAll ==
    ASSUME NEW S, NEW s \in Seq(S)
    PROVE  Only(s, S) = s
<1> DEFINE G == {t \in Seq(S) : Only(t, S) = t}
<1>1. <<>> \in G
  BY OnlyNone
<1>2. ASSUME NEW t \in Seq(S), NEW e \in S, t \in G PROVE Append(t, e) \in G
  BY <1>2, AppendProperties, OnlyMore
<1>3. s \in G
  <2> HIDE DEF G
  <2> QED BY <1>1, <1>2, ByAppend
<1> QED BY <1>3

LEMMA OnlyOne ==
    ASSUME NEW T, NEW e \in T, NEW S
    PROVE  Only(<<e>>, S) = IF e \in S THEN <<e>> ELSE <<>>
<1>1. PICK none \in Seq(T) : none = <<>>
  BY EmptySeq, Zenon
<1>2. Append(<<>>, e) = <<e>>
  OBVIOUS
<1>3. Append(none, e) = <<e>>
  BY <1>1, <1>2, Zenon
<1>4. Only(none, S) = none
  BY <1>1, OnlyNone, Zenon
<1>6. none \in Seq(T)
  BY <1>1
<1>5. Only(Append(none, e), S) = IF e \in S THEN Append(Only(none, S), e) ELSE Only(none, S)
  BY <1>6, OnlyMore
<1> QED BY <1>1, <1>3, <1>4, <1>5, Zenon

-----------------------------------------------------------------------------
(* What sequences make one after the other.                                *)

JoinStep(ss, T) == [i \in 1..Len(ss) |-> [t \in Seq(T) |-> t \o ss[i]]]
JoinUpto(ss) == CHOOSE f : f = [i \in 1..Len(ss) |-> IF i = 1 THEN ss[i] ELSE f[i - 1] \o ss[i]]

LEMMA JoinUptoIs ==
    ASSUME NEW T, NEW ss \in Seq(Seq(T)), Len(ss) # 0
    PROVE  /\ FlattenSeq(ss) = JoinUpto(ss)[Len(ss)]
           /\ JoinUpto(ss) \in [1..Len(ss) -> Seq(T)]
           /\ JoinUpto(ss)[1] = ss[1]
           /\ \A i \in 2..Len(ss) : JoinUpto(ss)[i] = JoinUpto(ss)[i - 1] \o ss[i]
<1>1. PICK L \in Nat : L = Len(ss)
  BY LenProperties
<1>2. L \in Nat \ {0} /\ \A i \in 1..L : ss[i] \in Seq(T)
  BY <1>1, LenProperties
<1>3. PICK step : step = JoinStep(ss, T)
  OBVIOUS
<1>4. PICK Q : Q = Seq(T)
  OBVIOUS
<1>5. step \in [1..L -> [Q -> Q]]
  <2>1. \A i \in 1..L, t \in Q : t \o ss[i] \in Q
    BY <1>2, <1>4, ConcatProperties
  <2> QED BY <1>1, <1>3, <1>4, <2>1 DEF JoinStep
<1>6. PICK none \in Q : none = <<>>
  BY <1>4, EmptySeq, Zenon
<1>7. PICK c : c = Computed(L, none, step)
  OBVIOUS
<1>8. c \in [0..L -> Q] /\ c[0] = none /\ \A i \in 1..L : c[i] = step[i][c[i - 1]]
  <2>1. L \in Nat
    BY <1>1
  <2>2. none \in Q
    BY <1>6
  <2>3. none \in Q /\ step \in [1..L -> [Q -> Q]]
    BY <1>5, <2>2
  <2> HIDE <1>4
  <2>4. /\ Computed(L, none, step) \in [0..L -> Q]
        /\ Computed(L, none, step)[0] = none
        /\ \A i \in 1..L : Computed(L, none, step)[i] = step[i][Computed(L, none, step)[i - 1]]
    BY <2>1, <2>3, ComputedIs
  <2> QED BY <1>7, <2>4
<1>9. \A i \in 1..L : c[i] = c[i - 1] \o ss[i]
  <2> SUFFICES ASSUME NEW i \in 1..L PROVE c[i] = c[i - 1] \o ss[i]
    OBVIOUS
  <2>1. c[i - 1] \in Q /\ c[i] = step[i][c[i - 1]]
    BY <1>8
  <2>2. step[i] = [t \in Q |-> t \o ss[i]]
    BY <1>1, <1>3, <1>4 DEF JoinStep
  <2> QED BY <2>1, <2>2
<1>10. c[1] = ss[1]
  <2>1. ss[1] \in Seq(T) /\ 1 \in 1..L
    BY <1>2
  <2>2. <<>> \o ss[1] = ss[1]
    BY <2>1, ConcatEmptySeq
  <2>3. c[1] = c[1 - 1] \o ss[1]
    BY <1>9, <2>1
  <2>4. c[1 - 1] = <<>>
    BY <1>6, <1>8
  <2> QED BY <2>2, <2>3, <2>4, Zenon
<1>11. PICK f : f = [i \in 1..L |-> c[i]]
  OBVIOUS
<1>12. f = [i \in 1..Len(ss) |-> IF i = 1 THEN ss[i] ELSE f[i - 1] \o ss[i]]
  <2>1. ASSUME NEW i \in 1..L PROVE f[i] = IF i = 1 THEN ss[i] ELSE f[i - 1] \o ss[i]
    <3>1. CASE i = 1
      BY <1>10, <1>11, <3>1
    <3>2. CASE i # 1
      <4>1. i - 1 \in 1..L
        BY <3>2
      <4>2. f[i - 1] = c[i - 1] /\ f[i] = c[i] /\ c[i] = c[i - 1] \o ss[i]
        BY <1>9, <1>11, <4>1
      <4> QED BY <3>2, <4>2, Zenon
    <3> QED BY <3>1, <3>2
  <2>2. f = [i \in 1..L |-> f[i]]
    BY <1>11
  <2> QED BY <1>1, <2>1, <2>2
<1>13. PICK h : h = JoinUpto(ss)
  OBVIOUS
<1>14. h = [i \in 1..Len(ss) |-> IF i = 1 THEN ss[i] ELSE h[i - 1] \o ss[i]]
  BY <1>12, <1>13, Zenon DEF JoinUpto
<1>15. h[1] = ss[1] /\ \A i \in 2..L : h[i] = h[i - 1] \o ss[i]
  <2>1. \A i \in 1..L : h[i] = IF i = 1 THEN ss[i] ELSE h[i - 1] \o ss[i]
    BY <1>1, <1>14
  <2>2. 1 \in 1..L /\ \A i \in 2..L : i \in 1..L /\ i # 1
    BY <1>2
  <2> QED BY <2>1, <2>2
<1> DEFINE N == {i \in 0..L : i = 0 \/ h[i] \in Q}
<1>16. 0 \in N
  OBVIOUS
<1>17. ASSUME NEW i \in 1..L, i - 1 \in N PROVE i \in N
  <2>1. CASE i = 1
    BY <1>2, <1>4, <1>15, <2>1
  <2>2. CASE i # 1
    <3>1. h[i - 1] \in Seq(T) /\ i \in 2..L /\ ss[i] \in Seq(T)
      BY <1>2, <1>4, <1>17, <2>2
    <3>2. h[i - 1] \o ss[i] \in Seq(T)
      BY <3>1, ConcatProperties
    <3>3. h[i] \in Q
      BY <1>4, <1>15, <3>1, <3>2
    <3> QED BY <3>3
  <2> QED BY <2>1, <2>2
<1>18. h \in [1..L -> Seq(T)]
  <2>1. h = [i \in 1..L |-> h[i]]
    BY <1>1, <1>14
  <2>2. \A i \in 0..L : i = 0 \/ h[i] \in Q
    <3> HIDE DEF N
    <3>1. \A i \in 0..L : i \in N
      BY <1>16, <1>17, ClimbTo
    <3> QED BY <3>1 DEF N
  <2>3. \A i \in 1..L : h[i] \in Seq(T)
    BY <1>4, <2>2
  <2> QED BY <2>1, <2>3
<1>19. FlattenSeq(ss) = JoinUpto(ss)[Len(ss)]
  BY DEF FlattenSeq, JoinUpto
<1> QED BY <1>1, <1>13, <1>15, <1>18, <1>19

LEMMA JoinNone == FlattenSeq(<<>>) = <<>>
<1>1. Len(<<>>) = 0
  OBVIOUS
<1> QED BY <1>1, Zenon DEF FlattenSeq

LEMMA JoinIn ==
    ASSUME NEW T, NEW ss \in Seq(Seq(T))
    PROVE  FlattenSeq(ss) \in Seq(T)
<1>1. CASE Len(ss) = 0
  <2>1. ss = <<>>
    BY <1>1, EmptySeq
  <2> QED BY <2>1, JoinNone, EmptySeq, Zenon
<1>2. CASE Len(ss) # 0
  <2>1. Len(ss) \in 1..Len(ss)
    BY <1>2, LenProperties
  <2>2. FlattenSeq(ss) = JoinUpto(ss)[Len(ss)] /\ JoinUpto(ss) \in [1..Len(ss) -> Seq(T)]
    BY <1>2, JoinUptoIs
  <2> QED BY <2>1, <2>2
<1> QED BY <1>1, <1>2

LEMMA JoinMore ==
    ASSUME NEW T, NEW ss \in Seq(Seq(T)), NEW s \in Seq(T)
    PROVE  FlattenSeq(Append(ss, s)) = FlattenSeq(ss) \o s
<1>1. PICK L \in Nat : L = Len(ss)
  BY LenProperties
<1>2. PICK Q : Q = Seq(T)
  OBVIOUS
<1>3. PICK tt \in Seq(Q) : tt = Append(ss, s)
  BY <1>2, AppendProperties
<1>4. Len(tt) = L + 1 /\ tt[L + 1] = s /\ \A i \in 1..L : tt[i] = ss[i]
  BY <1>1, <1>2, <1>3, AppendProperties
<1>5. PICK h : h = JoinUpto(tt)
  OBVIOUS
<1>6. tt \in Seq(Seq(T)) /\ Len(tt) # 0
  BY <1>2, <1>3, <1>4
<1>7. FlattenSeq(tt) = h[L + 1] /\ h[1] = tt[1] /\ \A i \in 2..(L + 1) : h[i] = h[i - 1] \o tt[i]
  BY <1>4, <1>5, <1>6, JoinUptoIs
<1>8. CASE L = 0
  <2>1. ss = <<>>
    BY <1>1, <1>8, EmptySeq
  <2>2. FlattenSeq(ss) = <<>>
    BY <2>1, JoinNone, Zenon
  <2>3. <<>> \o s = s
    BY ConcatEmptySeq
  <2>4. FlattenSeq(tt) = s
    BY <1>4, <1>7, <1>8
  <2> QED BY <1>3, <2>2, <2>3, <2>4, Zenon
<1>9. CASE L # 0
  <2>1. PICK f : f = JoinUpto(ss)
    OBVIOUS
  <2>2. FlattenSeq(ss) = f[L] /\ f[1] = ss[1] /\ \A i \in 2..L : f[i] = f[i - 1] \o ss[i]
    BY <1>1, <1>9, <2>1, JoinUptoIs
  <2> DEFINE N == {i \in 0..L : i = 0 \/ h[i] = f[i]}
  <2>3. 0 \in N
    OBVIOUS
  <2>4. ASSUME NEW i \in 1..L, i - 1 \in N PROVE i \in N
    <3>1. CASE i = 1
      BY <1>4, <1>7, <2>2, <3>1
    <3>2. CASE i # 1
      <4>1. h[i - 1] = f[i - 1] /\ i \in 2..L /\ i \in 2..(L + 1) /\ tt[i] = ss[i]
        BY <1>4, <2>4, <3>2
      <4>2. h[i] = h[i - 1] \o tt[i] /\ f[i] = f[i - 1] \o ss[i]
        BY <1>7, <2>2, <4>1
      <4>3. h[i] = f[i]
        BY <4>1, <4>2, Zenon
      <4> QED BY <4>3
    <3> QED BY <3>1, <3>2
  <2>5. h[L] = f[L]
    <3> HIDE DEF N
    <3>1. \A i \in 0..L : i \in N
      BY <2>3, <2>4, ClimbTo
    <3> QED BY <1>9, <3>1 DEF N
  <2>6. L + 1 \in 2..(L + 1) /\ (L + 1) - 1 = L
    BY <1>9
  <2>7. h[L + 1] = h[(L + 1) - 1] \o tt[L + 1]
    BY <1>7, <2>6
  <2> QED BY <1>3, <1>4, <1>7, <2>2, <2>5, <2>6, <2>7
<1> QED BY <1>8, <1>9

-----------------------------------------------------------------------------
(* The request transforms.                                                 *)

TpMessages == Turns \cup Preambles
TpSteps    == {s \in [hook : {"injector", "enricher"}, position : {"prepend", "append", "replace"}] :
                 s.hook = "enricher" => s.position # "replace"}

Leading(ms) == \A i, j \in DOMAIN ms : i < j /\ ms[j].role = "system" => ms[i].role = "system"
Enriched(ms) == \E i \in DOMAIN ms : ms[i].from = "enricher"

TpInv ==
    /\ request \in Seq(TpMessages) /\ messages \in Seq(TpMessages)
    /\ todo \in Seq(TpSteps) /\ broken \subseteq {"injector", "enricher"}
    /\ Only(request, Turns) = Only(messages, Turns)
    /\ Leading(request) /\ ~Enriched(messages) => Leading(messages)

\* The greatest of numbers that are bounded.
LEMMA MaxIs ==
    ASSUME NEW L \in Nat, NEW T, T \subseteq 0..L, T # {}
    PROVE  Max(T) \in T /\ \A k \in T : k <= Max(T)
<1>1. PICK R : R = {L - k : k \in T}
  OBVIOUS
<1>2. R \subseteq Nat /\ R # {}
  <2>1. \A k \in T : k \in 0..L /\ L - k \in Nat
    OBVIOUS
  <2>2. PICK k \in T : TRUE
    OBVIOUS
  <2>3. L - k \in R
    BY <1>1, <2>2
  <2> QED BY <1>1, <2>1, <2>3
<1>3. PICK r \in R : \A q \in R : r <= q
  BY <1>2, LeastNumber
<1>4. PICK m \in T : r = L - m
  BY <1>1, <1>3
<1>5. \A k \in T : m >= k
  BY <1>1, <1>3, <1>4
<1> QED BY <1>4, <1>5 DEF Max

LEMMA TpInit0 == TpInit => TpInv
<1> SUFFICES ASSUME TpInit PROVE TpInv
  OBVIOUS
<1>1. PICK roles \in Requests : request = AsSent(roles)
  BY DEF TpInit
<1>2. roles \in Seq({"system", "user", "assistant", "tool"})
  BY TransformAssumption
<1>3. PICK L \in Nat : L = Len(roles) /\ DOMAIN roles = 1..L
  BY <1>2, LenProperties
<1>4. request = [i \in 1..L |-> [role |-> roles[i], from |-> "client", n |-> i]]
  BY <1>1, <1>3 DEF AsSent
<1>5. \A i \in 1..L : [role |-> roles[i], from |-> "client", n |-> i] \in TpMessages
  <2> SUFFICES ASSUME NEW i \in 1..L
               PROVE  [role |-> roles[i], from |-> "client", n |-> i] \in TpMessages
    OBVIOUS
  <2>1. roles[i] \in {"system", "user", "assistant", "tool"}
    BY <1>2, <1>3, ElementOfSeq
  <2> QED BY <2>1 DEF TpMessages, Turns, Preambles
<1>6. request \in Seq(TpMessages)
  BY <1>4, <1>5
<1>7. PICK ts \in Templates, ss \in Sources : todo = Steps("injector", ts) \o Steps("enricher", ss)
  BY DEF TpInit
<1>8. ts \in Seq({"prepend", "append", "replace"}) /\ ss \in Seq({"prepend", "append"})
  BY TransformAssumption
<1>9. Steps("injector", ts) \in Seq(TpSteps)
  <2>1. PICK M \in Nat : M = Len(ts) /\ DOMAIN ts = 1..M
    BY <1>8, LenProperties
  <2>2. \A i \in 1..M : ts[i] \in {"prepend", "append", "replace"}
    BY <1>8, <2>1, ElementOfSeq
  <2>3. \A i \in 1..M : [hook |-> "injector", position |-> ts[i]] \in TpSteps
    BY <2>2 DEF TpSteps
  <2> QED BY <2>1, <2>3 DEF Steps
<1>10. Steps("enricher", ss) \in Seq(TpSteps)
  <2>1. PICK M \in Nat : M = Len(ss) /\ DOMAIN ss = 1..M
    BY <1>8, LenProperties
  <2>2. \A i \in 1..M : ss[i] \in {"prepend", "append"}
    BY <1>8, <2>1, ElementOfSeq
  <2>3. \A i \in 1..M : [hook |-> "enricher", position |-> ss[i]] \in TpSteps
    BY <2>2 DEF TpSteps
  <2> QED BY <2>1, <2>3 DEF Steps
<1>11. todo \in Seq(TpSteps)
  BY <1>7, <1>9, <1>10, ConcatProperties
<1> QED BY <1>6, <1>11 DEF TpInit, TpInv

\* A message of the system's is not a turn.
LEMMA SystemIs ==
    ASSUME NEW step \in TpSteps, todo \in Seq(TpSteps)
    PROVE  /\ System(step) \in TpMessages /\ System(step) \notin Turns
           /\ System(step).role = "system" /\ System(step).from = step.hook
<1>1. Len(todo) \in Nat
  BY LenProperties
<1> QED BY <1>1 DEF System, TpMessages, TpSteps, Turns, Preambles

\* A message of the system's put in anywhere leaves the turns as they were.
LEMMA PutIn ==
    ASSUME NEW a \in Seq(TpMessages), NEW b \in Seq(TpMessages), NEW x \in TpMessages, x \notin Turns
    PROVE  /\ a \o <<x>> \o b \in Seq(TpMessages)
           /\ Only(a \o <<x>> \o b, Turns) = Only(a \o b, Turns)
<1>0. <<x>> \in Seq(TpMessages)
  OBVIOUS
<1>8. PICK one : one = <<x>>
  OBVIOUS
<1>9. one \in Seq(TpMessages)
  BY <1>0, <1>8, Zenon
<1>1. PICK c : c = a \o one
  OBVIOUS
<1>10. c \in Seq(TpMessages)
  BY <1>1, <1>9, ConcatProperties
<1>2. c \o b \in Seq(TpMessages)
  BY <1>10, ConcatProperties
<1>3. Only(c \o b, Turns) = Only(c, Turns) \o Only(b, Turns)
  BY <1>10, OnlyOfBoth
<1>4. Only(c, Turns) = Only(a, Turns) \o Only(one, Turns)
  BY <1>1, <1>9, OnlyOfBoth
<1>5. Only(one, Turns) = <<>>
  BY <1>8, OnlyOne
<1>6. Only(a, Turns) \o <<>> = Only(a, Turns)
  <2>1. Only(a, Turns) \in Seq(TpMessages)
    BY OnlyIn
  <2> QED BY <2>1, ConcatEmptySeq
<1>7. Only(a \o b, Turns) = Only(a, Turns) \o Only(b, Turns)
  BY OnlyOfBoth
<1> QED BY <1>1, <1>2, <1>3, <1>4, <1>5, <1>6, <1>7, <1>8, Zenon

\* The parts of a sequence with an element put in.
LEMMA PutAt ==
    ASSUME NEW T, NEW a \in Seq(T), NEW b \in Seq(T), NEW x \in T, NEW ms, ms = a \o <<x>> \o b
    PROVE  /\ ms \in Seq(T) /\ Len(ms) = Len(a) + 1 + Len(b) /\ DOMAIN ms = 1..(Len(a) + 1 + Len(b))
           /\ \A i \in 1..Len(a) : ms[i] = a[i]
           /\ ms[Len(a) + 1] = x
           /\ \A i \in 1..Len(b) : ms[Len(a) + 1 + i] = b[i]
<1>1. <<x>> \in Seq(T) /\ Len(<<x>>) = 1 /\ <<x>>[1] = x
  OBVIOUS
<1>2. PICK K \in Nat : K = Len(a)
  BY LenProperties
<1>3. PICK M \in Nat : M = Len(b)
  BY LenProperties
<1>4. PICK c \in Seq(T) : c = a \o <<x>>
  BY <1>1, ConcatProperties
<1>5. Len(c) = K + 1 /\ (\A i \in 1..K : c[i] = a[i]) /\ c[K + 1] = x
  BY <1>1, <1>2, <1>4, ConcatProperties
<1>11. ms = c \o b
  BY <1>4
<1>12. PICK C \in Nat : C = Len(c)
  BY <1>4, LenProperties
<1>13. /\ ms \in Seq(T) /\ Len(ms) = C + M
       /\ \A i \in 1..(C + M) : ms[i] = IF i <= C THEN c[i] ELSE b[i - C]
  BY <1>3, <1>4, <1>11, <1>12, ConcatProperties
<1>14. C = K + 1
  BY <1>5, <1>12
<1>6. /\ ms \in Seq(T) /\ Len(ms) = K + 1 + M
      /\ \A i \in 1..(K + 1 + M) : ms[i] = IF i <= K + 1 THEN c[i] ELSE b[i - (K + 1)]
  BY <1>13, <1>14
<1>7. \A i \in 1..K : ms[i] = a[i]
  BY <1>5, <1>6
<1>8. ms[K + 1] = x
  BY <1>5, <1>6
<1>9. \A i \in 1..M : ms[K + 1 + i] = b[i]
  <2> SUFFICES ASSUME NEW i \in 1..M PROVE ms[K + 1 + i] = b[i]
    OBVIOUS
  <2>1. PICK j \in 1..(K + 1 + M) : j = K + 1 + i
    OBVIOUS
  <2>2. ~(j <= K + 1) /\ j - (K + 1) = i
    BY <2>1
  <2>3. ms[j] = b[j - (K + 1)]
    BY <1>6, <2>2
  <2> QED BY <2>1, <2>2, <2>3
<1>10. DOMAIN ms = 1..(K + 1 + M)
  BY <1>6, LenProperties
<1> QED BY <1>2, <1>3, <1>6, <1>7, <1>8, <1>9, <1>10

\* The messages with one of the system's put between a and b, behind the last system message
\* if the message is not an enricher's.
LEMMA PutKeeps ==
    ASSUME TpInv, NEW step \in TpSteps, NEW a \in Seq(TpMessages), NEW b \in Seq(TpMessages), messages = a \o b,
           NEW after, after = a \o <<System(step)>> \o b,
           \/ step.hook = "enricher"
           \/ /\ a = <<>> \/ a[Len(a)].role = "system"
              /\ \A i \in DOMAIN b : a # <<>> => b[i].role # "system"
    PROVE  /\ after \in Seq(TpMessages)
           /\ Only(after, Turns) = Only(messages, Turns)
           /\ Leading(request) /\ ~Enriched(after) => Leading(after)
<1>0. PICK x \in TpMessages : x = System(step) /\ x \notin Turns /\ x.role = "system" /\ x.from = step.hook
  BY SystemIs DEF TpInv
<1>1. after \in Seq(TpMessages) /\ Only(after, Turns) = Only(messages, Turns)
  BY <1>0, PutIn
<1>2. PICK K \in Nat, M \in Nat : K = Len(a) /\ M = Len(b) /\ DOMAIN a = 1..K /\ DOMAIN b = 1..M
  BY LenProperties
<1>3. after = a \o <<x>> \o b
  BY <1>0
<1>4. /\ DOMAIN after = 1..(K + 1 + M)
      /\ \A i \in 1..K : after[i] = a[i]
      /\ after[K + 1] = x
      /\ \A i \in 1..M : after[K + 1 + i] = b[i]
  BY <1>2, <1>3, PutAt
<1>5. /\ DOMAIN messages = 1..(K + M)
      /\ \A i \in 1..K : messages[i] = a[i]
      /\ \A i \in 1..M : messages[K + i] = b[i]
  <2>1. /\ Len(messages) = K + M
        /\ \A i \in 1..(K + M) : messages[i] = IF i <= K THEN a[i] ELSE b[i - K]
    BY <1>2, ConcatProperties
  <2>2. DOMAIN messages = 1..(K + M)
    BY <2>1, LenProperties DEF TpInv
  <2>3. ASSUME NEW i \in 1..M PROVE messages[K + i] = b[i]
    <3>1. PICK j \in 1..(K + M) : j = K + i
      OBVIOUS
    <3>2. ~(j <= K) /\ j - K = i
      BY <3>1
    <3> QED BY <2>1, <3>1, <3>2
  <2> QED BY <2>1, <2>2, <2>3
<1>6. ASSUME Leading(request), ~Enriched(after) PROVE Leading(after)
  <2>0. \A i \in 1..(K + 1 + M) : after[i].from # "enricher"
    BY <1>4, <1>6 DEF Enriched
  <2>1. step.hook # "enricher"
    <3>1. K + 1 \in 1..(K + 1 + M)
      BY <1>2
    <3> QED BY <1>0, <1>4, <2>0, <3>1
  <2>2. ~Enriched(messages)
    <3> SUFFICES ASSUME NEW i \in 1..(K + M) PROVE messages[i].from # "enricher"
      BY <1>5 DEF Enriched
    <3>1. CASE i <= K
      <4>1. i \in 1..K /\ i \in 1..(K + 1 + M)
        BY <1>2, <3>1
      <4> QED BY <1>4, <1>5, <2>0, <4>1
    <3>2. CASE i > K
      <4>1. PICK j \in 1..M : i = K + j
        <5>1. i - K \in 1..M /\ i = K + (i - K)
          BY <1>2, <3>2
        <5> QED BY <5>1
      <4>2. messages[i] = after[K + 1 + j]
        BY <1>4, <1>5, <4>1
      <4>3. K + 1 + j \in 1..(K + 1 + M)
        BY <1>2, <4>1
      <4> QED BY <2>0, <4>2, <4>3
    <3>3. i <= K \/ i > K
      BY <1>2
    <3> QED BY <3>1, <3>2, <3>3
  <2>3. Leading(messages)
    BY <1>6, <2>2 DEF TpInv
  <2>4. /\ K = 0 \/ (K \in 1..K /\ a[K].role = "system")
        /\ \A i \in 1..M : K # 0 => b[i].role # "system"
    <3>1. a = <<>> <=> K = 0
      BY <1>2, EmptySeq
    <3>2. K # 0 => K \in 1..K
      BY <1>2
    <3> QED BY <1>2, <2>1, <3>1, <3>2
  <2> SUFFICES ASSUME NEW i \in DOMAIN after, NEW j \in DOMAIN after, i < j, after[j].role = "system"
               PROVE  after[i].role = "system"
    BY DEF Leading
  <2>5. CASE i = K + 1
    BY <1>0, <1>4, <2>5
  <2>6. CASE i <= K
    <3>1. i \in 1..K /\ K \in 1..K /\ K \in 1..(K + M) /\ i \in 1..(K + M) /\ K # 0
      <4>1. i \in 1..(K + 1 + M)
        BY <1>4
      <4>2. i \in 1..K
        BY <1>2, <2>6, <4>1
      <4> QED BY <1>2, <4>2
    <3>2. a[K].role = "system" /\ messages[K].role = "system"
      BY <1>5, <2>4, <3>1
    <3>3. messages[i].role = "system"
      <4>1. CASE i = K
        BY <3>2, <4>1
      <4>2. CASE i # K
        <5>1. i < K
          BY <2>6, <3>1, <4>2
        <5> QED BY <1>5, <2>3, <3>1, <3>2, <5>1 DEF Leading
      <4> QED BY <4>1, <4>2
    <3> QED BY <1>4, <1>5, <3>1, <3>3
  <2>7. CASE i > K + 1
    <3>1. PICK u \in 1..M, v \in 1..M : i = K + 1 + u /\ j = K + 1 + v /\ u < v
      <4>1. i - (K + 1) \in 1..M /\ j - (K + 1) \in 1..M /\ i - (K + 1) < j - (K + 1)
        BY <1>4, <2>7
      <4>2. i \in Int /\ j \in Int /\ K \in Int
        BY <1>2, <1>4
      <4>3. i = K + 1 + (i - (K + 1)) /\ j = K + 1 + (j - (K + 1))
        BY <4>2
      <4> QED BY <4>1, <4>3
    <3>2. after[i] = messages[K + u] /\ after[j] = messages[K + v]
      BY <1>4, <1>5, <3>1
    <3>3. K + u \in DOMAIN messages /\ K + v \in DOMAIN messages /\ K + u < K + v
      <4>1. K \in Nat /\ M \in Nat /\ u \in 1..M /\ v \in 1..M /\ u < v
        BY <1>2, <3>1
      <4>2. K + u \in 1..(K + M) /\ K + v \in 1..(K + M)
        BY <4>1
      <4>3. K + u < K + v
        BY <4>1
      <4> QED BY <1>5, <4>2, <4>3
    <3> QED BY <2>3, <3>2, <3>3 DEF Leading
  <2> QED BY <1>4, <2>5, <2>6, <2>7
<1> QED BY <1>1, <1>6

LEMMA InjectKeeps ==
    ASSUME TpInv, NEW step \in TpSteps, step.hook = "injector", NEW after, after = inject(messages, step)
    PROVE  /\ after \in Seq(TpMessages)
           /\ Only(after, Turns) = Only(messages, Turns)
           /\ Leading(request) /\ ~Enriched(after) => Leading(after)
<1>0. PICK L \in Nat : L = Len(messages) /\ DOMAIN messages = 1..L
  BY LenProperties DEF TpInv
<1>1. CASE messages = <<>>
  BY <1>1 DEF inject, TpInv
<1>2. CASE messages # <<>> /\ step.position = "prepend"
  <2>1. PICK none \in Seq(TpMessages) : none = <<>>
    BY EmptySeq, Zenon
  <2>2. messages = none \o messages /\ messages \in Seq(TpMessages)
    BY <2>1, ConcatEmptySeq DEF TpInv
  <2>3. after = <<System(step)>> \o messages
    BY <1>2 DEF inject
  <2>4. <<System(step)>> \in Seq(TpMessages)
    BY SystemIs DEF TpInv
  <2>5. none \o <<System(step)>> = <<System(step)>>
    BY <2>1, <2>4, ConcatEmptySeq
  <2>6. after = none \o <<System(step)>> \o messages
    BY <2>3, <2>5, Zenon
  <2> QED BY <2>1, <2>2, <2>6, PutKeeps
<1>3. CASE messages # <<>> /\ step.position = "append"
  <2>1. PICK T : T = {0} \cup {i \in DOMAIN messages : messages[i].role = "system"}
    OBVIOUS
  <2>2. T \subseteq 0..L /\ T # {}
    BY <1>0, <2>1
  <2>3. PICK k \in T : k = Max(T) /\ \A i \in T : i <= k
    BY <2>2, MaxIs
  <2>4. k \in 0..L /\ last_system_index(messages) = k
    BY <2>1, <2>2, <2>3 DEF last_system_index
  <2>5. PICK a, b : a = SubSeq(messages, 1, k) /\ b = SubSeq(messages, k + 1, L)
    OBVIOUS
  <2>6. \A i \in 1..L : messages[i] \in TpMessages
    BY <1>0, LenProperties DEF TpInv
  <2>7. a \in Seq(TpMessages) /\ Len(a) = k /\ \A i \in 1..k : a[i] = messages[i]
    <3>1. \A i \in 1..k : messages[i] \in TpMessages
      BY <2>4, <2>6
    <3>2. a \in Seq(TpMessages) /\ Len(a) = IF 1 <= k THEN k - 1 + 1 ELSE 0
      BY <2>4, <2>5, <3>1, SubSeqProperties
    <3>3. \A i \in 1..(k - 1 + 1) : a[i] = messages[1 + i - 1]
      BY <2>4, <2>5, <3>1, SubSeqProperties
    <3>4. Len(a) = k
      BY <2>4, <3>2
    <3>5. ASSUME NEW i \in 1..k PROVE a[i] = messages[i]
      <4>1. k - 1 + 1 = k /\ 1 + i - 1 = i
        BY <2>4
      <4> QED BY <3>3, <4>1
    <3> QED BY <3>2, <3>4, <3>5
  <2>8. b \in Seq(TpMessages) /\ Len(b) = L - k /\ \A i \in 1..(L - k) : b[i] = messages[k + i]
    <3>1. \A i \in (k + 1)..L : messages[i] \in TpMessages
      BY <2>4, <2>6
    <3>2. b \in Seq(TpMessages) /\ Len(b) = IF k + 1 <= L THEN L - (k + 1) + 1 ELSE 0
      BY <2>4, <2>5, <3>1, SubSeqProperties
    <3>3. \A i \in 1..(L - (k + 1) + 1) : b[i] = messages[(k + 1) + i - 1]
      BY <2>4, <2>5, <3>1, SubSeqProperties
    <3>4. Len(b) = L - k
      BY <2>4, <3>2
    <3>5. ASSUME NEW i \in 1..(L - k) PROVE b[i] = messages[k + i]
      <4>1. L - (k + 1) + 1 = L - k /\ (k + 1) + i - 1 = k + i
        BY <2>4
      <4> QED BY <3>3, <4>1
    <3> QED BY <3>2, <3>4, <3>5
  <2>9. messages = a \o b
    <3>1. SubSeq(messages, 1, k) \o SubSeq(messages, k + 1, L) = SubSeq(messages, 1, L)
      <4>1. 1 \in 1..(Len(messages) + 1) /\ k \in (1 - 1)..Len(messages) /\ L \in k..Len(messages)
        BY <1>0, <2>4
      <4>2. messages \in Seq(TpMessages)
        BY DEF TpInv
      <4> QED BY <4>1, <4>2, ConcatAdjacentSubSeq
    <3>2. SubSeq(messages, 1, L) = messages
      BY <1>0, SubSeqFull DEF TpInv
    <3> QED BY <2>5, <3>1, <3>2
  <2>10. after = a \o <<System(step)>> \o b
    <3>1. after = InsertAt(messages, k + 1, System(step))
      BY <1>3, <2>4 DEF inject
    <3>2. (k + 1) - 1 = k
      BY <2>4
    <3>3. after = SubSeq(messages, 1, (k + 1) - 1) \o <<System(step)>> \o SubSeq(messages, k + 1, Len(messages))
      BY <3>1 DEF InsertAt
    <3> QED BY <1>0, <2>5, <3>2, <3>3, Zenon
  <2>11. a = <<>> \/ a[Len(a)].role = "system"
    <3>1. CASE k = 0
      BY <2>7, <3>1, EmptySeq
    <3>2. CASE k # 0
      <4>1. k \in 1..k /\ messages[k].role = "system"
        BY <2>1, <2>3, <2>4, <3>2
      <4> QED BY <2>7, <4>1
    <3> QED BY <3>1, <3>2
  <2>12. \A i \in DOMAIN b : b[i].role # "system"
    <3> SUFFICES ASSUME NEW i \in 1..(L - k), b[i].role = "system" PROVE FALSE
      BY <2>8, LenProperties
    <3>1. k + i \in 1..L /\ messages[k + i].role = "system"
      BY <2>4, <2>8
    <3>2. k + i \in T
      BY <1>0, <2>1, <3>1
    <3> QED BY <2>3, <2>4, <3>2
  <2> QED BY <2>7, <2>8, <2>9, <2>10, <2>11, <2>12, PutKeeps
<1>4. CASE messages # <<>> /\ step.position = "replace"
  <2>1. PICK turns \in Seq(TpMessages \cap Turns) : turns = Only(messages, Turns)
    BY OnlyIn DEF TpInv
  <2>2. TpMessages \cap Turns = Turns
    BY DEF TpMessages
  <2>3. PICK x \in TpMessages : x = System(step) /\ x \notin Turns /\ x.role = "system" /\ x.from = step.hook
    BY SystemIs DEF TpInv
  <2>4. after = <<x>> \o turns
    BY <1>4, <2>1, <2>3 DEF inject, WithoutSystem
  <2>5. PICK none \in Seq(TpMessages) : none = <<>>
    BY EmptySeq, Zenon
  <2>6. turns \in Seq(Turns) /\ turns \in Seq(TpMessages)
    BY <2>1, <2>2, SeqMonotonic DEF TpMessages
  <2>7. after = none \o <<x>> \o turns
    <3>1. <<x>> \in Seq(TpMessages)
      OBVIOUS
    <3>2. none \o <<x>> = <<x>>
      BY <2>5, <3>1, ConcatEmptySeq
    <3> QED BY <2>4, <3>2, Zenon
  <2>8. none \o turns = turns
    BY <2>5, <2>6, ConcatEmptySeq
  <2>9. after \in Seq(TpMessages) /\ Only(after, Turns) = Only(turns, Turns)
    <3>1. /\ none \o <<x>> \o turns \in Seq(TpMessages)
          /\ Only(none \o <<x>> \o turns, Turns) = Only(none \o turns, Turns)
      BY <2>3, <2>5, <2>6, PutIn
    <3> QED BY <2>7, <2>8, <3>1, Zenon
  <2>10. Only(turns, Turns) = turns
    BY <2>6, OnlyAll
  <2>11. PICK M \in Nat : M = Len(turns)
    BY <2>6, LenProperties
  <2>12. Len(none) = 0
    BY <2>5, EmptySeq
  <2>13. DOMAIN after = 1..(1 + M) /\ \A i \in 1..M : after[1 + i] = turns[i]
    BY <2>3, <2>5, <2>6, <2>7, <2>11, <2>12, PutAt
  <2>14. Leading(after)
    <3> SUFFICES ASSUME NEW i \in 1..(1 + M), NEW j \in 1..(1 + M), i < j, after[j].role = "system" PROVE FALSE
      BY <2>13 DEF Leading
    <3>1. j - 1 \in 1..M /\ 1 + (j - 1) = j
      OBVIOUS
    <3>2. after[j] = turns[j - 1]
      BY <2>13, <3>1
    <3>3. turns[j - 1] \in Turns
      BY <2>6, <2>11, <3>1, ElementOfSeq
    <3> QED BY <3>2, <3>3 DEF Turns
  <2> QED BY <2>1, <2>9, <2>10, <2>14
<1> QED BY <1>1, <1>2, <1>3, <1>4 DEF TpSteps

LEMMA EnrichKeeps ==
    ASSUME TpInv, NEW step \in TpSteps, step.hook = "enricher", NEW after, after = enrich(messages, step)
    PROVE  /\ after \in Seq(TpMessages)
           /\ Only(after, Turns) = Only(messages, Turns)
           /\ Leading(request) /\ ~Enriched(after) => Leading(after)
<1>1. PICK none \in Seq(TpMessages) : none = <<>>
  BY EmptySeq, Zenon
<1>2. messages \in Seq(TpMessages) /\ messages = none \o messages /\ messages = messages \o none
  BY <1>1, ConcatEmptySeq DEF TpInv
<1>3. <<System(step)>> \in Seq(TpMessages) /\ System(step) \in TpMessages
  BY SystemIs DEF TpInv
<1>4. CASE step.position = "prepend"
  <2>1. none \o <<System(step)>> = <<System(step)>>
    BY <1>1, <1>3, ConcatEmptySeq
  <2>2. after = none \o <<System(step)>> \o messages
    BY <1>4, <2>1 DEF enrich
  <2> QED BY <1>1, <1>2, <2>2, PutKeeps
<1>5. CASE step.position # "prepend"
  <2>1. after = Append(messages, System(step))
    BY <1>5 DEF enrich
  <2>2. after = messages \o <<System(step)>>
    BY <1>2, <1>3, <2>1, AppendIsConcat
  <2>3. after \in Seq(TpMessages)
    BY <1>2, <1>3, <2>1, AppendProperties
  <2>4. after = messages \o <<System(step)>> \o none
    BY <1>1, <2>2, <2>3, ConcatEmptySeq
  <2> QED BY <1>1, <1>2, <2>4, PutKeeps
<1> QED BY <1>4, <1>5

LEMMA TpStep == TpInv /\ [ApplyStep \/ HookFails]_tpVars => TpInv'
<1> SUFFICES ASSUME TpInv, [ApplyStep \/ HookFails]_tpVars PROVE TpInv'
  OBVIOUS
<1>1. CASE UNCHANGED tpVars
  BY <1>1 DEF tpVars, TpInv
<1>2. CASE HookFails
  <2>1. Head(todo).hook \in {"injector", "enricher"}
    <3>1. Head(todo) \in TpSteps
      BY <1>2, HeadTailProperties DEF HookFails, TpInv
    <3> QED BY <3>1 DEF TpSteps
  <2> QED BY <1>2, <2>1 DEF HookFails, TpInv
<1>3. CASE ApplyStep
  <2>1. PICK step \in TpSteps : step = Head(todo)
    BY <1>3, HeadTailProperties DEF ApplyStep, TpInv
  <2>2. todo' \in Seq(TpSteps) /\ request' = request /\ broken' = broken
    BY <1>3, HeadTailProperties DEF ApplyStep, TpInv
  <2>3. messages' = IF step.hook \in broken THEN messages
                    ELSE IF step.hook = "injector" THEN inject(messages, step) ELSE enrich(messages, step)
    BY <1>3, <2>1 DEF ApplyStep
  <2>4. step.hook \in {"injector", "enricher"}
    BY DEF TpSteps
  <2>5. /\ messages' \in Seq(TpMessages)
        /\ Only(messages', Turns) = Only(messages, Turns)
        /\ Leading(request) /\ ~Enriched(messages') => Leading(messages')
    <3>1. CASE messages' = messages
      BY <3>1 DEF TpInv
    <3>2. CASE messages' = inject(messages, step) /\ step.hook = "injector"
      BY <3>2, InjectKeeps
    <3>3. CASE messages' = enrich(messages, step) /\ step.hook = "enricher"
      BY <3>3, EnrichKeeps
    <3> QED BY <2>3, <2>4, <3>1, <3>2, <3>3
  <2> QED BY <2>2, <2>5 DEF TpInv
<1> QED BY <1>1, <1>2, <1>3

LEMMA TpSound == TpInv => TpTypeOK /\ ConversationKept /\ SystemFirst
<1> SUFFICES ASSUME TpInv PROVE TpTypeOK /\ ConversationKept /\ SystemFirst
  OBVIOUS
<1>1. TpTypeOK /\ ConversationKept
  BY DEF TpInv, TpTypeOK, TpMessages, ConversationKept
<1>2. SystemFirst
  BY DEF TpInv, SystemFirst, Leading, Enriched
<1> QED BY <1>1, <1>2

-----------------------------------------------------------------------------
(* The conversation at the provider.                                       *)

\* Two sets that have the same of the elements of a sequence leave the same of it.
LEMMA OnlySame ==
    ASSUME NEW T, NEW s \in Seq(T), NEW S, NEW R, \A e \in Range(s) : e \in S <=> e \in R
    PROVE  Only(s, S) = Only(s, R)
<1> DEFINE G == {t \in Seq(T) : (\A i \in 1..Len(t) : t[i] \in S <=> t[i] \in R) => Only(t, S) = Only(t, R)}
<1>1. <<>> \in G
  BY OnlyNone
<1>2. ASSUME NEW t \in Seq(T), NEW e \in T, t \in G PROVE Append(t, e) \in G
  <2>1. PICK u \in Seq(T) : u = Append(t, e)
    BY AppendProperties
  <2>2. PICK n \in Nat : n = Len(t)
    BY LenProperties
  <2>3. Len(u) = n + 1 /\ (\A i \in 1..n : u[i] = t[i]) /\ u[n + 1] = e
    BY <2>1, <2>2, AppendProperties
  <2>4. ASSUME \A i \in 1..Len(u) : u[i] \in S <=> u[i] \in R PROVE Only(u, S) = Only(u, R)
    <3>1. \A i \in 1..n : i \in 1..(n + 1)
      BY <2>2
    <3>2. \A i \in 1..n : t[i] \in S <=> t[i] \in R
      BY <2>3, <2>4, <3>1
    <3>3. Only(t, S) = Only(t, R)
      BY <1>2, <2>2, <3>2
    <3>4. n + 1 \in 1..(n + 1)
      BY <2>2
    <3>5. e \in S <=> e \in R
      BY <2>3, <2>4, <3>4
    <3>6. /\ Only(u, S) = IF e \in S THEN Append(Only(t, S), e) ELSE Only(t, S)
          /\ Only(u, R) = IF e \in R THEN Append(Only(t, R), e) ELSE Only(t, R)
      BY <2>1, OnlyMore
    <3> QED BY <3>3, <3>5, <3>6, Zenon
  <2> QED BY <2>1, <2>4
<1>3. s \in G
  <2> HIDE DEF G
  <2>1. \A t \in Seq(T) : t \in G
    BY <1>1, <1>2, ByAppend
  <2> QED BY <2>1
<1>4. \A i \in 1..Len(s) : s[i] \in Range(s)
  BY LenProperties DEF Range
<1> QED BY <1>3, <1>4

\* A function of each element of a sequence.
Mapped(s, g) == [i \in DOMAIN s |-> g[s[i]]]

LEMMA MappedIs ==
    ASSUME NEW T, NEW Q, NEW g, \A x \in T : g[x] \in Q, NEW s \in Seq(T)
    PROVE  Mapped(s, g) \in Seq(Q)
<1>1. PICK n \in Nat : n = Len(s) /\ DOMAIN s = 1..n
  BY LenProperties
<1>2. \A i \in 1..n : g[s[i]] \in Q
  <2>1. \A i \in 1..n : s[i] \in T
    BY <1>1, ElementOfSeq
  <2> QED BY <2>1
<1> QED BY <1>1, <1>2 DEF Mapped

LEMMA MappedNone == ASSUME NEW g PROVE Mapped(<<>>, g) = <<>>
<1>1. PICK none \in Seq({}) : none = <<>>
  BY EmptySeq, Zenon
<1>2. DOMAIN none = {}
  BY <1>1
<1>3. Mapped(none, g) = [i \in {} |-> g[none[i]]]
  BY <1>2 DEF Mapped
<1>4. PICK f : f = [i \in {} |-> g[none[i]]]
  OBVIOUS
<1>5. f \in Seq({}) /\ Len(f) = 0
  <2>1. f = [i \in 1..0 |-> f[i]]
    BY <1>4
  <2>2. f \in [1..0 -> {}]
    BY <2>1
  <2>3. f \in Seq({})
    BY <2>2
  <2> QED BY <2>2, <2>3, LenProperties
<1> QED BY <1>1, <1>3, <1>4, <1>5, EmptySeq

LEMMA MappedMore ==
    ASSUME NEW T, NEW g, NEW s \in Seq(T), NEW e \in T
    PROVE  Mapped(Append(s, e), g) = Append(Mapped(s, g), g[e])
<1>0. PICK Q : Q = {g[x] : x \in T}
  OBVIOUS
<1>01. \A x \in T : g[x] \in Q
  BY <1>0
<1>1. PICK n \in Nat : n = Len(s) /\ DOMAIN s = 1..n
  BY LenProperties
<1>2. PICK u \in Seq(T) : u = Append(s, e)
  BY AppendProperties
<1>3. Len(u) = n + 1 /\ (\A i \in 1..n : u[i] = s[i]) /\ u[n + 1] = e /\ DOMAIN u = 1..(n + 1)
  <2>1. Len(u) = n + 1 /\ (\A i \in 1..n : u[i] = s[i]) /\ u[n + 1] = e
    BY <1>1, <1>2, AppendProperties
  <2> QED BY <2>1, LenProperties
<1>4. PICK a \in Seq(Q) : a = Mapped(s, g)
  BY <1>01, MappedIs
<1>5. PICK b \in Seq(Q) : b = Mapped(u, g)
  BY <1>01, MappedIs
<1>6. PICK c \in Seq(Q) : c = Append(a, g[e])
  BY <1>01, AppendProperties
<1>7. Len(a) = n /\ \A i \in 1..n : a[i] = g[s[i]]
  <2>1. DOMAIN a = 1..n /\ \A i \in 1..n : a[i] = g[s[i]]
    BY <1>1, <1>4 DEF Mapped
  <2> QED BY <2>1, LenProperties
<1>8. DOMAIN b = 1..(n + 1) /\ \A i \in 1..(n + 1) : b[i] = g[u[i]]
  BY <1>3, <1>5 DEF Mapped
<1>9. Len(c) = n + 1 /\ (\A i \in 1..n : c[i] = a[i]) /\ c[n + 1] = g[e] /\ DOMAIN c = 1..(n + 1)
  <2>1. Len(c) = n + 1 /\ (\A i \in 1..n : c[i] = a[i]) /\ c[n + 1] = g[e]
    BY <1>6, <1>7, AppendProperties
  <2> QED BY <2>1, LenProperties
<1>00. \A i \in 1..(n + 1) : i = n + 1 \/ i \in 1..n
  <2>1. n \in Nat
    BY <1>1
  <2> QED BY <2>1
<1>10. ASSUME NEW i \in 1..(n + 1) PROVE b[i] = c[i]
  <2>1. CASE i = n + 1
    BY <1>3, <1>8, <1>9, <2>1
  <2>2. CASE i # n + 1
    <3>1. i \in 1..n
      BY <1>00, <2>2
    <3>2. b[i] = g[u[i]] /\ u[i] = s[i]
      BY <1>3, <1>8, <3>1
    <3>3. c[i] = a[i] /\ a[i] = g[s[i]]
      BY <1>7, <1>9, <3>1
    <3> QED BY <3>2, <3>3
  <2> QED BY <2>1, <2>2
<1>11. b = c
  <2>1. b = [i \in 1..(n + 1) |-> b[i]] /\ c = [i \in 1..(n + 1) |-> c[i]]
    BY <1>8, <1>9
  <2> QED BY <1>10, <2>1
<1> QED BY <1>2, <1>4, <1>5, <1>6, <1>11

LEMMA OnlyBoth == ASSUME NEW T, NEW N, NEW x \in Seq(T), NEW z \in Seq(T) PROVE Only(x \o z, N) = Only(x, N) \o Only(z, N)
  BY OnlyOfBoth

\* What is in N of what the elements in S of a sequence become, joined, when that is h for
\* each of them and nothing for the others.
LEMMA JoinedTraffic ==
    ASSUME NEW T, NEW E, NEW S, NEW N, NEW g, NEW h, \A x \in T : g[x] \in Seq(E) /\ h[x] \in Seq(E),
           \A e \in T : IF e \in S THEN Only(g[e], N) = h[e] ELSE h[e] = <<>>, NEW s \in Seq(T)
    PROVE  Only(FlattenSeq(Mapped(Only(s, S), g)), N) = FlattenSeq(Mapped(s, h))
<1> DEFINE G == {t \in Seq(T) : Only(FlattenSeq(Mapped(Only(t, S), g)), N) = FlattenSeq(Mapped(t, h))}
<1>1. <<>> \in G
  <2>1. Only(FlattenSeq(Mapped(Only(<<>>, S), g)), N) = <<>> /\ FlattenSeq(Mapped(<<>>, h)) = <<>>
    BY OnlyNone, MappedNone, JoinNone, Zenon
  <2>2. <<>> \in Seq(T)
    BY EmptySeq, Zenon
  <2> QED BY <2>1, <2>2, Zenon
<1>2. ASSUME NEW t \in Seq(T), NEW e \in T, t \in G PROVE Append(t, e) \in G
  <2>1. PICK u \in Seq(T) : u = Append(t, e)
    BY AppendProperties
  <2>2. PICK Q : Q = Seq(E)
    OBVIOUS
  <2>3. (\A z \in T : g[z] \in Q) /\ (\A z \in T : h[z] \in Q) /\ g[e] \in Q /\ h[e] \in Q
    BY <2>2
  <2>4. PICK v \in Seq(T) : v = Only(t, S)
    BY OnlyIn
  <2>5. PICK a \in Seq(Q) : a = Mapped(v, g)
    BY <2>3, MappedIs
  <2>6. PICK b \in Seq(Q) : b = Mapped(t, h)
    BY <2>3, MappedIs
  <2>7. PICK x \in Seq(E), y \in Seq(E) : x = FlattenSeq(a) /\ y = FlattenSeq(b)
    BY <2>2, JoinIn
  <2>8. Only(x, N) = y
    BY <1>2, <2>4, <2>5, <2>6, <2>7
  <2>9. FlattenSeq(Mapped(u, h)) = y \o h[e]
    <3>1. Mapped(u, h) = Append(b, h[e])
      <4>1. Mapped(Append(t, e), h) = Append(Mapped(t, h), h[e])
        BY MappedMore
      <4> QED BY <2>1, <2>6, <4>1, Zenon
    <3>2. FlattenSeq(Append(b, h[e])) = FlattenSeq(b) \o h[e]
      BY <2>2, <2>3, JoinMore
    <3> QED BY <2>7, <3>1, <3>2, Zenon
  <2>10. Only(FlattenSeq(Mapped(Only(u, S), g)), N) = y \o h[e]
    <3>1. CASE e \in S
      <4>1. Only(u, S) = Append(v, e)
        <5>1. Only(Append(t, e), S) = IF e \in S THEN Append(Only(t, S), e) ELSE Only(t, S)
          BY OnlyMore
        <5> QED BY <2>1, <2>4, <3>1, <5>1, Zenon
      <4>2. Mapped(Append(v, e), g) = Append(a, g[e])
        <5>1. Mapped(Append(v, e), g) = Append(Mapped(v, g), g[e])
          BY MappedMore
        <5> QED BY <2>5, <5>1, Zenon
      <4>3. FlattenSeq(Append(a, g[e])) = x \o g[e]
        BY <2>2, <2>3, <2>7, JoinMore
      <4>4. Only(x \o g[e], N) = Only(x, N) \o Only(g[e], N)
        <5>1. PICK z \in Seq(E) : z = g[e]
          BY <2>2, <2>3
        <5>2. Only(x \o z, N) = Only(x, N) \o Only(z, N)
          BY OnlyBoth
        <5> QED BY <5>1, <5>2, Zenon
      <4>5. Only(g[e], N) = h[e]
        BY <3>1
      <4> QED BY <2>8, <4>1, <4>2, <4>3, <4>4, <4>5, Zenon
    <3>2. CASE e \notin S
      <4>1. Only(u, S) = v
        BY <2>1, <2>4, <3>2, OnlyMore
      <4>2. h[e] = <<>>
        BY <3>2
      <4>3. y \o <<>> = y
        BY <2>7, ConcatEmptySeq
      <4> QED BY <2>5, <2>7, <2>8, <4>1, <4>2, <4>3, Zenon
    <3> QED BY <3>1, <3>2
  <2> QED BY <2>1, <2>9, <2>10
<1>3. s \in G
  <2> HIDE DEF G
  <2>1. \A t \in Seq(T) : t \in G
    BY <1>1, <1>2, ByAppend
  <2> QED BY <2>1
<1> QED BY <1>3

\* Leaving out elements that become nothing leaves the join as it was.
LEMMA JoinedWithoutEmpty ==
    ASSUME NEW T, NEW E, NEW S, NEW g, \A x \in T : g[x] \in Seq(E), \A e \in T : e \notin S => g[e] = <<>>, NEW s \in Seq(T)
    PROVE  FlattenSeq(Mapped(Only(s, S), g)) = FlattenSeq(Mapped(s, g))
<1>3. \A e \in T : g[e] \in Seq(E) /\ Only(g[e], E) = g[e]
  <2> SUFFICES ASSUME NEW e \in T PROVE Only(g[e], E) = g[e]
    OBVIOUS
  <2>1. g[e] \in Seq(E)
    OBVIOUS
  <2> QED BY <2>1, OnlyAll
<1>4. \A e \in T : IF e \in S THEN Only(g[e], E) = g[e] ELSE g[e] = <<>>
  BY <1>3
<1>5. Only(FlattenSeq(Mapped(Only(s, S), g)), E) = FlattenSeq(Mapped(s, g))
  BY <1>4, JoinedTraffic
<1>6. FlattenSeq(Mapped(Only(s, S), g)) \in Seq(E)
  <2>1. PICK Q : Q = Seq(E)
    OBVIOUS
  <2>2. Mapped(Only(s, S), g) \in Seq(Q)
    BY <2>1, OnlyIn, MappedIs
  <2> QED BY <2>1, <2>2, JoinIn
<1> QED BY <1>5, <1>6, OnlyAll

TextParts   == {<<"text", t>> : t \in STRING \cup {""}}
CallParts   == {<<"call", c.id, c.name>> : c \in [id : STRING, name : STRING]}
ResultParts == {<<"result", r>> : r \in STRING}
ToolParts == CallParts \cup ResultParts
MessageParts == TextParts \cup ToolParts
ProperChats == {c \in Chats : c.role # "assistant" => c.calls = <<>>}
Traffic(m) == IF m.role = "tool" THEN <<<<"result", m.answers>>>> ELSE call_parts(m)

LEMMA PartsApart ==
    /\ \A e \in TextParts : e[1] = "text" /\ e \notin ToolParts
    /\ \A e \in ToolParts : e[1] # "text"
<1>1. \A e \in TextParts : e[1] = "text"
  <2>1. \A t \in STRING \cup {""} : <<"text", t>>[1] = "text"
    OBVIOUS
  <2> QED BY <2>1, Zenon DEF TextParts
<1>2. \A e \in ToolParts : e[1] # "text"
  <2>1. \A e \in CallParts : e[1] # "text"
    <3>1. \A c \in [id : STRING, name : STRING] : <<"call", c.id, c.name>>[1] # "text"
      OBVIOUS
    <3> QED BY <3>1, Zenon DEF CallParts
  <2>2. \A e \in ResultParts : e[1] # "text"
    <3>1. \A r \in STRING : <<"result", r>>[1] # "text"
      OBVIOUS
    <3> QED BY <3>1, Zenon DEF ResultParts
  <2> QED BY <2>1, <2>2 DEF ToolParts
<1> QED BY <1>1, <1>2, Zenon

LEMMA OnePart ==
    ASSUME NEW e, e \in MessageParts
    PROVE  /\ <<e>> \in Seq(MessageParts)
           /\ e \in TextParts => Only(<<e>>, ToolParts) = <<>>
           /\ e \in ToolParts => Only(<<e>>, ToolParts) = <<e>>
<1>1. Only(<<e>>, ToolParts) = IF e \in ToolParts THEN <<e>> ELSE <<>>
  BY OnlyOne
<1>2. e \in TextParts => e \notin ToolParts
  BY PartsApart, Zenon
<1>3. <<e>> \in Seq(MessageParts)
  OBVIOUS
<1> QED BY <1>1, <1>2, <1>3, Zenon

LEMMA MessageTraffic ==
    ASSUME NEW m, m \in Chats
    PROVE  /\ text_parts(m) \in Seq(MessageParts) /\ call_parts(m) \in Seq(MessageParts)
           /\ text_parts(m) \o call_parts(m) \in Seq(MessageParts)
           /\ Only(text_parts(m) \o call_parts(m), ToolParts) = call_parts(m)
           /\ m.calls = <<>> => call_parts(m) = <<>>
<1>1. m.text \in STRING /\ m.calls \in Seq([id : STRING, name : STRING])
  BY DEF Chats
<1>2. text_parts(m) \in Seq(MessageParts) /\ Only(text_parts(m), ToolParts) = <<>>
  <2>1. CASE m.text = ""
    <3>1. text_parts(m) = <<>>
      BY <2>1 DEF text_parts
    <3> QED BY <3>1, OnlyNone, EmptySeq, Zenon
  <2>2. CASE m.text # ""
    <3>1. PICK e : e = <<"text", m.text>>
      OBVIOUS
    <3>2. e \in TextParts /\ e \in MessageParts
      BY <1>1, <3>1 DEF TextParts, MessageParts
    <3>3. text_parts(m) = <<e>>
      BY <2>2, <3>1, Zenon DEF text_parts
    <3> QED BY <3>2, <3>3, OnePart, Zenon
  <2> QED BY <2>1, <2>2
<1>3. PICK n \in Nat : n = Len(m.calls) /\ DOMAIN m.calls = 1..n
  BY <1>1, LenProperties
<1>4. \A i \in 1..n : <<"call", m.calls[i].id, m.calls[i].name>> \in ToolParts
  <2> SUFFICES ASSUME NEW i \in 1..n PROVE <<"call", m.calls[i].id, m.calls[i].name>> \in ToolParts
    OBVIOUS
  <2>1. m.calls[i] \in [id : STRING, name : STRING]
    BY <1>1, <1>3, ElementOfSeq
  <2>2. <<"call", m.calls[i].id, m.calls[i].name>> \in CallParts
    BY <2>1, Zenon DEF CallParts
  <2> QED BY <2>2, Zenon DEF ToolParts
<1>5. call_parts(m) = [i \in 1..n |-> <<"call", m.calls[i].id, m.calls[i].name>>]
  BY <1>3, Zenon DEF call_parts
<1>6. call_parts(m) \in Seq(ToolParts)
  <2>1. PICK made : made = [i \in 1..n |-> <<"call", m.calls[i].id, m.calls[i].name>>]
    OBVIOUS
  <2>2. \A i \in 1..n : made[i] \in ToolParts
    BY <1>4, <2>1
  <2>3. made = [i \in 1..n |-> made[i]]
    BY <2>1
  <2>4. made \in [1..n -> ToolParts]
    BY <2>2, <2>3
  <2>5. made \in Seq(ToolParts)
    BY <1>3, <2>4
  <2> QED BY <1>5, <2>1, <2>5, Zenon
<1>7. Only(call_parts(m), ToolParts) = call_parts(m)
  BY <1>6, OnlyAll
<1>8. call_parts(m) \in Seq(MessageParts)
  <2>1. \A s \in Seq(ToolParts) : s \in Seq(MessageParts)
    BY DEF MessageParts
  <2> QED BY <1>6, <2>1, Zenon
<1>9. PICK x \in Seq(MessageParts), z \in Seq(MessageParts) : x = text_parts(m) /\ z = call_parts(m)
  BY <1>2, <1>8
<1>10. Only(x \o z, ToolParts) = Only(x, ToolParts) \o Only(z, ToolParts)
  BY OnlyBoth
<1>11. <<>> \o z = z /\ x \o z \in Seq(MessageParts)
  BY ConcatEmptySeq, ConcatProperties
<1>12. Only(x \o z, ToolParts) = z
  BY <1>2, <1>7, <1>9, <1>10, <1>11, Zenon
<1>13. m.calls = <<>> => call_parts(m) = <<>>
  <2> SUFFICES ASSUME m.calls = <<>> PROVE call_parts(m) = <<>>
    OBVIOUS
  <2>1. n = 0
    <3>1. Len(<<>>) = 0
      OBVIOUS
    <3> QED BY <1>3, <3>1
  <2>2. DOMAIN z = 1..0
    BY <1>5, <1>9, <2>1
  <2>3. Len(z) = 0
    BY <2>2, LenProperties
  <2> QED BY <1>9, <2>3, EmptySeq
<1> QED BY <1>2, <1>8, <1>9, <1>11, <1>12, <1>13, Zenon

LEMMA AdapterTraffic ==
    ASSUME NEW m, m \in ProperChats
    PROVE  /\ Traffic(m) \in Seq(MessageParts)
           /\ anthropic_message(m).parts \in Seq(MessageParts)
           /\ converse_message(m).parts \in Seq(MessageParts)
           /\ gemini_content(m).parts \in Seq(MessageParts)
           /\ Only(gemini_content(m).parts, ToolParts) = Traffic(m)
           /\ m.role # "system" =>
                /\ Only(anthropic_message(m).parts, ToolParts) = Traffic(m)
                /\ Only(converse_message(m).parts, ToolParts) = Traffic(m)
           /\ m.role = "system" => Traffic(m) = <<>>
<1>0. m \in Chats /\ (m.role # "assistant" => m.calls = <<>>)
  BY Zenon DEF ProperChats
<1>1. /\ text_parts(m) \o call_parts(m) \in Seq(MessageParts) /\ call_parts(m) \in Seq(MessageParts)
      /\ Only(text_parts(m) \o call_parts(m), ToolParts) = call_parts(m)
      /\ m.calls = <<>> => call_parts(m) = <<>>
  BY <1>0, MessageTraffic, Zenon
<1>2. m.text \in STRING /\ m.answers \in STRING
  BY <1>0 DEF Chats
<1>3. PICK r : r = <<"result", m.answers>>
  OBVIOUS
<1>4. r \in ToolParts /\ r \in MessageParts
  <2>1. r \in ResultParts
    BY <1>2, <1>3, Zenon DEF ResultParts
  <2> QED BY <2>1, Zenon DEF ToolParts, MessageParts
<1>5. <<r>> \in Seq(MessageParts) /\ Only(<<r>>, ToolParts) = <<r>>
  BY <1>4, OnePart, Zenon
<1>6. \A t \in STRING \cup {""} : <<<<"text", t>>>> \in Seq(MessageParts) /\ Only(<<<<"text", t>>>>, ToolParts) = <<>>
  <2> SUFFICES ASSUME NEW t \in STRING \cup {""} PROVE <<<<"text", t>>>> \in Seq(MessageParts) /\ Only(<<<<"text", t>>>>, ToolParts) = <<>>
    OBVIOUS
  <2>1. PICK e : e = <<"text", t>>
    OBVIOUS
  <2>2. e \in TextParts /\ e \in MessageParts
    BY <2>1, Zenon DEF TextParts, MessageParts
  <2> QED BY <2>1, <2>2, OnePart, Zenon
<1>7. PICK both : both = text_parts(m) \o call_parts(m)
  OBVIOUS
<1>8. CASE m.role = "tool"
  <2>1. Traffic(m) = <<r>>
    BY <1>3, <1>8, Zenon DEF Traffic
  <2>2. anthropic_message(m) = [role |-> "user", parts |-> <<r>>]
    BY <1>3, <1>8 DEF anthropic_message
  <2>3. converse_message(m) = [role |-> "user", parts |-> <<r>>]
    BY <1>3, <1>8 DEF converse_message
  <2>4. gemini_content(m) = [role |-> "user", parts |-> <<r>>]
    BY <1>3, <1>8 DEF gemini_content
  <2>5. /\ anthropic_message(m).parts = <<r>> /\ converse_message(m).parts = <<r>>
        /\ gemini_content(m).parts = <<r>>
    BY <2>2, <2>3, <2>4
  <2> QED BY <1>5, <1>8, <2>1, <2>5, Zenon
<1>9. CASE m.role # "tool"
  <2>1. Traffic(m) = call_parts(m)
    BY <1>9, Zenon DEF Traffic
  <2>2. gemini_content(m).parts = both
    BY <1>7, <1>9 DEF gemini_content
  <2>3. converse_message(m).parts = IF both = <<>> THEN <<<<"text", "">>>> ELSE both
    <3>1. converse_message(m).parts = build_content_blocks(m)
      BY <1>9 DEF converse_message
    <3> QED BY <1>7, <3>1, Zenon DEF build_content_blocks
  <2>4. /\ converse_message(m).parts \in Seq(MessageParts)
        /\ Only(converse_message(m).parts, ToolParts) = call_parts(m)
    <3>1. CASE both = <<>>
      <4>1. call_parts(m) = <<>>
        BY <1>1, <1>7, <3>1, OnlyNone, Zenon
      <4>2. converse_message(m).parts = <<<<"text", "">>>>
        BY <2>3, <3>1, Zenon
      <4>3. "" \in STRING \cup {""}
        OBVIOUS
      <4> QED BY <1>6, <4>1, <4>2, <4>3, Zenon
    <3>2. CASE both # <<>>
      <4>1. converse_message(m).parts = both
        BY <2>3, <3>2, Zenon
      <4> QED BY <1>1, <1>7, <4>1, Zenon
    <3> QED BY <3>1, <3>2
  <2>5. /\ anthropic_message(m).parts \in Seq(MessageParts)
        /\ Only(anthropic_message(m).parts, ToolParts) = call_parts(m)
    <3>1. CASE m.role = "assistant" /\ m.calls # <<>>
      <4>1. anthropic_message(m).parts = both
        <5>1. anthropic_message(m) = [role |-> "assistant", parts |-> both]
          BY <1>7, <3>1, <1>9, Zenon DEF anthropic_message
        <5> QED BY <5>1
      <4> QED BY <1>1, <1>7, <4>1, Zenon
    <3>2. CASE ~(m.role = "assistant" /\ m.calls # <<>>)
      <4>1. anthropic_message(m).parts = <<<<"text", m.text>>>>
        <5>1. anthropic_message(m) = [role |-> IF m.role = "user" THEN "user" ELSE "assistant",
                                      parts |-> <<<<"text", m.text>>>>]
          BY <3>2, <1>9, Zenon DEF anthropic_message
        <5>2. PICK t : t = <<<<"text", m.text>>>>
          OBVIOUS
        <5>3. anthropic_message(m).parts = t
          BY <5>1, <5>2
        <5> QED BY <5>2, <5>3, Zenon
      <4>2. call_parts(m) = <<>>
        BY <1>0, <1>1, <3>2, Zenon
      <4> QED BY <1>2, <1>6, <4>1, <4>2, Zenon
    <3> QED BY <3>1, <3>2
  <2>6. m.role = "system" => call_parts(m) = <<>>
    BY <1>0, <1>1
  <2> QED BY <1>1, <1>7, <2>1, <2>2, <2>4, <2>5, <2>6, Zenon
<1> QED BY <1>8, <1>9

\* What was said to whom, and what the provider gets of it.
Gets(p, m) == IF p = "anthropic" THEN anthropic_message(m)
              ELSE IF p = "bedrock" THEN converse_message(m) ELSE gemini_content(m)
PartsFor(p)    == [m \in ProperChats |-> Gets(p, m).parts]
Asked      == [m \in ProperChats |-> Traffic(m)]
NotSystem  == {m \in Chats : m.role # "system"}
Heard(p)   == IF p = "cohere" THEN Chats ELSE NotSystem

LEMMA GetsIs ==
    ASSUME NEW p, NEW s, s \in Seq(ProperChats)
    PROVE  /\ FlattenSeq(Mapped(Only(s, Heard(p)), PartsFor(p))) \in Seq(MessageParts)
           /\ Only(FlattenSeq(Mapped(Only(s, Heard(p)), PartsFor(p))), ToolParts) = FlattenSeq(Mapped(s, Asked))
<1>1. PICK g, h, E : g = PartsFor(p) /\ h = Asked /\ E = MessageParts
  OBVIOUS
<1>2. \A m \in ProperChats : g[m] = Gets(p, m).parts /\ h[m] = Traffic(m)
  BY <1>1 DEF PartsFor, Asked
<1>3. ASSUME NEW m, m \in ProperChats
      PROVE  /\ g[m] \in Seq(E) /\ h[m] \in Seq(E)
             /\ IF m \in Heard(p) THEN Only(g[m], ToolParts) = h[m] ELSE h[m] = <<>>
  <2>1. m \in Chats
    BY <1>3, Zenon DEF ProperChats
  <2>2. /\ m \in Heard(p) => p = "cohere" \/ m.role # "system"
        /\ m \notin Heard(p) => m.role = "system"
    BY <2>1 DEF Heard, NotSystem
  <2>3. g[m] = Gets(p, m).parts /\ h[m] = Traffic(m)
    BY <1>2, <1>3, Zenon
  <2>4. Gets(p, m) \in {anthropic_message(m), converse_message(m), gemini_content(m)}
    BY DEF Gets
  <2>5. Gets(p, m).parts \in {anthropic_message(m).parts, converse_message(m).parts, gemini_content(m).parts}
    BY <2>4, Zenon
  <2>6. PICK a : a = Gets(p, m).parts
    OBVIOUS
  <2>7. /\ a \in Seq(E) /\ Traffic(m) \in Seq(E)
        /\ m.role # "system" => Only(a, ToolParts) = Traffic(m)
        /\ m.role = "system" => Traffic(m) = <<>>
    BY <1>1, <1>3, <2>5, <2>6, AdapterTraffic, Zenon
  <2>8. p = "cohere" => Only(a, ToolParts) = Traffic(m)
    <3>1. p = "cohere" => Gets(p, m) = gemini_content(m)
      BY DEF Gets
    <3> QED BY <1>3, <2>6, <3>1, AdapterTraffic, Zenon
  <2> QED BY <2>2, <2>3, <2>6, <2>7, <2>8, Zenon
<1>4. PICK T : T = ProperChats
  OBVIOUS
<1>5. s \in Seq(T) /\ \A m \in T : g[m] \in Seq(E) /\ h[m] \in Seq(E)
  BY <1>3, <1>4
<1>6. \A m \in T : IF m \in Heard(p) THEN Only(g[m], ToolParts) = h[m] ELSE h[m] = <<>>
  BY <1>3, <1>4
<1>7. PICK S, N : S = Heard(p) /\ N = ToolParts
  OBVIOUS
<1>8. \A m \in T : IF m \in S THEN Only(g[m], N) = h[m] ELSE h[m] = <<>>
  BY <1>6, <1>7
<1>9. Only(FlattenSeq(Mapped(Only(s, S), g)), N) = FlattenSeq(Mapped(s, h))
  BY <1>5, <1>8, JoinedTraffic
<1>10. FlattenSeq(Mapped(Only(s, S), g)) \in Seq(E)
  <2>1. PICK Q1 : Q1 = Seq(E)
    OBVIOUS
  <2>2. \A m \in T : g[m] \in Q1
    BY <1>5, <2>1
  <2>3. Only(s, S) \in Seq(T)
    BY <1>5, OnlyIn
  <2>4. Mapped(Only(s, S), g) \in Seq(Q1)
    BY <2>2, <2>3, MappedIs
  <2> QED BY <2>1, <2>4, JoinIn
<1> QED BY <1>1, <1>7, <1>9, <1>10, Zenon

\* The parts of the messages that are sent, joined, are those of the messages heard.
LEMMA SentIs ==
    ASSUME NEW p, p \in {"anthropic", "bedrock", "gemini", "cohere"}, NEW s, s \in Seq(ProperChats)
    PROVE  FlattenSeq([i \in DOMAIN sent(p, s) |-> sent(p, s)[i].parts]) = FlattenSeq(Mapped(Only(s, Heard(p)), PartsFor(p)))
<1>1. PICK v, n : v = Only(s, Heard(p)) /\ v \in Seq(ProperChats) /\ n \in Nat /\ n = Len(v) /\ DOMAIN v = 1..n /\ \A i \in 1..n : v[i] \in ProperChats
  <2>1. PICK v : v = Only(s, Heard(p))
    OBVIOUS
  <2>2. v \in Seq(ProperChats)
    BY <2>1, OnlyIn
  <2>3. PICK T : T = ProperChats
    OBVIOUS
  <2>4. Len(v) \in Nat /\ DOMAIN v = 1..Len(v) /\ \A i \in 1..Len(v) : v[i] \in T
    BY <2>2, <2>3, LenProperties, ElementOfSeq
  <2> QED BY <2>1, <2>2, <2>3, <2>4
<1>2. PICK w : w = [i \in 1..n |-> Gets(p, v[i])]
  OBVIOUS
<1>3. p # "cohere" => Spoken(s) = v
  BY <1>1, Zenon DEF Spoken, Heard, NotSystem
<1>4. PICK a : a = Mapped(v, PartsFor(p))
  OBVIOUS
<1>5. a = [i \in 1..n |-> Gets(p, v[i]).parts]
  <2>1. a = [i \in 1..n |-> PartsFor(p)[v[i]]]
    BY <1>1, <1>4, Zenon DEF Mapped
  <2>2. \A i \in 1..n : PartsFor(p)[v[i]] = Gets(p, v[i]).parts
    BY <1>1 DEF PartsFor
  <2> QED BY <2>1, <2>2
<1>6. a = [i \in DOMAIN w |-> w[i].parts]
  <2>1. DOMAIN w = 1..n /\ \A i \in 1..n : w[i] = Gets(p, v[i])
    BY <1>2
  <2> QED BY <1>5, <2>1
<1>70. CASE p = "cohere"
  <2>1. s = v
    <3>1. PICK C : C = Chats
      OBVIOUS
    <3>2. s \in Seq(C)
      <4>1. \A m \in ProperChats : m \in C
        BY <3>1, Zenon DEF ProperChats
      <4> QED BY <4>1
    <3>3. Only(s, C) = s
      BY <3>2, OnlyAll
    <3> QED BY <1>1, <1>70, <3>1, <3>3, Zenon DEF Heard
  <2>2. sent(p, s) = [i \in 1..n |-> openai_message(v[i])]
    BY <1>1, <1>70, <2>1 DEF sent
  <2>3. \A i \in 1..n : openai_message(v[i]).parts = w[i].parts
    BY <1>2, <1>70 DEF openai_message, Gets
  <2>4. PICK o : o = [i \in 1..n |-> openai_message(v[i])]
    OBVIOUS
  <2>5. DOMAIN o = 1..n /\ DOMAIN w = 1..n /\ \A i \in 1..n : o[i].parts = w[i].parts
    BY <1>2, <2>3, <2>4
  <2>6. [i \in DOMAIN o |-> o[i].parts] = [i \in DOMAIN w |-> w[i].parts]
    BY <2>5
  <2> QED BY <1>1, <1>4, <1>6, <2>2, <2>4, <2>6, Zenon
<1>7. CASE p \in {"anthropic", "bedrock"}
  <2>1. sent(p, s) = w
    <3>1. CASE p = "anthropic"
      <4>1. sent(p, s) = [i \in 1..n |-> anthropic_message(v[i])]
        BY <1>1, <1>3, <3>1 DEF sent
      <4>2. \A i \in 1..n : Gets(p, v[i]) = anthropic_message(v[i])
        BY <3>1, Zenon DEF Gets
      <4> QED BY <1>2, <4>1, <4>2
    <3>2. CASE p = "bedrock"
      <4>1. sent(p, s) = [i \in 1..n |-> converse_message(v[i])]
        BY <1>1, <1>3, <3>2 DEF sent
      <4>2. \A i \in 1..n : Gets(p, v[i]) = converse_message(v[i])
        BY <3>2 DEF Gets
      <4> QED BY <1>2, <4>1, <4>2
    <3> QED BY <1>7, <3>1, <3>2
  <2> QED BY <1>1, <1>4, <1>6, <2>1, Zenon
<1>8. CASE p = "gemini"
  <2>1. sent(p, s) = Only(w, {c \in Range(w) : c.parts # <<>>})
    <3>1. w = [i \in 1..n |-> gemini_content(v[i])]
      <4>1. \A i \in 1..n : Gets(p, v[i]) = gemini_content(v[i])
        BY <1>8 DEF Gets
      <4> QED BY <1>2, <4>1
    <3>2. p # "anthropic" /\ p # "bedrock" /\ p # "ollama" /\ p # "cohere"
      BY <1>8
    <3> QED BY <1>1, <1>3, <3>1, <3>2, Zenon DEF sent
  <2>2. PICK C : C = Range(w)
    OBVIOUS
  <2>3. PICK h : h = [c \in C |-> c.parts]
    OBVIOUS
  <2>4. w \in Seq(C) /\ \A c \in C : \E i \in 1..n : c = w[i]
    <3>1. w = [i \in 1..n |-> w[i]] /\ DOMAIN w = 1..n
      BY <1>2
    <3>2. C = {w[i] : i \in 1..n}
      BY <2>2, <3>1, Zenon DEF Range
    <3>3. \A i \in 1..n : w[i] \in C
      BY <3>2
    <3>4. w \in [1..n -> C]
      BY <3>1, <3>3
    <3>5. w \in Seq(C)
      BY <1>1, <3>4
    <3>6. \A c \in C : \E i \in 1..n : c = w[i]
      BY <3>2
    <3> QED BY <3>5, <3>6
  <2>5. PICK E : E = MessageParts
    OBVIOUS
  <2>6. ASSUME NEW c, c \in C PROVE h[c] = c.parts /\ h[c] \in Seq(E)
    <3>1. PICK i \in 1..n : c = w[i]
      BY <2>4, <2>6
    <3>2. c = gemini_content(v[i])
      BY <1>2, <1>8, <3>1 DEF Gets
    <3>3. c.parts \in Seq(E)
      BY <1>1, <2>5, <3>2, AdapterTraffic, Zenon
    <3> QED BY <2>3, <2>6, <3>3
  <2>7. PICK S : S = {c \in C : c.parts # <<>>}
    OBVIOUS
  <2>8. \A c \in C : c \notin S => h[c] = <<>>
    BY <2>6, <2>7
  <2>9. \A c \in C : h[c] \in Seq(E)
    BY <2>6
  <2>10. FlattenSeq(Mapped(Only(w, S), h)) = FlattenSeq(Mapped(w, h))
    BY <2>4, <2>8, <2>9, JoinedWithoutEmpty
  <2>11. PICK o : o = Only(w, S)
    OBVIOUS
  <2>12. o \in Seq(C)
    BY <2>4, <2>11, OnlyIn
  <2>13. sent(p, s) = o
    BY <2>1, <2>2, <2>7, <2>11, Zenon
  <2>14. Mapped(o, h) = [i \in DOMAIN o |-> o[i].parts]
    <3>1. PICK k \in Nat : k = Len(o) /\ DOMAIN o = 1..k
      BY <2>12, LenProperties
    <3>2. \A i \in 1..k : o[i] \in C
      BY <2>12, <3>1, ElementOfSeq
    <3>3. \A i \in 1..k : h[o[i]] = o[i].parts
      BY <2>6, <3>2
    <3> QED BY <3>1, <3>3 DEF Mapped
  <2>15. Mapped(w, h) = a
    <3>1. DOMAIN w = 1..n /\ \A i \in 1..n : w[i] \in C
      BY <1>1, <1>2, <2>4, LenProperties, ElementOfSeq
    <3>2. \A i \in DOMAIN w : h[w[i]] = w[i].parts
      BY <2>6, <3>1
    <3> QED BY <1>6, <3>2 DEF Mapped
  <2> QED BY <1>1, <1>4, <2>10, <2>11, <2>13, <2>14, <2>15, Zenon
<1> QED BY <1>7, <1>70, <1>8

LEMMA TrafficIs ==
    ASSUME conversation \in Seq(ProperChats), adapter \in Adapters
    PROVE  ToolTrafficKept
<1> SUFFICES ASSUME adapter # "ollama"
             PROVE  Only(FlattenSeq([i \in DOMAIN sent(adapter, conversation) |-> sent(adapter, conversation)[i].parts]),
                         {piece \in Range(FlattenSeq([i \in DOMAIN sent(adapter, conversation) |->
                            sent(adapter, conversation)[i].parts])) : piece[1] # "text"})
                    = FlattenSeq([i \in DOMAIN conversation |-> Traffic(conversation[i])])
  BY Zenon DEF ToolTrafficKept, Traffic
<1>1. PICK out : out = FlattenSeq([i \in DOMAIN sent(adapter, conversation) |-> sent(adapter, conversation)[i].parts])
  OBVIOUS
<1>2. out \in Seq(MessageParts) /\ Only(out, ToolParts) = FlattenSeq(Mapped(conversation, Asked))
  <2>1. adapter \in {"anthropic", "bedrock", "gemini", "cohere"}
    BY DEF Adapters
  <2>2. PICK heard : heard = FlattenSeq(Mapped(Only(conversation, Heard(adapter)), PartsFor(adapter)))
    OBVIOUS
  <2>3. /\ heard \in Seq(MessageParts)
        /\ Only(heard, ToolParts) = FlattenSeq(Mapped(conversation, Asked))
    BY <2>2, GetsIs, Zenon
  <2>4. out = heard
    BY <1>1, <2>1, <2>2, SentIs, Zenon
  <2> QED BY <2>3, <2>4
<1>3. PICK R : R = {piece \in Range(out) : piece[1] # "text"}
  OBVIOUS
<1>4. Only(out, ToolParts) = Only(out, R)
  <2>1. \A e \in Range(out) : e \in MessageParts
    <3>1. PICK T : T = MessageParts
      OBVIOUS
    <3>2. \A e \in Range(out) : e \in T
      BY <1>2, <3>1, ElementOfSeq, LenProperties DEF Range
    <3> QED BY <3>1, <3>2
  <2>2. \A e \in MessageParts : e \in ToolParts <=> e[1] # "text"
    BY PartsApart, Zenon DEF MessageParts
  <2>3. \A e \in Range(out) : e \in ToolParts <=> e \in R
    BY <1>3, <2>1, <2>2
  <2> QED BY <1>2, <2>3, OnlySame
<1>5. Mapped(conversation, Asked) = [i \in DOMAIN conversation |-> Traffic(conversation[i])]
  <2>1. \A i \in DOMAIN conversation : conversation[i] \in ProperChats
    <3>1. PICK T : T = ProperChats
      OBVIOUS
    <3>2. \A i \in DOMAIN conversation : conversation[i] \in T
      BY <3>1, ElementOfSeq, LenProperties
    <3> QED BY <3>1, <3>2
  <2>2. \A i \in DOMAIN conversation : Asked[conversation[i]] = Traffic(conversation[i])
    BY <2>1 DEF Asked
  <2> QED BY <2>2 DEF Mapped
<1> QED BY <1>1, <1>2, <1>3, <1>4, <1>5, Zenon

-----------------------------------------------------------------------------
(* The stream of the answer.                                               *)

Reasons  == STRING \cup {Silent, "stop", "tool_calls"}
Calls    == [index : Nat, name : STRING, args : Seq(STRING)]
Decoders == [tools : SUBSET Calls, finish : Reasons, next : Nat]
Chunks   == [text : Seq(STRING), calls : Seq(Calls), finish : Reasons]
Streams  == [d : Decoders, s : Chunks]

Numbers   == Nat \ {0}
Single(x) == <<x>>
NoArguments == <<>>
Piece(n, name, args)   == [index |-> n, name |-> name, args |-> args]
Stream(d, text, calls, finish) == [d |-> d, s |-> [text |-> text, calls |-> calls, finish |-> finish]]
Opened(d, n, name) == [d EXCEPT !.tools = @ \cup {[index |-> n, name |-> name, args |-> <<>>]}]
Lengthened(d, t, x)    == [d EXCEPT !.tools = (@ \ {t}) \cup {[t EXCEPT !.args = Append(@, x)]}]
Closed(d, why)      == [d EXCEPT !.finish = why]
Numbered(d)        == [d EXCEPT !.next = @ + 1]

\* The state of a stream after an event.
EventStep(p, st, e) ==
  [d |-> translate(p, st.d, e).decoder,
   s |-> IF translate(p, st.d, e).emit THEN Joined(st.s, translate(p, st.d, e).chunk) ELSE st.s]

\* A fragment of text is appended to the text.
LEMMA TextChunk ==
    ASSUME NEW s, s \in Chunks, NEW x, x \in STRING, NEW fin, fin \in Reasons
    PROVE  Joined(s, [NoChunk EXCEPT !.text = <<x>>, !.finish = fin]) =
             [text |-> Append(s.text, x), calls |-> s.calls, finish |-> IF fin = Silent THEN s.finish ELSE fin]
<1>1. PICK none : none = <<>>
  OBVIOUS
<1>2. PICK one : one = <<x>>
  OBVIOUS
<1>3. PICK c : c = [NoChunk EXCEPT !.text = <<x>>, !.finish = fin]
  OBVIOUS
<1>4. NoChunk = [text |-> none, calls |-> none, finish |-> Silent]
  BY <1>1, Zenon DEF NoChunk
<1>5. c = [NoChunk EXCEPT !.text = one, !.finish = fin]
  BY <1>2, <1>3, Zenon
<1>6. c.text = one /\ c.calls = none /\ c.finish = fin
  BY <1>4, <1>5
<1>7. s.text \o <<x>> = Append(s.text, x)
  <2>1. s.text \in Seq(STRING)
    BY DEF Chunks
  <2> QED BY <2>1, AppendIsConcat
<1> QED BY <1>1, <1>2, <1>3, <1>6, <1>7, Zenon DEF Joined

\* A call, or a piece of one, is joined to the calls.
LEMMA CallChunk ==
    ASSUME NEW s, s \in Chunks, NEW c, c \in Calls, NEW fin, fin \in Reasons
    PROVE  Joined(s, [NoChunk EXCEPT !.calls = <<c>>, !.finish = fin]) =
             [text |-> s.text, calls |-> JoinCall(s.calls, c), finish |-> IF fin = Silent THEN s.finish ELSE fin]
<1>1. PICK none : none = <<>>
  OBVIOUS
<1>2. PICK one : one = <<c>>
  OBVIOUS
<1>3. PICK k : k = [NoChunk EXCEPT !.calls = <<c>>, !.finish = fin]
  OBVIOUS
<1>4. NoChunk = [text |-> none, calls |-> none, finish |-> Silent]
  BY <1>1, Zenon DEF NoChunk
<1>5. k = [NoChunk EXCEPT !.calls = one, !.finish = fin]
  BY <1>2, <1>3, Zenon
<1>6. k.text = none /\ k.calls = one /\ k.finish = fin
  BY <1>4, <1>5
<1>7. s.text \o none = s.text
  <2>1. s.text \in Seq(STRING)
    BY DEF Chunks
  <2> QED BY <1>1, <2>1, ConcatEmptySeq, Zenon
<1>8. one # none /\ one[1] = c
  BY <1>1, <1>2
<1> QED BY <1>1, <1>3, <1>6, <1>7, <1>8, Zenon DEF Joined

\* A fragment of text is appended to the text.
LEMMA TextAlone ==
    ASSUME NEW s, s \in Chunks, NEW x, x \in STRING
    PROVE  Joined(s, [NoChunk EXCEPT !.text = <<x>>]) =
             [text |-> Append(s.text, x), calls |-> s.calls, finish |-> s.finish]
<1>1. PICK none : none = <<>>
  OBVIOUS
<1>2. PICK one : one = <<x>>
  OBVIOUS
<1>3. PICK c : c = [NoChunk EXCEPT !.text = <<x>>]
  OBVIOUS
<1>4. NoChunk = [text |-> none, calls |-> none, finish |-> Silent]
  BY <1>1, Zenon DEF NoChunk
<1>5. c = [NoChunk EXCEPT !.text = one]
  BY <1>2, <1>3, Zenon
<1>6. c.text = one /\ c.calls = none /\ c.finish = Silent
  BY <1>4, <1>5
<1>7. s.text \o <<x>> = Append(s.text, x)
  <2>1. s.text \in Seq(STRING)
    BY DEF Chunks
  <2> QED BY <2>1, AppendIsConcat
<1> QED BY <1>1, <1>2, <1>3, <1>6, <1>7, Zenon DEF Joined

\* A call, or a piece of one, is joined to the calls.
LEMMA CallAlone ==
    ASSUME NEW s, s \in Chunks, NEW c, c \in Calls
    PROVE  Joined(s, [NoChunk EXCEPT !.calls = <<c>>]) =
             [text |-> s.text, calls |-> JoinCall(s.calls, c), finish |-> s.finish]
<1>1. PICK none : none = <<>>
  OBVIOUS
<1>2. PICK one : one = <<c>>
  OBVIOUS
<1>3. PICK k : k = [NoChunk EXCEPT !.calls = <<c>>]
  OBVIOUS
<1>4. NoChunk = [text |-> none, calls |-> none, finish |-> Silent]
  BY <1>1, Zenon DEF NoChunk
<1>5. k = [NoChunk EXCEPT !.calls = one]
  BY <1>2, <1>3, Zenon
<1>6. k.text = none /\ k.calls = one /\ k.finish = Silent
  BY <1>4, <1>5
<1>7. s.text \o none = s.text
  <2>1. s.text \in Seq(STRING)
    BY DEF Chunks
  <2> QED BY <1>1, <2>1, ConcatEmptySeq, Zenon
<1>8. one # none /\ one[1] = c
  BY <1>1, <1>2
<1> QED BY <1>1, <1>3, <1>6, <1>7, <1>8, Zenon DEF Joined

\* A chunk with nothing but the reason why the answer ended.
LEMMA EndChunk ==
    ASSUME NEW s, s \in Chunks, NEW fin, fin \in Reasons
    PROVE  Joined(s, [NoChunk EXCEPT !.finish = fin]) =
             [text |-> s.text, calls |-> s.calls, finish |-> IF fin = Silent THEN s.finish ELSE fin]
<1>1. PICK none : none = <<>>
  OBVIOUS
<1>3. PICK k : k = [NoChunk EXCEPT !.finish = fin]
  OBVIOUS
<1>4. NoChunk = [text |-> none, calls |-> none, finish |-> Silent]
  BY <1>1, Zenon DEF NoChunk
<1>6. k.text = none /\ k.calls = none /\ k.finish = fin
  BY <1>3, <1>4
<1>7. s.text \o none = s.text
  <2>1. s.text \in Seq(STRING)
    BY DEF Chunks
  <2> QED BY <1>1, <2>1, ConcatEmptySeq, Zenon
<1> QED BY <1>1, <1>3, <1>6, <1>7, Zenon DEF Joined

\* A new call comes last.
LEMMA JoinNew ==
    ASSUME NEW calls, calls \in Seq(Calls), NEW c, c \in Calls, \A i \in DOMAIN calls : calls[i].index # c.index
    PROVE  JoinCall(calls, c) = Append(calls, c)
  BY Zenon DEF JoinCall

\* A piece of the last call is added to its arguments.
LEMMA JoinLast ==
    ASSUME NEW calls, calls \in Seq(Calls), NEW k, k \in Calls, NEW c, c \in Calls,
           \A i \in DOMAIN calls : calls[i].index # c.index, k.index = c.index
    PROVE  JoinCall(Append(calls, k), c) = Append(calls, [index |-> k.index, name |-> k.name, args |-> k.args \o c.args])
<1>1. PICK n \in Nat : n = Len(calls) /\ DOMAIN calls = 1..n
  BY LenProperties
<1>2. PICK m : m = [index |-> k.index, name |-> k.name, args |-> k.args \o c.args]
  OBVIOUS
<1>3. m \in Calls /\ [k EXCEPT !.args = @ \o c.args] = m
  <2>1. k.args \o c.args \in Seq(STRING)
    BY ConcatProperties DEF Calls
  <2>2. PICK a : a = k.args \o c.args
    OBVIOUS
  <2>3. a \in Seq(STRING)
    BY <2>1, <2>2
  <2>4. [k EXCEPT !.args = a] = [index |-> k.index, name |-> k.name, args |-> a]
    BY DEF Calls
  <2>5. m = [index |-> k.index, name |-> k.name, args |-> a]
    BY <1>2, <2>2
  <2>6. m \in Calls
    BY <2>3, <2>5 DEF Calls
  <2> QED BY <2>2, <2>4, <2>5, <2>6, Zenon
<1>4. PICK a \in Seq(Calls) : a = Append(calls, k)
  BY AppendProperties
<1>5. PICK b \in Seq(Calls) : b = Append(calls, m)
  BY <1>3, AppendProperties
<1>6. Len(a) = n + 1 /\ (\A i \in 1..n : a[i] = calls[i]) /\ a[n + 1] = k /\ DOMAIN a = 1..(n + 1)
  <2>1. Len(a) = n + 1 /\ (\A i \in 1..n : a[i] = calls[i]) /\ a[n + 1] = k
    BY <1>1, <1>4, AppendProperties
  <2> QED BY <2>1, LenProperties
<1>7. Len(b) = n + 1 /\ (\A i \in 1..n : b[i] = calls[i]) /\ b[n + 1] = m /\ DOMAIN b = 1..(n + 1)
  <2>1. Len(b) = n + 1 /\ (\A i \in 1..n : b[i] = calls[i]) /\ b[n + 1] = m
    BY <1>1, <1>3, <1>5, AppendProperties
  <2> QED BY <2>1, LenProperties
<1>8. \E i \in DOMAIN a : a[i].index = c.index
  <2>1. n + 1 \in 1..(n + 1)
    BY <1>1
  <2> QED BY <1>6, <2>1
<1>9. PICK j : j = JoinCall(a, c)
  OBVIOUS
<1>10. j = [i \in 1..(n + 1) |-> IF a[i].index = c.index THEN [a[i] EXCEPT !.args = @ \o c.args] ELSE a[i]]
  BY <1>6, <1>8, <1>9, Zenon DEF JoinCall
<1>11. ASSUME NEW i, i \in 1..(n + 1) PROVE j[i] = b[i]
  <2>1. i = n + 1 \/ i \in 1..n
    BY <1>1, <1>11
  <2>2. CASE i = n + 1
    <3>1. j[i] = [k EXCEPT !.args = @ \o c.args]
      BY <1>6, <1>10, <1>11, <2>2
    <3> QED BY <1>3, <1>7, <2>2, <3>1
  <2>3. CASE i \in 1..n
    <3>1. a[i] = calls[i] /\ b[i] = calls[i] /\ calls[i].index # c.index
      BY <1>1, <1>6, <1>7, <2>3
    <3> QED BY <1>10, <1>11, <3>1
  <2> QED BY <2>1, <2>2, <2>3
<1>12. j = b
  <2>1. b = [i \in 1..(n + 1) |-> b[i]] /\ j = [i \in 1..(n + 1) |-> j[i]]
    BY <1>7, <1>10
  <2> QED BY <1>11, <2>1
<1> QED BY <1>2, <1>4, <1>5, <1>9, <1>12

Blockwise == {"anthropic", "bedrock"}
StartOf(b, n)    == [type |-> "block_start", kind |-> b.kind, index |-> n, name |-> b.name]
DeltaOf(b, n, x) == [type |-> "delta", kind |-> b.kind, index |-> n, fragment |-> x]
StopOf(why)      == [type |-> "stop", reason |-> why]
PartsOf(q)       == [type |-> "text", parts |-> q]
TextOf(x)        == PartsOf(Single(x))
CallEvent(b)     == [type |-> "call", name |-> b.name, args |-> b.fragments]

LEMMA FieldsOf ==
    ASSUME NEW b, NEW n, NEW x
    PROVE  /\ StartOf(b, n).type = "block_start" /\ StartOf(b, n).kind = b.kind
           /\ StartOf(b, n).index = n /\ StartOf(b, n).name = b.name
           /\ DeltaOf(b, n, x).type = "delta" /\ DeltaOf(b, n, x).kind = b.kind
           /\ DeltaOf(b, n, x).index = n /\ DeltaOf(b, n, x).fragment = x
           /\ StopOf(x).type = "stop" /\ StopOf(x).reason = x
           /\ TextOf(x).type = "text" /\ TextOf(x).parts = Single(x)
           /\ CallEvent(b).type = "call" /\ CallEvent(b).name = b.name /\ CallEvent(b).args = b.fragments
  BY DEF StartOf, DeltaOf, StopOf, TextOf, PartsOf, CallEvent

LEMMA NothingFrom ==
    ASSUME NEW p, NEW st, NEW e, NEW d, translate(p, st.d, e) = Nothing_emitted(d)
    PROVE  EventStep(p, st, e) = [d |-> d, s |-> st.s]
<1>1. PICK t : t = translate(p, st.d, e)
  OBVIOUS
<1>2. t.emit = FALSE /\ t.decoder = d
  BY <1>1 DEF Nothing_emitted
<1> QED BY <1>1, <1>2, Zenon DEF EventStep

LEMMA ChunkFrom ==
    ASSUME NEW p, NEW st, NEW e, NEW d, NEW c, translate(p, st.d, e) = Emitted(c, d)
    PROVE  EventStep(p, st, e) = [d |-> d, s |-> Joined(st.s, c)]
<1>1. PICK t : t = translate(p, st.d, e)
  OBVIOUS
<1>2. t.emit = TRUE /\ t.decoder = d /\ t.chunk = c
  BY <1>1 DEF Emitted
<1> QED BY <1>1, <1>2, Zenon DEF EventStep

\* Anthropic and Bedrock, before the answer has ended.
LEMMA BlockStarts ==
    ASSUME NEW p, p \in Blockwise, NEW st, st \in Streams, NEW b, b \in Blocks, NEW n, n \in Nat
    PROVE  EventStep(p, st, StartOf(b, n)) =
             IF b.kind = "tool"
             THEN [d |-> Opened(st.d, n, b.name), s |-> st.s]
             ELSE st
<1>1. PICK e : e = StartOf(b, n)
  OBVIOUS
<1>2. e.type = "block_start" /\ e.kind = b.kind /\ e.index = n /\ e.name = b.name
  BY <1>1, FieldsOf
<1>3. translate(p, st.d, e) = blockwise_event(st.d, e)
  BY DEF translate, Blockwise
<1>4. CASE b.kind = "tool"
  <2>1. PICK d : d = [st.d EXCEPT !.tools = @ \cup {[index |-> n, name |-> b.name, args |-> <<>>]}]
    OBVIOUS
  <2>2. d = [st.d EXCEPT !.tools = @ \cup {[index |-> e.index, name |-> e.name, args |-> <<>>]}]
    BY <1>2, <2>1, Zenon
  <2>3. blockwise_event(st.d, e) = Nothing_emitted(d)
    BY <1>2, <1>4, <2>2 DEF blockwise_event
  <2>4. EventStep(p, st, e) = [d |-> d, s |-> st.s]
    BY <1>3, <2>3, NothingFrom
  <2> QED BY <1>1, <1>4, <2>1, <2>4, Zenon DEF Opened
<1>5. CASE b.kind # "tool"
  <2>1. blockwise_event(st.d, e) = Nothing_emitted(st.d)
    BY <1>2, <1>5 DEF blockwise_event
  <2>2. st = [d |-> st.d, s |-> st.s]
    BY DEF Streams
  <2> QED BY <1>1, <1>3, <1>5, <2>1, <2>2, NothingFrom
<1> QED BY <1>4, <1>5

LEMMA TextArrives ==
    ASSUME NEW p, p \in Blockwise, NEW st, st \in Streams, st.d.finish = Silent,
           NEW b, b \in Blocks, b.kind = "text", NEW n, NEW x, x \in STRING
    PROVE  EventStep(p, st, DeltaOf(b, n, x)) = Stream(st.d, Append(st.s.text, x), st.s.calls, st.s.finish)
<1>1. PICK e : e = DeltaOf(b, n, x)
  OBVIOUS
<1>2. e.type = "delta" /\ e.kind = "text" /\ e.fragment = x
  BY <1>1, FieldsOf
<1>3. PICK c : c = [NoChunk EXCEPT !.text = <<x>>, !.finish = st.d.finish]
  OBVIOUS
<1>4. translate(p, st.d, e) = Emitted(c, st.d)
  <2>1. translate(p, st.d, e) = blockwise_event(st.d, e)
    BY DEF translate, Blockwise
  <2>2. c = [NoChunk EXCEPT !.text = <<e.fragment>>, !.finish = st.d.finish]
    BY <1>2, <1>3, Zenon
  <2>3. blockwise_event(st.d, e) = Emitted(c, st.d)
    BY <1>2, <2>2 DEF blockwise_event
  <2> QED BY <2>1, <2>3
<1>5. st.s \in Chunks /\ st.d.finish \in Reasons
  BY DEF Streams, Decoders
<1>6. Joined(st.s, c) = [text |-> Append(st.s.text, x), calls |-> st.s.calls, finish |-> st.s.finish]
  BY <1>3, <1>5, TextChunk, Zenon
<1>90. EventStep(p, st, e) = [d |-> st.d, s |-> Joined(st.s, c)]
  BY <1>4, ChunkFrom
<1> QED BY <1>1, <1>6, <1>90, Zenon DEF Stream

LEMMA ToolArrives ==
    ASSUME NEW p, p \in Blockwise, NEW st, st \in Streams, st.d.finish = Silent,
           NEW b, b \in Blocks, b.kind = "tool", NEW n, n \in Numbers, NEW x, x \in STRING,
           \E t \in st.d.tools : t.index = n, \A t \in st.d.tools : t.index = n => t.name = b.name
    PROVE  \E t \in st.d.tools :
             /\ t.index = n
             /\ EventStep(p, st, DeltaOf(b, n, x)) =
                  Stream(Lengthened(st.d, t, x), st.s.text, JoinCall(st.s.calls, Piece(n, b.name, Single(x))), st.s.finish)
<1>1. PICK e : e = DeltaOf(b, n, x)
  OBVIOUS
<1>2. e.type = "delta" /\ e.kind = "tool" /\ e.index = n /\ e.fragment = x
  BY <1>1, FieldsOf
<1>3. PICK t : t = CHOOSE u \in st.d.tools : u.index = e.index
  OBVIOUS
<1>4. t \in st.d.tools /\ t.index = n /\ t.name = b.name
  BY <1>2, <1>3
<1>5. PICK k : k = [index |-> n, name |-> b.name, args |-> <<x>>]
  OBVIOUS
<1>6. PICK c : c = [NoChunk EXCEPT !.calls = <<k>>, !.finish = st.d.finish]
  OBVIOUS
<1>7. PICK d : d = [st.d EXCEPT !.tools = (@ \ {t}) \cup {[t EXCEPT !.args = Append(@, x)]}]
  OBVIOUS
<1>8. translate(p, st.d, e) = Emitted(c, d)
  <2>1. translate(p, st.d, e) = blockwise_event(st.d, e)
    BY DEF translate, Blockwise
  <2>2. blockwise_event(st.d, e) = ToolChunk(st.d, e, t)
    BY <1>2, <1>3 DEF blockwise_event
  <2>3. k = [index |-> e.index, name |-> t.name, args |-> <<e.fragment>>]
    BY <1>2, <1>4, <1>5, Zenon
  <2>4. ToolChunk(st.d, e, t) = Emitted(c, d)
    BY <1>2, <1>6, <1>7, <2>3, Zenon DEF ToolChunk
  <2> QED BY <2>1, <2>2, <2>4
<1>9. st.s \in Chunks /\ st.d.finish \in Reasons
  BY DEF Streams, Decoders
<1>10. k \in Calls
  BY <1>5 DEF Calls, Blocks, Numbers
<1>11. Joined(st.s, c) = [text |-> st.s.text, calls |-> JoinCall(st.s.calls, k), finish |-> st.s.finish]
  BY <1>6, <1>9, <1>10, CallChunk, Zenon
<1>14. EventStep(p, st, e) = [d |-> d, s |-> [text |-> st.s.text, calls |-> JoinCall(st.s.calls, k), finish |-> st.s.finish]]
  BY <1>8, <1>11, ChunkFrom
<1> QED BY <1>1, <1>4, <1>5, <1>7, <1>14, Zenon DEF Single, Stream, Lengthened, Piece

LEMMA BlockwiseEnds ==
    ASSUME NEW p, p \in Blockwise, NEW st, st \in Streams, NEW why, why \in Reasons
    PROVE  EventStep(p, st, StopOf(why)) = [d |-> Closed(st.d, why), s |-> st.s]
<1>1. PICK e : e = StopOf(why)
  OBVIOUS
<1>2. e.type = "stop" /\ e.reason = why
  BY <1>1, FieldsOf
<1>3. translate(p, st.d, e) = blockwise_event(st.d, e)
  BY DEF translate, Blockwise
<1>4. blockwise_event(st.d, e) = Nothing_emitted([st.d EXCEPT !.finish = why])
  BY <1>2 DEF blockwise_event
<1>90. EventStep(p, st, e) = [d |-> [st.d EXCEPT !.finish = why], s |-> st.s]
  BY <1>3, <1>4, NothingFrom
<1> QED BY <1>1, <1>90, Zenon DEF Closed

LEMMA LastIn ==
    ASSUME NEW q, q \in Seq(STRING), q # <<>>
    PROVE  Last(q) \in STRING
<1>1. PICK n \in Nat : n = Len(q)
  BY LenProperties
<1>2. n \in 1..Len(q)
  BY <1>1, EmptySeq
<1>3. PICK T : T = STRING
  OBVIOUS
<1>4. q[n] \in T
  BY <1>2, <1>3, ElementOfSeq
<1> QED BY <1>1, <1>3, <1>4, Zenon DEF Last

\* Of the texts of one chunk Gemini's adapter keeps the last.
LEMMA GeminiParts ==
    ASSUME NEW st, st \in Streams, NEW q, q \in Seq(STRING), q # <<>>
    PROVE  EventStep("gemini", st, PartsOf(q)) = Stream(st.d, Append(st.s.text, Last(q)), st.s.calls, st.s.finish)
<1>1. PICK e, x : e = PartsOf(q) /\ x = Last(q)
  OBVIOUS
<1>2. e.type = "text" /\ e.parts = q
  BY <1>1 DEF PartsOf
<1>3. PICK c : c = [NoChunk EXCEPT !.text = <<x>>]
  OBVIOUS
<1>4. translate("gemini", st.d, e) = Emitted(c, st.d)
  <2>1. c = [NoChunk EXCEPT !.text = <<Last(e.parts)>>]
    BY <1>1, <1>2, <1>3, Zenon
  <2>2. gemini_event(st.d, e) = Emitted(c, st.d)
    BY <1>2, <2>1 DEF gemini_event
  <2> QED BY <2>2 DEF translate
<1>5. st.s \in Chunks /\ Silent \in Reasons /\ x \in STRING
  BY <1>1, LastIn DEF Streams, Reasons
<1>7. Joined(st.s, c) = [text |-> Append(st.s.text, x), calls |-> st.s.calls, finish |-> st.s.finish]
  BY <1>3, <1>5, TextAlone, Zenon
<1>90. EventStep("gemini", st, e) = [d |-> st.d, s |-> Joined(st.s, c)]
  BY <1>4, ChunkFrom
<1> QED BY <1>1, <1>7, <1>90, Zenon DEF Stream

\* The other adapters.
LEMMA OthersText ==
    ASSUME NEW p, p \in {"gemini", "ollama", "cohere"}, NEW st, st \in Streams, NEW x, x \in STRING
    PROVE  EventStep(p, st, TextOf(x)) = Stream(st.d, Append(st.s.text, x), st.s.calls, st.s.finish)
<1>1. PICK e : e = TextOf(x)
  OBVIOUS
<1>2. e.type = "text" /\ e.parts = Single(x)
  BY <1>1, FieldsOf
<1>3. PICK c : c = [NoChunk EXCEPT !.text = Single(x)]
  OBVIOUS
<1>4. translate(p, st.d, e) = Emitted(c, st.d)
  <2>1. c = [NoChunk EXCEPT !.text = e.parts]
    BY <1>2, <1>3, Zenon
  <2>2. gemini_event(st.d, e) = Emitted(c, st.d)
    <3>1. Last(e.parts) = x
      <4>1. Last(Single(x)) = x
        BY DEF Last, Single
      <4> QED BY <1>2, <4>1, Zenon
    <3>2. c = [NoChunk EXCEPT !.text = <<Last(e.parts)>>]
      BY <1>3, <3>1, Zenon DEF Single
    <3> QED BY <1>2, <3>2 DEF gemini_event
  <2>3. ollama_event(st.d, e) = Emitted(c, st.d)
    BY <1>2, <2>1 DEF ollama_event
  <2>4. cohere_event(st.d, e) = Emitted(c, st.d)
    BY <1>2, <2>1 DEF cohere_event
  <2> QED BY <2>2, <2>3, <2>4 DEF translate
<1>5. st.s \in Chunks /\ Silent \in Reasons
  BY DEF Streams, Reasons
<1>7. Joined(st.s, c) = [text |-> Append(st.s.text, x), calls |-> st.s.calls, finish |-> st.s.finish]
  BY <1>3, <1>5, TextAlone, Zenon DEF Single
<1>90. EventStep(p, st, e) = [d |-> st.d, s |-> Joined(st.s, c)]
  BY <1>4, ChunkFrom
<1> QED BY <1>1, <1>7, <1>90, Zenon DEF Stream

LEMMA OthersCall ==
    ASSUME NEW p, p \in {"ollama", "cohere"}, NEW st, st \in Streams, NEW b, b \in Blocks
    PROVE  EventStep(p, st, CallEvent(b)) = st
<1>1. PICK e : e = CallEvent(b)
  OBVIOUS
<1>2. e.type = "call"
  BY <1>1, FieldsOf
<1>3. st = [d |-> st.d, s |-> st.s] /\ st.s \in Chunks /\ Silent \in Reasons
  BY DEF Streams, Reasons
<1>4. CASE p = "cohere"
  <2>1. translate(p, st.d, e) = Nothing_emitted(st.d)
    <3>1. cohere_event(st.d, e) = Nothing_emitted(st.d)
      BY <1>2 DEF cohere_event
    <3> QED BY <1>4, <3>1 DEF translate
  <2> QED BY <1>1, <1>3, <2>1, NothingFrom
<1>5. CASE p = "ollama"
  <2>1. translate(p, st.d, e) = Emitted(NoChunk, st.d)
    <3>1. ollama_event(st.d, e) = Emitted(NoChunk, st.d)
      BY <1>2 DEF ollama_event
    <3> QED BY <1>5, <3>1 DEF translate
  <2>2. NoChunk = [NoChunk EXCEPT !.finish = Silent]
    <3>1. PICK none : none = <<>>
      OBVIOUS
    <3>2. NoChunk = [text |-> none, calls |-> none, finish |-> Silent]
      BY <3>1, Zenon DEF NoChunk
    <3> QED BY <3>2
  <2>3. Joined(st.s, NoChunk) = [text |-> st.s.text, calls |-> st.s.calls, finish |-> st.s.finish]
    BY <1>3, <2>2, EndChunk, Zenon
  <2>4. Joined(st.s, NoChunk) = st.s
    BY <1>3, <2>3 DEF Chunks
  <2> QED BY <1>1, <1>3, <2>1, <2>4, ChunkFrom
<1> QED BY <1>4, <1>5

LEMMA GeminiCall ==
    ASSUME NEW st, st \in Streams, NEW b, b \in Blocks
    PROVE  EventStep("gemini", st, CallEvent(b)) =
             Stream(Numbered(st.d), st.s.text, JoinCall(st.s.calls, Piece(st.d.next, b.name, b.fragments)), st.s.finish)
<1>1. PICK e : e = CallEvent(b)
  OBVIOUS
<1>2. e.type = "call" /\ e.name = b.name /\ e.args = b.fragments
  BY <1>1, FieldsOf
<1>3. st.s \in Chunks /\ Silent \in Reasons /\ st.d.next \in Nat
  BY DEF Streams, Reasons, Decoders
<1>4. PICK k : k = [index |-> st.d.next, name |-> b.name, args |-> b.fragments]
  OBVIOUS
<1>5. k \in Calls
  BY <1>3, <1>4 DEF Calls, Blocks
<1>6. PICK c : c = [NoChunk EXCEPT !.calls = <<k>>]
  OBVIOUS
<1>7. PICK d : d = [st.d EXCEPT !.next = @ + 1]
  OBVIOUS
<1>8. translate("gemini", st.d, e) = Emitted(c, d)
  <2>1. k = [index |-> st.d.next, name |-> e.name, args |-> e.args]
    BY <1>2, <1>4, Zenon
  <2>2. c = [NoChunk EXCEPT !.calls = <<[index |-> st.d.next, name |-> e.name, args |-> e.args]>>]
    BY <1>6, <2>1, Zenon
  <2>3. gemini_event(st.d, e) = Emitted(c, d)
    BY <1>2, <1>7, <2>2 DEF gemini_event
  <2> QED BY <2>3 DEF translate
<1>10. Joined(st.s, c) = [text |-> st.s.text, calls |-> JoinCall(st.s.calls, k), finish |-> st.s.finish]
  BY <1>3, <1>5, <1>6, CallAlone, Zenon
<1>90. EventStep("gemini", st, e) = [d |-> d, s |-> Joined(st.s, c)]
  BY <1>8, ChunkFrom
<1> QED BY <1>1, <1>4, <1>7, <1>10, <1>90, Zenon DEF Stream, Numbered, Piece

LEMMA OthersEnd ==
    ASSUME NEW p, p \in {"gemini", "ollama", "cohere"}, NEW st, st \in Streams, st.s.finish = Silent,
           NEW why, why \in Reasons
    PROVE  EventStep(p, st, StopOf(why)) =
             Stream(st.d, st.s.text, st.s.calls, IF p = "cohere" THEN why ELSE said_stop(why))
<1>1. PICK e : e = StopOf(why)
  OBVIOUS
<1>2. e.type = "stop" /\ e.reason = why
  BY <1>1, FieldsOf
<1>3. PICK fin : fin = IF p = "cohere" THEN why ELSE said_stop(why)
  OBVIOUS
<1>4. fin \in Reasons
  BY <1>3 DEF said_stop, Reasons
<1>5. PICK c : c = [NoChunk EXCEPT !.finish = fin]
  OBVIOUS
<1>6. translate(p, st.d, e) = Emitted(c, st.d)
  <2>1. CASE p = "cohere"
    <3>1. cohere_event(st.d, e) = Emitted(c, st.d)
      BY <1>2, <1>3, <1>5, <2>1 DEF cohere_event
    <3> QED BY <2>1, <3>1 DEF translate
  <2>2. CASE p = "gemini"
    <3>1. gemini_event(st.d, e) = Emitted(c, st.d)
      BY <1>2, <1>3, <1>5, <2>2 DEF gemini_event
    <3> QED BY <2>2, <3>1 DEF translate
  <2>3. CASE p = "ollama"
    <3>1. ollama_event(st.d, e) = Emitted(c, st.d)
      BY <1>2, <1>3, <1>5, <2>3 DEF ollama_event
    <3> QED BY <2>3, <3>1 DEF translate
  <2> QED BY <2>1, <2>2, <2>3
<1>7. st.s \in Chunks
  BY DEF Streams
<1>8. Joined(st.s, c) = [text |-> st.s.text, calls |-> st.s.calls, finish |-> IF fin = Silent THEN st.s.finish ELSE fin]
  BY <1>4, <1>5, <1>7, EndChunk, Zenon
<1>9. Joined(st.s, c) = [text |-> st.s.text, calls |-> st.s.calls, finish |-> fin]
  BY <1>8
<1>90. EventStep(p, st, e) = [d |-> st.d, s |-> Joined(st.s, c)]
  BY <1>6, ChunkFrom
<1> QED BY <1>1, <1>3, <1>9, <1>90, Zenon DEF Stream

\* The beginning of a sequence grows by the next element.
LEMMA FrontMore ==
    ASSUME NEW T, NEW s, s \in Seq(T), NEW n, n \in 1..Len(s)
    PROVE  /\ SubSeq(s, 1, n - 1) \in Seq(T) /\ s[n] \in T
           /\ SubSeq(s, 1, n) = Append(SubSeq(s, 1, n - 1), s[n])
<1>1. PICK L \in Nat : L = Len(s)
  BY LenProperties
<1>2. \A i \in 1..L : s[i] \in T
  BY <1>1, LenProperties
<1>3. SubSeq(s, 1, n - 1) \in Seq(T) /\ s[n] \in T
  BY <1>1, <1>2, SubSeqProperties
<1>4. SubSeq(s, 1, n) = SubSeq(s, 1, n - 1) \o <<s[n]>>
  BY <1>1, SubSeqRecursiveSecond
<1>5. SubSeq(s, 1, n) = Append(SubSeq(s, 1, n - 1), s[n])
  BY <1>3, <1>4, AppendIsConcat
<1> QED BY <1>3, <1>5

LEMMA AppendAfter ==
    ASSUME NEW T, NEW x, x \in Seq(T), NEW y, y \in Seq(T), NEW e, e \in T,
           NEW z, z = Append(y, e), NEW w, w = x \o y
    PROVE  x \o z = Append(w, e)
<1>1. PICK one : one = <<e>>
  OBVIOUS
<1>2. one \in Seq(T)
  BY <1>1
<1>3. Append(y, e) = y \o one /\ x \o y \in Seq(T)
  BY <1>1, AppendIsConcat, ConcatProperties
<1>4. Append(x \o y, e) = (x \o y) \o one
  BY <1>1, <1>3, AppendIsConcat
<1>5. (x \o y) \o one = x \o (y \o one)
  BY <1>2, ConcatAssociative
<1> QED BY <1>3, <1>4, <1>5, Zenon

TextComes(st, fr, h) ==
  /\ h[0] = st
  /\ \A j \in 1..Len(fr) : h[j - 1] \in Streams /\ h[j - 1].d = st.d =>
             h[j] = Stream(h[j - 1].d, Append(h[j - 1].s.text, fr[j]), h[j - 1].s.calls, h[j - 1].s.finish)
TextCame(st, fr, h) ==
  \A j \in 0..Len(fr) :
    /\ h[j] \in Streams /\ h[j].d = st.d
    /\ h[j].s.calls = st.s.calls /\ h[j].s.finish = st.s.finish
    /\ h[j].s.text = st.s.text \o SubSeq(fr, 1, j)

\* Fragments of text that arrive one after the other are appended to the text.
LEMMA TextRun ==
    ASSUME NEW st, st \in Streams, NEW fr, fr \in Seq(STRING), NEW h, TextComes(st, fr, h)
    PROVE  TextCame(st, fr, h)
<1>01. h[0] = st
  BY Zenon DEF TextComes
<1>02. \A j \in 1..Len(fr) : h[j - 1] \in Streams /\ h[j - 1].d = st.d =>
             h[j] = Stream(h[j - 1].d, Append(h[j - 1].s.text, fr[j]), h[j - 1].s.calls, h[j - 1].s.finish)
  BY Zenon DEF TextComes
<1>1. PICK L \in Nat : L = Len(fr)
  BY LenProperties
<1> DEFINE N == {j \in 0..L : /\ h[j] \in Streams /\ h[j].d = st.d
                              /\ h[j].s.calls = st.s.calls /\ h[j].s.finish = st.s.finish
                              /\ h[j].s.text = st.s.text \o SubSeq(fr, 1, j)}
<1>2. st.d \in Decoders /\ st.s.text \in Seq(STRING) /\ st.s.calls \in Seq(Calls) /\ st.s.finish \in Reasons
  BY DEF Streams, Chunks
<1>3. 0 \in N
  <2>1. PICK none : none = <<>>
    OBVIOUS
  <2>2. SubSeq(fr, 1, 0) = none
    BY <2>1, SubSeqEmpty
  <2>3. st.s.text \o none = st.s.text
    BY <1>2, <2>1, ConcatEmptySeq, Zenon
  <2>4. st.s.text = st.s.text \o SubSeq(fr, 1, 0)
    BY <2>2, <2>3, Zenon
  <2> QED BY <1>01, <2>4
<1>4. ASSUME NEW j \in 1..L, j - 1 \in N PROVE j \in N
  <2>1. PICK t, y : t = h[j - 1].s.text /\ y = SubSeq(fr, 1, j - 1)
    OBVIOUS
  <2>2. t = st.s.text \o y
    BY <1>4, <2>1
  <2>3. y \in Seq(STRING) /\ fr[j] \in STRING /\ SubSeq(fr, 1, j) = Append(y, fr[j])
    BY <1>1, <2>1, FrontMore
  <2>4. PICK u : u = Append(t, fr[j])
    OBVIOUS
  <2>5. t \in Seq(STRING) /\ u \in Seq(STRING)
    <3>1. t \in Seq(STRING)
      BY <1>2, <2>2, <2>3, ConcatProperties
    <3> QED BY <2>3, <2>4, <3>1, AppendProperties
  <2>6. u = st.s.text \o SubSeq(fr, 1, j)
    <3>1. st.s.text \o Append(y, fr[j]) = Append(st.s.text \o y, fr[j])
      <4>1. PICK x, v, e, z, w, T : /\ x = st.s.text /\ v = y /\ e = fr[j] /\ z = Append(v, e)
                                   /\ w = x \o v /\ T = STRING
        OBVIOUS
      <4>2. x \in Seq(T) /\ v \in Seq(T) /\ e \in T
        BY <1>2, <2>3, <4>1
      <4>3. z = Append(v, e) /\ w = x \o v
        BY <4>1
      <4>4. x \o z = Append(w, e)
        BY <4>2, <4>3, AppendAfter
      <4> QED BY <4>1, <4>4, Zenon
    <3> QED BY <2>2, <2>3, <2>4, <3>1, Zenon
  <2>7. h[j] = [d |-> st.d, s |-> [text |-> u, calls |-> st.s.calls, finish |-> st.s.finish]]
    <3>1. h[j] = [d |-> h[j - 1].d, s |-> [text |-> u, calls |-> h[j - 1].s.calls, finish |-> h[j - 1].s.finish]]
      <4>1. h[j] = Stream(h[j - 1].d, u, h[j - 1].s.calls, h[j - 1].s.finish)
        BY <1>02, <1>1, <1>4, <2>1, <2>4
      <4> QED BY <4>1 DEF Stream
    <3> QED BY <1>4, <3>1
  <2>8. h[j] \in Streams
    BY <1>2, <2>5, <2>7 DEF Streams, Chunks
  <2>9. /\ h[j].d = st.d /\ h[j].s.calls = st.s.calls /\ h[j].s.finish = st.s.finish
        /\ h[j].s.text = st.s.text \o SubSeq(fr, 1, j)
    <3>1. h[j].d = st.d /\ h[j].s.calls = st.s.calls /\ h[j].s.finish = st.s.finish /\ h[j].s.text = u
      BY <2>7
    <3> QED BY <2>6, <3>1, Zenon
  <2>10. j \in 0..L
    BY <1>4
  <2> QED BY <2>8, <2>9, <2>10
<1>5. \A j \in 0..L : j \in N
  <2> HIDE DEF N
  <2> QED BY <1>3, <1>4, ClimbTo
<1> QED BY <1>1, <1>5 DEF TextCame

\* One more fragment of the arguments of the last call.
LEMMA JoinPiece ==
    ASSUME NEW calls, calls \in Seq(Calls), NEW n, n \in Numbers, NEW name, name \in STRING,
           NEW a, a \in Seq(STRING), NEW x, x \in STRING,
           \A i \in DOMAIN calls : calls[i].index # n
    PROVE  JoinCall(Append(calls, Piece(n, name, a)), Piece(n, name, Single(x))) = Append(calls, Piece(n, name, Append(a, x)))
<1>1. PICK q, k : q = [index |-> n, name |-> name, args |-> a] /\ k = [index |-> n, name |-> name, args |-> <<x>>]
  OBVIOUS
<1>2. q \in Calls /\ k \in Calls
  BY <1>1 DEF Calls, Piece, Numbers
<1>3. q.index = n /\ q.name = name /\ q.args = a /\ k.index = n /\ k.args = <<x>>
  BY <1>1 DEF Piece, Single
<1>4. \A i \in DOMAIN calls : calls[i].index # k.index
  BY <1>3
<1>5. q.index = k.index
  BY <1>3
<1>6. JoinCall(Append(calls, q), k) = Append(calls, [index |-> q.index, name |-> q.name, args |-> q.args \o k.args])
  BY <1>2, <1>4, <1>5, JoinLast, Zenon
<1>7. a \o <<x>> = Append(a, x)
  BY AppendIsConcat
<1> QED BY <1>1, <1>3, <1>6, <1>7, Zenon DEF Single, Piece

\* A fragment of a call's arguments: the first one begins the call.
Opening(st, n, b) ==
  /\ st \in Streams /\ st.d.finish = Silent /\ \A t \in st.d.tools : t.index \in 1..n
  /\ \E t \in st.d.tools : t.index = n
  /\ \A t \in st.d.tools : t.index = n => t.name = b.name
CallGrew(st2, st, calls, n, b, a) ==
  /\ Opening(st2, n, b) /\ st2.s.text = st.s.text /\ st2.s.finish = st.s.finish
  /\ st2.s.calls = Append(calls, Piece(n, b.name, a))
Fresh(calls, n) == \A i \in DOMAIN calls : calls[i].index # n
CallsAre(st, calls, n, b, a) ==
  \/ a = NoArguments /\ st.s.calls = calls
  \/ st.s.calls = Append(calls, Piece(n, b.name, a))

LEMMA ToolStep ==
    ASSUME NEW p, p \in Blockwise, NEW b, b \in Blocks, b.kind = "tool", NEW n, n \in Numbers,
           NEW calls, calls \in Seq(Calls), Fresh(calls, n),
           NEW g, Opening(g, n, b), NEW a, a \in Seq(STRING), NEW x, x \in STRING, CallsAre(g, calls, n, b, a),
           NEW e, e = DeltaOf(b, n, x), NEW g2, g2 = EventStep(p, g, e), NEW a2, a2 = Append(a, x)
    PROVE  CallGrew(g2, g, calls, n, b, a2)
<1>0. /\ g \in Streams /\ g.d.finish = Silent /\ \A t \in g.d.tools : t.index \in 1..n
      /\ \E t \in g.d.tools : t.index = n
      /\ \A t \in g.d.tools : t.index = n => t.name = b.name
  BY DEF Opening
<1>02. \A i \in DOMAIN calls : calls[i].index # n
  BY Zenon DEF Fresh
<1>01. \/ a = NoArguments /\ g.s.calls = calls
       \/ g.s.calls = Append(calls, Piece(n, b.name, a))
  BY Zenon DEF CallsAre
<1>1. PICK k : k = Piece(n, b.name, Single(x))
  OBVIOUS
<1>2. \E t \in g.d.tools :
             /\ t.index = n
             /\ EventStep(p, g, DeltaOf(b, n, x)) =
                  Stream(Lengthened(g.d, t, x), g.s.text, JoinCall(g.s.calls, Piece(n, b.name, Single(x))), g.s.finish)
  BY <1>0, ToolArrives
<1>3. PICK t \in g.d.tools :
             /\ t.index = n
             /\ g2 = Stream(Lengthened(g.d, t, x), g.s.text, JoinCall(g.s.calls, k), g.s.finish)
  BY <1>1, <1>2, Zenon
<1>4. PICK t2 : t2 = [t EXCEPT !.args = Append(@, x)]
  OBVIOUS
<1>5. t2 \in Calls /\ t2.index = n /\ t2.name = b.name
  <2>1. t \in Calls /\ t.name = b.name
    BY <1>0, <1>3 DEF Streams, Decoders
  <2>2. PICK y : y = Append(t.args, x)
    OBVIOUS
  <2>3. y \in Seq(STRING)
    <3>1. t.args \in Seq(STRING)
      BY <2>1 DEF Calls
    <3> QED BY <2>2, <3>1, AppendProperties
  <2>4. t2 = [t EXCEPT !.args = y]
    BY <1>4, <2>2, Zenon
  <2> QED BY <1>3, <2>1, <2>3, <2>4 DEF Calls
<1>6. PICK d : d = Lengthened(g.d, t, x)
  OBVIOUS
<1>7. /\ d \in Decoders /\ d.finish = Silent /\ \A u \in d.tools : u.index \in 1..n
      /\ \E u \in d.tools : u.index = n
      /\ \A u \in d.tools : u.index = n => u.name = b.name
  <2>1. g.d \in Decoders /\ g.d.finish = Silent
    BY <1>0 DEF Streams
  <2>0. d = [g.d EXCEPT !.tools = (@ \ {t}) \cup {t2}]
    BY <1>4, <1>6, Zenon DEF Lengthened
  <2>2. d.tools = (g.d.tools \ {t}) \cup {t2} /\ d.finish = Silent /\ d \in Decoders
    BY <1>5, <2>0, <2>1 DEF Decoders
  <2>3. n \in 1..n
    BY <1>0, <1>3
  <2> QED BY <1>0, <1>5, <2>2, <2>3
<1>8. b.name \in STRING
  BY DEF Blocks
<1>9. k \in Calls /\ k.index = n
  BY <1>1, <1>8 DEF Calls, Single, Piece, Numbers
<1>10. PICK cs : cs = Append(calls, Piece(n, b.name, Append(a, x)))
  OBVIOUS
<1>11. JoinCall(g.s.calls, k) = cs
  <2>1. CASE a = NoArguments /\ g.s.calls = calls
    <3>1. \A i \in DOMAIN calls : calls[i].index # k.index
      BY <1>02, <1>9
    <3>2. JoinCall(calls, k) = Append(calls, k)
      BY <1>9, <3>1, JoinNew, Zenon
    <3>3. Append(NoArguments, x) = Single(x)
      BY DEF NoArguments, Single
    <3> QED BY <1>1, <1>10, <2>1, <3>2, <3>3, Zenon
  <2>2. CASE g.s.calls = Append(calls, Piece(n, b.name, a))
    <3>1. PICK name : name = b.name
      OBVIOUS
    <3>2. name \in STRING
      BY <1>8, <3>1
    <3>3. JoinCall(Append(calls, Piece(n, name, a)), Piece(n, name, Single(x))) = Append(calls, Piece(n, name, Append(a, x)))
      BY <1>02, <3>2, JoinPiece
    <3> QED BY <1>1, <1>10, <2>2, <3>1, <3>3, Zenon
  <2> QED BY <1>01, <2>1, <2>2
<1>12. cs \in Seq(Calls)
  <2>1. Append(a, x) \in Seq(STRING)
    BY AppendProperties
  <2>2. Piece(n, b.name, Append(a, x)) \in Calls
    BY <1>8, <2>1 DEF Calls, Piece, Numbers
  <2> QED BY <1>10, <2>2, AppendProperties
<1>13. g2 = [d |-> d, s |-> [text |-> g.s.text, calls |-> cs, finish |-> g.s.finish]]
  BY <1>3, <1>6, <1>11, Zenon DEF Stream
<1>14. g2.d = d /\ g2.s.text = g.s.text /\ g2.s.calls = cs /\ g2.s.finish = g.s.finish
  BY <1>13
<1>15. g2 \in Streams
  BY <1>0, <1>7, <1>12, <1>13 DEF Streams, Chunks
<1> QED BY <1>7, <1>10, <1>14, <1>15, Zenon DEF Opening, CallGrew

\* The fragments of a call's arguments add up in the last call.
LEMMA ToolRun ==
    ASSUME NEW p, p \in Blockwise, NEW b, b \in Blocks, b.kind = "tool", NEW n, n \in Numbers,
           NEW st, Opening(st, n, b), NEW h, h[0] = st, Fresh(st.s.calls, n),
           \A j \in 1..Len(b.fragments) : h[j] = EventStep(p, h[j - 1], DeltaOf(b, n, b.fragments[j]))
    PROVE  \A j \in 0..Len(b.fragments) :
             /\ Opening(h[j], n, b)
             /\ h[j].s.text = st.s.text /\ h[j].s.finish = st.s.finish
             /\ h[j].s.calls = IF j = 0 THEN st.s.calls
                               ELSE Append(st.s.calls, Piece(n, b.name, SubSeq(b.fragments, 1, j)))
<1>0. PICK fr : fr = b.fragments
  OBVIOUS
<1>00. fr \in Seq(STRING) /\ b.name \in STRING
  BY <1>0 DEF Blocks
<1>1. PICK L \in Nat : L = Len(fr)
  BY <1>00, LenProperties
<1> DEFINE N == {j \in 0..L : /\ Opening(h[j], n, b)
                              /\ h[j].s.text = st.s.text /\ h[j].s.finish = st.s.finish
                              /\ h[j].s.calls = IF j = 0 THEN st.s.calls ELSE Append(st.s.calls, Piece(n, b.name, SubSeq(fr, 1, j)))}
<1>2. st.d \in Decoders /\ st.s.text \in Seq(STRING) /\ st.s.calls \in Seq(Calls) /\ st.s.finish \in Reasons
  BY DEF Opening, Streams, Chunks
<1>3. 0 \in N
  BY <1>1
<1>4. ASSUME NEW j \in 1..L, j - 1 \in N PROVE j \in N
  <2>1. PICK g, g2, x, a, m : g = h[j - 1] /\ g2 = h[j] /\ x = fr[j] /\ a = SubSeq(fr, 1, j - 1) /\ m = n
    OBVIOUS
  <2>2. a \in Seq(STRING) /\ x \in STRING /\ SubSeq(fr, 1, j) = Append(a, x)
    BY <1>00, <1>1, <2>1, FrontMore
  <2>30. PICK e : e = DeltaOf(b, m, x)
    OBVIOUS
  <2>3. g2 = EventStep(p, g, e)
    BY <1>0, <1>1, <2>1, <2>30
  <2>4. Opening(g, m, b) /\ g.s.text = st.s.text /\ g.s.finish = st.s.finish
    BY <1>4, <2>1
  <2>5. PICK calls : calls = st.s.calls
    OBVIOUS
  <2>6. CallsAre(g, calls, m, b, a)
    <3>1. CASE j = 1
      <4>1. SubSeq(fr, 1, 0) = <<>>
        BY SubSeqEmpty
      <4>2. a = SubSeq(fr, 1, 0) /\ g.s.calls = calls
        BY <1>4, <2>1, <2>5, <3>1
      <4> QED BY <4>1, <4>2, Zenon DEF NoArguments, CallsAre
    <3>2. CASE j # 1
      <4>1. g.s.calls = Append(st.s.calls, Piece(n, b.name, SubSeq(fr, 1, j - 1)))
        BY <1>4, <2>1, <3>2
      <4> QED BY <2>1, <2>5, <4>1, Zenon DEF CallsAre
    <3> QED BY <3>1, <3>2
  <2>7. calls \in Seq(Calls) /\ Fresh(calls, m) /\ m \in Numbers
    BY <1>2, <2>1, <2>5
  <2>71. PICK a2 : a2 = Append(a, x)
    OBVIOUS
  <2>8. /\ Opening(g2, m, b) /\ g2.s.text = g.s.text /\ g2.s.finish = g.s.finish
        /\ g2.s.calls = Append(calls, Piece(m, b.name, a2))
    <3>1. CallGrew(g2, g, calls, m, b, a2)
      BY <2>2, <2>3, <2>30, <2>4, <2>6, <2>7, <2>71, ToolStep, Zenon
    <3> QED BY <3>1, Zenon DEF CallGrew
  <2>9. h[j].s.calls = Append(st.s.calls, Piece(n, b.name, SubSeq(fr, 1, j)))
    BY <2>1, <2>2, <2>5, <2>71, <2>8, Zenon
  <2>10. j \in 0..L /\ j # 0
    OBVIOUS
  <2> QED BY <2>1, <2>4, <2>8, <2>9, <2>10
<1>5. \A j \in 0..L : j \in N
  <2> HIDE DEF N
  <2> QED BY <1>3, <1>4, ClimbTo
<1> QED BY <1>0, <1>1, <1>5

TextBlocks == {b \in Blocks : b.kind = "text"}
ToolBlocks == {b \in Blocks : b.kind = "tool"}
CallOrders    == [name : STRING, args : Seq(STRING)]
WithArgs   == {c \in CallOrders : c.args # <<>>}
OrderOf(name, args) == [name |-> name, args |-> args]
Frags  == [b \in Blocks |-> b.fragments]
Order  == [b \in Blocks |-> OrderOf(b.name, b.fragments)]
AsOrder == [c \in Calls |-> OrderOf(c.name, c.args)]
Talk(bs)   == FlattenSeq(Mapped(Only(bs, TextBlocks), Frags))
Orders(bs) == Mapped(Only(bs, ToolBlocks), Order)
Expected(p, bs) == IF p = "gemini" THEN Orders(bs) ELSE Only(Orders(bs), WithArgs)

LEMMA BlockIs ==
    ASSUME NEW b, b \in Blocks
    PROVE  /\ b.fragments \in Seq(STRING) /\ b.name \in STRING /\ b.kind \in {"text", "tool"}
           /\ Frags[b] = b.fragments /\ Order[b] = OrderOf(b.name, b.fragments)
           /\ b \in TextBlocks <=> b.kind = "text"
           /\ b \in ToolBlocks <=> b.kind = "tool"
           /\ Order[b] \in CallOrders
           /\ Order[b] \in WithArgs <=> b.fragments # <<>>
<1>1. b.fragments \in Seq(STRING) /\ b.name \in STRING /\ b.kind \in {"text", "tool"}
  BY DEF Blocks
<1>2. Frags[b] = b.fragments /\ Order[b] = OrderOf(b.name, b.fragments)
  BY DEF Frags, Order
<1>3. (b \in TextBlocks <=> b.kind = "text") /\ (b \in ToolBlocks <=> b.kind = "tool")
  BY DEF TextBlocks, ToolBlocks
<1>4. PICK o : o = Order[b]
  OBVIOUS
<1>5. o \in CallOrders /\ o.args = b.fragments
  BY <1>1, <1>2, <1>4 DEF OrderOf, CallOrders
<1>6. o \in WithArgs <=> o.args # <<>>
  <2>1. PICK none : none = <<>>
    OBVIOUS
  <2>2. WithArgs = {c \in CallOrders : c.args # none}
    BY <2>1, Zenon DEF WithArgs
  <2>3. o \in WithArgs <=> o.args # none
    BY <1>5, <2>2
  <2> QED BY <2>1, <2>3, Zenon
<1> QED BY <1>1, <1>2, <1>3, <1>4, <1>5, <1>6, Zenon

LEMMA OrdersIn ==
    ASSUME NEW bs, bs \in Seq(Blocks)
    PROVE  Talk(bs) \in Seq(STRING) /\ Orders(bs) \in Seq(CallOrders)
<1>1. \A b \in Blocks : Frags[b] \in Seq(STRING) /\ Order[b] \in CallOrders
  BY BlockIs
<1>2. PICK Q : Q = Seq(STRING)
  OBVIOUS
<1>3. Only(bs, TextBlocks) \in Seq(Blocks) /\ Only(bs, ToolBlocks) \in Seq(Blocks)
  BY OnlyIn
<1>4. Mapped(Only(bs, TextBlocks), Frags) \in Seq(Q)
  BY <1>1, <1>2, <1>3, MappedIs
<1>5. Talk(bs) \in Seq(STRING)
  BY <1>2, <1>4, JoinIn DEF Talk
<1>6. Orders(bs) \in Seq(CallOrders)
  BY <1>1, <1>3, MappedIs DEF Orders
<1> QED BY <1>5, <1>6

\* One more block of text.
LEMMA TextGrows ==
    ASSUME NEW bs, bs \in Seq(Blocks), NEW b, b \in Blocks, b.kind = "text"
    PROVE  /\ Talk(Append(bs, b)) = Talk(bs) \o b.fragments
           /\ Orders(Append(bs, b)) = Orders(bs)
<1>1. b \in TextBlocks /\ b \notin ToolBlocks /\ Frags[b] = b.fragments /\ b.fragments \in Seq(STRING)
  BY BlockIs
<1>2. PICK v : v = Only(bs, TextBlocks)
  OBVIOUS
<1>3. v \in Seq(Blocks)
  BY <1>2, OnlyIn
<1>4. Only(Append(bs, b), TextBlocks) = Append(v, b) /\ Only(Append(bs, b), ToolBlocks) = Only(bs, ToolBlocks)
  BY <1>1, <1>2, OnlyMore
<1>5. PICK m : m = Mapped(v, Frags)
  OBVIOUS
<1>6. Mapped(Append(v, b), Frags) = Append(m, Frags[b])
  BY <1>3, <1>5, MappedMore
<1>7. PICK Q : Q = Seq(STRING)
  OBVIOUS
<1>8. m \in Seq(Q)
  <2>1. \A c \in Blocks : Frags[c] \in Q
    BY <1>7, BlockIs
  <2> QED BY <1>3, <1>5, <2>1, MappedIs
<1>9. FlattenSeq(Append(m, b.fragments)) = FlattenSeq(m) \o b.fragments
  BY <1>1, <1>7, <1>8, JoinMore
<1>10. Talk(Append(bs, b)) = Talk(bs) \o b.fragments
  BY <1>1, <1>2, <1>4, <1>5, <1>6, <1>9, Zenon DEF Talk
<1> QED BY <1>4, <1>10, Zenon DEF Orders

\* One more call.
LEMMA ToolGrows ==
    ASSUME NEW bs, bs \in Seq(Blocks), NEW b, b \in Blocks, b.kind = "tool"
    PROVE  /\ Talk(Append(bs, b)) = Talk(bs)
           /\ Orders(Append(bs, b)) = Append(Orders(bs), Order[b])
           /\ Only(Orders(Append(bs, b)), WithArgs) =
                IF b.fragments = <<>> THEN Only(Orders(bs), WithArgs) ELSE Append(Only(Orders(bs), WithArgs), Order[b])
<1>1. b \notin TextBlocks /\ b \in ToolBlocks /\ Order[b] \in CallOrders /\ (Order[b] \in WithArgs <=> b.fragments # <<>>)
  BY BlockIs
<1>2. PICK v : v = Only(bs, ToolBlocks)
  OBVIOUS
<1>3. v \in Seq(Blocks)
  BY <1>2, OnlyIn
<1>4. Only(Append(bs, b), ToolBlocks) = Append(v, b) /\ Only(Append(bs, b), TextBlocks) = Only(bs, TextBlocks)
  BY <1>1, <1>2, OnlyMore
<1>5. Mapped(Append(v, b), Order) = Append(Mapped(v, Order), Order[b])
  BY <1>3, MappedMore
<1>6. Orders(Append(bs, b)) = Append(Orders(bs), Order[b])
  BY <1>2, <1>4, <1>5, Zenon DEF Orders
<1>7. PICK o, r : o = Orders(bs) /\ r = Order[b]
  OBVIOUS
<1>8. o \in Seq(CallOrders) /\ r \in CallOrders
  BY <1>1, <1>7, OrdersIn
<1>9. Only(Append(o, r), WithArgs) = IF r \in WithArgs THEN Append(Only(o, WithArgs), r) ELSE Only(o, WithArgs)
  BY <1>8, OnlyMore
<1>10. Talk(Append(bs, b)) = Talk(bs)
  BY <1>4, Zenon DEF Talk
<1> QED BY <1>1, <1>6, <1>7, <1>9, <1>10, Zenon

\* Gemini has packed none of the texts.
Unpacked(p, bs) == p = "gemini" => \A i \in DOMAIN bs : ~bs[i].packed

LEMMA UnpackedBefore ==
    ASSUME NEW p, NEW bs, bs \in Seq(Blocks), NEW b, b \in Blocks, NEW bs2, bs2 = Append(bs, b), Unpacked(p, bs2)
    PROVE  Unpacked(p, bs) /\ (p = "gemini" => ~b.packed)
<1>1. PICK n \in Nat : n = Len(bs) /\ DOMAIN bs = 1..n
  BY LenProperties
<1>2. bs2 \in Seq(Blocks) /\ Len(bs2) = n + 1 /\ (\A i \in 1..n : bs2[i] = bs[i]) /\ bs2[n + 1] = b
  BY <1>1, AppendProperties
<1>3. DOMAIN bs2 = 1..(n + 1)
  BY <1>2, LenProperties
<1>4. n + 1 \in 1..(n + 1) /\ \A i \in 1..n : i \in 1..(n + 1)
  OBVIOUS
<1>5. p = "gemini" => \A i \in 1..(n + 1) : ~bs2[i].packed
  BY <1>3, Zenon DEF Unpacked
<1>6. p = "gemini" => ~b.packed
  BY <1>2, <1>4, <1>5, Zenon
<1>7. p = "gemini" => \A i \in 1..n : ~bs[i].packed
  BY <1>2, <1>4, <1>5, Zenon
<1> QED BY <1>1, <1>6, <1>7, Zenon DEF Unpacked

\* What the client has put together of the blocks that have come.
SoFar(p, bs, st) ==
  /\ st \in Streams /\ st.d.finish = Silent /\ st.s.finish = Silent
  /\ Unpacked(p, bs) => st.s.text = Talk(bs)
  /\ p \in Blockwise \cup {"gemini"} => Mapped(st.s.calls, AsOrder) = Expected(p, bs)
  /\ p = "gemini" => \A i \in DOMAIN st.s.calls : st.s.calls[i].index < st.d.next
  /\ p # "gemini" => \A i \in DOMAIN st.s.calls : st.s.calls[i].index <= Len(bs)
  /\ \A t \in st.d.tools : t.index \in 1..Len(bs)

Within(st, n) == st \in Streams /\ \A t \in st.d.tools : t.index \in 1..n

LEMMA PieceSeen ==
    ASSUME NEW calls, calls \in Seq(Calls), NEW b, b \in Blocks, NEW n, n \in Nat
    PROVE  /\ Piece(n, b.name, b.fragments) \in Calls
           /\ Mapped(Append(calls, Piece(n, b.name, b.fragments)), AsOrder) = Append(Mapped(calls, AsOrder), Order[b])
<1>1. PICK c : c = Piece(n, b.name, b.fragments)
  OBVIOUS
<1>2. c \in Calls /\ c.name = b.name /\ c.args = b.fragments
  BY <1>1, BlockIs DEF Piece, Calls
<1>3. AsOrder[c] = Order[b]
  <2>1. AsOrder[c] = OrderOf(c.name, c.args)
    BY <1>2 DEF AsOrder
  <2> QED BY <1>2, <2>1, BlockIs, Zenon
<1>4. Mapped(Append(calls, c), AsOrder) = Append(Mapped(calls, AsOrder), AsOrder[c])
  BY <1>2, MappedMore
<1> QED BY <1>1, <1>2, <1>3, <1>4, Zenon

\* The client has what it had, and the text of one more block.
LEMMA TextAdded ==
    ASSUME NEW p, NEW bs, bs \in Seq(Blocks), NEW b, b \in Blocks, b.kind = "text",
           NEW st, SoFar(p, bs, st), NEW g, g \in Streams, g.d = st.d, g.s.calls = st.s.calls,
           g.s.finish = st.s.finish, NEW bs2, bs2 = Append(bs, b),
           (p = "gemini" => ~b.packed) => g.s.text = st.s.text \o b.fragments
    PROVE  SoFar(p, bs2, g)
<1>1. Talk(bs2) = Talk(bs) \o b.fragments /\ Orders(bs2) = Orders(bs)
  BY TextGrows
<1>2. Expected(p, bs2) = Expected(p, bs)
  BY <1>1, Zenon DEF Expected
<1>3. PICK n \in Nat : n = Len(bs)
  BY LenProperties
<1>4. Len(bs2) = n + 1
  BY <1>3, AppendProperties
<1>5. g.d.finish = Silent /\ g.s.finish = Silent /\ (Unpacked(p, bs2) => g.s.text = Talk(bs2))
  <2>1. Unpacked(p, bs2) => Unpacked(p, bs) /\ (p = "gemini" => ~b.packed)
    BY UnpackedBefore
  <2> QED BY <1>1, <2>1, Zenon DEF SoFar
<1>6. p \in Blockwise \cup {"gemini"} => Mapped(g.s.calls, AsOrder) = Expected(p, bs2)
  BY <1>2, Zenon DEF SoFar
<1>7. p = "gemini" => \A i \in DOMAIN g.s.calls : g.s.calls[i].index < g.d.next
  BY Zenon DEF SoFar
<1>8. p # "gemini" => \A i \in DOMAIN g.s.calls : g.s.calls[i].index <= Len(bs2)
  <2>1. st.s.calls \in Seq(Calls)
    BY DEF SoFar, Streams, Chunks
  <2>2. \A i \in DOMAIN st.s.calls : st.s.calls[i] \in Calls
    <3>1. PICK C : C = Calls
      OBVIOUS
    <3>2. \A i \in DOMAIN st.s.calls : st.s.calls[i] \in C
      BY <2>1, <3>1, ElementOfSeq, LenProperties
    <3> QED BY <3>1, <3>2
  <2>3. \A i \in DOMAIN st.s.calls : st.s.calls[i].index \in Nat
    BY <2>2 DEF Calls
  <2>4. p # "gemini" => \A i \in DOMAIN st.s.calls : st.s.calls[i].index <= n
    BY <1>3 DEF SoFar
  <2> QED BY <1>3, <1>4, <2>3, <2>4
<1>9. \A t \in g.d.tools : t.index \in 1..Len(bs2)
  <2>1. \A t \in st.d.tools : t.index \in 1..n
    BY <1>3 DEF SoFar
  <2> QED BY <1>3, <1>4, <2>1
<1> QED BY <1>5, <1>6, <1>7, <1>8, <1>9, Zenon DEF SoFar

LEMMA StreamFields ==
    ASSUME NEW st, st \in Streams
    PROVE  /\ st.d \in Decoders /\ st.s \in Chunks /\ st.d.next \in Nat /\ st.d.tools \subseteq Calls
           /\ st.s.text \in Seq(STRING) /\ st.s.calls \in Seq(Calls) /\ st.s.finish \in Reasons
           /\ st = Stream(st.d, st.s.text, st.s.calls, st.s.finish)
<1>1. st.d \in Decoders /\ st.s \in Chunks /\ st = [d |-> st.d, s |-> st.s]
  BY DEF Streams
<1>2. st.s = [text |-> st.s.text, calls |-> st.s.calls, finish |-> st.s.finish]
  BY <1>1 DEF Chunks
<1>3. st = Stream(st.d, st.s.text, st.s.calls, st.s.finish)
  BY <1>1, <1>2, Zenon DEF Stream
<1>4. /\ st.d.next \in Nat /\ st.d.tools \subseteq Calls
      /\ st.s.text \in Seq(STRING) /\ st.s.calls \in Seq(Calls) /\ st.s.finish \in Reasons
  BY <1>1 DEF Decoders, Chunks
<1> QED BY <1>1, <1>3, <1>4, Zenon

LEMMA FieldsOfStream ==
    ASSUME NEW d, NEW t, NEW c, NEW f
    PROVE  /\ Stream(d, t, c, f).d = d /\ Stream(d, t, c, f).s.text = t
           /\ Stream(d, t, c, f).s.calls = c /\ Stream(d, t, c, f).s.finish = f
  BY DEF Stream

LEMMA WholeSeq == ASSUME NEW T, NEW s, s \in Seq(T) PROVE SubSeq(s, 1, Len(s)) = s
  BY SubSeqFull

\* The fragments of a block of text, from place k of a run on.
LEMMA TextBlockRun ==
    ASSUME NEW p, NEW bs, bs \in Seq(Blocks), NEW b, b \in Blocks, b.kind = "text",
           NEW st, SoFar(p, bs, st), NEW h, h[0] = st,
           \A j \in 1..Len(b.fragments) : h[j - 1] \in Streams /\ h[j - 1].d = st.d =>
             h[j] = Stream(h[j - 1].d, Append(h[j - 1].s.text, b.fragments[j]), h[j - 1].s.calls, h[j - 1].s.finish)
    PROVE  /\ SoFar(p, Append(bs, b), h[Len(b.fragments)])
           /\ \A j \in 0..Len(b.fragments) : Within(h[j], Len(bs) + 1)
<1>1. PICK fr : fr = b.fragments /\ fr \in Seq(STRING)
  BY BlockIs
<1>2. PICK L \in Nat : L = Len(fr)
  BY <1>1, LenProperties
<1>3. st \in Streams
  BY DEF SoFar
<1>4. \A j \in 1..Len(fr) : h[j - 1] \in Streams /\ h[j - 1].d = st.d =>
             h[j] = Stream(h[j - 1].d, Append(h[j - 1].s.text, fr[j]), h[j - 1].s.calls, h[j - 1].s.finish)
  BY <1>1
<1>5. \A j \in 0..Len(fr) :
             /\ h[j] \in Streams /\ h[j].d = st.d
             /\ h[j].s.calls = st.s.calls /\ h[j].s.finish = st.s.finish
             /\ h[j].s.text = st.s.text \o SubSeq(fr, 1, j)
  <2>1. TextComes(st, fr, h)
    BY <1>4 DEF TextComes
  <2>2. TextCame(st, fr, h)
    BY <1>1, <1>3, <2>1, TextRun
  <2> QED BY <2>2 DEF TextCame
<1>6. PICK g, bs2 : g = h[L] /\ bs2 = Append(bs, b)
  OBVIOUS
<1>7. g \in Streams /\ g.d = st.d /\ g.s.calls = st.s.calls /\ g.s.finish = st.s.finish /\ g.s.text = st.s.text \o SubSeq(fr, 1, L)
  <2>1. L \in 0..Len(fr)
    BY <1>2
  <2> QED BY <1>5, <1>6, <2>1
<1>8. g.s.text = st.s.text \o b.fragments
  <2>1. SubSeq(fr, 1, L) = fr
    BY <1>1, <1>2, WholeSeq
  <2> QED BY <1>1, <1>7, <2>1, Zenon
<1>9. SoFar(p, bs2, g)
  BY <1>6, <1>7, <1>8, TextAdded
<1>10. ASSUME NEW j \in 0..L PROVE Within(h[j], Len(bs) + 1)
  <2>1. h[j] \in Streams /\ h[j].d = st.d
    BY <1>2, <1>5
  <2>2. PICK n \in Nat : n = Len(bs)
    BY LenProperties
  <2>3. \A t \in st.d.tools : t.index \in 1..(n + 1)
    <3>1. \A t \in st.d.tools : t.index \in 1..n
      BY <2>2 DEF SoFar
    <3> QED BY <2>2, <3>1
  <2> QED BY <2>1, <2>2, <2>3 DEF Within
<1> QED BY <1>1, <1>2, <1>6, <1>9, <1>10

\* A call that Anthropic or Bedrock stream.
LEMMA ToolBlockRun ==
    ASSUME NEW p, p \in Blockwise, NEW bs, bs \in Seq(Blocks), NEW b, b \in Blocks, b.kind = "tool",
           NEW n, n \in Numbers, n = Len(bs) + 1, NEW st, SoFar(p, bs, st), NEW h, h[0] = EventStep(p, st, StartOf(b, n)),
           \A j \in 1..Len(b.fragments) : h[j] = EventStep(p, h[j - 1], DeltaOf(b, n, b.fragments[j]))
    PROVE  /\ SoFar(p, Append(bs, b), h[Len(b.fragments)])
           /\ \A j \in 0..Len(b.fragments) : Within(h[j], n)
<1>1. PICK fr : fr = b.fragments /\ fr \in Seq(STRING)
  BY BlockIs
<1>2. PICK L \in Nat : L = Len(fr)
  BY <1>1, LenProperties
<1>3. PICK l \in Nat : l = Len(bs) /\ n = l + 1
  BY LenProperties
<1>4. st \in Streams /\ st.d.finish = Silent /\ st.s.finish = Silent /\ \A t \in st.d.tools : t.index \in 1..l
  BY <1>3 DEF SoFar
<1>5. p # "gemini" /\ p \in Blockwise \cup {"gemini"}
  BY DEF Blockwise
<1>6. PICK o : o = h[0]
  OBVIOUS
<1>7. o = [d |-> Opened(st.d, n, b.name), s |-> st.s]
  <2>1. n \in Nat
    BY DEF Numbers
  <2> QED BY <1>4, <1>6, <2>1, BlockStarts
<1>8. Opening(o, n, b)
  <2>1. PICK t : t = [index |-> n, name |-> b.name, args |-> <<>>]
    OBVIOUS
  <2>2. t \in Calls /\ t.index = n /\ t.name = b.name
    BY <2>1, BlockIs DEF Calls, Numbers
  <2>3. o.d = [st.d EXCEPT !.tools = @ \cup {t}]
    BY <1>7, <2>1 DEF Opened
  <2>4. st.d \in Decoders /\ st.s \in Chunks
    BY <1>4 DEF Streams
  <2>5. o.d.tools = st.d.tools \cup {t} /\ o.d.finish = Silent /\ o.d \in Decoders
    BY <1>4, <2>2, <2>3, <2>4 DEF Decoders
  <2>6. o \in Streams
    BY <1>7, <2>4, <2>5 DEF Streams
  <2>7. \A u \in o.d.tools : u.index \in 1..n
    BY <1>3, <1>4, <2>2, <2>5
  <2>8. \A u \in o.d.tools : u.index = n => u.name = b.name
    BY <1>3, <1>4, <2>2, <2>5
  <2> QED BY <2>2, <2>5, <2>6, <2>7, <2>8 DEF Opening
<1>9. o.s = st.s
  BY <1>7
<1>10. \A i \in DOMAIN st.s.calls : st.s.calls[i].index \in Nat /\ st.s.calls[i].index <= l
  <2>1. st.s.calls \in Seq(Calls)
    BY <1>4, StreamFields
  <2>2. PICK C : C = Calls
    OBVIOUS
  <2>3. \A i \in DOMAIN st.s.calls : st.s.calls[i] \in C
    BY <2>1, <2>2, ElementOfSeq, LenProperties
  <2>4. \A i \in DOMAIN st.s.calls : st.s.calls[i].index \in Nat
    BY <2>2, <2>3 DEF Calls
  <2> QED BY <1>3, <1>5, <2>4 DEF SoFar
<1>11. Fresh(o.s.calls, n)
  BY <1>3, <1>9, <1>10 DEF Fresh
<1>12. \A j \in 0..Len(fr) :
             /\ Opening(h[j], n, b)
             /\ h[j].s.text = o.s.text /\ h[j].s.finish = o.s.finish
             /\ h[j].s.calls = IF j = 0 THEN o.s.calls
                               ELSE Append(o.s.calls, Piece(n, b.name, SubSeq(fr, 1, j)))
  BY <1>1, <1>6, <1>8, <1>11, ToolRun
<1>13. PICK g, bs2 : g = h[L] /\ bs2 = Append(bs, b)
  OBVIOUS
<1>14. /\ Opening(g, n, b) /\ g.s.text = st.s.text /\ g.s.finish = st.s.finish
       /\ g.s.calls = IF fr = <<>> THEN st.s.calls ELSE Append(st.s.calls, Piece(n, b.name, fr))
  <2>1. L \in 0..Len(fr)
    BY <1>2
  <2>2. SubSeq(fr, 1, L) = fr
    BY <1>1, <1>2, WholeSeq
  <2>3. L = 0 <=> fr = <<>>
    BY <1>1, <1>2, EmptySeq
  <2>4. /\ Opening(g, n, b) /\ g.s.text = o.s.text /\ g.s.finish = o.s.finish
        /\ g.s.calls = IF L = 0 THEN o.s.calls ELSE Append(o.s.calls, Piece(n, b.name, SubSeq(fr, 1, L)))
    BY <1>12, <1>13, <2>1
  <2> QED BY <1>9, <2>2, <2>3, <2>4, Zenon
<1>15. /\ Talk(bs2) = Talk(bs)
       /\ Only(Orders(bs2), WithArgs) =
            IF fr = <<>> THEN Only(Orders(bs), WithArgs) ELSE Append(Only(Orders(bs), WithArgs), Order[b])
  BY <1>1, <1>13, ToolGrows, Zenon
<1>16. Expected(p, bs2) = IF fr = <<>> THEN Expected(p, bs) ELSE Append(Expected(p, bs), Order[b])
  BY <1>5, <1>15, Zenon DEF Expected
<1>17. PICK calls : calls = st.s.calls
  OBVIOUS
<1>18. calls \in Seq(Calls) /\ Mapped(calls, AsOrder) = Expected(p, bs)
  BY <1>4, <1>5, <1>17, StreamFields DEF SoFar
<1>19. PICK c : c = Piece(n, b.name, b.fragments)
  OBVIOUS
<1>20. c \in Calls /\ c.index = n /\ Mapped(Append(calls, c), AsOrder) = Append(Mapped(calls, AsOrder), Order[b])
  <2>1. n \in Nat
    BY DEF Numbers
  <2>2. c.index = n
    BY <1>19 DEF Piece
  <2> QED BY <1>18, <1>19, <2>1, <2>2, PieceSeen
<1>21. Mapped(g.s.calls, AsOrder) = Expected(p, bs2)
  BY <1>1, <1>14, <1>16, <1>17, <1>18, <1>19, <1>20, Zenon
<1>22. \A i \in DOMAIN g.s.calls : g.s.calls[i].index <= l + 1
  <2>1. CASE fr = <<>>
    <3>1. g.s.calls = st.s.calls
      BY <1>14, <2>1
    <3> QED BY <1>3, <1>10, <3>1
  <2>2. CASE fr # <<>>
    <3>1. g.s.calls = Append(calls, c)
      BY <1>1, <1>14, <1>17, <1>19, <2>2, Zenon
    <3>2. PICK k \in Nat : k = Len(calls) /\ DOMAIN calls = 1..k
      BY <1>18, LenProperties
    <3>3. PICK a : a = Append(calls, c)
      OBVIOUS
    <3>4. a \in Seq(Calls) /\ Len(a) = k + 1 /\ (\A i \in 1..k : a[i] = calls[i]) /\ a[k + 1] = c
      BY <1>18, <1>20, <3>2, <3>3, AppendProperties
    <3>5. DOMAIN a = 1..(k + 1)
      BY <3>4, LenProperties
    <3>6. \A i \in 1..(k + 1) : i = k + 1 \/ i \in 1..k
      BY <3>2
    <3>7. \A i \in 1..k : a[i].index \in Nat /\ a[i].index <= l
      BY <1>10, <1>17, <3>2, <3>4
    <3>8. \A i \in 1..k : a[i].index <= l + 1
      BY <1>3, <3>7
    <3>9. a[k + 1].index <= l + 1
      BY <1>3, <1>20, <3>4
    <3> QED BY <3>1, <3>3, <3>5, <3>6, <3>8, <3>9
  <2> QED BY <2>1, <2>2
<1>23. Len(bs2) = l + 1
  BY <1>3, <1>13, AppendProperties
<1>24. g \in Streams /\ g.d.finish = Silent /\ \A t \in g.d.tools : t.index \in 1..n
  BY <1>14 DEF Opening
<1>25. (Unpacked(p, bs2) => g.s.text = Talk(bs2)) /\ g.s.finish = Silent
  <2>1. Unpacked(p, bs2) => Unpacked(p, bs)
    BY <1>13, UnpackedBefore
  <2> QED BY <1>4, <1>14, <1>15, <2>1, Zenon DEF SoFar
<1>26. SoFar(p, bs2, g)
  BY <1>3, <1>5, <1>21, <1>22, <1>23, <1>24, <1>25 DEF SoFar
<1>27. \A j \in 0..L : Within(h[j], n)
  BY <1>2, <1>12 DEF Opening, Within
<1> QED BY <1>1, <1>2, <1>13, <1>26, <1>27

Starts == {StartOf(b, n) : b \in Blocks, n \in Nat}
Deltas == {DeltaOf(b, n, x) : b \in Blocks, n \in Nat, x \in STRING}
Wholes == {CallEvent(b) : b \in Blocks}
Fragments  == {PartsOf(q) : q \in Seq(STRING)}
Stops  == {StopOf(why) : why \in Reasons}
Events == Starts \cup Deltas \cup Wholes \cup Fragments \cup Stops

LEMMA StartIn == ASSUME NEW b, b \in Blocks, NEW n, n \in Nat PROVE StartOf(b, n) \in Events
<1>1. StartOf(b, n) \in Starts
  BY DEF Starts
<1> QED BY <1>1, Zenon DEF Events

LEMMA DeltaIn == ASSUME NEW b, b \in Blocks, NEW n, n \in Nat, NEW x, x \in STRING PROVE DeltaOf(b, n, x) \in Events
<1>1. DeltaOf(b, n, x) \in Deltas
  BY DEF Deltas
<1> QED BY <1>1, Zenon DEF Events

LEMMA CallIn == ASSUME NEW b, b \in Blocks PROVE CallEvent(b) \in Events
<1>1. CallEvent(b) \in Wholes
  BY DEF Wholes
<1> QED BY <1>1, Zenon DEF Events

LEMMA PartsIn == ASSUME NEW q, q \in Seq(STRING) PROVE PartsOf(q) \in Events
<1>1. PartsOf(q) \in Fragments
  BY DEF Fragments
<1> QED BY <1>1, Zenon DEF Events

LEMMA TextIn == ASSUME NEW x, x \in STRING PROVE TextOf(x) \in Events
<1>1. Single(x) \in Seq(STRING)
  <2>1. PICK T : T = STRING
    OBVIOUS
  <2>2. PICK y \in T : y = x
    BY <2>1
  <2>3. PICK none \in Seq(T) : none = <<>>
    BY EmptySeq, Zenon
  <2>4. Append(none, y) \in Seq(T)
    BY AppendProperties
  <2>5. Append(none, y) = <<y>>
    BY <2>3
  <2> QED BY <2>1, <2>2, <2>4, <2>5, Zenon DEF Single
<1> QED BY <1>1, PartsIn, Zenon DEF TextOf

LEMMA StopIn == ASSUME NEW why, why \in Reasons PROVE StopOf(why) \in Events
<1>1. StopOf(why) \in Stops
  BY DEF Stops
<1> QED BY <1>1, Zenon DEF Events

\* Gemini packs the texts of the block.
Packs(p, b) == p = "gemini" /\ b.packed /\ b.fragments # NoArguments

\* The events of a block.
LEMMA EventsAre ==
    ASSUME NEW p, p \in Adapters, NEW b, b \in Blocks, NEW n, n \in Nat
    PROVE  /\ EventsOf(p, b, n) \in Seq(Events)
           /\ p \in Blockwise =>
                /\ Len(EventsOf(p, b, n)) = Len(b.fragments) + 1
                /\ EventsOf(p, b, n)[1] = StartOf(b, n)
                /\ \A j \in 1..Len(b.fragments) : EventsOf(p, b, n)[j + 1] = DeltaOf(b, n, b.fragments[j])
           /\ p \notin Blockwise /\ b.kind = "tool" => Len(EventsOf(p, b, n)) = 1 /\ EventsOf(p, b, n)[1] = CallEvent(b)
           /\ p \notin Blockwise /\ b.kind = "text" /\ Packs(p, b) =>
                Len(EventsOf(p, b, n)) = 1 /\ EventsOf(p, b, n)[1] = PartsOf(b.fragments)
           /\ p \notin Blockwise /\ b.kind = "text" /\ ~Packs(p, b) =>
                /\ Len(EventsOf(p, b, n)) = Len(b.fragments)
                /\ \A j \in 1..Len(b.fragments) : EventsOf(p, b, n)[j] = TextOf(b.fragments[j])
<1>1. PICK fr : fr = b.fragments /\ fr \in Seq(STRING)
  BY BlockIs
<1>2. PICK L \in Nat : L = Len(fr) /\ DOMAIN fr = 1..L
  BY <1>1, LenProperties
<1>3. \A j \in 1..L : fr[j] \in STRING
  <2>1. PICK T : T = STRING
    OBVIOUS
  <2>2. \A j \in 1..L : fr[j] \in T
    BY <1>1, <1>2, <2>1, ElementOfSeq
  <2> QED BY <2>1, <2>2
<1>4. PICK es : es = EventsOf(p, b, n)
  OBVIOUS
<1>5. CASE p \in Blockwise
  <2>1. es = <<StartOf(b, n)>> \o [k \in 1..L |-> DeltaOf(b, n, fr[k])]
    <3>1. es = BlockEvents(b, n)
      BY <1>4, <1>5 DEF EventsOf, Blockwise
    <3> QED BY <1>1, <1>2, <3>1, Zenon DEF BlockEvents, StartOf, DeltaOf
  <2>2. PICK a, c : a = <<StartOf(b, n)>> /\ c = [k \in 1..L |-> DeltaOf(b, n, fr[k])]
    OBVIOUS
  <2>3. a \in Seq(Events) /\ Len(a) = 1 /\ a[1] = StartOf(b, n)
    <3>1. PICK e : e = StartOf(b, n)
      OBVIOUS
    <3>2. e \in Events
      BY <3>1, StartIn, Zenon
    <3>3. a = <<e>>
      BY <2>2, <3>1, Zenon
    <3> QED BY <3>1, <3>2, <3>3
  <2>4. c \in Seq(Events) /\ Len(c) = L /\ \A k \in 1..L : c[k] = DeltaOf(b, n, fr[k])
    <3>1. \A k \in 1..L : DeltaOf(b, n, fr[k]) \in Events
      BY <1>3, DeltaIn, Zenon
    <3>2. PICK T : T = Events
      OBVIOUS
    <3>3. \A k \in 1..L : c[k] = DeltaOf(b, n, fr[k]) /\ c[k] \in T
      BY <2>2, <3>1, <3>2
    <3>4. c = [k \in 1..L |-> c[k]]
      BY <2>2
    <3>5. c \in Seq(T) /\ Len(c) = L
      BY <1>2, <3>3, <3>4
    <3> QED BY <3>2, <3>3, <3>5
  <2>5. es = a \o c
    BY <2>1, <2>2, Zenon
  <2>6. es \in Seq(Events) /\ Len(es) = 1 + L /\ \A i \in 1..(1 + L) : es[i] = IF i <= 1 THEN a[i] ELSE c[i - 1]
    <3>1. PICK T : T = Events
      OBVIOUS
    <3>2. a \in Seq(T) /\ c \in Seq(T)
      BY <2>3, <2>4, <3>1
    <3>3. es \in Seq(T) /\ Len(es) = 1 + L /\ \A i \in 1..(1 + L) : es[i] = IF i <= 1 THEN a[i] ELSE c[i - 1]
      <4>1. Len(a) = 1 /\ Len(c) = L
        BY <2>3, <2>4
      <4>2. /\ es \in Seq(T) /\ Len(es) = Len(a) + Len(c)
            /\ \A i \in 1..(Len(a) + Len(c)) : es[i] = IF i <= Len(a) THEN a[i] ELSE c[i - Len(a)]
        BY <2>5, <3>2, ConcatProperties, Zenon
      <4> QED BY <4>1, <4>2
    <3> QED BY <3>1, <3>3
  <2>7. es[1] = StartOf(b, n)
    BY <1>2, <2>3, <2>6
  <2>8. \A j \in 1..L : es[j + 1] = DeltaOf(b, n, fr[j])
    <3> SUFFICES ASSUME NEW j \in 1..L PROVE es[j + 1] = DeltaOf(b, n, fr[j])
      OBVIOUS
    <3>1. j + 1 \in 1..(1 + L) /\ ~(j + 1 <= 1) /\ (j + 1) - 1 = j
      BY <1>2
    <3>2. es[j + 1] = c[(j + 1) - 1]
      BY <2>6, <3>1
    <3>3. es[j + 1] = c[j]
      BY <3>1, <3>2
    <3> QED BY <2>4, <3>3
  <2> QED BY <1>1, <1>2, <1>4, <1>5, <2>6, <2>7, <2>8
<1>6. CASE p \notin Blockwise /\ b.kind = "tool"
  <2>1. es = <<CallEvent(b)>>
    <3>1. es = WholeCall(b)
      BY <1>4, <1>6 DEF EventsOf, Blockwise
    <3> QED BY <3>1, Zenon DEF WholeCall, CallEvent
  <2>2. PICK e : e = CallEvent(b)
    OBVIOUS
  <2>3. e \in Events
    BY <2>2, CallIn, Zenon
  <2>4. es = <<e>>
    BY <2>1, <2>2, Zenon
  <2>5. es \in Seq(Events) /\ Len(es) = 1 /\ es[1] = e
    BY <2>3, <2>4
  <2> QED BY <1>4, <1>6, <2>2, <2>5
<1>8. CASE p \notin Blockwise /\ b.kind # "tool" /\ Packs(p, b)
  <2>1. es = <<PartsOf(fr)>>
    <3>1. p = "gemini" /\ b.packed /\ b.fragments # <<>>
      BY <1>8, Zenon DEF Packs, NoArguments
    <3>2. es = OneChunk(b)
      BY <1>4, <1>8, <3>1, Zenon DEF EventsOf, Blockwise
    <3> QED BY <1>1, <3>2, Zenon DEF OneChunk, PartsOf
  <2>2. PICK e : e = PartsOf(fr)
    OBVIOUS
  <2>3. e \in Events
    BY <1>1, <2>2, PartsIn, Zenon
  <2>4. es = <<e>>
    BY <2>1, <2>2, Zenon
  <2>5. es \in Seq(Events) /\ Len(es) = 1 /\ es[1] = e
    BY <2>3, <2>4
  <2> QED BY <1>1, <1>4, <1>8, <2>2, <2>5
<1>7. CASE p \notin Blockwise /\ b.kind # "tool" /\ ~Packs(p, b)
  <2>1. es = [k \in 1..L |-> TextOf(fr[k])]
    <3>1. es = TextDeltas(b)
      <4>1. ~(p = "gemini" /\ b.packed /\ b.fragments # <<>>)
        BY <1>7, Zenon DEF Packs, NoArguments
      <4> QED BY <1>4, <1>7, <4>1, Zenon DEF EventsOf, Blockwise
    <3> QED BY <1>1, <1>2, <3>1, Zenon DEF TextDeltas, TextOf, PartsOf, Single
  <2>2. \A k \in 1..L : TextOf(fr[k]) \in Events
    BY <1>3, TextIn, Zenon
  <2>3. PICK T : T = Events
    OBVIOUS
  <2>4. \A k \in 1..L : es[k] = TextOf(fr[k]) /\ es[k] \in T
    BY <2>1, <2>2, <2>3
  <2>5. es = [k \in 1..L |-> es[k]]
    BY <2>1
  <2>6. es \in Seq(T) /\ Len(es) = L
    BY <1>2, <2>4, <2>5
  <2> QED BY <1>1, <1>2, <1>4, <1>7, <2>3, <2>4, <2>6
<1> QED BY <1>5, <1>6, <1>7, <1>8

\* Where the sequences are in their join.
JoinedAt(ss, J, P) ==
  /\ P \in [0..Len(ss) -> Nat] /\ P[0] = 0 /\ P[Len(ss)] = Len(J)
  /\ \A n \in 1..Len(ss) :
       /\ P[n] = P[n - 1] + Len(ss[n])
       /\ \A j \in 1..Len(ss[n]) : J[P[n - 1] + j] = ss[n][j]

LEMMA JoinPlaces ==
    ASSUME NEW T, NEW ss, ss \in Seq(Seq(T))
    PROVE  \E P : JoinedAt(ss, FlattenSeq(ss), P)
<1>1. PICK L \in Nat : L = Len(ss)
  BY LenProperties
<1>2. PICK J : J = FlattenSeq(ss)
  OBVIOUS
<1>3. CASE L = 0
  <2>1. PICK none \in Seq(T) : none = <<>>
    BY EmptySeq, Zenon
  <2>2. ss = <<>>
    BY <1>1, <1>3, EmptySeq
  <2>3. J = none
    BY <1>2, <2>1, <2>2, JoinNone, Zenon
  <2>4. Len(J) = 0
    BY <2>1, <2>3, EmptySeq
  <2>5. PICK P : P = [n \in 0..0 |-> 0]
    OBVIOUS
  <2>6. P \in [0..0 -> Nat] /\ P[0] = 0
    BY <2>5
  <2> QED BY <1>1, <1>2, <1>3, <2>4, <2>6 DEF JoinedAt
<1>4. CASE L # 0
  <2>1. PICK Q : Q = Seq(T)
    OBVIOUS
  <2>2. PICK u : u = JoinUpto(ss)
    OBVIOUS
  <2>3. J = u[L] /\ u \in [1..L -> Seq(T)] /\ u[1] = ss[1] /\ \A i \in 2..L : u[i] = u[i - 1] \o ss[i]
    BY <1>1, <1>2, <1>4, <2>2, JoinUptoIs
  <2>4. \A n \in 1..L : ss[n] \in Seq(T)
    <3>1. ss \in Seq(Q)
      BY <2>1
    <3>2. \A n \in 1..L : ss[n] \in Q
      BY <1>1, <3>1, ElementOfSeq
    <3> QED BY <2>1, <3>2
  <2>5. \A n \in 1..L : u[n] \in Seq(T) /\ Len(u[n]) \in Nat /\ Len(ss[n]) \in Nat
    BY <2>3, <2>4, LenProperties
  <2>6. PICK P : P = [n \in 0..L |-> IF n = 0 THEN 0 ELSE Len(u[n])]
    OBVIOUS
  <2>7. P \in [0..L -> Nat] /\ P[0] = 0 /\ P[L] = Len(J)
    <3>1. L \in 1..L
      BY <1>4
    <3> QED BY <1>4, <2>3, <2>5, <2>6, <3>1
  <2>8. \A n \in 1..L : P[n] = Len(u[n])
    BY <2>6
  <2>9. ASSUME NEW n \in 2..L
        PROVE  /\ P[n] = P[n - 1] + Len(ss[n])
               /\ \A i \in 1..P[n - 1] : u[n][i] = u[n - 1][i]
               /\ \A j \in 1..Len(ss[n]) : u[n][P[n - 1] + j] = ss[n][j]
    <3>1. n \in 1..L /\ n - 1 \in 1..L
      OBVIOUS
    <3>2. PICK x, y, z : x = u[n - 1] /\ y = ss[n] /\ z = u[n]
      OBVIOUS
    <3>3. x \in Seq(T) /\ y \in Seq(T) /\ z = x \o y
      BY <2>3, <2>4, <2>5, <3>1, <3>2
    <3>4. PICK k \in Nat, m \in Nat : k = Len(x) /\ m = Len(y)
      BY <3>3, LenProperties
    <3>5. Len(z) = k + m /\ \A i \in 1..(k + m) : z[i] = IF i <= k THEN x[i] ELSE y[i - k]
      BY <3>3, <3>4, ConcatProperties
    <3>6. \A i \in 1..k : z[i] = x[i]
      <4>1. \A i \in 1..k : i \in 1..(k + m) /\ i <= k
        OBVIOUS
      <4> QED BY <3>5, <4>1
    <3>7. \A j \in 1..m : z[k + j] = y[j]
      <4>1. \A j \in 1..m : k + j \in 1..(k + m) /\ ~(k + j <= k) /\ (k + j) - k = j
        OBVIOUS
      <4>2. \A j \in 1..m : z[k + j] = y[(k + j) - k]
        BY <3>5, <4>1
      <4> QED BY <4>1, <4>2
    <3>8. P[n] = k + m /\ P[n - 1] = k
      BY <2>8, <3>1, <3>2, <3>4, <3>5
    <3> QED BY <3>2, <3>4, <3>6, <3>7, <3>8
  \* What is at a place of a prefix is there in the whole.
  <2>10. ASSUME NEW n \in 1..L PROVE \A i \in 1..P[n] : J[i] = u[n][i]
    <3> DEFINE N == {m \in 0..(L - n) : \A i \in 1..P[n] : P[n] <= P[n + m] /\ u[n + m][i] = u[n][i]}
    <3>1. 0 \in N
      <4>1. n + 0 = n /\ P[n] \in Nat
        BY <2>7
      <4> QED BY <4>1
    <3>2. ASSUME NEW m \in 1..(L - n), m - 1 \in N PROVE m \in N
      <4>1. n + m \in 2..L /\ (n + m) - 1 = n + (m - 1) /\ n + (m - 1) \in 1..L
        OBVIOUS
      <4>2. P[n] \in Nat /\ P[n + m] \in Nat /\ P[n + (m - 1)] \in Nat /\ Len(ss[n + m]) \in Nat
        BY <2>5, <2>7, <4>1
      <4>3. P[n + m] = P[n + (m - 1)] + Len(ss[n + m]) /\ \A i \in 1..P[n + (m - 1)] : u[n + m][i] = u[n + (m - 1)][i]
        BY <2>9, <4>1
      <4>4. \A i \in 1..P[n] : P[n] <= P[n + (m - 1)] /\ u[n + (m - 1)][i] = u[n][i]
        BY <3>2
      <4>5. ASSUME NEW i \in 1..P[n] PROVE P[n] <= P[n + m] /\ u[n + m][i] = u[n][i]
        <5>1. P[n] <= P[n + (m - 1)] /\ u[n + (m - 1)][i] = u[n][i]
          BY <4>4
        <5>2. i \in 1..P[n + (m - 1)]
          BY <4>2, <5>1
        <5> QED BY <4>2, <4>3, <5>1, <5>2
      <4> QED BY <4>5
    <3>3. \A m \in 0..(L - n) : m \in N
      <4> HIDE DEF N
      <4>1. L - n \in Nat
        OBVIOUS
      <4> QED BY <3>1, <3>2, <4>1, ClimbTo
    <3>4. L - n \in 0..(L - n) /\ n + (L - n) = L
      OBVIOUS
    <3>5. L - n \in N
      BY <3>3, <3>4
    <3> QED BY <2>3, <3>4, <3>5
  <2>11. ASSUME NEW n \in 1..L
         PROVE  /\ P[n] = P[n - 1] + Len(ss[n])
                /\ \A j \in 1..Len(ss[n]) : J[P[n - 1] + j] = ss[n][j]
    <3>1. P[n] \in Nat /\ P[n - 1] \in Nat /\ Len(ss[n]) \in Nat
      BY <2>5, <2>7
    <3>2. P[n] = P[n - 1] + Len(ss[n]) /\ \A j \in 1..Len(ss[n]) : u[n][P[n - 1] + j] = ss[n][j]
      <4>1. CASE n = 1
        <5>1. P[1] = Len(ss[1]) /\ P[0] = 0 /\ u[1] = ss[1]
          BY <2>3, <2>7, <2>8, <4>1
        <5>2. n - 1 = 0
          BY <4>1
        <5>3. \A j \in 1..Len(ss[n]) : 0 + j = j
          OBVIOUS
        <5> QED BY <3>1, <4>1, <5>1, <5>2, <5>3
      <4>2. CASE n # 1
        <5>1. n \in 2..L
          BY <4>2
        <5> QED BY <2>9, <5>1
      <4> QED BY <4>1, <4>2
    <3>3. ASSUME NEW j \in 1..Len(ss[n]) PROVE J[P[n - 1] + j] = ss[n][j]
      <4>1. P[n - 1] + j \in 1..P[n]
        BY <3>1, <3>2
      <4> QED BY <2>10, <3>2, <4>1
    <3> QED BY <3>2, <3>3
  <2> QED BY <1>1, <1>2, <2>7, <2>11 DEF JoinedAt
<1> QED BY <1>3, <1>4

Follows(p, h, es) == \A j \in 1..Len(es) : h[j] = EventStep(p, h[j - 1], es[j])
Shifted(h, L) == [j \in 0..L |-> h[j + 1]]

LEMMA ShiftedIs ==
    ASSUME NEW h, NEW L, L \in Nat
    PROVE  \A j \in 0..L : Shifted(h, L)[j] = h[j + 1]
  BY DEF Shifted

LEMMA SoFarWithin ==
    ASSUME NEW p, NEW bs, bs \in Seq(Blocks), NEW st, SoFar(p, bs, st), NEW n, n = Len(bs) + 1
    PROVE  Within(st, n)
<1>1. PICK l \in Nat : l = Len(bs)
  BY LenProperties
<1>2. st \in Streams /\ \A t \in st.d.tools : t.index \in 1..l
  BY <1>1 DEF SoFar
<1>3. \A t \in st.d.tools : t.index \in 1..n
  BY <1>1, <1>2
<1> QED BY <1>2, <1>3 DEF Within

\* Anthropic's and Bedrock's.
LEMMA BlockwiseTool ==
    ASSUME NEW p, p \in Blockwise, NEW bs, bs \in Seq(Blocks), NEW b, b \in Blocks, b.kind = "tool",
           NEW n, n \in Numbers, n = Len(bs) + 1, NEW st, SoFar(p, bs, st), NEW h, h[0] = st,
           NEW es, es = EventsOf(p, b, n), Follows(p, h, es)
    PROVE  SoFar(p, Append(bs, b), h[Len(es)]) /\ \A j \in 0..Len(es) : Within(h[j], n)
<1>1. PICK L \in Nat : L = Len(b.fragments)
  BY BlockIs, LenProperties
<1>2. n \in Nat
  BY DEF Numbers
<1>3. p \in Adapters
  BY DEF Adapters, Blockwise
<1>4. Len(es) = L + 1 /\ es[1] = StartOf(b, n) /\ \A j \in 1..L : es[j + 1] = DeltaOf(b, n, b.fragments[j])
  BY <1>1, <1>2, <1>3, EventsAre
<1>5. PICK g : g = Shifted(h, L)
  OBVIOUS
<1>6. \A j \in 0..L : g[j] = h[j + 1]
  BY <1>5, ShiftedIs
<1>7. g[0] = EventStep(p, st, StartOf(b, n))
  <2>1. 1 \in 1..Len(es) /\ 1 - 1 = 0 /\ 0 + 1 = 1 /\ 0 \in 0..L
    BY <1>1, <1>4
  <2>2. h[1] = EventStep(p, h[1 - 1], es[1])
    BY <2>1 DEF Follows
  <2> QED BY <1>4, <1>6, <2>1, <2>2
<1>8. ASSUME NEW j, j \in 1..L PROVE g[j] = EventStep(p, g[j - 1], DeltaOf(b, n, b.fragments[j]))
  <2>1. j \in 0..L /\ j - 1 \in 0..L /\ j + 1 \in 1..Len(es) /\ (j + 1) - 1 = j /\ (j - 1) + 1 = j
    BY <1>1, <1>4, <1>8
  <2>2. h[j + 1] = EventStep(p, h[(j + 1) - 1], es[j + 1])
    BY <2>1 DEF Follows
  <2>3. g[j] = h[j + 1] /\ g[j - 1] = h[j]
    BY <1>6, <2>1
  <2> QED BY <1>4, <1>8, <2>1, <2>2, <2>3
<1>9. SoFar(p, Append(bs, b), g[L]) /\ \A j \in 0..L : Within(g[j], n)
  BY <1>1, <1>7, <1>8, ToolBlockRun
<1>10. Within(h[0], n)
  BY SoFarWithin
<1>11. ASSUME NEW j, j \in 0..(L + 1) PROVE Within(h[j], n)
  <2>1. CASE j = 0
    BY <1>10, <2>1
  <2>2. CASE j # 0
    <3>1. j - 1 \in 0..L /\ (j - 1) + 1 = j
      BY <1>11, <2>2
    <3> QED BY <1>6, <1>9, <3>1
  <2> QED BY <2>1, <2>2
<1>12. L \in 0..L
  OBVIOUS
<1> QED BY <1>4, <1>6, <1>9, <1>11, <1>12

LEMMA BlockwiseText ==
    ASSUME NEW p, p \in Blockwise, NEW bs, bs \in Seq(Blocks), NEW b, b \in Blocks, b.kind = "text",
           NEW n, n \in Numbers, n = Len(bs) + 1, NEW st, SoFar(p, bs, st), NEW h, h[0] = st,
           NEW es, es = EventsOf(p, b, n), Follows(p, h, es)
    PROVE  SoFar(p, Append(bs, b), h[Len(es)]) /\ \A j \in 0..Len(es) : Within(h[j], n)
<1>0. PICK fr : fr = b.fragments
  OBVIOUS
<1>1. PICK L \in Nat : L = Len(fr)
  BY <1>0, BlockIs, LenProperties
<1>2. n \in Nat
  BY DEF Numbers
<1>3. p \in Adapters
  BY DEF Adapters, Blockwise
<1>4. Len(es) = L + 1 /\ es[1] = StartOf(b, n) /\ \A j \in 1..L : es[j + 1] = DeltaOf(b, n, fr[j])
  BY <1>0, <1>1, <1>2, <1>3, EventsAre
<1>5. PICK g : g = Shifted(h, L)
  OBVIOUS
<1>6. \A j \in 0..L : g[j] = h[j + 1]
  BY <1>5, ShiftedIs
<1>60. st \in Streams /\ st.d.finish = Silent
  BY DEF SoFar
<1>61. \A j \in 1..L : fr[j] \in STRING
  <2>1. PICK T : T = STRING
    OBVIOUS
  <2>2. fr \in Seq(T)
    BY <1>0, <2>1, BlockIs
  <2>3. \A j \in 1..L : fr[j] \in T
    BY <1>1, <2>2, ElementOfSeq
  <2> QED BY <2>1, <2>3
<1>7. g[0] = st
  <2>1. 1 \in 1..Len(es) /\ 1 - 1 = 0 /\ 0 + 1 = 1 /\ 0 \in 0..L
    BY <1>1, <1>4
  <2>2. h[1] = EventStep(p, h[1 - 1], es[1])
    BY <2>1 DEF Follows
  <2>3. EventStep(p, st, StartOf(b, n)) = st
    BY <1>2, <1>60, BlockStarts
  <2> QED BY <1>4, <1>6, <2>1, <2>2, <2>3
<1>8. ASSUME NEW j, j \in 1..L, g[j - 1] \in Streams, g[j - 1].d = st.d
      PROVE  g[j] = Stream(g[j - 1].d, Append(g[j - 1].s.text, fr[j]), g[j - 1].s.calls, g[j - 1].s.finish)
  <2>1. j \in 0..L /\ j - 1 \in 0..L /\ j + 1 \in 1..Len(es) /\ (j + 1) - 1 = j /\ (j - 1) + 1 = j
    BY <1>1, <1>4, <1>8
  <2>2. h[j + 1] = EventStep(p, h[(j + 1) - 1], es[j + 1])
    BY <2>1 DEF Follows
  <2>3. g[j] = h[j + 1] /\ g[j - 1] = h[j]
    BY <1>6, <2>1
  <2>4. PICK o, x : o = g[j - 1] /\ x = fr[j]
    OBVIOUS
  <2>5. g[j] = EventStep(p, o, DeltaOf(b, n, x))
    BY <1>4, <1>8, <2>1, <2>2, <2>3, <2>4
  <2>6. o \in Streams /\ o.d.finish = Silent /\ x \in STRING
    BY <1>8, <1>60, <1>61, <2>4
  <2>7. EventStep(p, o, DeltaOf(b, n, x)) = Stream(o.d, Append(o.s.text, x), o.s.calls, o.s.finish)
    BY <2>6, TextArrives
  <2> QED BY <2>4, <2>5, <2>7
<1>9. SoFar(p, Append(bs, b), g[L]) /\ \A j \in 0..L : Within(g[j], n)
  <2>1. SoFar(p, Append(bs, b), g[Len(b.fragments)]) /\ \A j \in 0..Len(b.fragments) : Within(g[j], Len(bs) + 1)
    BY <1>0, <1>1, <1>7, <1>8, TextBlockRun
  <2> QED BY <1>0, <1>1, <2>1
<1>10. Within(h[0], n)
  BY SoFarWithin
<1>11. ASSUME NEW j, j \in 0..(L + 1) PROVE Within(h[j], n)
  <2>1. CASE j = 0
    BY <1>10, <2>1
  <2>2. CASE j # 0
    <3>1. j - 1 \in 0..L /\ (j - 1) + 1 = j
      BY <1>11, <2>2
    <3> QED BY <1>6, <1>9, <3>1
  <2> QED BY <2>1, <2>2
<1>12. L \in 0..L
  OBVIOUS
<1> QED BY <1>4, <1>6, <1>9, <1>11, <1>12

WholeCallers == {"gemini", "ollama", "cohere"}

LEMMA OthersAre ==
    ASSUME NEW p, p \in WholeCallers
    PROVE  p \in Adapters /\ p \notin Blockwise
  BY DEF WholeCallers, Adapters, Blockwise

\* A chunk of several texts: the client hears the last of them.
LEMMA PackedTextBlock ==
    ASSUME NEW p, p \in WholeCallers, NEW bs, bs \in Seq(Blocks), NEW b, b \in Blocks, b.kind = "text", Packs(p, b),
           NEW n, n \in Numbers, n = Len(bs) + 1, NEW st, SoFar(p, bs, st), NEW h, h[0] = st,
           NEW es, es = EventsOf(p, b, n), Follows(p, h, es)
    PROVE  SoFar(p, Append(bs, b), h[Len(es)]) /\ \A j \in 0..Len(es) : Within(h[j], n)
<1>0. PICK fr : fr = b.fragments /\ fr \in Seq(STRING) /\ fr # <<>>
  BY BlockIs, Zenon DEF Packs, NoArguments
<1>1. p = "gemini" /\ b.packed /\ n \in Nat
  BY DEF Packs, Numbers
<1>2. Len(es) = 1 /\ es[1] = PartsOf(fr)
  <2>1. p \in Adapters /\ p \notin Blockwise
    BY OthersAre
  <2> QED BY <1>0, <1>1, <2>1, EventsAre
<1>3. st \in Streams
  BY DEF SoFar
<1>4. h[1] = EventStep(p, st, PartsOf(fr))
  <2>1. h[1] = EventStep(p, h[1 - 1], es[1])
    BY <1>2 DEF Follows
  <2> QED BY <1>2, <2>1
<1>5. PICK x, t : x = Last(fr) /\ t = Append(st.s.text, x)
  OBVIOUS
<1>6. h[1] = Stream(st.d, t, st.s.calls, st.s.finish)
  BY <1>0, <1>1, <1>3, <1>4, <1>5, GeminiParts
<1>7. st.d \in Decoders /\ st.s.text \in Seq(STRING) /\ st.s.calls \in Seq(Calls) /\ st.s.finish \in Reasons
  BY <1>3, StreamFields
<1>8. t \in Seq(STRING)
  BY <1>0, <1>5, <1>7, LastIn, AppendProperties
<1>9. PICK g : g = h[1]
  OBVIOUS
<1>10. g.d = st.d /\ g.s.calls = st.s.calls /\ g.s.finish = st.s.finish
  BY <1>6, <1>9, FieldsOfStream
<1>11. g \in Streams
  <2>1. g = [d |-> st.d, s |-> [text |-> t, calls |-> st.s.calls, finish |-> st.s.finish]]
    BY <1>6, <1>9, Zenon DEF Stream
  <2> QED BY <1>7, <1>8, <2>1 DEF Streams, Chunks
<1>12. PICK bs2 : bs2 = Append(bs, b)
  OBVIOUS
<1>13. SoFar(p, bs2, g)
  BY <1>1, <1>10, <1>11, <1>12, TextAdded
<1>14. Within(st, n) /\ Within(g, n)
  <2>1. PICK l \in Nat : l = Len(bs) /\ n = l + 1
    BY LenProperties
  <2>2. \A u \in st.d.tools : u.index \in 1..l
    BY <2>1 DEF SoFar
  <2>3. \A u \in st.d.tools : u.index \in 1..n
    BY <2>1, <2>2
  <2> QED BY <1>3, <1>10, <1>11, <2>3 DEF Within
<1>15. \A j \in 0..1 : j = 0 \/ j = 1
  OBVIOUS
<1> QED BY <1>2, <1>9, <1>12, <1>13, <1>14, <1>15

LEMMA OthersTextBlock ==
    ASSUME NEW p, p \in WholeCallers, NEW bs, bs \in Seq(Blocks), NEW b, b \in Blocks, b.kind = "text", ~Packs(p, b),
           NEW n, n \in Numbers, n = Len(bs) + 1, NEW st, SoFar(p, bs, st), NEW h, h[0] = st,
           NEW es, es = EventsOf(p, b, n), Follows(p, h, es)
    PROVE  SoFar(p, Append(bs, b), h[Len(es)]) /\ \A j \in 0..Len(es) : Within(h[j], n)
<1>0. PICK fr : fr = b.fragments
  OBVIOUS
<1>1. PICK L \in Nat : L = Len(fr)
  BY <1>0, BlockIs, LenProperties
<1>2. n \in Nat
  BY DEF Numbers
<1>3. p \in Adapters /\ p \notin Blockwise
  BY OthersAre
<1>4. Len(es) = L /\ \A j \in 1..L : es[j] = TextOf(fr[j])
  BY <1>0, <1>1, <1>2, <1>3, EventsAre
<1>61. \A j \in 1..L : fr[j] \in STRING
  <2>1. PICK T : T = STRING
    OBVIOUS
  <2>2. fr \in Seq(T)
    BY <1>0, <2>1, BlockIs
  <2>3. \A j \in 1..L : fr[j] \in T
    BY <1>1, <2>2, ElementOfSeq
  <2> QED BY <2>1, <2>3
<1>8. ASSUME NEW j, j \in 1..L, h[j - 1] \in Streams, h[j - 1].d = st.d
      PROVE  h[j] = Stream(h[j - 1].d, Append(h[j - 1].s.text, fr[j]), h[j - 1].s.calls, h[j - 1].s.finish)
  <2>1. j \in 1..Len(es)
    BY <1>4, <1>8
  <2>2. h[j] = EventStep(p, h[j - 1], es[j])
    BY <2>1 DEF Follows
  <2>4. PICK o, x : o = h[j - 1] /\ x = fr[j]
    OBVIOUS
  <2>5. h[j] = EventStep(p, o, TextOf(x))
    BY <1>4, <1>8, <2>2, <2>4
  <2>6. o \in Streams /\ x \in STRING /\ p \in {"gemini", "ollama", "cohere"}
    BY <1>8, <1>61, <2>4 DEF WholeCallers
  <2>7. EventStep(p, o, TextOf(x)) = Stream(o.d, Append(o.s.text, x), o.s.calls, o.s.finish)
    BY <2>6, OthersText
  <2> QED BY <2>4, <2>5, <2>7
<1>9. SoFar(p, Append(bs, b), h[Len(b.fragments)]) /\ \A j \in 0..Len(b.fragments) : Within(h[j], Len(bs) + 1)
  BY <1>0, <1>1, <1>8, TextBlockRun
<1> QED BY <1>0, <1>1, <1>4, <1>9

\* Ollama's and Cohere's calls are left out.
LEMMA CallLeftOut ==
    ASSUME NEW p, p \in {"ollama", "cohere"}, NEW bs, bs \in Seq(Blocks), NEW b, b \in Blocks, b.kind = "tool",
           NEW st, SoFar(p, bs, st), NEW bs2, bs2 = Append(bs, b)
    PROVE  SoFar(p, bs2, st)
<1>1. Talk(bs2) = Talk(bs)
  BY ToolGrows
<1>2. PICK l \in Nat : l = Len(bs)
  BY LenProperties
<1>3. Len(bs2) = l + 1
  BY <1>2, AppendProperties
<1>4. p \notin Blockwise \cup {"gemini"} /\ p # "gemini"
  BY DEF Blockwise
<1>5. st \in Streams /\ st.d.finish = Silent /\ st.s.finish = Silent
  BY DEF SoFar
<1>6. \A i \in DOMAIN st.s.calls : st.s.calls[i].index \in Nat /\ st.s.calls[i].index <= l
  <2>1. st.s.calls \in Seq(Calls)
    BY <1>5, StreamFields
  <2>2. PICK C : C = Calls
    OBVIOUS
  <2>3. \A i \in DOMAIN st.s.calls : st.s.calls[i] \in C
    BY <2>1, <2>2, ElementOfSeq, LenProperties
  <2>4. \A i \in DOMAIN st.s.calls : st.s.calls[i].index \in Nat
    BY <2>2, <2>3 DEF Calls
  <2>5. \A i \in DOMAIN st.s.calls : st.s.calls[i].index <= l
    BY <1>2, <1>4 DEF SoFar
  <2> QED BY <2>4, <2>5
<1>7. \A i \in DOMAIN st.s.calls : st.s.calls[i].index <= Len(bs2)
  BY <1>2, <1>3, <1>6
<1>8. \A t \in st.d.tools : t.index \in 1..l
  BY <1>2 DEF SoFar
<1>9. \A t \in st.d.tools : t.index \in 1..Len(bs2)
  BY <1>2, <1>3, <1>8
<1>10. Unpacked(p, bs2) => st.s.text = Talk(bs2)
  BY <1>1, UnpackedBefore, Zenon DEF SoFar
<1> QED BY <1>4, <1>5, <1>7, <1>9, <1>10, Zenon DEF SoFar

\* Gemini's calls are numbered as they come.
LEMMA CallNumbered ==
    ASSUME NEW p, p = "gemini", NEW bs, bs \in Seq(Blocks), NEW b, b \in Blocks, b.kind = "tool",
           NEW st, SoFar(p, bs, st), NEW bs2, bs2 = Append(bs, b), NEW g, g = EventStep(p, st, CallEvent(b))
    PROVE  SoFar(p, bs2, g)
<1>1. st \in Streams /\ st.d.finish = Silent /\ st.s.finish = Silent
  BY DEF SoFar
<1>2. PICK n \in Nat : n = st.d.next
  BY <1>1, StreamFields
<1>3. PICK calls : calls = st.s.calls
  OBVIOUS
<1>4. calls \in Seq(Calls)
  BY <1>1, <1>3, StreamFields
<1>5. PICK c : c = Piece(n, b.name, b.fragments)
  OBVIOUS
<1>6. c \in Calls /\ c.index = n /\ Mapped(Append(calls, c), AsOrder) = Append(Mapped(calls, AsOrder), Order[b])
  <2>1. c.index = n
    BY <1>5 DEF Piece
  <2> QED BY <1>4, <1>5, <2>1, PieceSeen
<1>7. \A i \in DOMAIN calls : calls[i].index \in Nat /\ calls[i].index < n
  <2>1. PICK C : C = Calls
    OBVIOUS
  <2>2. \A i \in DOMAIN calls : calls[i] \in C
    BY <1>4, <2>1, ElementOfSeq, LenProperties
  <2>3. \A i \in DOMAIN calls : calls[i].index \in Nat
    BY <2>1, <2>2 DEF Calls
  <2>4. \A i \in DOMAIN calls : calls[i].index < n
    BY <1>2, <1>3 DEF SoFar
  <2> QED BY <2>3, <2>4
<1>8. JoinCall(calls, c) = Append(calls, c)
  <2>1. \A i \in DOMAIN calls : calls[i].index # c.index
    BY <1>6, <1>7
  <2> QED BY <1>4, <1>6, <2>1, JoinNew
<1>9. g = Stream(Numbered(st.d), st.s.text, Append(calls, c), st.s.finish)
  BY <1>1, <1>2, <1>3, <1>5, <1>8, GeminiCall
<1>10. PICK d, a : d = Numbered(st.d) /\ a = Append(calls, c)
  OBVIOUS
<1>11. a \in Seq(Calls)
  BY <1>4, <1>6, <1>10, AppendProperties
<1>12. d \in Decoders /\ d.finish = Silent /\ d.next = n + 1 /\ d.tools = st.d.tools
  <2>1. st.d \in Decoders
    BY <1>1, StreamFields
  <2>2. PICK q : q = st.d
    OBVIOUS
  <2>3. d = [q EXCEPT !.next = @ + 1]
    BY <1>10, <2>2, Zenon DEF Numbered
  <2>4. q \in Decoders /\ q.finish = Silent /\ q.next = n
    BY <1>1, <1>2, <2>1, <2>2
  <2>5. d \in Decoders /\ d.finish = Silent /\ d.next = n + 1 /\ d.tools = q.tools
    BY <2>3, <2>4 DEF Decoders
  <2> QED BY <2>2, <2>5
<1>13. g.d = d /\ g.s.text = st.s.text /\ g.s.calls = a /\ g.s.finish = Silent
  <2>1. PICK x, f : x = st.s.text /\ f = st.s.finish
    OBVIOUS
  <2>2. g = Stream(d, x, a, f)
    BY <1>9, <1>10, <2>1, Zenon
  <2> QED BY <1>1, <2>1, <2>2, FieldsOfStream
<1>14. g \in Streams
  <2>1. st.s.text \in Seq(STRING) /\ st.s.finish \in Reasons
    BY <1>1, StreamFields
  <2>2. g = [d |-> d, s |-> [text |-> st.s.text, calls |-> a, finish |-> st.s.finish]]
    BY <1>9, <1>10, Zenon DEF Stream
  <2> QED BY <1>11, <1>12, <2>1, <2>2 DEF Streams, Chunks
<1>15. Talk(bs2) = Talk(bs) /\ Orders(bs2) = Append(Orders(bs), Order[b])
  BY ToolGrows
<1>16. Mapped(a, AsOrder) = Expected(p, bs2)
  <2>1. Mapped(calls, AsOrder) = Expected(p, bs)
    BY <1>3 DEF SoFar
  <2>2. Expected(p, bs) = Orders(bs) /\ Expected(p, bs2) = Orders(bs2)
    BY Zenon DEF Expected
  <2> QED BY <1>6, <1>10, <1>15, <2>1, <2>2, Zenon
<1>17. PICK k \in Nat : k = Len(calls) /\ DOMAIN calls = 1..k
  BY <1>4, LenProperties
<1>18. Len(a) = k + 1 /\ (\A i \in 1..k : a[i] = calls[i]) /\ a[k + 1] = c
  BY <1>4, <1>6, <1>10, <1>17, AppendProperties
<1>19. \A i \in DOMAIN a : a[i].index < d.next
  <2>1. DOMAIN a = 1..(k + 1)
    BY <1>11, <1>18, LenProperties
  <2>2. \A i \in 1..(k + 1) : i = k + 1 \/ i \in 1..k
    BY <1>17
  <2>3. \A i \in 1..k : a[i].index \in Nat /\ a[i].index < n
    BY <1>7, <1>17, <1>18
  <2>4. a[k + 1].index = n
    BY <1>6, <1>18
  <2> QED BY <1>2, <1>12, <2>1, <2>2, <2>3, <2>4
<1>20. \A t \in g.d.tools : t.index \in 1..Len(bs2)
  <2>1. PICK l \in Nat : l = Len(bs)
    BY LenProperties
  <2>2. Len(bs2) = l + 1
    BY <2>1, AppendProperties
  <2>3. \A t \in st.d.tools : t.index \in 1..l
    BY <2>1 DEF SoFar
  <2> QED BY <1>12, <1>13, <2>1, <2>2, <2>3
<1>21. Unpacked(p, bs2) => g.s.text = Talk(bs2)
  BY <1>13, <1>15, UnpackedBefore, Zenon DEF SoFar
<1> QED BY <1>12, <1>13, <1>14, <1>16, <1>19, <1>20, <1>21 DEF SoFar

LEMMA OthersToolBlock ==
    ASSUME NEW p, p \in WholeCallers, NEW bs, bs \in Seq(Blocks), NEW b, b \in Blocks, b.kind = "tool",
           NEW n, n \in Numbers, n = Len(bs) + 1, NEW st, SoFar(p, bs, st), NEW h, h[0] = st,
           NEW es, es = EventsOf(p, b, n), Follows(p, h, es)
    PROVE  SoFar(p, Append(bs, b), h[Len(es)]) /\ \A j \in 0..Len(es) : Within(h[j], n)
<1>1. p \in Adapters /\ p \notin Blockwise /\ n \in Nat
  BY OthersAre DEF Numbers
<1>2. Len(es) = 1 /\ es[1] = CallEvent(b)
  BY <1>1, EventsAre
<1>3. h[1] = EventStep(p, st, CallEvent(b))
  <2>1. 1 \in 1..Len(es) /\ 1 - 1 = 0
    BY <1>2
  <2>2. h[1] = EventStep(p, h[1 - 1], es[1])
    BY <2>1 DEF Follows
  <2> QED BY <1>2, <2>1, <2>2
<1>4. PICK bs2, g : bs2 = Append(bs, b) /\ g = h[1]
  OBVIOUS
<1>5. bs2 \in Seq(Blocks) /\ Len(bs2) = n
  BY <1>4, AppendProperties
<1>6. SoFar(p, bs2, g) /\ Within(g, n)
  <2>1. CASE p = "gemini"
    <3>1. SoFar(p, bs2, g)
      BY <1>3, <1>4, <2>1, CallNumbered
    <3>2. g \in Streams /\ \A t \in g.d.tools : t.index \in 1..n
      BY <1>5, <3>1 DEF SoFar
    <3> QED BY <3>1, <3>2 DEF Within
  <2>2. CASE p \in {"ollama", "cohere"}
    <3>1. st \in Streams
      BY DEF SoFar
    <3>2. g = st
      BY <1>3, <1>4, <2>2, <3>1, OthersCall
    <3>3. SoFar(p, bs2, st)
      BY <1>4, <2>2, CallLeftOut
    <3>4. Within(st, n)
      BY SoFarWithin
    <3> QED BY <3>2, <3>3, <3>4
  <2> QED BY <2>1, <2>2 DEF WholeCallers
<1>7. Within(h[0], n)
  BY SoFarWithin
<1>8. ASSUME NEW j, j \in 0..Len(es) PROVE Within(h[j], n)
  <2>0. 0..Len(es) = 0..1
    BY <1>2
  <2>1. j = 0 \/ j = 1
    BY <1>8, <2>0
  <2> QED BY <1>4, <1>6, <1>7, <2>1
<1> QED BY <1>2, <1>4, <1>6, <1>8

\* The events of one more block.
LEMMA BlockRun ==
    ASSUME NEW p, p \in Adapters, NEW bs, bs \in Seq(Blocks), NEW b, b \in Blocks,
           NEW n, n \in Numbers, n = Len(bs) + 1, NEW st, SoFar(p, bs, st), NEW h, h[0] = st,
           NEW es, es = EventsOf(p, b, n), Follows(p, h, es)
    PROVE  SoFar(p, Append(bs, b), h[Len(es)]) /\ \A j \in 0..Len(es) : Within(h[j], n)
<1>1. p \in Blockwise \/ p \in WholeCallers
  BY DEF Adapters, Blockwise, WholeCallers
<1>2. b.kind \in {"text", "tool"}
  BY BlockIs
<1>3. CASE p \in Blockwise /\ b.kind = "tool"
  BY <1>3, BlockwiseTool
<1>4. CASE p \in Blockwise /\ b.kind = "text"
  BY <1>4, BlockwiseText
<1>5. CASE p \in WholeCallers /\ b.kind = "tool"
  BY <1>5, OthersToolBlock
<1>6. CASE p \in WholeCallers /\ b.kind = "text"
  <2>1. CASE Packs(p, b)
    BY <1>6, <2>1, PackedTextBlock
  <2>2. CASE ~Packs(p, b)
    BY <1>6, <2>2, OthersTextBlock
  <2> QED BY <2>1, <2>2
<1> QED BY <1>1, <1>2, <1>3, <1>4, <1>5, <1>6

Beginning == [d |-> EmptyDecoder, s |-> NoChunk]

LEMMA NothingYet ==
    ASSUME NEW p, NEW none, none = <<>>
    PROVE  SoFar(p, none, Beginning) /\ Beginning \in Streams
<1>1. none \in Seq(Blocks) /\ none \in Seq(STRING) /\ none \in Seq(Calls) /\ Len(none) = 0 /\ DOMAIN none = {}
  BY EmptySeq
<1>2. Only(none, TextBlocks) = none /\ Only(none, ToolBlocks) = none /\ Only(none, WithArgs) = none
  BY OnlyNone, Zenon
<1>3. Mapped(none, Frags) = none /\ Mapped(none, Order) = none /\ Mapped(none, AsOrder) = none
  BY MappedNone, Zenon
<1>4. FlattenSeq(none) = none
  BY JoinNone, Zenon
<1>5. Talk(none) = none /\ Orders(none) = none
  BY <1>2, <1>3, <1>4, Zenon DEF Talk, Orders
<1>6. Expected(p, none) = none
  BY <1>2, <1>5, Zenon DEF Expected
<1>7. NoChunk = [text |-> none, calls |-> none, finish |-> Silent]
  BY Zenon DEF NoChunk
<1>8. PICK st : st = Beginning
  OBVIOUS
<1>9. st = [d |-> EmptyDecoder, s |-> [text |-> none, calls |-> none, finish |-> Silent]]
  BY <1>7, <1>8, Zenon DEF Beginning
<1>10. /\ st.d.finish = Silent /\ st.d.tools = {} /\ st.d.next = 0
       /\ st.s.text = none /\ st.s.calls = none /\ st.s.finish = Silent
  BY <1>9 DEF EmptyDecoder
<1>11. st \in Streams
  <2>1. EmptyDecoder \in Decoders
    BY DEF EmptyDecoder, Decoders, Reasons
  <2> QED BY <1>1, <1>9, <2>1 DEF Streams, Chunks, Reasons
<1>12. \A i \in DOMAIN st.s.calls : FALSE
  BY <1>1, <1>10
<1>13. Mapped(st.s.calls, AsOrder) = Expected(p, none) /\ st.s.text = Talk(none)
  BY <1>3, <1>5, <1>6, <1>10, Zenon
<1> QED BY <1>8, <1>10, <1>11, <1>12, <1>13 DEF SoFar

LEMMA WithinMore ==
    ASSUME NEW st, NEW n, n \in Nat, NEW N, N \in Nat, n <= N, Within(st, n)
    PROVE  Within(st, N)
  BY DEF Within

\* Where the blocks are in what the provider sends.
Placed(p, bs, w, P) ==
  /\ P \in [0..Len(bs) -> Nat] /\ P[0] = 0
  /\ \A n \in 0..Len(bs) : P[n] <= P[Len(bs)]
  /\ \A n \in 1..Len(bs) :
       /\ P[n] = P[n - 1] + Len(EventsOf(p, bs[n], n))
       /\ \A j \in 1..Len(EventsOf(p, bs[n], n)) : w[P[n - 1] + j] = EventsOf(p, bs[n], n)[j]

LEMMA WireIs ==
    ASSUME NEW p, p \in Adapters, NEW r, r.blocks \in Seq(Blocks), r.stop \in STRING
    PROVE  /\ wire(p, r) \in Seq(Events)
           /\ \E P : /\ Placed(p, r.blocks, wire(p, r), P)
                     /\ Len(wire(p, r)) = P[Len(r.blocks)] + 1
                     /\ wire(p, r)[P[Len(r.blocks)] + 1] = StopOf(r.stop)
<1>0. PICK bs, why, T : bs = r.blocks /\ why = r.stop /\ T = Events
  OBVIOUS
<1>1. PICK N \in Nat : N = Len(bs) /\ DOMAIN bs = 1..N
  BY <1>0, LenProperties
<1>2. PICK ss : ss = [i \in 1..N |-> EventsOf(p, bs[i], i)]
  OBVIOUS
<1>20. PICK Q : Q = Seq(T)
  OBVIOUS
<1>3. \A i \in 1..N : ss[i] = EventsOf(p, bs[i], i) /\ bs[i] \in Blocks /\ ss[i] \in Q
  <2>1. \A i \in 1..N : ss[i] = EventsOf(p, bs[i], i)
    BY <1>2
  <2>2. PICK B : B = Blocks
    OBVIOUS
  <2>3. \A i \in 1..N : bs[i] \in B
    BY <1>0, <1>1, <2>2, ElementOfSeq
  <2>4. ASSUME NEW i, i \in 1..N PROVE EventsOf(p, bs[i], i) \in Seq(Events)
    <3>1. i \in Nat /\ bs[i] \in Blocks
      BY <2>2, <2>3, <2>4
    <3>2. PICK c : c = bs[i]
      OBVIOUS
    <3>3. EventsOf(p, c, i) \in Seq(Events)
      BY <3>1, <3>2, EventsAre
    <3> QED BY <3>2, <3>3
  <2> QED BY <1>0, <1>20, <2>1, <2>2, <2>3, <2>4
<1>4. ss \in Seq(Q) /\ Len(ss) = N
  <2>1. ss = [i \in 1..N |-> ss[i]]
    BY <1>2
  <2> QED BY <1>1, <1>3, <2>1
<1>5. PICK J : J = FlattenSeq(ss)
  OBVIOUS
<1>6. J \in Seq(T)
  BY <1>4, <1>5, <1>20, JoinIn
<1>70. PICK P : JoinedAt(ss, J, P)
  <2>1. ss \in Seq(Seq(T))
    BY <1>4, <1>20
  <2>2. \E P : JoinedAt(ss, FlattenSeq(ss), P)
    BY <2>1, JoinPlaces
  <2> QED BY <1>5, <2>2
<1>7. /\ P \in [0..N -> Nat] /\ P[0] = 0 /\ P[N] = Len(J)
      /\ \A n \in 1..N : /\ P[n] = P[n - 1] + Len(ss[n])
                         /\ \A j \in 1..Len(ss[n]) : J[P[n - 1] + j] = ss[n][j]
  BY <1>4, <1>70 DEF JoinedAt
<1>8. PICK s : s = StopOf(why)
  OBVIOUS
<1>9. s \in T
  <2>1. why \in Reasons
    BY <1>0 DEF Reasons
  <2> QED BY <1>0, <1>8, <2>1, StopIn
<1>10. PICK w : w = wire(p, r)
  OBVIOUS
<1>11. w = Append(J, s)
  <2>1. w = J \o <<s>>
    <3>1. ss = [i \in DOMAIN r.blocks |-> EventsOf(p, r.blocks[i], i)]
      BY <1>0, <1>1, <1>2, Zenon
    <3>2. s = [type |-> "stop", reason |-> r.stop]
      BY <1>0, <1>8, Zenon DEF StopOf
    <3> QED BY <1>5, <1>10, <3>1, <3>2, Zenon DEF wire
  <2> QED BY <1>6, <1>9, <2>1, AppendIsConcat
<1>12. PICK k \in Nat : k = Len(J)
  BY <1>6, LenProperties
<1>13. w \in Seq(T) /\ Len(w) = k + 1 /\ (\A i \in 1..k : w[i] = J[i]) /\ w[k + 1] = s
  BY <1>6, <1>9, <1>11, <1>12, AppendProperties
<1>14. \A n \in 0..N : P[n] \in Nat /\ P[n] <= k
  <2> DEFINE S == {m \in 0..N : P[N - m] <= k}
  <2>1. 0 \in S
    BY <1>1, <1>7, <1>12
  <2>2. ASSUME NEW m \in 1..N, m - 1 \in S PROVE m \in S
    <3>1. N - (m - 1) \in 1..N /\ N - m \in 0..N /\ (N - (m - 1)) - 1 = N - m
      BY <1>1
    <3>2. Len(ss[N - (m - 1)]) \in Nat
      <4>1. ss[N - (m - 1)] \in Seq(T)
        BY <1>3, <1>20, <3>1
      <4> QED BY <4>1, LenProperties
    <3>3. P[N - (m - 1)] = P[N - m] + Len(ss[N - (m - 1)])
      BY <1>7, <3>1
    <3>4. P[N - (m - 1)] \in Nat /\ P[N - m] \in Nat
      BY <1>7, <3>1
    <3> QED BY <1>12, <2>2, <3>2, <3>3, <3>4
  <2>3. \A m \in 0..N : m \in S
    <3> HIDE DEF S
    <3> QED BY <1>1, <2>1, <2>2, ClimbTo
  <2>4. ASSUME NEW n \in 0..N PROVE P[n] \in Nat /\ P[n] <= k
    <3>1. N - n \in 0..N /\ N - (N - n) = n
      BY <1>1
    <3> QED BY <1>7, <2>3, <3>1
  <2> QED BY <2>4
<1>15. Placed(p, bs, w, P)
  <2>1. ASSUME NEW n, n \in 1..N
        PROVE  /\ P[n] = P[n - 1] + Len(EventsOf(p, bs[n], n))
               /\ \A j \in 1..Len(EventsOf(p, bs[n], n)) : w[P[n - 1] + j] = EventsOf(p, bs[n], n)[j]
    <3>1. PICK e : e = EventsOf(p, bs[n], n)
      OBVIOUS
    <3>2. ss[n] = e /\ e \in Seq(T)
      BY <1>3, <1>20, <2>1, <3>1
    <3>3. PICK l \in Nat : l = Len(e)
      BY <3>2, LenProperties
    <3>4. P[n] = P[n - 1] + l /\ \A j \in 1..l : J[P[n - 1] + j] = e[j]
      BY <1>7, <2>1, <3>2, <3>3
    <3>5. P[n] <= k /\ P[n] \in Nat /\ P[n - 1] \in Nat
      <4>1. n \in 0..N /\ n - 1 \in 0..N
        BY <1>1, <2>1
      <4> QED BY <1>14, <4>1
    <3>6. \A j \in 1..l : P[n - 1] + j \in 1..k
      BY <1>12, <3>4, <3>5
    <3>7. \A j \in 1..l : w[P[n - 1] + j] = e[j]
      BY <1>13, <3>4, <3>6
    <3> QED BY <3>1, <3>3, <3>4, <3>7
  <2> QED BY <1>1, <1>7, <1>12, <1>14, <2>1 DEF Placed
<1> QED BY <1>0, <1>1, <1>7, <1>8, <1>10, <1>12, <1>13, <1>15

LEMMA BlocksRun ==
    ASSUME NEW p, p \in Adapters, NEW bs, bs \in Seq(Blocks), NEW w, NEW P, Placed(p, bs, w, P),
           NEW f, f[0] = Beginning,
           \A i \in 1..P[Len(bs)] : f[i] = EventStep(p, f[i - 1], w[i])
    PROVE  /\ SoFar(p, bs, f[P[Len(bs)]])
           /\ \A i \in 0..P[Len(bs)] : Within(f[i], Len(bs))
<1>1. PICK N \in Nat : N = Len(bs)
  BY LenProperties
<1>2. /\ P \in [0..N -> Nat] /\ P[0] = 0 /\ \A n \in 0..N : P[n] <= P[N]
      /\ \A n \in 1..N :
           /\ P[n] = P[n - 1] + Len(EventsOf(p, bs[n], n))
           /\ \A j \in 1..Len(EventsOf(p, bs[n], n)) : w[P[n - 1] + j] = EventsOf(p, bs[n], n)[j]
  BY <1>1 DEF Placed
<1>3. \A i \in 1..P[N] : f[i] = EventStep(p, f[i - 1], w[i])
  BY <1>1
<1> DEFINE S == {n \in 0..N : SoFar(p, SubSeq(bs, 1, n), f[P[n]]) /\ \A i \in 0..P[n] : Within(f[i], N)}
<1>4. 0 \in S
  <2>1. PICK none : none = <<>>
    OBVIOUS
  <2>2. SubSeq(bs, 1, 0) = none
    BY <2>1, SubSeqEmpty
  <2>3. SoFar(p, none, f[0])
    BY <2>1, NothingYet
  <2>4. Within(f[0], N)
    <3>1. PICK st : st = f[0]
      OBVIOUS
    <3>2. none \in Seq(Blocks) /\ Len(none) = 0
      BY <2>1, EmptySeq
    <3>3. st \in Streams /\ \A t \in st.d.tools : t.index \in 1..0
      BY <2>3, <3>1, <3>2 DEF SoFar
    <3>4. Within(st, N)
      BY <3>3 DEF Within
    <3> QED BY <3>1, <3>4
  <2>5. P[0] = 0
    BY <1>2
  <2>6. \A i \in 0..P[0] : Within(f[i], N)
    <3>1. \A i \in 0..0 : i = 0
      OBVIOUS
    <3> QED BY <2>4, <2>5, <3>1
  <2>7. SoFar(p, SubSeq(bs, 1, 0), f[P[0]])
    BY <2>2, <2>3, <2>5
  <2> QED BY <1>1, <2>6, <2>7
<1>5. ASSUME NEW n \in 1..N, n - 1 \in S PROVE n \in S
  <2>1. n \in Numbers /\ n - 1 \in 0..N /\ n \in 0..N
    BY <1>1 DEF Numbers
  <2>2. PICK bs1, b : bs1 = SubSeq(bs, 1, n - 1) /\ b = bs[n]
    OBVIOUS
  <2>3. bs1 \in Seq(Blocks) /\ b \in Blocks /\ SubSeq(bs, 1, n) = Append(bs1, b)
    BY <1>1, <2>2, FrontMore
  <2>4. Len(bs1) = n - 1
    <3>1. PICK m \in Nat : m = n - 1
      BY <2>1
    <3>2. m <= Len(bs)
      BY <1>1, <3>1
    <3>3. Len(SubSeq(bs, 1, m)) = IF 1 <= m THEN m - 1 + 1 ELSE 0
      BY <1>1, <3>1, <3>2, SubSeqProperties
    <3> QED BY <2>2, <3>1, <3>3
  <2>5. PICK es : es = EventsOf(p, b, n)
    OBVIOUS
  <2>6. PICK L \in Nat : L = Len(es)
    <3>1. es \in Seq(Events)
      BY <2>1, <2>3, <2>5, EventsAre
    <3> QED BY <3>1, LenProperties
  <2>7. PICK o \in Nat : o = P[n - 1]
    BY <1>2, <2>1
  <2>8. P[n] = o + L /\ P[n] <= P[N] /\ P[N] \in Nat /\ \A j \in 1..L : w[o + j] = es[j]
    <3>1. EventsOf(p, bs[n], n) = es
      BY <2>2, <2>5
    <3>2. P[n] = P[n - 1] + Len(EventsOf(p, bs[n], n))
      BY <1>2
    <3>3. \A j \in 1..Len(EventsOf(p, bs[n], n)) : w[P[n - 1] + j] = EventsOf(p, bs[n], n)[j]
      BY <1>2
    <3>4. P[n] <= P[N] /\ P[N] \in Nat
      <4>1. N \in 0..N
        BY <1>1
      <4> QED BY <1>2, <2>1, <4>1
    <3>5. \A j \in 1..L : w[P[n - 1] + j] = es[j]
      BY <2>6, <3>1, <3>3
    <3> QED BY <2>6, <2>7, <3>1, <3>2, <3>4, <3>5
  <2>9. PICK h : h = [j \in 0..L |-> f[o + j]]
    OBVIOUS
  <2>10. \A j \in 0..L : h[j] = f[o + j]
    BY <2>9
  <2>11. SoFar(p, bs1, f[o]) /\ \A i \in 0..o : Within(f[i], N)
    BY <1>5, <2>2, <2>7
  <2>12. PICK st : st = f[o]
    OBVIOUS
  <2>13. h[0] = st
    <3>1. 0 \in 0..L /\ o + 0 = o
      OBVIOUS
    <3> QED BY <2>10, <2>12, <3>1
  <2>14. Follows(p, h, es)
    <3>1. ASSUME NEW j, j \in 1..L PROVE h[j] = EventStep(p, h[j - 1], es[j])
      <4>1. j \in 0..L /\ j - 1 \in 0..L /\ o + j \in 1..P[N] /\ (o + j) - 1 = o + (j - 1)
        BY <2>8, <3>1
      <4>2. f[o + j] = EventStep(p, f[(o + j) - 1], w[o + j])
        BY <1>3, <4>1
      <4>3. h[j] = f[o + j] /\ h[j - 1] = f[o + (j - 1)] /\ w[o + j] = es[j]
        BY <2>8, <2>10, <3>1, <4>1
      <4> QED BY <4>1, <4>2, <4>3
    <3> QED BY <2>6, <3>1 DEF Follows
  <2>15. SoFar(p, Append(bs1, b), h[Len(es)]) /\ \A j \in 0..Len(es) : Within(h[j], n)
    <3>1. n = Len(bs1) + 1 /\ SoFar(p, bs1, st)
      BY <2>1, <2>4, <2>11, <2>12
    <3> QED BY <2>1, <2>3, <2>5, <2>13, <2>14, <3>1, BlockRun
  <2>16. SoFar(p, SubSeq(bs, 1, n), f[P[n]])
    <3>1. L \in 0..L
      OBVIOUS
    <3> QED BY <2>3, <2>6, <2>8, <2>10, <2>15, <3>1
  <2>17. ASSUME NEW i, i \in 0..P[n] PROVE Within(f[i], N)
    <3>1. CASE i \in 0..o
      BY <2>11, <3>1
    <3>2. CASE i \notin 0..o
      <4>1. i - o \in 0..L /\ o + (i - o) = i
        BY <2>8, <2>17, <3>2
      <4>2. Within(h[i - o], n)
        BY <2>6, <2>15, <4>1
      <4>3. h[i - o] = f[i]
        BY <2>10, <4>1
      <4>4. PICK g : g = f[i]
        OBVIOUS
      <4>5. Within(g, n) /\ n \in Nat /\ n <= N
        BY <4>2, <4>3, <4>4
      <4>6. Within(g, N)
        BY <1>1, <4>5, WithinMore
      <4> QED BY <4>4, <4>6
    <3> QED BY <3>1, <3>2
  <2> QED BY <2>1, <2>16, <2>17
<1>6. \A n \in 0..N : n \in S
  <2> HIDE DEF S
  <2> QED BY <1>1, <1>4, <1>5, ClimbTo
<1>7. N \in 0..N
  OBVIOUS
<1>8. SubSeq(bs, 1, N) = bs
  BY <1>1, WholeSeq
<1> QED BY <1>1, <1>6, <1>7, <1>8

\* The stream of the whole answer.
Followed(p, r, f) == f[0] = Beginning /\ \A i \in 1..Len(wire(p, r)) : f[i] = EventStep(p, f[i - 1], wire(p, r)[i])

SaidEnd(p, why) == IF p \in Blockwise THEN Silent ELSE IF p = "cohere" THEN why ELSE said_stop(why)

Complete(p, r, st) ==
  /\ st \in Streams /\ (Unpacked(p, r.blocks) => st.s.text = Talk(r.blocks))
  /\ p \in Blockwise \cup {"gemini"} => Mapped(st.s.calls, AsOrder) = Expected(p, r.blocks)
  /\ st.s.finish = SaidEnd(p, r.stop)

LEMMA StopComes ==
    ASSUME NEW p, p \in Adapters, NEW r, r.blocks \in Seq(Blocks), NEW why, why \in STRING, r.stop = why, NEW st, SoFar(p, r.blocks, st),
           NEW g, g = EventStep(p, st, StopOf(why))
    PROVE  Complete(p, r, g) /\ g.d.tools = st.d.tools
<1>1. PICK bs : bs = r.blocks
  OBVIOUS
<1>2. st \in Streams /\ st.s.finish = Silent /\ (Unpacked(p, bs) => st.s.text = Talk(bs))
  BY <1>1 DEF SoFar
<1>3. p \in Blockwise \cup {"gemini"} => Mapped(st.s.calls, AsOrder) = Expected(p, bs)
  BY <1>1, Zenon DEF SoFar
<1>4. why \in Reasons /\ said_stop(why) \in Reasons
  BY DEF Reasons, said_stop
<1>5. st.d \in Decoders /\ st.s \in Chunks /\ st.s.text \in Seq(STRING) /\ st.s.calls \in Seq(Calls)
  BY <1>2, StreamFields
<1>6. CASE p \in Blockwise
  <2>1. PICK d : d = Closed(st.d, why)
    OBVIOUS
  <2>2. g = [d |-> d, s |-> st.s]
    <3>1. EventStep(p, st, StopOf(why)) = [d |-> Closed(st.d, why), s |-> st.s]
      BY <1>2, <1>4, <1>6, BlockwiseEnds
    <3> QED BY <2>1, <3>1, Zenon
  <2>3. d \in Decoders /\ d.tools = st.d.tools
    BY <1>4, <1>5, <2>1 DEF Closed, Decoders
  <2>4. g.s = st.s /\ g.d = d /\ g \in Streams
    BY <1>5, <2>2, <2>3 DEF Streams
  <2>5. g.s.finish = SaidEnd(p, r.stop)
    BY <1>2, <1>6, <2>4 DEF SaidEnd
  <2> QED BY <1>1, <1>2, <1>3, <2>3, <2>4, <2>5, Zenon DEF Complete
<1>7. CASE p \in WholeCallers
  <2>1. PICK fin : fin = IF p = "cohere" THEN why ELSE said_stop(why)
    OBVIOUS
  <2>2. g = Stream(st.d, st.s.text, st.s.calls, fin)
    <3>1. p \in {"gemini", "ollama", "cohere"}
      BY <1>7 DEF WholeCallers
    <3> QED BY <1>2, <1>4, <2>1, <3>1, OthersEnd, Zenon
  <2>3. g.d = st.d /\ g.s.text = st.s.text /\ g.s.calls = st.s.calls /\ g.s.finish = fin
    BY <2>2, FieldsOfStream
  <2>4. g \in Streams
    <3>1. g = [d |-> st.d, s |-> [text |-> st.s.text, calls |-> st.s.calls, finish |-> fin]]
      BY <2>2, Zenon DEF Stream
    <3>2. fin \in Reasons
      BY <1>4, <2>1
    <3> QED BY <1>5, <3>1, <3>2 DEF Streams, Chunks
  <2>5. fin = SaidEnd(p, r.stop)
    <3>1. p \notin Blockwise
      BY <1>7, OthersAre
    <3> QED BY <2>1, <3>1, Zenon DEF SaidEnd
  <2> QED BY <1>1, <1>2, <1>3, <2>3, <2>4, <2>5, Zenon DEF Complete
<1>8. p \in Blockwise \/ p \in WholeCallers
  BY DEF Adapters, Blockwise, WholeCallers
<1> QED BY <1>6, <1>7, <1>8

LEMMA WholeRun ==
    ASSUME NEW p, p \in Adapters, NEW r, r.blocks \in Seq(Blocks), r.stop \in STRING, NEW f, Followed(p, r, f)
    PROVE  /\ Complete(p, r, f[Len(wire(p, r))])
           /\ \A i \in 0..Len(wire(p, r)) : Within(f[i], Len(r.blocks))
<1>1. PICK bs, why, w : bs = r.blocks /\ why = r.stop /\ w = wire(p, r)
  OBVIOUS
<1>2. PICK P : Placed(p, bs, w, P) /\ Len(w) = P[Len(bs)] + 1 /\ w[P[Len(bs)] + 1] = StopOf(why)
  BY <1>1, WireIs
<1>3. PICK N \in Nat : N = Len(bs)
  BY <1>1, LenProperties
<1>4. PICK K \in Nat : K = P[N]
  <2>1. N \in 0..N
    BY <1>3
  <2> QED BY <1>2, <1>3, <2>1 DEF Placed
<1>5. Len(w) = K + 1 /\ w[K + 1] = StopOf(why)
  BY <1>2, <1>3, <1>4
<1>6. f[0] = Beginning /\ \A i \in 1..(K + 1) : f[i] = EventStep(p, f[i - 1], w[i])
  BY <1>1, <1>5 DEF Followed
<1>7. SoFar(p, bs, f[K]) /\ \A i \in 0..K : Within(f[i], N)
  <2>1. \A i \in 1..P[Len(bs)] : f[i] = EventStep(p, f[i - 1], w[i])
    BY <1>3, <1>4, <1>6
  <2>2. bs \in Seq(Blocks)
    BY <1>1
  <2>3. /\ SoFar(p, bs, f[P[Len(bs)]])
        /\ \A i \in 0..P[Len(bs)] : Within(f[i], Len(bs))
    BY <1>2, <1>6, <2>1, <2>2, BlocksRun
  <2> QED BY <1>3, <1>4, <2>3
<1>8. PICK st, g : st = f[K] /\ g = f[K + 1]
  OBVIOUS
<1>9. g = EventStep(p, st, StopOf(why))
  <2>1. K + 1 \in 1..(K + 1) /\ (K + 1) - 1 = K
    OBVIOUS
  <2>2. f[K + 1] = EventStep(p, f[(K + 1) - 1], w[K + 1])
    BY <1>6, <2>1
  <2> QED BY <1>5, <1>8, <2>1, <2>2
<1>10. Complete(p, r, g) /\ g.d.tools = st.d.tools
  BY <1>1, <1>7, <1>8, <1>9, StopComes
<1>11. Within(g, N)
  <2>1. K \in 0..K
    OBVIOUS
  <2>2. Within(st, N)
    BY <1>7, <1>8, <2>1
  <2> QED BY <1>10, <2>2 DEF Within, Complete
<1>12. ASSUME NEW i, i \in 0..(K + 1) PROVE Within(f[i], N)
  <2>1. CASE i = K + 1
    BY <1>8, <1>11, <2>1
  <2>2. CASE i # K + 1
    <3>1. i \in 0..K
      BY <1>12, <2>2
    <3> QED BY <1>7, <3>1
  <2> QED BY <2>1, <2>2
<1> QED BY <1>1, <1>3, <1>5, <1>8, <1>10, <1>12

\* There is a run of the whole stream.
LEMMA RunExists ==
    ASSUME NEW p, p \in Adapters, NEW r, r.blocks \in Seq(Blocks), r.stop \in STRING
    PROVE  \E f : Followed(p, r, f)
<1>1. PICK w : w = wire(p, r)
  OBVIOUS
<1>2. PICK L \in Nat : L = Len(w)
  BY <1>1, WireIs, LenProperties
<1> DEFINE S == {n \in 0..L : \E f : f[0] = Beginning /\ \A i \in 1..n : f[i] = EventStep(p, f[i - 1], w[i])}
<1>3. 0 \in S
  <2>1. PICK f : f = [i \in 0..0 |-> Beginning]
    OBVIOUS
  <2>2. f[0] = Beginning /\ \A i \in 1..0 : f[i] = EventStep(p, f[i - 1], w[i])
    BY <2>1
  <2> QED BY <1>2, <2>2
<1>4. ASSUME NEW n \in 1..L, n - 1 \in S PROVE n \in S
  <2>1. PICK f : f[0] = Beginning /\ \A i \in 1..(n - 1) : f[i] = EventStep(p, f[i - 1], w[i])
    BY <1>4
  <2>2. PICK g : g = [i \in 0..n |-> IF i = n THEN EventStep(p, f[n - 1], w[n]) ELSE f[i]]
    OBVIOUS
  <2>3. (\A i \in 0..(n - 1) : g[i] = f[i]) /\ g[n] = EventStep(p, f[n - 1], w[n])
    BY <2>2
  <2>4. g[0] = Beginning
    <3>1. 0 \in 0..(n - 1)
      OBVIOUS
    <3> QED BY <2>1, <2>3, <3>1
  <2>5. ASSUME NEW i, i \in 1..n PROVE g[i] = EventStep(p, g[i - 1], w[i])
    <3>1. i - 1 \in 0..(n - 1)
      BY <2>5
    <3>2. g[i - 1] = f[i - 1]
      BY <2>3, <3>1
    <3>3. CASE i = n
      BY <2>3, <3>2, <3>3
    <3>4. CASE i # n
      <4>1. i \in 1..(n - 1) /\ i \in 0..(n - 1)
        BY <2>5, <3>4
      <4> QED BY <2>1, <2>3, <3>2, <4>1
    <3> QED BY <3>3, <3>4
  <2> QED BY <1>2, <2>4, <2>5
<1>5. \A n \in 0..L : n \in S
  <2> HIDE DEF S
  <2> QED BY <1>2, <1>3, <1>4, ClimbTo
<1>6. L \in 0..L
  BY <1>2
<1>7. PICK f : f[0] = Beginning /\ \A i \in 1..L : f[i] = EventStep(p, f[i - 1], w[i])
  BY <1>5, <1>6
<1> QED BY <1>1, <1>2, <1>7 DEF Followed

\* The whole answer in terms of the blocks.
LEMMA WholeIs ==
    ASSUME NEW r, r.blocks \in Seq(Blocks)
    PROVE  anthropic_response(r) = [text |-> Talk(r.blocks), calls |-> Orders(r.blocks), finish |-> r.stop]
<1>1. PICK bs : bs = r.blocks
  OBVIOUS
<1>2. PICK v, u : v = OfKind(bs, "text") /\ u = OfKind(bs, "tool")
  OBVIOUS
<1>3. v = Only(bs, TextBlocks) /\ u = Only(bs, ToolBlocks)
  BY <1>2, Zenon DEF OfKind, TextBlocks, ToolBlocks
<1>4. v \in Seq(Blocks) /\ u \in Seq(Blocks)
  BY <1>1, <1>3, OnlyIn
<1>5. PICK m, k : m \in Nat /\ k \in Nat /\ DOMAIN v = 1..m /\ DOMAIN u = 1..k
  BY <1>4, LenProperties
<1>6. (\A i \in 1..m : v[i] \in Blocks) /\ \A i \in 1..k : u[i] \in Blocks
  <2>1. PICK B : B = Blocks
    OBVIOUS
  <2>2. (\A i \in 1..m : v[i] \in B) /\ \A i \in 1..k : u[i] \in B
    BY <1>4, <1>5, <2>1, ElementOfSeq, LenProperties
  <2> QED BY <2>1, <2>2
<1>7. \A i \in 1..m : Frags[v[i]] = v[i].fragments
  <2> SUFFICES ASSUME NEW i \in 1..m PROVE Frags[v[i]] = v[i].fragments
    OBVIOUS
  <2>1. PICK b : b = v[i]
    OBVIOUS
  <2>2. b \in Blocks
    BY <1>6, <2>1
  <2>3. Frags[b] = b.fragments
    BY <2>2, BlockIs
  <2> QED BY <2>1, <2>3
<1>8. \A i \in 1..k : Order[u[i]] = [name |-> u[i].name, args |-> u[i].fragments]
  <2> SUFFICES ASSUME NEW i \in 1..k PROVE Order[u[i]] = [name |-> u[i].name, args |-> u[i].fragments]
    OBVIOUS
  <2>1. PICK b : b = u[i]
    OBVIOUS
  <2>2. b \in Blocks
    BY <1>6, <2>1
  <2>3. Order[b] = OrderOf(b.name, b.fragments)
    BY <2>2, BlockIs
  <2> QED BY <2>1, <2>3, Zenon DEF OrderOf
<1>9. [i \in DOMAIN v |-> v[i].fragments] = Mapped(v, Frags)
  BY <1>5, <1>7 DEF Mapped
<1>10. [i \in DOMAIN u |-> [name |-> u[i].name, args |-> u[i].fragments]] = Mapped(u, Order)
  BY <1>5, <1>8 DEF Mapped
<1> QED BY <1>1, <1>2, <1>3, <1>9, <1>10, Zenon DEF anthropic_response, Talk, Orders

\* The end of it, when there are no calls.
LEMMA EndIs ==
    ASSUME NEW p, p \in Adapters, NEW r, r.blocks \in Seq(Blocks), r.stop \in STRING
    PROVE  /\ response_to_openai(p, r).text = Talk(r.blocks)
           /\ response_to_openai(p, r).calls = Orders(r.blocks)
           /\ response_to_openai(p, r).calls = <<>> => SaidEnd(p, r.stop) \in {Silent, response_to_openai(p, r).finish}
<1>1. PICK o, none : o = Orders(r.blocks) /\ none = <<>>
  OBVIOUS
<1>2. PICK a : a = anthropic_response(r)
  OBVIOUS
<1>3. a.text = Talk(r.blocks) /\ a.calls = o /\ a.finish = r.stop /\ a = [text |-> Talk(r.blocks), calls |-> o, finish |-> r.stop]
  <2>1. a = [text |-> Talk(r.blocks), calls |-> o, finish |-> r.stop]
    BY <1>1, <1>2, WholeIs
  <2> QED BY <2>1
<1>4. CASE p \in Blockwise
  <2>1. response_to_openai(p, r) = a
    BY <1>2, <1>4 DEF response_to_openai, converse_response, Blockwise
  <2> QED BY <1>1, <1>3, <1>4, <2>1 DEF SaidEnd
<1>5. CASE p = "gemini"
  <2>1. response_to_openai(p, r) =
          [a EXCEPT !.finish = IF a.calls # <<>> /\ said_stop(@) = "stop" THEN "tool_calls" ELSE said_stop(@)]
    <3>1. response_to_openai(p, r) = gemini_response(r)
      BY <1>5 DEF response_to_openai
    <3> QED BY <1>2, <3>1, Zenon DEF gemini_response
  <2>2. PICK fin : fin = IF a.calls # <<>> /\ said_stop(a.finish) = "stop" THEN "tool_calls" ELSE said_stop(a.finish)
    OBVIOUS
  <2>3. PICK z : z = response_to_openai(p, r)
    OBVIOUS
  <2>4. z = [a EXCEPT !.finish = fin]
    BY <2>1, <2>2, <2>3
  <2>5. z.text = a.text /\ z.calls = a.calls /\ z.finish = fin
    BY <1>3, <2>4
  <2>6. z.calls = <<>> => z.finish = said_stop(r.stop)
    BY <1>3, <2>2, <2>5, Zenon
  <2>7. SaidEnd(p, r.stop) = said_stop(r.stop)
    BY <1>5 DEF SaidEnd, Blockwise
  <2> QED BY <1>1, <1>3, <2>3, <2>5, <2>6, <2>7, Zenon
<1>6. CASE p = "ollama"
  <2>1. response_to_openai(p, r) = [a EXCEPT !.finish = said_stop(@)]
    <3>1. response_to_openai(p, r) = ollama_response(r)
      BY <1>6 DEF response_to_openai
    <3> QED BY <1>2, <3>1, Zenon DEF ollama_response
  <2>2. PICK fin, z : fin = said_stop(a.finish) /\ z = response_to_openai(p, r)
    OBVIOUS
  <2>4. z = [a EXCEPT !.finish = fin]
    BY <2>1, <2>2
  <2>5. z.text = a.text /\ z.calls = a.calls /\ z.finish = fin
    BY <1>3, <2>4
  <2>7. SaidEnd(p, r.stop) = said_stop(r.stop)
    BY <1>6 DEF SaidEnd, Blockwise
  <2> QED BY <1>1, <1>3, <2>2, <2>5, <2>7, Zenon
<1>7. CASE p = "cohere"
  <2>1. response_to_openai(p, r) = [a EXCEPT !.finish = IF a.calls # <<>> THEN "tool_calls" ELSE @]
    <3>1. response_to_openai(p, r) = cohere_response(r)
      BY <1>7 DEF response_to_openai
    <3> QED BY <1>2, <3>1, Zenon DEF cohere_response
  <2>2. PICK fin : fin = IF a.calls # <<>> THEN "tool_calls" ELSE a.finish
    OBVIOUS
  <2>3. PICK z : z = response_to_openai(p, r)
    OBVIOUS
  <2>4. z = [a EXCEPT !.finish = fin]
    BY <2>1, <2>2, <2>3
  <2>5. z.text = a.text /\ z.calls = a.calls /\ z.finish = fin
    BY <1>3, <2>4
  <2>6. z.calls = <<>> => z.finish = r.stop
    BY <1>3, <2>2, <2>5, Zenon
  <2>7. SaidEnd(p, r.stop) = r.stop
    BY <1>7 DEF SaidEnd, Blockwise
  <2> QED BY <1>1, <1>3, <2>3, <2>5, <2>6, <2>7, Zenon
<1> QED BY <1>4, <1>5, <1>6, <1>7 DEF Adapters, Blockwise

\* The calls that are told.
LEMMA ToldIs ==
    ASSUME NEW p, NEW bs, bs \in Seq(Blocks), NEW o, o = Orders(bs)
    PROVE  Only(o, {c \in Range(o) : p = "gemini" \/ c.args # <<>>}) = Expected(p, bs)
<1>1. o \in Seq(CallOrders)
  BY OrdersIn
<1>2. PICK none : none = <<>>
  OBVIOUS
<1>3. PICK S : S = {c \in Range(o) : p = "gemini" \/ c.args # none}
  OBVIOUS
<1>4. \A e \in Range(o) : e \in CallOrders
  <2>1. PICK n \in Nat : n = Len(o) /\ DOMAIN o = 1..n
    BY <1>1, LenProperties
  <2>2. PICK B : B = CallOrders
    OBVIOUS
  <2>3. \A i \in 1..n : o[i] \in B
    BY <1>1, <2>1, <2>2, ElementOfSeq
  <2> QED BY <2>1, <2>2, <2>3 DEF Range
<1>5. CASE p = "gemini"
  <2>1. \A e \in Range(o) : e \in S <=> e \in CallOrders
    BY <1>3, <1>4, <1>5
  <2>2. Only(o, S) = Only(o, CallOrders)
    BY <1>1, <2>1, OnlySame
  <2>3. Only(o, CallOrders) = o
    BY <1>1, OnlyAll
  <2> QED BY <1>2, <1>3, <1>5, <2>2, <2>3, Zenon DEF Expected
<1>6. CASE p # "gemini"
  <2>1. \A e \in Range(o) : e \in S <=> e \in WithArgs
    <3>1. WithArgs = {c \in CallOrders : c.args # none}
      BY <1>2, Zenon DEF WithArgs
    <3> QED BY <1>3, <1>4, <1>6, <3>1
  <2>2. Only(o, S) = Only(o, WithArgs)
    BY <1>1, <2>1, OnlySame
  <2> QED BY <1>2, <1>3, <1>6, <2>2, Zenon DEF Expected
<1> QED BY <1>5, <1>6

\* The calls that the client has.
LEMMA HeardIs ==
    ASSUME NEW calls, calls \in Seq(Calls)
    PROVE  [i \in DOMAIN calls |-> [name |-> calls[i].name, args |-> calls[i].args]] = Mapped(calls, AsOrder)
<1>1. PICK n \in Nat : DOMAIN calls = 1..n
  BY LenProperties
<1>2. \A i \in 1..n : calls[i] \in Calls
  <2>1. PICK B : B = Calls
    OBVIOUS
  <2>2. \A i \in 1..n : calls[i] \in B
    BY <1>1, <2>1, ElementOfSeq, LenProperties
  <2> QED BY <2>1, <2>2
<1>3. \A i \in 1..n : AsOrder[calls[i]] = [name |-> calls[i].name, args |-> calls[i].args]
  <2> SUFFICES ASSUME NEW i \in 1..n PROVE AsOrder[calls[i]] = [name |-> calls[i].name, args |-> calls[i].args]
    OBVIOUS
  <2>1. PICK c : c = calls[i]
    OBVIOUS
  <2>2. c \in Calls
    BY <1>2, <2>1
  <2>3. AsOrder[c] = OrderOf(c.name, c.args)
    BY <2>2 DEF AsOrder
  <2> QED BY <2>1, <2>3, Zenon DEF OrderOf
<1> QED BY <1>1, <1>3 DEF Mapped

Remaining(p, r, es, q) ==
  /\ es \in Seq(Events) /\ q + Len(es) = Len(wire(p, r))
  /\ \A i \in 1..Len(es) : es[i] = wire(p, r)[q + i]
RunOf(p, r) == CHOOSE f : Followed(p, r, f)

PsInv ==
  /\ adapter \in Adapters /\ conversation \in Conversations /\ reply \in Replies
  /\ \E q \in Nat : Remaining(adapter, reply, events, q) /\ [d |-> decoder, s |-> streamed] = RunOf(adapter, reply)[q]

LEMMA ReplyIs ==
    ASSUME reply \in Replies
    PROVE  reply.blocks \in Seq(Blocks) /\ reply.stop \in STRING
  BY ConversationAssumption

LEMMA RunIs ==
    ASSUME NEW p, p \in Adapters, NEW r, r.blocks \in Seq(Blocks), r.stop \in STRING
    PROVE  Followed(p, r, RunOf(p, r))
  BY RunExists DEF RunOf

LEMMA PsStarts == ASSUME PsInit PROVE PsInv
<1>1. adapter \in Adapters /\ conversation \in Conversations /\ reply \in Replies
  BY DEF PsInit
<1>2. reply.blocks \in Seq(Blocks) /\ reply.stop \in STRING
  BY <1>1, ReplyIs
<1>3. events = wire(adapter, reply) /\ events \in Seq(Events)
  <2>1. wire(adapter, reply) \in Seq(Events)
    BY <1>1, <1>2, WireIs
  <2> QED BY <2>1 DEF PsInit
<1>4. Remaining(adapter, reply, events, 0)
  <2>1. PICK l \in Nat : l = Len(events)
    BY <1>3, LenProperties
  <2>2. \A i \in 1..l : 0 + i = i
    OBVIOUS
  <2> QED BY <1>3, <2>1, <2>2 DEF Remaining
<1>5. [d |-> decoder, s |-> streamed] = RunOf(adapter, reply)[0]
  <2>1. Followed(adapter, reply, RunOf(adapter, reply))
    BY <1>1, <1>2, RunIs
  <2>2. RunOf(adapter, reply)[0] = Beginning
    BY <2>1 DEF Followed
  <2> QED BY <2>2 DEF PsInit, Beginning
<1> QED BY <1>1, <1>4, <1>5 DEF PsInv

LEMMA RemainingLess ==
    ASSUME NEW p, NEW r, NEW es, NEW q, q \in Nat, Remaining(p, r, es, q), es # <<>>, NEW W, W \in Nat, W = Len(wire(p, r))
    PROVE  Remaining(p, r, Tail(es), q + 1) /\ q + 1 \in 1..W /\ Head(es) = wire(p, r)[q + 1]
<1>1. PICK w, T : w = wire(p, r) /\ T = Events
  OBVIOUS
<1>2. es \in Seq(T) /\ q + Len(es) = W /\ \A i \in 1..Len(es) : es[i] = w[q + i]
  BY <1>1 DEF Remaining
<1>3. PICK l \in Nat : l = Len(es)
  BY <1>2, LenProperties
<1>4. l # 0
  BY <1>2, <1>3, EmptySeq
<1>5. PICK t : t = Tail(es)
  OBVIOUS
<1>6. t \in Seq(T) /\ Len(t) = l - 1 /\ (\A i \in 1..(l - 1) : t[i] = es[i + 1]) /\ Head(es) = es[1]
  BY <1>2, <1>3, <1>4, <1>5, HeadTailProperties
<1>7. es[1] = w[q + 1]
  BY <1>2, <1>3, <1>4
<1>8. \A i \in 1..(l - 1) : t[i] = w[(q + 1) + i]
  <2>1. ASSUME NEW i, i \in 1..(l - 1) PROVE t[i] = w[(q + 1) + i]
    <3>1. i + 1 \in 1..l /\ q + (i + 1) = (q + 1) + i
      BY <1>3, <2>1
    <3>2. es[i + 1] = w[q + (i + 1)]
      BY <1>2, <1>3, <3>1
    <3> QED BY <1>6, <2>1, <3>1, <3>2
  <2> QED BY <2>1
<1>9. Remaining(p, r, t, q + 1)
  <2>1. (q + 1) + (l - 1) = W
    BY <1>2, <1>3
  <2> QED BY <1>1, <1>6, <1>8, <2>1 DEF Remaining
<1>10. q + 1 \in 1..W
  BY <1>2, <1>3, <1>4
<1> QED BY <1>1, <1>5, <1>6, <1>7, <1>9, <1>10

LEMMA PsStep == ASSUME PsInv, [PsNext]_psVars PROVE PsInv'
<1>1. CASE UNCHANGED psVars
  BY <1>1 DEF psVars, PsInv
<1>2. CASE NextEvent
  <2>1. /\ events # <<>> /\ events' = Tail(events)
        /\ adapter' = adapter /\ conversation' = conversation /\ reply' = reply
    BY <1>2 DEF NextEvent
  <2>2. adapter \in Adapters /\ conversation \in Conversations /\ reply \in Replies
    BY DEF PsInv
  <2>3. reply.blocks \in Seq(Blocks) /\ reply.stop \in STRING
    BY <2>2, ReplyIs
  <2>4. PICK q \in Nat : Remaining(adapter, reply, events, q) /\ [d |-> decoder, s |-> streamed] = RunOf(adapter, reply)[q]
    BY DEF PsInv
  <2>5. PICK W \in Nat : W = Len(wire(adapter, reply))
    BY <2>2, <2>3, WireIs, LenProperties
  <2>6. /\ Remaining(adapter, reply, Tail(events), q + 1) /\ q + 1 \in 1..W
        /\ Head(events) = wire(adapter, reply)[q + 1]
    BY <2>1, <2>4, <2>5, RemainingLess
  <2>7. PICK f : f = RunOf(adapter, reply)
    OBVIOUS
  <2>8. f[q + 1] = EventStep(adapter, f[q], Head(events))
    <3>1. Followed(adapter, reply, f)
      BY <2>2, <2>3, <2>7, RunIs
    <3>2. \A i \in 1..W : f[i] = EventStep(adapter, f[i - 1], wire(adapter, reply)[i])
      BY <2>5, <3>1 DEF Followed
    <3>3. (q + 1) - 1 = q
      OBVIOUS
    <3> QED BY <2>6, <3>2, <3>3
  <2>9. PICK e, st : e = Head(events) /\ st = f[q]
    OBVIOUS
  <2>10. st.d = decoder /\ st.s = streamed
    <3>1. st = [d |-> decoder, s |-> streamed]
      BY <2>4, <2>7, <2>9
    <3> QED BY <3>1
  <2>11. /\ decoder' = translate(adapter, decoder, e).decoder
         /\ streamed' = IF translate(adapter, decoder, e).emit
                        THEN Joined(streamed, translate(adapter, decoder, e).chunk) ELSE streamed
    BY <1>2, <2>9, Zenon DEF NextEvent
  <2>12. [d |-> decoder', s |-> streamed'] = EventStep(adapter, st, e)
    BY <2>10, <2>11, Zenon DEF EventStep
  <2>13. [d |-> decoder', s |-> streamed'] = f[q + 1]
    BY <2>8, <2>9, <2>12
  <2>14. q + 1 \in Nat
    OBVIOUS
  <2> QED BY <2>1, <2>2, <2>6, <2>7, <2>13, <2>14 DEF PsInv
<1> QED BY <1>1, <1>2 DEF PsNext

LEMMA PsSound == ASSUME PsInv PROVE StreamAddsUp /\ PsTypeOK /\ ToolTrafficKept
<1>1. adapter \in Adapters /\ conversation \in Conversations /\ reply \in Replies
  BY DEF PsInv
<1>2. reply.blocks \in Seq(Blocks) /\ reply.stop \in STRING
  BY <1>1, ReplyIs
<1>3. PICK q \in Nat : Remaining(adapter, reply, events, q) /\ [d |-> decoder, s |-> streamed] = RunOf(adapter, reply)[q]
  BY DEF PsInv
<1>4. PICK W \in Nat : W = Len(wire(adapter, reply))
  BY <1>1, <1>2, WireIs, LenProperties
<1>5. PICK f : f = RunOf(adapter, reply)
  OBVIOUS
<1>6. Followed(adapter, reply, f)
  BY <1>1, <1>2, <1>5, RunIs
<1>7. Complete(adapter, reply, f[W]) /\ \A i \in 0..W : Within(f[i], Len(reply.blocks))
  BY <1>1, <1>2, <1>4, <1>6, WholeRun
<1>8. PICK l \in Nat : l = Len(events) /\ q + l = W
  <2>1. events \in Seq(Events) /\ q + Len(events) = W
    BY <1>3, <1>4 DEF Remaining
  <2> QED BY <2>1, LenProperties
<1>9. PICK st : st = f[q]
  OBVIOUS
<1>10. st.d = decoder /\ st.s = streamed
  <2>1. st = [d |-> decoder, s |-> streamed]
    BY <1>3, <1>5, <1>9
  <2> QED BY <2>1
<1>11. PsTypeOK
  <2>1. Within(st, Len(reply.blocks))
    <3>1. q \in 0..W
      BY <1>8
    <3> QED BY <1>7, <1>9, <3>1
  <2>2. PICK N \in Nat : N = Len(reply.blocks) /\ DOMAIN reply.blocks = 1..N
    BY <1>2, LenProperties
  <2>3. st \in Streams /\ \A t \in st.d.tools : t.index \in 1..N
    BY <2>1, <2>2 DEF Within
  <2>4. decoder.next \in Nat /\ streamed \in Chunks
    BY <1>10, <2>3, StreamFields
  <2>5. DOMAIN streamed = {"text", "calls", "finish"}
    BY <2>4 DEF Chunks
  <2> QED BY <1>1, <1>10, <2>2, <2>3, <2>4, <2>5 DEF PsTypeOK
<1>12. StreamAddsUp
  <2> SUFFICES ASSUME events = <<>> PROVE StreamAddsUp
    BY Zenon DEF StreamAddsUp
  <2>1. l = 0
    <3>1. Len(<<>>) = 0
      OBVIOUS
    <3> QED BY <1>8, <3>1, Zenon
  <2>2. q = W
    BY <1>8, <2>1
  <2>3. Complete(adapter, reply, st)
    BY <1>7, <1>9, <2>2
  <2>4. PICK p, r, z : p = adapter /\ r = reply /\ z = response_to_openai(p, r)
    OBVIOUS
  <2>5. PICK calls : calls = streamed.calls
    OBVIOUS
  <2>6. calls \in Seq(Calls)
    BY <1>10, <2>3, <2>5, StreamFields DEF Complete
  <2>7. /\ z.text = Talk(r.blocks) /\ z.calls = Orders(r.blocks)
        /\ z.calls = <<>> => SaidEnd(p, r.stop) \in {Silent, z.finish}
    BY <1>1, <1>2, <2>4, EndIs
  <2>8. /\ (p = "gemini" => \A i \in DOMAIN r.blocks : ~r.blocks[i].packed) => streamed.text = z.text
        /\ z.calls = <<>> => streamed.finish \in {Silent, z.finish}
    BY <1>10, <2>3, <2>4, <2>7, Zenon DEF Complete, Unpacked
  <2>9. p \in {"anthropic", "bedrock", "gemini"} =>
          [i \in DOMAIN calls |-> [name |-> calls[i].name, args |-> calls[i].args]]
            = Only(z.calls, {c \in Range(z.calls) : p = "gemini" \/ c.args # <<>>})
    <3>1. SUFFICES ASSUME p \in {"anthropic", "bedrock", "gemini"}
          PROVE  [i \in DOMAIN calls |-> [name |-> calls[i].name, args |-> calls[i].args]]
                   = Only(z.calls, {c \in Range(z.calls) : p = "gemini" \/ c.args # <<>>})
      OBVIOUS
    <3>2. p \in Blockwise \cup {"gemini"}
      BY <3>1 DEF Blockwise
    <3>3. Mapped(calls, AsOrder) = Expected(p, r.blocks)
      BY <1>10, <2>3, <2>4, <2>5, <3>2, Zenon DEF Complete
    <3>4. Only(z.calls, {c \in Range(z.calls) : p = "gemini" \/ c.args # <<>>}) = Expected(p, r.blocks)
      <4>1. PICK bs : bs = r.blocks
        OBVIOUS
      <4>2. bs \in Seq(Blocks) /\ z.calls = Orders(bs)
        BY <1>2, <2>4, <2>7, <4>1
      <4> QED BY <4>1, <4>2, ToldIs, Zenon
    <3>5. [i \in DOMAIN calls |-> [name |-> calls[i].name, args |-> calls[i].args]] = Mapped(calls, AsOrder)
      BY <2>6, HeardIs, Zenon
    <3> QED BY <3>3, <3>4, <3>5, Zenon
  <2> QED BY <2>4, <2>5, <2>8, <2>9, Zenon DEF StreamAddsUp
<1>13. ToolTrafficKept
  <2>1. conversation \in Seq(ProperChats)
    BY <1>1, ConversationAssumption DEF ProperChats
  <2>2. adapter \in Adapters
    BY <1>1
  <2> QED BY <2>1, <2>2, TrafficIs
<1> QED BY <1>11, <1>12, <1>13

-----------------------------------------------------------------------------
(* The components beside one another.                                      *)

ComputedInv == TpInv /\ PsInv /\ TmInv /\ BeInv

LEMMA ComputedStart == ToolsInit => ComputedInv
  BY TpInit0, PsStarts, TmInit0, BeInit0 DEF ToolsInit, ComputedInv

\* One component moves, or none.
LEMMA ComputedMoves ==
    ASSUME [ToolsNext]_bundleVars
    PROVE  /\ [ApplyStep \/ HookFails]_tpVars /\ [PsNext]_psVars
           /\ [NextRow]_tmVars /\ [BeNext]_beVars
  BY DEF ToolsNext, bundleVars

LEMMA ComputedStep == ComputedInv /\ [ToolsNext]_bundleVars => ComputedInv'
  BY ComputedMoves, TpStep, PsStep, TmStep, BeStep DEF ComputedInv

LEMMA ComputedInvariant == ToolsSpec => []ComputedInv
<1> QED BY ComputedStart, ComputedStep, PTL DEF ToolsSpec

\* What is computed is what its definition says: transforms keep the conversation and put
\* system messages in front of it; a stream adds up to the answer that the provider would
\* have given whole (but for the text of Gemini's chunks with several texts), and every call
\* and result reaches the provider (but for Ollama, whose adapter drops them), for any
\* conversation and answer; a benchmark's frontier decides; and the metrics of texts are
\* those of the definitions, for any texts.
THEOREM ComputedCorrect == ToolsSpec => []ComputedAsDefined
<1>1. ComputedInv => ComputedAsDefined
  BY TpSound, PsSound, FrontierIs, TmSound, OverlapIs DEF ComputedInv, ComputedAsDefined
<1> QED BY <1>1, ComputedInvariant, PTL

LEMMA ClientTyped == ClientInv => TypeOK
<1> SUFFICES ASSUME ClientTypes, LockInv, PipesInv PROVE TypeOK
  BY DEF ClientInv
<1>1. PICK k \in Nat : k = Cardinality(Spawning)
  BY ProcsFinite
<1>2. spawned \in Nat /\ spawned + k <= MaxProcs /\ process \in 0..spawned
  BY <1>1 DEF ClientTypes
<1>3. MaxProcs \in Nat
  BY McpAssumption
<1>4. spawned \in 0..MaxProcs /\ process \in Procs \cup {NoProcess}
  BY <1>2, <1>3 DEF Procs, NoProcess
<1>5. \A p \in Procs : pipe[p] \in Seq(1..nextId)
  BY Zenon DEF PipesInv
<1>6. queue \in Seq(Callers)
  BY DEF LockInv
<1> QED BY <1>4, <1>5, <1>6, Zenon DEF ClientTypes, TypeOK

LEMMA RegistryTyped == RegistryInv => McTypeOK
<1> SUFFICES ASSUME RegistryInv PROVE McTypeOK
  OBVIOUS
<1>1. PICK k \in Nat : k = Cardinality(Holders)
  BY HoldersFinite
<1>2. connections \in Nat /\ replaced \in Nat
  BY <1>1 DEF RegistryInv
<1>3. DOMAIN server = ServerNames
  BY DEF RegistryInv
<1> QED BY <1>2, <1>3, Zenon DEF RegistryInv, McTypeOK

LEMMA AgentsTyped == AgentsInv => AgTypeOK
  BY DEF AgentsInv, AgTypeOK, Clients, Invoking, Checking

LEMMA PluginsTyped == PluginsInv => PmTypeOK
  BY DEF PluginsInv, PmTypeOK

\* The components of MCTools keep their types.
THEOREM ToolTypes == ToolsSpec => []TypesOK
<1>1. ToolsInv /\ ContentInv /\ ComputedInv => TypesOK
  BY ClientTyped, RegistryTyped, AgentsTyped, PluginsTyped, TpSound, PsSound, TmSound,
     PhSound, PgSound, BeSound, ErrSound, SrSound
     DEF ToolsInv, ContentInv, ComputedInv, TypesOK
<1> QED BY <1>1, ToolsInvariant, ContentInvariant, ComputedInvariant, PTL
=============================================================================
