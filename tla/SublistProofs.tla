---------------------------- MODULE SublistProofs ----------------------------
(***************************************************************************)
(* What the operators of Sublists return, for every list.  The library's   *)
(* induction theorems take an operator as their parameter, which the       *)
(* provers at hand cannot instantiate; induction is stated here over a set *)
(* of numbers instead, from the well-foundedness of < on Nat.              *)
(***************************************************************************)
EXTENDS Sublists, WellFoundedInduction, TLAPS

\* A set of numbers that is not empty has a least element.
LEMMA LeastNumber ==
    ASSUME NEW T \in SUBSET Nat, T # {}
    PROVE  \E n \in T : \A m \in T : n <= m
<1> DEFINE R == OpToRel(<, Nat)
<1>1. IsWellFoundedOn(R, Nat)
    BY NatLessThanWellFounded
<1> HIDE DEF R
<1>2. PICK n \in T : \A m \in T : <<m, n>> \notin R
    BY <1>1, WFMin
<1>3. \A m \in T : <<m, n>> \in R <=> m < n
    BY DEF R, OpToRel
<1>4. n \in Nat /\ \A m \in T : m \in Nat /\ ~ (m < n)
    BY <1>2, <1>3
<1> QED BY <1>4

\* Induction: a set that has 0 and the successor of each of its numbers.
LEMMA SetInduction ==
    ASSUME NEW T, 0 \in T, \A n \in Nat : n \in T => n + 1 \in T
    PROVE  Nat \subseteq T
<1> SUFFICES ASSUME Nat \ T # {} PROVE FALSE
    OBVIOUS
<1>1. PICK n \in Nat \ T : \A m \in Nat \ T : n <= m
    BY LeastNumber
<1>2. n # 0 /\ n - 1 \in Nat
    BY <1>1
<1>3. n - 1 \in T
    BY <1>1, <1>2
<1> QED BY <1>3, <1>2

\* Min chooses the least number.
LEMMA MinIsLeast ==
    ASSUME NEW T \in SUBSET Nat, T # {}
    PROVE  Min(T) \in T /\ \A m \in T : Min(T) <= m
BY LeastNumber DEF Min

\* Of some things with numbers one has the least number.
LEMMA LeastOf ==
    ASSUME NEW T, T # {}, NEW h \in [T -> Nat]
    PROVE  \E x \in T : \A y \in T : h[x] <= h[y]
<1>1. {h[x] : x \in T} # {} /\ {h[x] : x \in T} \in SUBSET Nat
    OBVIOUS
<1>2. PICK n \in {h[x] : x \in T} : \A m \in {h[x] : x \in T} : n <= m
    BY <1>1, LeastNumber
<1> QED BY <1>2

-----------------------------------------------------------------------------
(* Lists of lists *)

\* f[n] is the concatenation of the first n lists.
FirstLists(f, ss, n) ==
    f = [i \in 1..n |-> IF i = 1 THEN ss[i] ELSE f[i - 1] \o ss[i]]

\* FlattenSeq is a recursive function: that there is such a function.
LEMMA FirstListsExist ==
    ASSUME NEW ss, NEW n \in Nat
    PROVE  \E f : FirstLists(f, ss, n)
<1> DEFINE T == {k \in Nat : \E f : FirstLists(f, ss, k)}
<1>1. 0 \in T
  <2>1. FirstLists([i \in 1..0 |-> ss], ss, 0)
      BY DEF FirstLists
  <2> QED BY <2>1
<1>2. ASSUME NEW k \in Nat, k \in T PROVE k + 1 \in T
  <2>1. PICK f : FirstLists(f, ss, k)
      BY <1>2
  <2> DEFINE g == [i \in 1..(k + 1) |->
                     IF i \in 1..k THEN f[i] ELSE IF i = 1 THEN ss[i] ELSE f[i - 1] \o ss[i]]
  <2>2. \A i \in 1..(k + 1) : g[i] = IF i = 1 THEN ss[i] ELSE g[i - 1] \o ss[i]
    <3> TAKE i \in 1..(k + 1)
    <3>1. CASE i \in 1..k
      <4>1. f[i] = IF i = 1 THEN ss[i] ELSE f[i - 1] \o ss[i]
          BY <2>1, <3>1 DEF FirstLists
      <4>2. i # 1 => i - 1 \in 1..k /\ i - 1 \in 1..(k + 1)
          BY <3>1
      <4> QED BY <3>1, <4>1, <4>2
    <3>2. CASE i = k + 1
      <4>1. i \notin 1..k /\ (i # 1 => i - 1 \in 1..k /\ i - 1 \in 1..(k + 1))
          BY <3>2
      <4> QED BY <4>1
    <3> QED BY <3>1, <3>2
  <2>3. FirstLists(g, ss, k + 1)
      BY <2>2 DEF FirstLists
  <2> QED BY <2>3
<1> HIDE DEF T
<1>3. Nat \subseteq T
    BY <1>1, <1>2, SetInduction
<1> QED BY <1>3 DEF T

LEMMA FirstListsStep ==
    ASSUME NEW f, NEW ss, NEW n \in Nat, FirstLists(f, ss, n)
    PROVE  \A i \in 1..n : f[i] = IF i = 1 THEN ss[i] ELSE f[i - 1] \o ss[i]
BY DEF FirstLists

LEMMA FlattenUnfolds ==
    ASSUME NEW ss, Len(ss) \in Nat, Len(ss) # 0
    PROVE  \E f : FirstLists(f, ss, Len(ss)) /\ FlattenSeq(ss) = f[Len(ss)]
<1>1. \E f : f = [i \in 1..Len(ss) |-> IF i = 1 THEN ss[i] ELSE f[i - 1] \o ss[i]]
    BY FirstListsExist DEF FirstLists
<1> QED BY <1>1 DEF FlattenSeq, FirstLists

(* Every element of the concatenation comes from one place of one list,    *)
(* and every place of every list gives one element of it: block and offset *)
(* are a bijection.                                                        *)
Placed(s, ss, n, blk, off) ==
    /\ blk \in [1..Len(s) -> 1..n]
    /\ off \in [1..Len(s) -> Nat]
    /\ \A i \in 1..Len(s) : off[i] \in 1..Len(ss[blk[i]]) /\ s[i] = ss[blk[i]][off[i]]
    /\ \A i, j \in 1..Len(s) : blk[i] = blk[j] /\ off[i] = off[j] => i = j
    /\ \A b \in 1..n : \A o \in 1..Len(ss[b]) : \E i \in 1..Len(s) : blk[i] = b /\ off[i] = o

LEMMA PlacedNext ==
    ASSUME NEW S, NEW ss \in Seq(Seq(S)), NEW n \in Nat, n + 1 \in 1..Len(ss),
           NEW s \in Seq(S), NEW blk, NEW off, Placed(s, ss, n, blk, off)
    PROVE  \E blk2, off2 : Placed(s \o ss[n + 1], ss, n + 1, blk2, off2)
<1> DEFINE t == ss[n + 1]
           u == s \o t
           blk2 == [i \in 1..Len(u) |-> IF i <= Len(s) THEN blk[i] ELSE n + 1]
           off2 == [i \in 1..Len(u) |-> IF i <= Len(s) THEN off[i] ELSE i - Len(s)]
<1>1. t \in Seq(S) /\ Len(t) \in Nat /\ Len(s) \in Nat
    OBVIOUS
<1>2. u \in Seq(S) /\ Len(u) = Len(s) + Len(t)
    BY <1>1
<1>3. \A i \in 1..Len(u) : u[i] = IF i <= Len(s) THEN s[i] ELSE t[i - Len(s)]
    BY <1>1, <1>2
<1>4. \A i \in 1..Len(u) : i <= Len(s) => i \in 1..Len(s) /\ blk[i] \in 1..n /\ off[i] \in Nat
    BY <1>1, <1>2 DEF Placed
<1>5. \A i \in 1..Len(u) : ~(i <= Len(s)) => i - Len(s) \in 1..Len(t)
    BY <1>1, <1>2
<1>6. t = ss[n + 1]
    OBVIOUS
<1> HIDE DEF t, u
<1>7. blk2 \in [1..Len(u) -> 1..(n + 1)] /\ off2 \in [1..Len(u) -> Nat]
  <2>1. \A i \in 1..Len(u) : blk2[i] \in 1..(n + 1) /\ off2[i] \in Nat
      BY <1>1, <1>2, <1>4, <1>5
  <2> QED BY <2>1
<1>8. \A i \in 1..Len(u) : off2[i] \in 1..Len(ss[blk2[i]]) /\ u[i] = ss[blk2[i]][off2[i]]
    BY <1>1, <1>2, <1>3, <1>4, <1>5, <1>6 DEF Placed
<1>9. \A i, j \in 1..Len(u) : blk2[i] = blk2[j] /\ off2[i] = off2[j] => i = j
  <2> SUFFICES ASSUME NEW i \in 1..Len(u), NEW j \in 1..Len(u),
                      blk2[i] = blk2[j], off2[i] = off2[j]
               PROVE  i = j
      OBVIOUS
  <2>1. CASE i <= Len(s) /\ j <= Len(s)
      BY <2>1, <1>4 DEF Placed
  <2>2. CASE ~(i <= Len(s)) /\ ~(j <= Len(s))
      BY <2>2, <1>1, <1>2
  <2>3. CASE (i <= Len(s)) # (j <= Len(s))
      BY <2>3, <1>4
  <2> QED BY <2>1, <2>2, <2>3, <1>1, <1>2
<1>10. ASSUME NEW b \in 1..(n + 1), NEW o \in 1..Len(ss[b])
       PROVE  \E i \in 1..Len(u) : blk2[i] = b /\ off2[i] = o
  <2>1. CASE b \in 1..n
    <3>1. PICK i \in 1..Len(s) : blk[i] = b /\ off[i] = o
        BY <2>1, <1>10 DEF Placed
    <3>2. i \in 1..Len(u) /\ i <= Len(s)
        BY <1>1, <1>2
    <3> QED BY <3>1, <3>2
  <2>2. CASE b = n + 1
    <3>1. o \in 1..Len(t)
        BY <2>2, <1>10, <1>6
    <3>2. Len(s) + o \in 1..Len(u) /\ ~(Len(s) + o <= Len(s)) /\ Len(s) + o - Len(s) = o
        BY <3>1, <1>1, <1>2
    <3> QED BY <3>2, <2>2
  <2> QED BY <2>1, <2>2
<1>11. Placed(u, ss, n + 1, blk2, off2)
  <2> HIDE DEF blk2, off2
  <2> QED BY <1>7, <1>8, <1>9, <1>10 DEF Placed
<1> QED BY <1>11 DEF u, t

LEMMA FlattenPlaces ==
    ASSUME NEW S, NEW ss \in Seq(Seq(S))
    PROVE  /\ FlattenSeq(ss) \in Seq(S)
           /\ \E blk, off : Placed(FlattenSeq(ss), ss, Len(ss), blk, off)
<1>1. CASE Len(ss) = 0
  <2>1. ss = <<>> /\ FlattenSeq(ss) = <<>>
      BY <1>1 DEF FlattenSeq
  <2>2. Placed(<<>>, ss, 0, <<>>, <<>>)
      BY <2>1 DEF Placed
  <2>3. \E blk, off : Placed(<<>>, ss, 0, blk, off)
      BY <2>2
  <2>4. <<>> \in Seq(S)
      OBVIOUS
  <2>5. FlattenSeq(ss) \in Seq(S)
      BY <2>1, <2>4
  <2>6. \E blk, off : Placed(FlattenSeq(ss), ss, Len(ss), blk, off)
      BY <2>1, <2>3, <1>1, Zenon
  <2> QED BY <2>5, <2>6
<1>2. CASE Len(ss) # 0
  <2>1. PICK f : FirstLists(f, ss, Len(ss)) /\ FlattenSeq(ss) = f[Len(ss)]
      BY <1>2, FlattenUnfolds
  <2> DEFINE T == {n \in Nat : n + 1 \in 1..Len(ss) =>
                     /\ f[n + 1] \in Seq(S)
                     /\ \E blk, off : Placed(f[n + 1], ss, n + 1, blk, off)}
  <2>2. 0 \in T
    <3>1. f[1] = ss[1] /\ 1 \in 1..Len(ss) /\ ss[1] \in Seq(S)
        BY <2>1, <1>2 DEF FirstLists
    <3>2. Placed(ss[1], ss, 1, [i \in 1..Len(ss[1]) |-> 1], [i \in 1..Len(ss[1]) |-> i])
        BY <3>1 DEF Placed
    <3> QED BY <3>1, <3>2
  <2>3. ASSUME NEW n \in Nat, n \in T PROVE n + 1 \in T
    <3> SUFFICES ASSUME n + 1 + 1 \in 1..Len(ss)
                 PROVE  /\ f[n + 1 + 1] \in Seq(S)
                        /\ \E blk, off : Placed(f[n + 1 + 1], ss, n + 1 + 1, blk, off)
        OBVIOUS
    <3>1. n + 1 \in 1..Len(ss)
        OBVIOUS
    <3>2. PICK blk, off : Placed(f[n + 1], ss, n + 1, blk, off)
        BY <3>1, <2>3
    <3>3. f[n + 1] \in Seq(S)
        BY <3>1, <2>3
    <3>4. f[n + 1 + 1] = f[n + 1] \o ss[n + 1 + 1]
      <4>1. Len(ss) \in Nat
          OBVIOUS
      <4>2. \A i \in 1..Len(ss) : f[i] = IF i = 1 THEN ss[i] ELSE f[i - 1] \o ss[i]
          BY <2>1, <4>1, FirstListsStep
      <4>3. f[n + 1 + 1] = IF n + 1 + 1 = 1 THEN ss[n + 1 + 1]
                           ELSE f[n + 1 + 1 - 1] \o ss[n + 1 + 1]
          BY <4>2
      <4>4. n + 1 + 1 # 1 /\ n + 1 + 1 - 1 = n + 1
          OBVIOUS
      <4> QED BY <4>3, <4>4
    <3>5. ss[n + 1 + 1] \in Seq(S)
        OBVIOUS
    <3>6. \E blk2, off2 : Placed(f[n + 1] \o ss[n + 1 + 1], ss, n + 1 + 1, blk2, off2)
        BY <3>2, <3>3, n + 1 \in Nat, PlacedNext
    <3> QED BY <3>3, <3>4, <3>5, <3>6
  <2> HIDE DEF T
  <2>4. Len(ss) - 1 \in Nat /\ Len(ss) - 1 + 1 = Len(ss) /\ Len(ss) \in 1..Len(ss)
      BY <1>2
  <2>5. Len(ss) - 1 \in T
      BY <2>2, <2>3, <2>4, SetInduction
  <2> QED BY <2>1, <2>4, <2>5 DEF T
<1> QED BY <1>1, <1>2

LEMMA ListIn ==
    ASSUME NEW S, NEW s \in Seq(S)
    PROVE  /\ DOMAIN s = 1..Len(s) /\ Len(s) \in Nat
           /\ ToSet(s) \subseteq S /\ s \in Seq(ToSet(s))
           /\ \A k \in DOMAIN s : s[k] \in S /\ s[k] \in ToSet(s)
BY DEF ToSet

LEMMA FunctionIsList ==
    ASSUME NEW s, NEW n \in Nat, s = [k \in 1..n |-> s[k]]
    PROVE  s \in Seq(ToSet(s)) /\ DOMAIN s = 1..n
<1>1. DOMAIN s = 1..n
    OBVIOUS
<1>2. s \in [1..n -> ToSet(s)]
    BY <1>1 DEF ToSet
<1>3. s \in Seq(ToSet(s))
    BY <1>2
<1> QED BY <1>1, <1>3

LEMMA FlattenToSet ==
    ASSUME NEW S, NEW ss \in Seq(Seq(S))
    PROVE  /\ FlattenSeq(ss) \in Seq(S)
           /\ ToSet(FlattenSeq(ss)) = UNION {ToSet(ss[b]) : b \in DOMAIN ss}
<1> DEFINE F == FlattenSeq(ss)
<1>1. F \in Seq(S)
    BY FlattenPlaces
<1>2. PICK blk, off : Placed(F, ss, Len(ss), blk, off)
    BY FlattenPlaces
<1> HIDE DEF F
<1>3. DOMAIN ss = 1..Len(ss) /\ DOMAIN F = 1..Len(F)
    BY <1>1
<1>4. \A b \in DOMAIN ss : DOMAIN ss[b] = 1..Len(ss[b])
    OBVIOUS
<1>5. ASSUME NEW x \in ToSet(F) PROVE x \in UNION {ToSet(ss[b]) : b \in DOMAIN ss}
  <2>1. PICK i \in 1..Len(F) : x = F[i]
      BY <1>3 DEF ToSet
  <2>2. blk[i] \in DOMAIN ss /\ off[i] \in DOMAIN ss[blk[i]] /\ x = ss[blk[i]][off[i]]
      BY <1>2, <1>3, <1>4, <2>1 DEF Placed
  <2> QED BY <2>2 DEF ToSet
<1>6. ASSUME NEW b \in DOMAIN ss, NEW x \in ToSet(ss[b]) PROVE x \in ToSet(F)
  <2>1. PICK o \in 1..Len(ss[b]) : x = ss[b][o]
      BY <1>4 DEF ToSet
  <2>2. PICK i \in 1..Len(F) : blk[i] = b /\ off[i] = o
      BY <1>2, <1>3 DEF Placed
  <2>3. x = F[i] /\ i \in DOMAIN F
      BY <1>2, <1>3, <2>1, <2>2 DEF Placed
  <2> QED BY <2>3 DEF ToSet
<1>7. ToSet(F) = UNION {ToSet(ss[b]) : b \in DOMAIN ss}
    BY <1>5, <1>6
<1> QED BY <1>1, <1>7 DEF F

LEMMA ShortList ==
    ASSUME NEW S, NEW s \in Seq(S), Len(s) <= 1
    PROVE  Len(s) \in {0, 1} /\ (Len(s) = 0 <=> s = <<>>)
<1>1. Len(s) \in Nat /\ (Len(s) = 0 <=> s = <<>>)
    OBVIOUS
<1>2. \A n \in Nat : n <= 1 => n \in {0, 1}
    OBVIOUS
<1> QED BY <1>1, <1>2, Zenon

LEMMA LongerList ==
    ASSUME NEW S, NEW s \in Seq(S), NEW e \in Seq(S), NEW m \in Nat,
           Len(s) <= m, Len(e) <= 1
    PROVE  /\ s \o e \in Seq(S) /\ Len(s \o e) <= m + 1
           /\ Len(s \o e) = m + 1 <=> Len(s) = m /\ e # <<>>
<1>1. Len(e) \in {0, 1} /\ (Len(e) = 0 <=> e = <<>>)
    BY ShortList
<1>2. s \o e \in Seq(S) /\ Len(s \o e) = Len(s) + Len(e) /\ Len(s) \in Nat
    OBVIOUS
<1> QED BY <1>1, <1>2

(* Of lists with at most one element each, the concatenation is as long as *)
(* there are lists exactly when none of them is empty.                     *)
LEMMA FlattenFull ==
    ASSUME NEW S, NEW ss \in Seq(Seq(S)), \A b \in DOMAIN ss : Len(ss[b]) <= 1
    PROVE  Len(FlattenSeq(ss)) = Len(ss) <=> \A b \in DOMAIN ss : ss[b] # <<>>
<1>1. CASE Len(ss) = 0
  <2>1. ss = <<>> /\ FlattenSeq(ss) = <<>>
      BY <1>1 DEF FlattenSeq
  <2> QED BY <2>1
<1>2. CASE Len(ss) # 0
  <2>1. PICK f : FirstLists(f, ss, Len(ss)) /\ FlattenSeq(ss) = f[Len(ss)]
      BY <1>2, FlattenUnfolds
  <2>2. Len(ss) \in Nat /\ DOMAIN ss = 1..Len(ss)
      OBVIOUS
  <2>3. \A i \in 1..Len(ss) : f[i] = IF i = 1 THEN ss[i] ELSE f[i - 1] \o ss[i]
      BY <2>1, <2>2, FirstListsStep
  <2>4. \A i \in 1..Len(ss) : ss[i] \in Seq(S) /\ Len(ss[i]) <= 1
    <3>1. \A i \in DOMAIN ss : ss[i] \in Seq(S)
        OBVIOUS
    <3> QED BY <2>2, <3>1, Zenon
  <2> DEFINE T == {n \in Nat : n + 1 \in 1..Len(ss) =>
                     /\ f[n + 1] \in Seq(S) /\ Len(f[n + 1]) <= n + 1
                     /\ Len(f[n + 1]) = n + 1 <=> \A b \in 1..(n + 1) : ss[b] # <<>>}
  <2>5. 0 \in T
    <3>1. f[1] = ss[1] /\ 1 \in 1..Len(ss)
        BY <2>3, <2>2, <1>2
    <3>2. 1..(0 + 1) = {1} /\ 0 + 1 = 1
        OBVIOUS
    <3>3. f[1] \in Seq(S) /\ Len(f[1]) <= 1 /\ Len(f[1]) \in {0, 1} /\ (Len(f[1]) = 0 <=> f[1] = <<>>)
        BY <3>1, <2>4, ShortList
    <3>4. Len(f[1]) = 1 <=> \A b \in {1} : ss[b] # <<>>
        BY <3>1, <3>3
    <3> QED BY <3>2, <3>3, <3>4
  <2>6. ASSUME NEW n \in Nat, n \in T PROVE n + 1 \in T
    <3> SUFFICES ASSUME n + 1 + 1 \in 1..Len(ss)
                 PROVE  /\ f[n + 1 + 1] \in Seq(S) /\ Len(f[n + 1 + 1]) <= n + 1 + 1
                        /\ Len(f[n + 1 + 1]) = n + 1 + 1
                             <=> \A b \in 1..(n + 1 + 1) : ss[b] # <<>>
        OBVIOUS
    <3> DEFINE m == n + 1
               s == f[m]
               e == ss[m + 1]
    <3>1. m \in 1..Len(ss) /\ m \in Nat /\ m # 0
        BY <2>2
    <3>2. s \in Seq(S) /\ Len(s) <= m /\ (Len(s) = m <=> \A b \in 1..m : ss[b] # <<>>)
        BY <2>6, <3>1
    <3>3. f[m + 1] = s \o e
      <4>1. f[m + 1] = IF m + 1 = 1 THEN ss[m + 1] ELSE f[m + 1 - 1] \o ss[m + 1]
          BY <2>3
      <4>2. m + 1 # 1 /\ m + 1 - 1 = m
          BY <3>1
      <4> QED BY <4>1, <4>2
    <3>4. e \in Seq(S) /\ Len(e) <= 1
        BY <2>4
    <3>5. 1..(m + 1) = 1..m \cup {m + 1}
        BY <3>1
    <3> HIDE DEF m, s, e
    <3>6. /\ s \o e \in Seq(S) /\ Len(s \o e) <= m + 1
          /\ Len(s \o e) = m + 1 <=> Len(s) = m /\ e # <<>>
        BY <3>1, <3>2, <3>4, LongerList
    <3>7. f[m + 1] \in Seq(S) /\ Len(f[m + 1]) <= m + 1
        BY <3>3, <3>6
    <3>8. Len(f[m + 1]) = m + 1 <=> Len(s) = m /\ ss[m + 1] # <<>>
        BY <3>3, <3>6 DEF e
    <3>9. Len(f[m + 1]) = m + 1 <=> \A b \in 1..(m + 1) : ss[b] # <<>>
        BY <3>2, <3>5, <3>8
    <3> QED BY <3>7, <3>9 DEF m
  <2> HIDE DEF T
  <2>7. Len(ss) - 1 \in Nat /\ Len(ss) - 1 + 1 = Len(ss) /\ Len(ss) \in 1..Len(ss)
      BY <1>2, <2>2
  <2>8. Len(ss) - 1 \in T
      BY <2>5, <2>6, <2>7, SetInduction
  <2> QED BY <2>1, <2>2, <2>7, <2>8 DEF T
<1> QED BY <1>1, <1>2

-----------------------------------------------------------------------------
(* Parts of a list *)

(* The positions of Chosen(s, K) are the members of K: there is a bijection *)
(* between them that keeps the elements.                                    *)
Picks(t, s, K, at) ==
    /\ at \in [DOMAIN t -> K \cap DOMAIN s]
    /\ \A i \in DOMAIN t : t[i] = s[at[i]]
    /\ \A i, j \in DOMAIN t : at[i] = at[j] => i = j
    /\ \A k \in K \cap DOMAIN s : \E i \in DOMAIN t : at[i] = k

LEMMA ChosenPicks ==
    ASSUME NEW S, NEW s \in Seq(S), NEW K
    PROVE  /\ Chosen(s, K) \in Seq(S)
           /\ \E at : Picks(Chosen(s, K), s, K, at)
<1> DEFINE ss == [k \in DOMAIN s |-> IF k \in K THEN <<s[k]>> ELSE <<>>]
           t == Chosen(s, K)
<1>1. DOMAIN s = 1..Len(s) /\ Len(s) \in Nat
    OBVIOUS
<1>2. \A k \in DOMAIN s : (IF k \in K THEN <<s[k]>> ELSE <<>>) \in Seq(S)
  <2>1. \A k \in DOMAIN s : s[k] \in S
      OBVIOUS
  <2>2. <<>> \in Seq(S) /\ \A x \in S : <<x>> \in Seq(S)
      OBVIOUS
  <2> QED BY <2>1, <2>2
<1>3. ss \in Seq(Seq(S)) /\ Len(ss) = Len(s) /\ DOMAIN ss = DOMAIN s
    BY <1>1, <1>2
<1>4. t \in Seq(S) /\ \E blk, off : Placed(t, ss, Len(ss), blk, off)
  <2> HIDE DEF ss
  <2>1. t = FlattenSeq(ss)
      BY DEF ss, Chosen
  <2> QED BY <1>3, <2>1, FlattenPlaces
<1>5. PICK blk, off : Placed(t, ss, Len(ss), blk, off)
    BY <1>4
<1>6. \A k \in DOMAIN s : /\ k \in K => Len(ss[k]) = 1 /\ ss[k][1] = s[k]
                          /\ k \notin K => Len(ss[k]) = 0
    OBVIOUS
<1> HIDE DEF t, ss
<1>7. DOMAIN t = 1..Len(t)
    BY <1>4
<1>8. \A i \in DOMAIN t : blk[i] \in K \cap DOMAIN s /\ off[i] = 1 /\ t[i] = s[blk[i]]
  <2> TAKE i \in DOMAIN t
  <2>1. blk[i] \in DOMAIN s /\ off[i] \in 1..Len(ss[blk[i]]) /\ t[i] = ss[blk[i]][off[i]]
      BY <1>1, <1>3, <1>5, <1>7 DEF Placed
  <2>2. blk[i] \in K
      BY <1>6, <2>1
  <2>3. Len(ss[blk[i]]) = 1 /\ ss[blk[i]][1] = s[blk[i]]
      BY <1>6, <2>1, <2>2
  <2>4. off[i] = 1
      BY <2>1, <2>3
  <2> QED BY <2>1, <2>2, <2>3, <2>4
<1>9. \A i, j \in DOMAIN t : blk[i] = blk[j] => i = j
    BY <1>5, <1>7, <1>8 DEF Placed
<1>10. \A k \in K \cap DOMAIN s : \E i \in DOMAIN t : blk[i] = k
  <2> TAKE k \in K \cap DOMAIN s
  <2>1. k \in 1..Len(ss) /\ 1 \in 1..Len(ss[k])
      BY <1>1, <1>3, <1>6
  <2> QED BY <1>5, <1>7, <2>1 DEF Placed
<1>11. blk \in [DOMAIN t -> K \cap DOMAIN s]
    BY <1>5, <1>7, <1>8 DEF Placed
<1>12. Picks(t, s, K, blk)
    BY <1>8, <1>9, <1>10, <1>11 DEF Picks
<1> QED BY <1>4, <1>12 DEF t

\* The same without the bijection.
LEMMA ChosenIs ==
    ASSUME NEW S, NEW s \in Seq(S), NEW K
    PROVE  /\ Chosen(s, K) \in Seq(S)
           /\ ToSet(Chosen(s, K)) = {s[k] : k \in K \cap DOMAIN s}
<1>1. PICK at : Picks(Chosen(s, K), s, K, at)
    BY ChosenPicks
<1>2. ToSet(Chosen(s, K)) = {s[k] : k \in K \cap DOMAIN s}
    BY <1>1 DEF Picks, ToSet
<1> QED BY <1>2, ChosenPicks

LEMMA ThoseIs ==
    ASSUME NEW S, NEW s \in Seq(S), NEW T
    PROVE  /\ Those(s, T) \in Seq(S)
           /\ ToSet(Those(s, T)) = ToSet(s) \cap T
<1> DEFINE K == {k \in DOMAIN s : s[k] \in T}
<1>1. Chosen(s, K) \in Seq(S) /\ ToSet(Chosen(s, K)) = {s[k] : k \in K \cap DOMAIN s}
  <2> HIDE DEF K
  <2> QED BY ChosenIs
<1>2. {s[k] : k \in K \cap DOMAIN s} = ToSet(s) \cap T
    BY DEF ToSet
<1> QED BY <1>1, <1>2 DEF Those

\* Nothing occurs twice in a part of a list in which nothing does.
LEMMA ChosenInjective ==
    ASSUME NEW S, NEW s \in Seq(S), NEW K,
           \A k, m \in K \cap DOMAIN s : s[k] = s[m] => k = m
    PROVE  \A i, j \in DOMAIN Chosen(s, K) : Chosen(s, K)[i] = Chosen(s, K)[j] => i = j
<1>1. PICK at : Picks(Chosen(s, K), s, K, at)
    BY ChosenPicks
<1> QED BY <1>1 DEF Picks

LEMMA ThoseInjective ==
    ASSUME NEW S, NEW s \in Seq(S), NEW T, \A k, m \in DOMAIN s : s[k] = s[m] => k = m
    PROVE  \A i, j \in DOMAIN Those(s, T) : Those(s, T)[i] = Those(s, T)[j] => i = j
<1> DEFINE K == {k \in DOMAIN s : s[k] \in T}
<1>1. \A k, m \in K \cap DOMAIN s : s[k] = s[m] => k = m
    OBVIOUS
<1> HIDE DEF K
<1>2. \A i, j \in DOMAIN Chosen(s, K) : Chosen(s, K)[i] = Chosen(s, K)[j] => i = j
    BY <1>1, ChosenInjective
<1> QED BY <1>2 DEF Those, K

\* Everything in a list has a first occurrence, and only one.
LEMMA FirstsAre ==
    ASSUME NEW S, NEW s \in Seq(S)
    PROVE  /\ Firsts(s) \subseteq DOMAIN s
           /\ \A k \in DOMAIN s : \E m \in Firsts(s) : s[m] = s[k]
           /\ \A k, m \in Firsts(s) : s[k] = s[m] => k = m
<1>1. DOMAIN s = 1..Len(s) /\ Len(s) \in Nat
    OBVIOUS
<1>2. ASSUME NEW k \in DOMAIN s PROVE \E m \in Firsts(s) : s[m] = s[k]
  <2> DEFINE T == {m \in DOMAIN s : s[m] = s[k]}
  <2>1. T \in SUBSET Nat /\ T # {}
      BY <1>1
  <2>2. PICK m \in T : \A j \in T : m <= j
      BY <2>1, LeastNumber
  <2>3. \A j \in 1..(m - 1) : j \in DOMAIN s /\ ~ (m <= j)
      BY <1>1
  <2>4. \A j \in 1..(m - 1) : s[j] # s[m]
      BY <2>2, <2>3
  <2> QED BY <2>4 DEF Firsts
<1>3. ASSUME NEW k \in Firsts(s), NEW m \in Firsts(s), s[k] = s[m], k < m PROVE FALSE
    BY <1>1, <1>3 DEF Firsts
<1>4. \A k, m \in Firsts(s) : s[k] = s[m] => k = m
  <2> SUFFICES ASSUME NEW k \in Firsts(s), NEW m \in Firsts(s), s[k] = s[m], k # m
               PROVE FALSE
      OBVIOUS
  <2>1. k < m \/ m < k
      BY <1>1 DEF Firsts
  <2> QED BY <1>3, <2>1
<1> QED BY <1>2, <1>4 DEF Firsts

LEMMA DistinctIs ==
    ASSUME NEW S, NEW s \in Seq(S)
    PROVE  /\ Distinct(s) \in Seq(S)
           /\ ToSet(Distinct(s)) = ToSet(s)
           /\ \A i, j \in DOMAIN Distinct(s) : Distinct(s)[i] = Distinct(s)[j] => i = j
<1>1. /\ Firsts(s) \subseteq DOMAIN s
      /\ \A k \in DOMAIN s : \E m \in Firsts(s) : s[m] = s[k]
      /\ \A k, m \in Firsts(s) : s[k] = s[m] => k = m
    BY FirstsAre
<1>2. ToSet(Chosen(s, Firsts(s))) = {s[k] : k \in Firsts(s) \cap DOMAIN s}
    BY ChosenIs
<1>3. {s[k] : k \in Firsts(s) \cap DOMAIN s} = ToSet(s)
    BY <1>1 DEF ToSet
<1>4. Chosen(s, Firsts(s)) \in Seq(S)
    BY ChosenIs
<1>5. \A k, m \in Firsts(s) \cap DOMAIN s : s[k] = s[m] => k = m
    BY <1>1
<1>6. \A i, j \in DOMAIN Chosen(s, Firsts(s)) :
        Chosen(s, Firsts(s))[i] = Chosen(s, Firsts(s))[j] => i = j
    BY <1>5, ChosenInjective
<1> QED BY <1>2, <1>3, <1>4, <1>6 DEF Distinct

=============================================================================
