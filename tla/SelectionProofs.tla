--------------------------- MODULE SelectionProofs ---------------------------
(***************************************************************************)
(* What a selection of a list holds, for any list and any positions.       *)
(***************************************************************************)
EXTENDS Selection, FiniteSetTheorems, SequenceTheorems, TLAPS

Positions(kept) == IsFiniteSet(kept) /\ kept \subseteq Nat
Upto(kept, i) == {j \in kept : j <= i}

(* Positions of a list are a finite set of numbers, and so are those up to *)
(* one of them.                                                            *)
LEMMA PositionsAreFinite ==
    ASSUME NEW kept, Positions(kept)
    PROVE  /\ Cardinality(kept) \in Nat
           /\ \A i \in kept : /\ IsFiniteSet(Upto(kept, i))
                              /\ Cardinality(Upto(kept, i)) \in 1..Cardinality(kept)
<1>2. IsFiniteSet(kept) /\ Cardinality(kept) \in Nat
  BY FS_CardinalityType DEF Positions
<1>3. ASSUME NEW i \in kept
      PROVE  /\ IsFiniteSet(Upto(kept, i))
             /\ Cardinality(Upto(kept, i)) \in 1..Cardinality(kept)
  <2>1. Upto(kept, i) \in SUBSET kept /\ i \in Upto(kept, i)
    BY DEF Upto, Positions
  <2>2. /\ IsFiniteSet(Upto(kept, i)) /\ Cardinality(Upto(kept, i)) \in Nat
        /\ Cardinality(Upto(kept, i)) <= Cardinality(kept)
    BY <1>2, <2>1, FS_Subset, FS_CardinalityType
  <2>3. Cardinality(Upto(kept, i)) # 0
    BY <2>1, <2>2, FS_EmptySet
  <2>. QED BY <1>2, <2>2, <2>3
<1>. QED BY <1>2, <1>3

(* The later of two positions has more before it.                          *)
LEMMA LaterHasMore ==
    ASSUME NEW kept, Positions(kept), NEW i \in kept, NEW k \in kept, i < k
    PROVE  Cardinality(Upto(kept, i)) < Cardinality(Upto(kept, k))
<1>0. i \in Nat /\ k \in Nat /\ \A j \in kept : j \in Nat
  BY DEF Positions
<1>1. Upto(kept, i) \in SUBSET Upto(kept, k) /\ k \in Upto(kept, k) /\ k \notin Upto(kept, i)
  <2>1. \A j \in kept : j <= i => j <= k
    BY <1>0
  <2>2. Upto(kept, i) \subseteq Upto(kept, k)
    BY <2>1 DEF Upto
  <2>3. k <= k /\ ~(k <= i)
    BY <1>0
  <2>. QED BY <2>2, <2>3 DEF Upto
<1>2. /\ IsFiniteSet(Upto(kept, k)) /\ Cardinality(Upto(kept, i)) \in Nat
      /\ Cardinality(Upto(kept, k)) \in Nat
  BY PositionsAreFinite
<1>. QED BY <1>1, <1>2, FS_Subset

(* Each number up to that of the positions is that of one of them.         *)
LEMMA EveryRankIsTaken ==
    ASSUME NEW kept, Positions(kept), NEW n \in 1..Cardinality(kept)
    PROVE  \E i \in kept : Cardinality(Upto(kept, i)) = n
<1>. DEFINE rank == [i \in kept |-> Cardinality(Upto(kept, i))]
            ranks == 1..Cardinality(kept)
<1>1. IsFiniteSet(kept) /\ Cardinality(kept) \in Nat
  BY PositionsAreFinite DEF Positions
<1>2. rank \in [kept -> ranks]
  BY PositionsAreFinite
<1>3. rank \in Injection(kept, ranks)
  <2>1. ASSUME NEW i \in kept, NEW k \in kept, i # k
        PROVE  rank[i] # rank[k]
    <3>1. i \in Nat /\ k \in Nat /\ (i < k \/ k < i)
      BY <2>1 DEF Positions
    <3>2. rank[i] \in Nat /\ rank[k] \in Nat
      BY <1>1, <1>2
    <3>. QED BY <3>1, <3>2, LaterHasMore
  <2>. QED BY <1>2, <2>1 DEF Injection, IsInjective
<1>4. IsFiniteSet(ranks) /\ Cardinality(ranks) = Cardinality(kept)
  BY <1>1, FS_Interval
<1>5. rank \in Surjection(kept, ranks)
  BY <1>1, <1>3, <1>4, FS_Injection
<1>. QED BY <1>5 DEF Surjection

(* The n-th position is the one with n positions up to it.                 *)
LEMMA NthIs ==
    ASSUME NEW kept, Positions(kept), NEW n \in 1..Cardinality(kept)
    PROVE  Nth(kept, n) \in kept /\ Cardinality(Upto(kept, Nth(kept, n))) = n
<1>1. \E i \in kept : Cardinality(Upto(kept, i)) = n
  BY EveryRankIsTaken
<1>. QED BY <1>1 DEF Nth, Upto

(* Later selected entries come from later positions.                       *)
LEMMA NthIsInOrder ==
    ASSUME NEW kept, Positions(kept),
           NEW m \in 1..Cardinality(kept), NEW n \in 1..Cardinality(kept), m < n
    PROVE  Nth(kept, m) < Nth(kept, n)
<1>1. Nth(kept, m) \in kept /\ Nth(kept, n) \in kept
  BY NthIs
<1>2. Nth(kept, m) \in Nat /\ Nth(kept, n) \in Nat /\ m \in Nat /\ n \in Nat
  <2>1. Cardinality(kept) \in Nat
    BY PositionsAreFinite
  <2>2. m \in Nat /\ n \in Nat
    BY <2>1
  <2>3. kept \subseteq Nat
    BY DEF Positions
  <2>. QED BY <1>1, <2>2, <2>3
<1>3. ~(Nth(kept, n) < Nth(kept, m))
  BY <1>1, <1>2, NthIs, LaterHasMore
<1>4. Nth(kept, n) # Nth(kept, m)
  BY NthIs
<1>. QED BY <1>2, <1>3, <1>4

(* Every position is some n-th one.                                        *)
LEMMA NthReachesAll ==
    ASSUME NEW kept, Positions(kept), NEW i \in kept
    PROVE  \E n \in 1..Cardinality(kept) : Nth(kept, n) = i
<1>. DEFINE n == Cardinality(Upto(kept, i))
<1>1. n \in 1..Cardinality(kept)
  BY PositionsAreFinite
<1>2. Nth(kept, n) \in kept /\ Cardinality(Upto(kept, Nth(kept, n))) = n
  BY <1>1, NthIs
<1>0. i \in Nat /\ Nth(kept, n) \in Nat /\ n \in Nat
  <2>1. Cardinality(kept) \in Nat
    BY PositionsAreFinite
  <2>2. n \in Nat
    BY <1>1, <2>1
  <2>3. kept \subseteq Nat
    BY DEF Positions
  <2>. QED BY <1>1, <1>2, <2>2, <2>3
<1>3. ~(Nth(kept, n) < i) /\ ~(i < Nth(kept, n))
  BY <1>1, <1>2, LaterHasMore, PositionsAreFinite
<1>4. Nth(kept, n) = i
  BY <1>0, <1>3
<1>. QED BY <1>1, <1>4

(* A selection is a list of the selected entries, and of all of them.      *)
LEMMA ThoseAre ==
    ASSUME NEW X, NEW s \in Seq(X), NEW kept \in SUBSET DOMAIN s
    PROVE  /\ Those(s, kept) \in Seq(X)
           /\ Len(Those(s, kept)) = Cardinality(kept)
           /\ \A n \in DOMAIN Those(s, kept) :
                /\ Nth(kept, n) \in kept
                /\ Those(s, kept)[n] = s[Nth(kept, n)]
           /\ \A i \in kept : \E n \in DOMAIN Those(s, kept) : Those(s, kept)[n] = s[i]
<1>1. Positions(kept)
  <2>1. Len(s) \in Nat /\ DOMAIN s = 1..Len(s)
    OBVIOUS
  <2>2. IsFiniteSet(DOMAIN s)
    BY <2>1, FS_Interval
  <2>. QED BY <2>1, <2>2, FS_Subset DEF Positions
<1>2. Cardinality(kept) \in Nat
  BY <1>1, PositionsAreFinite
<1>3. \A n \in 1..Cardinality(kept) : Nth(kept, n) \in kept /\ s[Nth(kept, n)] \in X
  BY <1>1, NthIs
<1>4. Those(s, kept) \in Seq(X) /\ Len(Those(s, kept)) = Cardinality(kept)
  BY <1>2, <1>3 DEF Those
<1>5. DOMAIN Those(s, kept) = 1..Cardinality(kept)
  BY DEF Those
<1>6. \A i \in kept : \E n \in DOMAIN Those(s, kept) : Nth(kept, n) = i
  BY <1>1, <1>5, NthReachesAll
<1>. QED BY <1>3, <1>4, <1>5, <1>6 DEF Those

(* A selection of positions with different entries repeats none.           *)
LEMMA ThoseAreDistinct ==
    ASSUME NEW X, NEW s \in Seq(X), NEW kept \in SUBSET DOMAIN s,
           \A i, j \in kept : s[i] = s[j] => i = j
    PROVE  \A m, n \in DOMAIN Those(s, kept) :
               Those(s, kept)[m] = Those(s, kept)[n] => m = n
<1>. SUFFICES ASSUME NEW m \in DOMAIN Those(s, kept), NEW n \in DOMAIN Those(s, kept),
                     Those(s, kept)[m] = Those(s, kept)[n]
     PROVE  m = n
  OBVIOUS
<1>0. Positions(kept)
  <2>1. Len(s) \in Nat /\ DOMAIN s = 1..Len(s)
    OBVIOUS
  <2>2. IsFiniteSet(DOMAIN s)
    BY <2>1, FS_Interval
  <2>. QED BY <2>1, <2>2, FS_Subset DEF Positions
<1>1. Nth(kept, m) = Nth(kept, n)
  BY ThoseAre
<1>2. m \in 1..Cardinality(kept) /\ n \in 1..Cardinality(kept)
  BY DEF Those
<1>. QED BY <1>0, <1>1, <1>2, NthIs

-----------------------------------------------------------------------------
(***************************************************************************)
(* Lists that repeat nothing                                               *)
(***************************************************************************)

AList(s) == s \in Seq(Contents(s))
NoneTwice(s) == \A i, j \in DOMAIN s : s[i] = s[j] => i = j

(* A list over a set is one over its own contents.                         *)
LEMMA ListOf ==
    ASSUME NEW X, NEW s \in Seq(X)
    PROVE  AList(s) /\ Contents(s) \subseteq X /\ Len(s) \in Nat /\ DOMAIN s = 1..Len(s)
           /\ \A i \in DOMAIN s : s[i] \in Contents(s)
<1>1. s \in Seq(Contents(s))
  BY DEF Contents
<1>2. Contents(s) \subseteq X
  BY DEF Contents
<1>. QED BY <1>1, <1>2 DEF AList, Contents

(* The positions of a list and their entries.                              *)
LEMMA ListFacts ==
    ASSUME NEW s, AList(s)
    PROVE  Len(s) \in Nat /\ DOMAIN s = 1..Len(s) /\ \A i \in 1..Len(s) : s[i] \in Contents(s)
<1>1. s \in Seq(Contents(s))
  BY DEF AList
<1>. QED BY <1>1, ListOf

(* A list that repeats nothing is as long as what it holds.                *)
LEMMA NoneTwiceCounts ==
    ASSUME NEW s, AList(s), NoneTwice(s)
    PROVE  IsFiniteSet(Contents(s)) /\ Cardinality(Contents(s)) = Len(s)
<1>1. Len(s) \in Nat /\ DOMAIN s = 1..Len(s)
  BY ListOf DEF AList
<1>. DEFINE f == [i \in 1..Len(s) |-> s[i]]
<1>2. f \in Bijection(1..Len(s), Contents(s))
  <2>1. f \in [1..Len(s) -> Contents(s)]
    BY <1>1 DEF Contents
  <2>2. \A i, j \in 1..Len(s) : f[i] = f[j] => i = j
    BY <1>1 DEF NoneTwice
  <2>3. \A x \in Contents(s) : \E i \in 1..Len(s) : f[i] = x
    BY <1>1 DEF Contents
  <2>. QED BY <2>1, <2>2, <2>3 DEF Bijection, Injection, Surjection, IsInjective
<1>3. IsFiniteSet(1..Len(s)) /\ Cardinality(1..Len(s)) = Len(s)
  <2>1. ASSUME NEW n \in Nat PROVE IsFiniteSet(1..n) /\ Cardinality(1..n) = n
    BY FS_Interval
  <2>. QED BY <1>1, <2>1
<1>4. ExistsBijection(1..Len(s), Contents(s))
  BY <1>2 DEF ExistsBijection
<1>. QED BY <1>3, <1>4, FS_Bijection

(* One more entry that is not there.                                       *)
LEMMA AppendsOnce ==
    ASSUME NEW s, AList(s), NoneTwice(s), NEW e, e \notin Contents(s)
    PROVE  /\ AList(Append(s, e)) /\ NoneTwice(Append(s, e))
           /\ Contents(Append(s, e)) = Contents(s) \cup {e}
           /\ Len(Append(s, e)) = Len(s) + 1
<1>1. Len(s) \in Nat /\ DOMAIN s = 1..Len(s) /\ \A i \in 1..Len(s) : s[i] \in Contents(s)
  BY ListOf DEF AList
<1>. DEFINE t == Append(s, e)
<1>2. /\ t \in Seq(Contents(s) \cup {e}) /\ Len(t) = Len(s) + 1
      /\ \A i \in 1..Len(s) : t[i] = s[i]
      /\ t[Len(s) + 1] = e
  <2>1. s \in Seq(Contents(s) \cup {e})
    BY <1>1, SeqDef DEF AList
  <2>. QED BY <2>1, AppendProperties
<1>. HIDE DEF t
<1>3. AList(t) /\ DOMAIN t = 1..Len(s) + 1
  BY <1>2, ListOf
<1>4. NoneTwice(t)
  <2>1. ASSUME NEW i \in 1..Len(s) + 1, NEW j \in 1..Len(s) + 1, t[i] = t[j] PROVE i = j
    <3>1. CASE i \in 1..Len(s) /\ j \in 1..Len(s)
      BY <1>1, <1>2, <2>1, <3>1 DEF NoneTwice
    <3>2. CASE i = Len(s) + 1 /\ j = Len(s) + 1
      BY <3>2
    <3>3. CASE i \in 1..Len(s) /\ j = Len(s) + 1
      BY <1>1, <1>2, <2>1, <3>3
    <3>4. CASE i = Len(s) + 1 /\ j \in 1..Len(s)
      BY <1>1, <1>2, <2>1, <3>4
    <3>. QED BY <1>1, <3>1, <3>2, <3>3, <3>4
  <2>. QED BY <1>3, <2>1 DEF NoneTwice
<1>5. Contents(t) = Contents(s) \cup {e}
  <2>1. \A x \in Contents(t) : x \in Contents(s) \cup {e}
    <3>. SUFFICES ASSUME NEW i \in 1..Len(s) + 1 PROVE t[i] \in Contents(s) \cup {e}
      BY <1>3 DEF Contents
    <3>. QED BY <1>1, <1>2
  <2>2. \A x \in Contents(s) : x \in Contents(t)
    <3>. SUFFICES ASSUME NEW i \in 1..Len(s) PROVE s[i] \in Contents(t)
      BY <1>1 DEF Contents
    <3>. QED BY <1>1, <1>2, <1>3 DEF Contents
  <2>3. e \in Contents(t)
    BY <1>1, <1>2, <1>3 DEF Contents
  <2>. QED BY <2>1, <2>2, <2>3
<1>. QED BY <1>2, <1>3, <1>4, <1>5 DEF t

(* A part of a list that repeats nothing, and what it holds.               *)
LEMMA ThoseOnce ==
    ASSUME NEW s, AList(s), NEW kept \in SUBSET DOMAIN s,
           \A i, j \in kept : s[i] = s[j] => i = j
    PROVE  /\ AList(Those(s, kept)) /\ NoneTwice(Those(s, kept))
           /\ Contents(Those(s, kept)) = {s[i] : i \in kept}
<1>1. AList(Those(s, kept))
  BY ThoseAre, ListOf DEF AList
<1>2. NoneTwice(Those(s, kept))
  BY ThoseAreDistinct DEF NoneTwice, AList
<1>3. Contents(Those(s, kept)) = {s[i] : i \in kept}
  <2>1. /\ \A n \in DOMAIN Those(s, kept) :
             Nth(kept, n) \in kept /\ Those(s, kept)[n] = s[Nth(kept, n)]
        /\ \A i \in kept : \E n \in DOMAIN Those(s, kept) : Those(s, kept)[n] = s[i]
    BY ThoseAre DEF AList
  <2>. QED BY <2>1 DEF Contents
<1>. QED BY <1>1, <1>2, <1>3

(* Two positions of a list are the same or one comes first.                *)
LEMMA PositionsCompare ==
    ASSUME NEW n \in Nat, NEW i \in 1..n, NEW j \in 1..n
    PROVE  i = j \/ i \in 1..(j - 1) \/ j \in 1..(i - 1)
OBVIOUS

(* Lists one after the other.                                              *)
LEMMA Joined ==
    ASSUME NEW s, NEW t, AList(s), AList(t)
    PROVE  AList(s \o t) /\ Contents(s \o t) \subseteq Contents(s) \cup Contents(t)
<1>. DEFINE X == Contents(s) \cup Contents(t)
<1>1. s \in Seq(X) /\ t \in Seq(X)
  BY ListOf, SeqDef DEF AList
<1>2. s \o t \in Seq(X)
  BY <1>1, ConcatProperties
<1>. QED BY <1>2, ListOf

(* The beginning of a list that repeats nothing.                           *)
LEMMA Beginning ==
    ASSUME NEW s, AList(s), NoneTwice(s), NEW n \in 0..Len(s)
    PROVE  /\ AList(SubSeq(s, 1, n)) /\ NoneTwice(SubSeq(s, 1, n)) /\ Len(SubSeq(s, 1, n)) = n
           /\ Contents(SubSeq(s, 1, n)) \subseteq Contents(s)
<1>1. Len(s) \in Nat /\ DOMAIN s = 1..Len(s)
  BY ListOf DEF AList
<1>. DEFINE t == SubSeq(s, 1, n)
<1>2. t \in Seq(Contents(s)) /\ Len(t) = n /\ \A i \in 1..n : t[i] = s[i]
  <2>1. n \in Nat /\ n <= Len(s) /\ \A i \in 1..n : s[i] \in Contents(s)
    BY <1>1 DEF Contents
  <2>2. t = [i \in 1..n |-> s[i]]
    BY <1>1, <2>1 DEF SubSeq
  <2>. QED BY <2>1, <2>2
<1>. HIDE DEF t
<1>3. AList(t) /\ DOMAIN t = 1..n /\ Contents(t) \subseteq Contents(s)
  BY <1>2, ListOf
<1>4. NoneTwice(t)
  BY <1>1, <1>2, <1>3 DEF NoneTwice
<1>. QED BY <1>2, <1>3, <1>4 DEF t

(* One of a list's entries moved to its front.                             *)
LEMMA MovedToFront ==
    ASSUME NEW X, NEW d \in Seq(X), NEW first \in 1..Len(d), NoneTwice(d)
    PROVE  LET moved == <<d[first]>> \o SubSeq(d, 1, first - 1) \o SubSeq(d, first + 1, Len(d))
           IN  moved \in Seq(X) /\ NoneTwice(moved)
<1>. DEFINE lead == <<d[first]>>
            before == SubSeq(d, 1, first - 1)
            after == SubSeq(d, first + 1, Len(d))
            moved == (lead \o before) \o after
            at(k) == IF k = 1 THEN first ELSE IF k <= first THEN k - 1 ELSE k
<1>1. Len(d) \in Nat /\ first \in Nat /\ first >= 1 /\ first <= Len(d) /\ DOMAIN d = 1..Len(d)
      /\ \A i \in 1..Len(d) : d[i] \in X
  OBVIOUS
<1>2. lead \in Seq(X) /\ Len(lead) = 1 /\ lead[1] = d[first]
  BY <1>1
<1>3. before \in Seq(X) /\ Len(before) = first - 1 /\ \A i \in 1..first - 1 : before[i] = d[i]
  <2>1. before = [i \in 1..first - 1 |-> d[i]]
    BY <1>1 DEF SubSeq
  <2>. QED BY <1>1, <2>1
<1>4. /\ after \in Seq(X) /\ Len(after) = Len(d) - first
      /\ \A i \in 1..Len(d) - first : after[i] = d[first + i]
  <2>1. after = [i \in 1..Len(d) - first |-> d[first + i]]
    BY <1>1 DEF SubSeq
  <2>2. Len(d) - first \in Nat /\ \A i \in 1..Len(d) - first : first + i \in 1..Len(d)
    BY <1>1
  <2>. DEFINE n == Len(d) - first
              f == [i \in 1..n |-> d[first + i]]
  <2>3. n \in Nat /\ f \in [1..n -> X]
    BY <1>1, <2>2
  <2>4. f \in Seq(X) /\ Len(f) = n
    <3>. HIDE DEF n, f
    <3>. QED BY <2>3, SeqDef, LenProperties
  <2>. QED BY <2>1, <2>4
<1>. HIDE DEF lead, before, after
<1>5. /\ lead \o before \in Seq(X) /\ Len(lead \o before) = first
      /\ \A k \in 1..first : (lead \o before)[k] = d[IF k = 1 THEN first ELSE k - 1]
  <2>1. /\ lead \o before \in Seq(X) /\ Len(lead \o before) = Len(lead) + Len(before)
        /\ \A k \in 1..Len(lead) + Len(before) :
             (lead \o before)[k] = IF k <= Len(lead) THEN lead[k] ELSE before[k - Len(lead)]
    BY <1>2, <1>3, ConcatProperties
  <2>2. Len(lead) + Len(before) = first
    BY <1>1, <1>2, <1>3
  <2>3. ASSUME NEW k \in 1..first
        PROVE  (lead \o before)[k] = d[IF k = 1 THEN first ELSE k - 1]
    <3>1. CASE k = 1
      BY <1>2, <2>1, <2>2, <3>1
    <3>2. CASE k # 1
      <4>1. k - 1 \in 1..first - 1 /\ ~(k <= 1) /\ k \in 1..first
        BY <1>1, <3>2
      <4>. QED BY <1>2, <1>3, <2>1, <2>2, <3>2, <4>1
    <3>. QED BY <3>1, <3>2
  <2>. QED BY <2>1, <2>2, <2>3
<1>6. moved \in Seq(X) /\ Len(moved) = Len(d) /\ \A k \in 1..Len(d) : moved[k] = d[at(k)]
  <2>1. /\ moved \in Seq(X) /\ Len(moved) = Len(lead \o before) + Len(after)
        /\ \A k \in 1..Len(lead \o before) + Len(after) :
             moved[k] = IF k <= Len(lead \o before) THEN (lead \o before)[k]
                        ELSE after[k - Len(lead \o before)]
    <3>. DEFINE u == lead \o before
    <3>1. u \in Seq(X) /\ moved = u \o after
      BY <1>5
    <3>. HIDE DEF u
    <3>2. /\ u \o after \in Seq(X) /\ Len(u \o after) = Len(u) + Len(after)
          /\ \A k \in 1..Len(u) + Len(after) :
               (u \o after)[k] = IF k <= Len(u) THEN u[k] ELSE after[k - Len(u)]
      BY <1>4, <3>1, ConcatProperties
    <3>. QED BY <3>1, <3>2 DEF u
  <2>2. Len(lead \o before) + Len(after) = Len(d)
    BY <1>1, <1>4, <1>5
  <2>. HIDE DEF moved
  <2>3. ASSUME NEW k \in 1..Len(d) PROVE moved[k] = d[at(k)]
    <3>1. CASE k <= first
      <4>1. k \in 1..first
        BY <1>1, <3>1
      <4>. QED BY <1>5, <2>1, <2>2, <3>1, <4>1
    <3>2. CASE ~(k <= first)
      <4>1. k - first \in 1..Len(d) - first /\ first + (k - first) = k /\ k # 1
        BY <1>1, <3>2
      <4>. QED BY <1>4, <1>5, <2>1, <2>2, <3>2, <4>1
    <3>. QED BY <3>1, <3>2
  <2>. QED BY <2>1, <2>2, <2>3
<1>7. ASSUME NEW k \in 1..Len(d), NEW l \in 1..Len(d)
      PROVE  at(k) \in 1..Len(d) /\ (at(k) = at(l) => k = l)
  BY <1>1
<1>. HIDE DEF moved, at
<1>8. NoneTwice(moved)
  <2>1. DOMAIN moved = 1..Len(d)
    BY <1>6
  <2>2. ASSUME NEW k \in 1..Len(d), NEW l \in 1..Len(d), moved[k] = moved[l] PROVE k = l
    <3>1. d[at(k)] = d[at(l)] /\ at(k) \in DOMAIN d /\ at(l) \in DOMAIN d
      BY <1>1, <1>6, <1>7, <2>2
    <3>. QED BY <1>7, <3>1 DEF NoneTwice
  <2>. QED BY <2>1, <2>2 DEF NoneTwice
<1>. QED BY <1>6, <1>8 DEF moved, lead, before, after
=============================================================================
