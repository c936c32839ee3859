----------------------------- MODULE ListLemmas -----------------------------
(***************************************************************************)
(* Facts about numbers, lists and their enumeration that the proofs share.  *)
(***************************************************************************)
EXTENDS Lists, FiniteSets, FiniteSetTheorems, FunctionTheorems, SequenceTheorems, WellFoundedInduction, TLAPS

-----------------------------------------------------------------------------
(* Induction, stated about a set of numbers                                *)

(* A set of naturals that is not empty has a least element. *)
LEMMA LeastNatural ==
    ASSUME NEW S \in SUBSET Nat, S # {}
    PROVE  \E m \in S : \A n \in S : m <= n
<1> DEFINE less == {pair \in Nat \X Nat : pair[1] < pair[2]}
<1>1. IsWellFoundedOn(less, Nat)
  BY NatLessThanWellFounded DEF OpToRel
<1>2. PICK m \in S : \A n \in S : ~(<<n, m>> \in less)
  BY <1>1, WFMin
<1>3. \A n \in S : ~(n < m)
  BY <1>2
<1> QED
  BY <1>3

(* What holds of 0, and of n + 1 if it holds of n, holds of every natural. *)
LEMMA InductionOnNat ==
    ASSUME NEW S, 0 \in S, \A n \in Nat : n \in S => n + 1 \in S
    PROVE  \A n \in Nat : n \in S
<1> SUFFICES ASSUME Nat \ S # {} PROVE FALSE
  OBVIOUS
<1>1. PICK m \in Nat \ S : \A n \in Nat \ S : m <= n
  BY LeastNatural
<1>2. m # 0 /\ m - 1 \in Nat /\ m = (m - 1) + 1
  BY <1>1
<1>3. m - 1 \in S
  BY <1>1, <1>2
<1> QED
  BY <1>1, <1>2, <1>3

(* A finite set of naturals that is not empty has a greatest element. *)
LEMMA GreatestNatural ==
    ASSUME NEW S \in SUBSET Nat, IsFiniteSet(S), S # {}
    PROVE  \E m \in S : \A n \in S : n <= m
<1> DEFINE size == Cardinality(S)
<1>1. size \in Nat /\ ExistsBijection(1..size, S)
  BY FS_CardinalityType
<1>2. PICK e : e \in Bijection(1..size, S)
  BY <1>1 DEF ExistsBijection
<1>3. e \in [1..size -> S] /\ \A x \in S : \E k \in 1..size : e[k] = x
  BY <1>2 DEF Bijection, Surjection, Injection
<1> HIDE DEF size
<1>4. size # 0
  <2>1. PICK x \in S : TRUE
    OBVIOUS
  <2>2. PICK k \in 1..size : e[k] = x
    BY <1>3, <2>1
  <2> QED
    BY <1>1, <2>2
<1>5. \A k \in 1..size : e[k] \in Nat
  BY <1>3
<1> DEFINE Good == {n \in Nat : n < size => \E k \in 1..(n + 1) : \A j \in 1..(n + 1) : e[j] <= e[k]}
<1>6. 0 \in Good
  <2> SUFFICES ASSUME 0 < size PROVE \E k \in 1..1 : \A j \in 1..1 : e[j] <= e[k]
    OBVIOUS
  <2>1. e[1] \in Nat /\ \A j \in 1..1 : j = 1
    BY <1>1, <1>5
  <2> QED
    BY <2>1
<1>7. ASSUME NEW n \in Nat, n \in Good
      PROVE  n + 1 \in Good
  <2> SUFFICES ASSUME n + 1 < size
               PROVE  \E k \in 1..(n + 2) : \A j \in 1..(n + 2) : e[j] <= e[k]
    OBVIOUS
  <2>1. PICK k \in 1..(n + 1) : \A j \in 1..(n + 1) : e[j] <= e[k]
    BY <1>1, <1>7
  <2>2. \A j \in 1..(n + 2) : e[j] \in Nat
    <3>1. \A j \in 1..(n + 2) : j \in 1..size
      BY <1>1
    <3> QED
      BY <1>5, <3>1
  <2>3. \A j \in 1..(n + 2) : j \in 1..(n + 1) \/ j = n + 2
    OBVIOUS
  <2>4. CASE e[k] <= e[n + 2]
    <3>1. \A j \in 1..(n + 2) : e[j] <= e[n + 2]
      BY <2>1, <2>2, <2>3, <2>4
    <3> QED
      BY <3>1
  <2>5. CASE e[n + 2] < e[k]
    <3>1. \A j \in 1..(n + 2) : e[j] <= e[k]
      BY <2>1, <2>2, <2>3, <2>5
    <3> QED
      BY <3>1
  <2> QED
    BY <2>2, <2>4, <2>5
<1>8. size - 1 \in Good
  <2> HIDE DEF Good
  <2> QED
    BY <1>1, <1>6, <1>7, <1>4, InductionOnNat
<1>9. PICK k \in 1..size : \A j \in 1..size : e[j] <= e[k]
  BY <1>1, <1>4, <1>8
<1> QED
  BY <1>3, <1>9

-----------------------------------------------------------------------------
(* Filtering                                                               *)

(* The recursion of AtPlaces has a solution, which takes a place or leaves  *)
(* it, from the first to the last.                                          *)
LEMMA PlacesRecursion ==
    ASSUME NEW seq, Len(seq) \in Nat, NEW places
    PROVE  \E upTo : /\ upTo = [n \in 0..Len(seq) |->
                            IF n = 0 THEN <<>>
                            ELSE IF n \in places THEN Append(upTo[n - 1], seq[n])
                            ELSE upTo[n - 1]]
                     /\ AtPlaces(seq, places) = upTo[Len(seq)]
<1> DEFINE Solves(u, m) ==
        u = [n \in 0..m |-> IF n = 0 THEN <<>>
                            ELSE IF n \in places THEN Append(u[n - 1], seq[n])
                            ELSE u[n - 1]]
           S == {m \in Nat : \E u : Solves(u, m)}
<1>1. 0 \in S
  <2>1. Solves([n \in 0..0 |-> <<>>], 0)
    OBVIOUS
  <2> QED
    BY <2>1
<1>2. ASSUME NEW m \in Nat, m \in S
      PROVE  m + 1 \in S
  <2>1. PICK u : Solves(u, m)
    BY <1>2
  <2> DEFINE v == [n \in 0..(m + 1) |->
                     IF n = m + 1 THEN IF m + 1 \in places THEN Append(u[m], seq[m + 1]) ELSE u[m]
                     ELSE u[n]]
  <2>2. \A n \in 0..m : v[n] = u[n]
    OBVIOUS
  <2>3. ASSUME NEW n \in 0..(m + 1)
        PROVE  v[n] = IF n = 0 THEN <<>>
                      ELSE IF n \in places THEN Append(v[n - 1], seq[n])
                      ELSE v[n - 1]
    <3>1. CASE n = m + 1
      BY <2>2, <3>1
    <3>2. CASE n \in 0..m
      <4>1. n = 0 \/ n - 1 \in 0..m
        BY <3>2
      <4>2. u[n] = IF n = 0 THEN <<>>
                   ELSE IF n \in places THEN Append(u[n - 1], seq[n])
                   ELSE u[n - 1]
        BY <2>1, <3>2
      <4> HIDE DEF v
      <4> QED
        BY <2>2, <3>2, <4>1, <4>2
    <3> QED
      BY <3>1, <3>2
  <2>4. Solves(v, m + 1)
    <3>1. v = [n \in 0..(m + 1) |-> v[n]]
      OBVIOUS
    <3> HIDE DEF v
    <3> QED
      BY <2>3, <3>1
  <2> HIDE DEF v
  <2>5. \E u2 : Solves(u2, m + 1)
    BY <2>4
  <2> HIDE DEF Solves
  <2> QED
    BY <2>5
<1>3. PICK u : Solves(u, Len(seq))
  <2> HIDE DEF S
  <2>1. Len(seq) \in S
    BY <1>1, <1>2, InductionOnNat
  <2> QED
    BY <2>1 DEF S
<1> DEFINE chosen == CHOOSE upTo : upTo = [n \in 0..Len(seq) |->
                            IF n = 0 THEN <<>>
                            ELSE IF n \in places THEN Append(upTo[n - 1], seq[n])
                            ELSE upTo[n - 1]]
<1>4. Solves(chosen, Len(seq))
  BY <1>3
<1>5. AtPlaces(seq, places) = chosen[Len(seq)]
  BY DEF AtPlaces
<1> QED
  BY <1>4, <1>5

(* What AtPlaces keeps: the elements at the places, each once, in order. *)
LEMMA PlacesKept ==
    ASSUME NEW S, NEW seq \in Seq(S), NEW places \in SUBSET DOMAIN seq
    PROVE  /\ AtPlaces(seq, places) \in Seq(S)
           /\ \E at \in [DOMAIN AtPlaces(seq, places) -> places] :
                /\ \A k \in DOMAIN at : AtPlaces(seq, places)[k] = seq[at[k]]
                /\ \A j, k \in DOMAIN at : j < k => at[j] < at[k]
                /\ \A i \in places : \E k \in DOMAIN at : at[k] = i
<1>1. Len(seq) \in Nat /\ DOMAIN seq = 1..Len(seq)
  OBVIOUS
<1>2. PICK upTo :
        /\ upTo = [n \in 0..Len(seq) |->
                     IF n = 0 THEN <<>>
                     ELSE IF n \in places THEN Append(upTo[n - 1], seq[n])
                     ELSE upTo[n - 1]]
        /\ AtPlaces(seq, places) = upTo[Len(seq)]
  BY <1>1, PlacesRecursion
<1> DEFINE Lists(kept, at, n) ==
             /\ kept \in Seq(S)
             /\ at \in [1..Len(kept) -> {i \in places : i <= n}]
             /\ \A k \in 1..Len(kept) : kept[k] = seq[at[k]]
             /\ \A j, k \in 1..Len(kept) : j < k => at[j] < at[k]
             /\ \A i \in places : i <= n => \E k \in 1..Len(kept) : at[k] = i
           Good == {n \in Nat : n <= Len(seq) => \E at : Lists(upTo[n], at, n)}
<1>3. upTo[0] = <<>>
  BY <1>1, <1>2
<1>4. ASSUME NEW n \in Nat, n + 1 <= Len(seq)
      PROVE  upTo[n + 1] = IF n + 1 \in places THEN Append(upTo[n], seq[n + 1]) ELSE upTo[n]
  <2>1. n + 1 \in 0..Len(seq) /\ n + 1 # 0 /\ (n + 1) - 1 = n
    BY <1>1, <1>4
  <2> QED
    BY <1>2, <2>1
<1>5. 0 \in Good
  <2>1. Lists(<<>>, <<>>, 0)
    BY <1>1
  <2> HIDE DEF Lists
  <2> QED
    BY <1>3, <2>1
<1>6. ASSUME NEW n \in Nat, n \in Good
      PROVE  n + 1 \in Good
  <2> SUFFICES ASSUME n + 1 <= Len(seq) PROVE \E at : Lists(upTo[n + 1], at, n + 1)
    OBVIOUS
  <2>1. PICK at : Lists(upTo[n], at, n)
    BY <1>1, <1>6
  <2> DEFINE kept == upTo[n]
             l == Len(kept)
             more == [k \in 1..(l + 1) |-> IF k = l + 1 THEN n + 1 ELSE at[k]]
  <2>2. kept \in Seq(S) /\ l \in Nat
    BY <2>1
  <2>3. CASE n + 1 \in places
    <3>1. upTo[n + 1] = Append(kept, seq[n + 1]) /\ seq[n + 1] \in S
      <4>1. n + 1 \in 1..Len(seq)
        BY <1>1
      <4>2. seq[n + 1] \in S
        BY <4>1
      <4>3. upTo[n + 1] = IF n + 1 \in places THEN Append(upTo[n], seq[n + 1]) ELSE upTo[n]
        BY <1>4
      <4> QED
        BY <2>3, <4>2, <4>3
    <3>2. /\ Append(kept, seq[n + 1]) \in Seq(S) /\ Len(Append(kept, seq[n + 1])) = l + 1
          /\ \A k \in 1..l : Append(kept, seq[n + 1])[k] = kept[k]
          /\ Append(kept, seq[n + 1])[l + 1] = seq[n + 1]
      BY <2>2, <3>1
    <3>3. Lists(Append(kept, seq[n + 1]), more, n + 1)
      <4>1. more \in [1..(l + 1) -> {i \in places : i <= n + 1}]
        BY <2>1, <2>2, <2>3
      <4>2. \A k \in 1..(l + 1) : Append(kept, seq[n + 1])[k] = seq[more[k]]
        BY <2>1, <2>2, <3>2
      <4>3. ASSUME NEW j \in 1..(l + 1), NEW k \in 1..(l + 1), j < k
            PROVE  more[j] < more[k]
        <5>1. j \in 1..l /\ more[j] = at[j] /\ at[j] \in Nat /\ at[j] <= n
          <6>1. j \in 1..l /\ more[j] = at[j]
            BY <2>2, <4>3
          <6>2. at[j] \in {i \in places : i <= n}
            BY <2>1, <6>1
          <6> QED
            BY <1>1, <6>1, <6>2
        <5>2. CASE k = l + 1
          BY <2>2, <5>1, <5>2
        <5>3. CASE k \in 1..l
          BY <2>1, <2>2, <4>3, <5>1, <5>3
        <5> QED
          BY <2>2, <5>2, <5>3
      <4>4. \A i \in places : i <= n + 1 => \E k \in 1..(l + 1) : more[k] = i
        <5>1. \A i \in places : i <= n => \E k \in 1..l : at[k] = i
          BY <2>1
        <5>2. \A k \in 1..l : more[k] = at[k] /\ k \in 1..(l + 1)
          BY <2>2
        <5>3. more[l + 1] = n + 1 /\ l + 1 \in 1..(l + 1)
          BY <2>2
        <5>4. \A i \in places : i <= n + 1 => i <= n \/ i = n + 1
          BY <1>1
        <5> HIDE DEF more, l
        <5> QED
          BY <5>1, <5>2, <5>3, <5>4
      <4> HIDE DEF more
      <4> QED
        BY <3>2, <4>1, <4>2, <4>3, <4>4
    <3> HIDE DEF Lists
    <3> QED
      BY <3>1, <3>3
  <2>4. CASE n + 1 \notin places
    <3>1. upTo[n + 1] = kept
      BY <1>4, <2>4
    <3>2. {i \in places : i <= n + 1} = {i \in places : i <= n}
      BY <1>1, <2>4
    <3>3. Lists(kept, at, n + 1)
      BY <2>1, <2>4, <3>2
    <3> HIDE DEF Lists
    <3> QED
      BY <3>1, <3>3
  <2> QED
    BY <2>3, <2>4
<1>7. PICK at : Lists(upTo[Len(seq)], at, Len(seq))
  <2> HIDE DEF Good
  <2>1. Len(seq) \in Good
    BY <1>1, <1>5, <1>6, InductionOnNat
  <2> QED
    BY <1>1, <2>1 DEF Good
<1> DEFINE kept == AtPlaces(seq, places)
<1>8. Lists(kept, at, Len(seq))
  BY <1>2, <1>7
<1>9. {i \in places : i <= Len(seq)} = places
  BY <1>1
<1>10. DOMAIN kept = 1..Len(kept) /\ DOMAIN at = 1..Len(kept)
  BY <1>8
<1> HIDE DEF kept
<1> QED
  BY <1>1, <1>8, <1>9, <1>10 DEF kept

(* What Keep keeps: the elements in S, in order. *)
LEMMA KeepKept ==
    ASSUME NEW T, NEW seq \in Seq(T), NEW S
    PROVE  /\ Keep(seq, S) \in Seq(T \cap S)
           /\ \E at \in [DOMAIN Keep(seq, S) -> DOMAIN seq] :
                /\ \A k \in DOMAIN at : Keep(seq, S)[k] = seq[at[k]]
                /\ \A j, k \in DOMAIN at : j < k => at[j] < at[k]
                /\ \A i \in DOMAIN seq : seq[i] \in S => \E k \in DOMAIN at : at[k] = i
<1> DEFINE places == {i \in DOMAIN seq : seq[i] \in S}
           kept == AtPlaces(seq, places)
<1>0. places \in SUBSET DOMAIN seq
  OBVIOUS
<1>1. /\ kept \in Seq(T)
      /\ \E at \in [DOMAIN kept -> places] :
           /\ \A k \in DOMAIN at : kept[k] = seq[at[k]]
           /\ \A j, k \in DOMAIN at : j < k => at[j] < at[k]
           /\ \A i \in places : \E k \in DOMAIN at : at[k] = i
  <2> HIDE DEF places
  <2> QED
    BY <1>0, PlacesKept
<1>2. PICK at \in [DOMAIN kept -> places] :
           /\ \A k \in DOMAIN at : kept[k] = seq[at[k]]
           /\ \A j, k \in DOMAIN at : j < k => at[j] < at[k]
           /\ \A i \in places : \E k \in DOMAIN at : at[k] = i
  BY <1>1
<1>3. DOMAIN kept = 1..Len(kept) /\ Len(kept) \in Nat /\ kept = [k \in 1..Len(kept) |-> kept[k]]
  <2> HIDE DEF kept
  <2> QED
    BY <1>1
<1>4. \A k \in 1..Len(kept) : kept[k] \in T \cap S
  <2> SUFFICES ASSUME NEW k \in 1..Len(kept) PROVE kept[k] \in T \cap S
    OBVIOUS
  <2>1. at[k] \in places /\ kept[k] = seq[at[k]]
    BY <1>2, <1>3
  <2> QED
    BY <2>1
<1>5. kept \in Seq(T \cap S)
  <2> HIDE DEF kept
  <2> QED
    BY <1>3, <1>4
<1>6. at \in [DOMAIN kept -> DOMAIN seq]
  BY <1>2
<1>7. Keep(seq, S) = kept
  BY DEF Keep
<1> HIDE DEF kept
<1> QED
  BY <1>2, <1>5, <1>6, <1>7

(* A function of the first numbers is a list. *)
LEMMA FunctionIsList ==
    ASSUME NEW n \in Nat, NEW S, NEW f \in [1..n -> S]
    PROVE  f \in Seq(S) /\ Len(f) = n
OBVIOUS

-----------------------------------------------------------------------------
(* Enumerating a finite set                                                *)

(* A list without repetitions names every element of a finite set exactly   *)
(* when it is as long as the set is large.                                  *)
LEMMA EnumerationLength ==
    ASSUME NEW D, IsFiniteSet(D), NEW n \in Nat, NEW e \in [1..n -> D],
           \A i, j \in 1..n : e[i] = e[j] => i = j
    PROVE  n = Cardinality(D) <=> \A x \in D : \E k \in 1..n : e[k] = x
<1>1. e \in Injection(1..n, D)
  BY DEF Injection, IsInjective
<1>2. Cardinality(1..n) = n
  BY FS_Interval
<1>3. n = Cardinality(D) <=> e \in Surjection(1..n, D)
  BY <1>1, <1>2, FS_Injection
<1> QED
  BY <1>3 DEF Surjection

-----------------------------------------------------------------------------
(* Folding                                                                 *)

\* The values that Folded goes through.
IsFold(upTo, step, start, seq) ==
    upTo = [n \in 0..Len(seq) |-> IF n = 0 THEN start ELSE step[<<upTo[n - 1], seq[n]>>]]

(* The recursion of Folded has a solution, which takes one step for each *)
(* element.                                                              *)
LEMMA FoldedSteps ==
    ASSUME NEW step, NEW start, NEW seq, Len(seq) \in Nat
    PROVE  \E upTo : IsFold(upTo, step, start, seq) /\ Folded(step, start, seq) = upTo[Len(seq)]
<1> DEFINE Solves(u, m) == u = [n \in 0..m |-> IF n = 0 THEN start ELSE step[<<u[n - 1], seq[n]>>]]
           S == {m \in Nat : \E u : Solves(u, m)}
<1>1. 0 \in S
  <2>1. Solves([n \in 0..0 |-> start], 0)
    OBVIOUS
  <2> QED
    BY <2>1
<1>2. ASSUME NEW m \in Nat, m \in S
      PROVE  m + 1 \in S
  <2>1. PICK u : Solves(u, m)
    BY <1>2
  <2> DEFINE v == [n \in 0..(m + 1) |-> IF n = m + 1 THEN step[<<u[m], seq[m + 1]>>] ELSE u[n]]
  <2>2. \A n \in 0..m : v[n] = u[n]
    OBVIOUS
  <2>3. ASSUME NEW n \in 0..(m + 1)
        PROVE  v[n] = IF n = 0 THEN start ELSE step[<<v[n - 1], seq[n]>>]
    <3>1. CASE n = m + 1
      BY <2>2, <3>1
    <3>2. CASE n \in 0..m
      <4>1. n = 0 \/ n - 1 \in 0..m
        BY <3>2
      <4>2. u[n] = IF n = 0 THEN start ELSE step[<<u[n - 1], seq[n]>>]
        BY <2>1, <3>2
      <4> HIDE DEF v
      <4> QED
        BY <2>2, <3>2, <4>1, <4>2
    <3> QED
      BY <3>1, <3>2
  <2>4. Solves(v, m + 1)
    <3>1. v = [n \in 0..(m + 1) |-> v[n]]
      OBVIOUS
    <3> HIDE DEF v
    <3> QED
      BY <2>3, <3>1
  <2> HIDE DEF v
  <2>5. \E w : Solves(w, m + 1)
    BY <2>4
  <2> HIDE DEF Solves
  <2> QED
    BY <2>5
<1>3. PICK u : Solves(u, Len(seq))
  <2> HIDE DEF S
  <2>1. Len(seq) \in S
    BY <1>1, <1>2, InductionOnNat
  <2> QED
    BY <2>1 DEF S
<1> DEFINE chosen == CHOOSE upTo : upTo = [n \in 0..Len(seq) |-> IF n = 0 THEN start ELSE step[<<upTo[n - 1], seq[n]>>]]
<1>4. Solves(chosen, Len(seq))
  BY <1>3
<1>5. Folded(step, start, seq) = chosen[Len(seq)]
  BY DEF Folded
<1> QED
  BY <1>4, <1>5 DEF IsFold

(* What holds at the start and is kept by every step holds of the result; *)
(* Holds[n] says it of the value after n elements.                        *)
LEMMA FoldedInvariant ==
    ASSUME NEW S, NEW T, NEW step \in [S \X T -> S], NEW start \in S, NEW seq \in Seq(T),
           NEW Holds \in [0..Len(seq) -> SUBSET S], start \in Holds[0],
           \A n \in 1..Len(seq) : \A x \in Holds[n - 1] : step[<<x, seq[n]>>] \in Holds[n]
    PROVE  Folded(step, start, seq) \in Holds[Len(seq)]
<1>1. Len(seq) \in Nat
  OBVIOUS
<1>2. PICK upTo : IsFold(upTo, step, start, seq) /\ Folded(step, start, seq) = upTo[Len(seq)]
  BY <1>1, FoldedSteps
<1> DEFINE Good == {n \in Nat : n <= Len(seq) => upTo[n] \in Holds[n]}
<1>3. 0 \in Good
  <2>1. upTo[0] = start
    BY <1>1, <1>2 DEF IsFold
  <2> QED
    BY <2>1
<1>4. ASSUME NEW n \in Nat, n \in Good
      PROVE  n + 1 \in Good
  <2> SUFFICES ASSUME n + 1 <= Len(seq) PROVE upTo[n + 1] \in Holds[n + 1]
    OBVIOUS
  <2>1. upTo[n] \in Holds[n]
    BY <1>1, <1>4
  <2>2. upTo[n + 1] = step[<<upTo[n], seq[n + 1]>>]
    BY <1>1, <1>2 DEF IsFold
  <2>3. n + 1 \in 1..Len(seq) /\ (n + 1) - 1 = n
    BY <1>1
  <2> QED
    BY <2>1, <2>2, <2>3
<1>5. Len(seq) \in Good
  <2> HIDE DEF Good
  <2> QED
    BY <1>1, <1>3, <1>4, InductionOnNat
<1> QED
  BY <1>1, <1>2, <1>5

(* The sums of the beginnings of a list. *)
LEMMA SumSteps ==
    ASSUME NEW numbers \in Seq(Int)
    PROVE  \E sums \in [0..Len(numbers) -> Int] :
               /\ sums[0] = 0
               /\ \A n \in 1..Len(numbers) : sums[n] = sums[n - 1] + numbers[n]
               /\ ListSum(numbers) = sums[Len(numbers)]
<1>a. PICK step : step = [pair \in Int \X Int |-> pair[1] + pair[2]]
  OBVIOUS
<1>b. PICK start : start = 0
  OBVIOUS
<1>1. Len(numbers) \in Nat /\ \A n \in 1..Len(numbers) : numbers[n] \in Int
  OBVIOUS
<1>2. PICK upTo : IsFold(upTo, step, start, numbers) /\ Folded(step, start, numbers) = upTo[Len(numbers)]
  BY <1>1, FoldedSteps
<1>3. \A a, b \in Int : step[<<a, b>>] = a + b
  <2> SUFFICES ASSUME NEW a \in Int, NEW b \in Int PROVE step[<<a, b>>] = a + b
    OBVIOUS
  <2>1. <<a, b>> \in Int \X Int /\ <<a, b>>[1] = a /\ <<a, b>>[2] = b
    OBVIOUS
  <2> QED
    BY <1>a, <2>1
<1>0. start \in Int
  BY <1>b
<1> DEFINE Good == {n \in Nat : n <= Len(numbers) => upTo[n] \in Int}
<1>4. 0 \in Good
  BY <1>0, <1>1, <1>2 DEF IsFold
<1>5. ASSUME NEW n \in Nat, n \in Good
      PROVE  n + 1 \in Good
  <2> SUFFICES ASSUME n + 1 <= Len(numbers) PROVE upTo[n + 1] \in Int
    OBVIOUS
  <2>1. upTo[n] \in Int /\ numbers[n + 1] \in Int
    BY <1>1, <1>5
  <2>2. upTo[n + 1] = step[<<upTo[n], numbers[n + 1]>>]
    BY <1>1, <1>2 DEF IsFold
  <2> QED
    BY <1>3, <2>1, <2>2
<1>6. \A n \in Nat : n \in Good
  <2> HIDE DEF Good
  <2> QED
    BY <1>4, <1>5, InductionOnNat
<1>7. upTo \in [0..Len(numbers) -> Int]
  <2>1. \A n \in 0..Len(numbers) : upTo[n] \in Int
    BY <1>1, <1>6
  <2>2. upTo = [n \in 0..Len(numbers) |-> upTo[n]]
    BY <1>2 DEF IsFold
  <2> QED
    BY <2>1, <2>2
<1>8. upTo[0] = 0
  BY <1>b, <1>1, <1>2 DEF IsFold
<1>9. ASSUME NEW n \in 1..Len(numbers)
      PROVE  upTo[n] = upTo[n - 1] + numbers[n]
  <2>1. upTo[n] = step[<<upTo[n - 1], numbers[n]>>]
    <3>1. n \in 0..Len(numbers) /\ n # 0
      BY <1>1
    <3> QED
      BY <1>2, <3>1 DEF IsFold
  <2>2. upTo[n - 1] \in Int /\ numbers[n] \in Int
    BY <1>1, <1>7
  <2> QED
    BY <1>3, <2>1, <2>2
<1>10. ListSum(numbers) = upTo[Len(numbers)]
  BY <1>a, <1>b, <1>2 DEF ListSum
<1> QED
  BY <1>7, <1>8, <1>9, <1>10

(* Differences, added up, are the difference of the sums. *)
LEMMA SumOfDifferences ==
    ASSUME NEW a \in Seq(Int), NEW b \in Seq(Int), NEW c \in Seq(Int),
           Len(b) = Len(a), Len(c) = Len(a),
           \A i \in 1..Len(a) : a[i] = b[i] - c[i]
    PROVE  ListSum(a) = ListSum(b) - ListSum(c)
<1> DEFINE len == Len(a)
<1>1. len \in Nat /\ \A i \in 1..len : a[i] \in Int /\ b[i] \in Int /\ c[i] \in Int
  OBVIOUS
<1>2. PICK sa \in [0..len -> Int] : /\ sa[0] = 0 /\ ListSum(a) = sa[len]
                                   /\ \A n \in 1..len : sa[n] = sa[n - 1] + a[n]
  BY SumSteps
<1>3. PICK sb \in [0..Len(b) -> Int] : /\ sb[0] = 0 /\ ListSum(b) = sb[Len(b)]
                                      /\ \A n \in 1..Len(b) : sb[n] = sb[n - 1] + b[n]
  BY SumSteps
<1>4. PICK sc \in [0..Len(c) -> Int] : /\ sc[0] = 0 /\ ListSum(c) = sc[Len(c)]
                                      /\ \A n \in 1..Len(c) : sc[n] = sc[n - 1] + c[n]
  BY SumSteps
<1> DEFINE Good == {n \in Nat : n <= len => sa[n] = sb[n] - sc[n]}
<1>0. len = Len(b) /\ len = Len(c)
  OBVIOUS
<1> HIDE DEF len
<1>5. 0 \in Good
  BY <1>0, <1>2, <1>3, <1>4
<1>6. ASSUME NEW n \in Nat, n \in Good
      PROVE  n + 1 \in Good
  <2> SUFFICES ASSUME n + 1 <= len PROVE sa[n + 1] = sb[n + 1] - sc[n + 1]
    OBVIOUS
  <2>1. n + 1 \in 1..len /\ n \in 0..len /\ (n + 1) - 1 = n
    BY <1>1
  <2>2. sa[n] = sb[n] - sc[n]
    BY <1>1, <1>6, <2>1
  <2>3. a[n + 1] = b[n + 1] - c[n + 1]
    BY <2>1 DEF len
  <2>4. /\ sa[n + 1] = sa[n] + a[n + 1]
        /\ sb[n + 1] = sb[n] + b[n + 1]
        /\ sc[n + 1] = sc[n] + c[n + 1]
    BY <1>0, <1>2, <1>3, <1>4, <2>1 DEF len
  <2>5. /\ sa[n] \in Int /\ sb[n] \in Int /\ sc[n] \in Int
        /\ a[n + 1] \in Int /\ b[n + 1] \in Int /\ c[n + 1] \in Int
    BY <1>0, <1>1, <2>1
  <2> QED
    BY <2>2, <2>3, <2>4, <2>5
<1>7. len \in Good
  <2> HIDE DEF Good
  <2> QED
    BY <1>1, <1>5, <1>6, InductionOnNat
<1> QED
  BY <1>0, <1>1, <1>2, <1>3, <1>4, <1>7

-----------------------------------------------------------------------------
(* The beginning of a list, its elements without repetitions, and lists one *)
(* after the other                                                         *)

(* The beginning of a list. *)
LEMMA UptoKept ==
    ASSUME NEW S, NEW seq \in Seq(S), NEW limit \in Nat
    PROVE  /\ Upto(limit, seq) \in Seq(S)
           /\ Len(Upto(limit, seq)) = IF Len(seq) < limit THEN Len(seq) ELSE limit
           /\ \A k \in 1 .. Len(Upto(limit, seq)) : k \in 1 .. Len(seq) /\ Upto(limit, seq)[k] = seq[k]
<1> DEFINE n == IF Len(seq) < limit THEN Len(seq) ELSE limit
<1>1. n \in Nat /\ n <= Len(seq) /\ \A k \in 1 .. Len(seq) : seq[k] \in S
  OBVIOUS
<1>2. [k \in 1 .. n |-> seq[k]] \in [1 .. n -> S]
  BY <1>1
<1>3. Upto(limit, seq) = [k \in 1 .. n |-> seq[k]]
  BY DEF Upto
<1>4. Upto(limit, seq) \in Seq(S) /\ Len(Upto(limit, seq)) = n
  <2> HIDE DEF n
  <2> QED
    BY <1>1, <1>2, <1>3, FunctionIsList
<1>5. \A k \in 1 .. n : k \in 1 .. Len(seq) /\ Upto(limit, seq)[k] = seq[k]
  BY <1>1, <1>3
<1> QED
  BY <1>4, <1>5

(* What Firsts keeps: every element, once. *)
LEMMA FirstsKept ==
    ASSUME NEW S, NEW seq \in Seq(S)
    PROVE  /\ Firsts(seq) \in Seq(S)
           /\ \A j, k \in DOMAIN Firsts(seq) : Firsts(seq)[j] = Firsts(seq)[k] => j = k
           /\ \A k \in DOMAIN Firsts(seq) : \E i \in DOMAIN seq : Firsts(seq)[k] = seq[i]
           /\ \A i \in DOMAIN seq : \E k \in DOMAIN Firsts(seq) : Firsts(seq)[k] = seq[i]
           /\ seq # <<>> => Firsts(seq) # <<>> /\ Firsts(seq)[1] = seq[1]
<1> DEFINE places == {i \in DOMAIN seq : \A j \in 1 .. i - 1 : seq[j] # seq[i]}
<1>1. places \in SUBSET DOMAIN seq
  OBVIOUS
<1>2. Firsts(seq) = AtPlaces(seq, places)
  BY DEF Firsts
<1> HIDE DEF places
<1>3. /\ Firsts(seq) \in Seq(S)
      /\ \E at \in [DOMAIN Firsts(seq) -> places] :
            /\ \A k \in DOMAIN at : Firsts(seq)[k] = seq[at[k]]
            /\ \A j, k \in DOMAIN at : j < k => at[j] < at[k]
            /\ \A i \in places : \E k \in DOMAIN at : at[k] = i
  BY <1>1, <1>2, PlacesKept
<1>4. PICK kept : kept = Firsts(seq)
  OBVIOUS
<1>5. PICK at \in [DOMAIN kept -> places] :
            /\ \A k \in DOMAIN at : kept[k] = seq[at[k]]
            /\ \A j, k \in DOMAIN at : j < k => at[j] < at[k]
            /\ \A i \in places : \E k \in DOMAIN at : at[k] = i
  BY <1>3, <1>4
<1>6. /\ kept \in Seq(S) /\ DOMAIN kept = 1 .. Len(kept) /\ Len(kept) \in Nat
      /\ DOMAIN seq = 1 .. Len(seq) /\ Len(seq) \in Nat
  BY <1>3, <1>4
<1>7. ASSUME NEW j \in DOMAIN kept, NEW k \in DOMAIN kept, j < k
      PROVE  kept[j] # kept[k]
  <2>1. at[j] \in Nat /\ at[k] \in Nat /\ at[j] < at[k] /\ at[k] \in places /\ at[j] \in 1 .. at[k] - 1
    <3>1. at[j] \in places /\ at[k] \in places /\ at[j] < at[k]
      BY <1>5, <1>7
    <3> QED
      BY <1>1, <1>6, <3>1
  <2>2. seq[at[j]] # seq[at[k]]
    BY <2>1 DEF places
  <2>3. kept[j] = seq[at[j]] /\ kept[k] = seq[at[k]]
    BY <1>5
  <2> QED
    BY <2>2, <2>3
<1>8. \A j, k \in DOMAIN kept : kept[j] = kept[k] => j = k
  <2> SUFFICES ASSUME NEW j \in DOMAIN kept, NEW k \in DOMAIN kept, kept[j] = kept[k], j # k
               PROVE  FALSE
    OBVIOUS
  <2>1. j < k \/ k < j
    BY <1>6
  <2> QED
    BY <1>7, <2>1
<1>9. \A k \in DOMAIN kept : \E i \in DOMAIN seq : kept[k] = seq[i]
  BY <1>1, <1>5
<1>10. ASSUME NEW i \in DOMAIN seq
       PROVE  \E k \in DOMAIN kept : kept[k] = seq[i]
  <2> DEFINE same == {j \in DOMAIN seq : seq[j] = seq[i]}
  <2>1. same \in SUBSET Nat /\ same # {}
    BY <1>6
  <2>2. PICK m \in same : \A n \in same : m <= n
    BY <2>1, LeastNatural
  <2>3. m \in DOMAIN seq /\ seq[m] = seq[i] /\ m \in Nat
    BY <1>6, <2>2
  <2>4. ASSUME NEW j \in 1 .. m - 1, seq[j] = seq[m]
        PROVE  FALSE
    <3>1. j \in same /\ j < m /\ j \in Nat
      BY <1>6, <2>3, <2>4
    <3> QED
      BY <2>2, <2>3, <3>1
  <2>5. m \in places
    BY <2>3, <2>4 DEF places
  <2>6. PICK k \in DOMAIN at : at[k] = m
    BY <1>5, <2>5
  <2> QED
    BY <1>5, <2>3, <2>6
<1>11. ASSUME seq # <<>>
       PROVE  kept # <<>> /\ kept[1] = seq[1]
  <2>1. 1 \in DOMAIN seq
    BY <1>6, <1>11
  <2>2. 1 \in places
    BY <2>1 DEF places
  <2>3. PICK k \in DOMAIN at : at[k] = 1
    BY <1>5, <2>2
  <2>4. k \in 1 .. Len(kept) /\ 1 \in 1 .. Len(kept)
    BY <1>5, <1>6, <2>3
  <2>5. ASSUME 1 < k
        PROVE  FALSE
    <3>1. at[1] < 1 /\ at[1] \in places
      BY <1>5, <1>6, <2>3, <2>4, <2>5
    <3>2. at[1] \in 1 .. Len(seq)
      BY <1>1, <1>6, <3>1
    <3> QED
      BY <3>1, <3>2
  <2>6. k = 1
    BY <1>6, <2>4, <2>5
  <2> QED
    BY <1>5, <1>6, <2>3, <2>4, <2>6
<1> QED
  BY <1>3, <1>4, <1>8, <1>9, <1>10, <1>11

(* The elements of a list of lists. *)
LEMMA ConcatHolds ==
    ASSUME NEW T, NEW lists \in Seq(Seq(T))
    PROVE  /\ Concat(lists) \in Seq(T)
           /\ \A k \in DOMAIN Concat(lists) : \E i \in DOMAIN lists : \E j \in DOMAIN lists[i] :
                 Concat(lists)[k] = lists[i][j]
           /\ \A i \in DOMAIN lists : \A j \in DOMAIN lists[i] : \E k \in DOMAIN Concat(lists) :
                 Concat(lists)[k] = lists[i][j]
<1>1. PICK E : E = UNION {{lists[i][j] : j \in DOMAIN lists[i]} : i \in DOMAIN lists}
  OBVIOUS
<1>2. \A i \in DOMAIN lists : lists[i] \in Seq(T) /\ DOMAIN lists[i] = 1 .. Len(lists[i]) /\ Len(lists[i]) \in Nat
  OBVIOUS
<1>3. E \subseteq T
  <2>1. \A i \in DOMAIN lists : \A j \in DOMAIN lists[i] : lists[i][j] \in T
    BY <1>2
  <2> QED
    BY <1>1, <2>1
<1>4. DOMAIN lists = 1 .. Len(lists) /\ Len(lists) \in Nat
  OBVIOUS
<1>5. ASSUME NEW i \in DOMAIN lists
      PROVE  lists[i] \in Seq(E)
  <2>1. \A j \in DOMAIN lists[i] : lists[i][j] \in E
    BY <1>1
  <2>2. lists[i] = [j \in 1 .. Len(lists[i]) |-> lists[i][j]]
    BY <1>2
  <2> QED
    BY <1>2, <2>1, <2>2
<1>6. PICK step : step = [pair \in Seq(E) \X Seq(E) |-> pair[1] \o pair[2]]
  OBVIOUS
<1>7. Concat(lists) = Folded(step, <<>>, lists)
  BY <1>1, <1>6 DEF Concat
<1>8. ASSUME NEW a \in Seq(E), NEW b \in Seq(E)
      PROVE  step[<<a, b>>] = a \o b /\ a \o b \in Seq(E)
  <2>1. <<a, b>> \in Seq(E) \X Seq(E) /\ <<a, b>>[1] = a /\ <<a, b>>[2] = b
    OBVIOUS
  <2> QED
    BY <1>6, <2>1
<1>9. step \in [Seq(E) \X Seq(E) -> Seq(E)]
  BY <1>6
<1>10. lists \in Seq(Seq(E))
  <2>1. lists = [i \in 1 .. Len(lists) |-> lists[i]]
    BY <1>4
  <2> QED
    BY <1>4, <1>5, <2>1
<1> DEFINE Holds == [n \in 0 .. Len(lists) |->
                       {x \in Seq(E) : \A i \in 1 .. n : \A j \in DOMAIN lists[i] : \E k \in DOMAIN x : x[k] = lists[i][j]}]
<1>11. Holds \in [0 .. Len(lists) -> SUBSET Seq(E)]
  OBVIOUS
<1>12. <<>> \in Seq(E) /\ <<>> \in Holds[0]
  BY <1>4
<1>13. ASSUME NEW n \in 1 .. Len(lists), NEW x \in Holds[n - 1]
       PROVE  step[<<x, lists[n]>>] \in Holds[n]
  <2>1. n \in DOMAIN lists /\ n - 1 \in 0 .. Len(lists) /\ n \in 0 .. Len(lists)
    BY <1>4
  <2>2. x \in Seq(E) /\ \A i \in 1 .. (n - 1) : \A j \in DOMAIN lists[i] : \E k \in DOMAIN x : x[k] = lists[i][j]
    BY <1>13, <2>1
  <2>3. lists[n] \in Seq(E)
    BY <1>5, <2>1
  <2>4. PICK y : y = lists[n]
    OBVIOUS
  <2>5. PICK z : z = x \o y
    OBVIOUS
  <2>6. step[<<x, lists[n]>>] = z /\ z \in Seq(E)
    BY <1>8, <2>2, <2>3, <2>4, <2>5
  <2>7. /\ Len(x) \in Nat /\ Len(y) \in Nat /\ DOMAIN x = 1 .. Len(x) /\ DOMAIN y = 1 .. Len(y)
        /\ DOMAIN z = 1 .. (Len(x) + Len(y))
        /\ \A k \in 1 .. Len(x) : z[k] = x[k]
        /\ \A k \in 1 .. Len(y) : z[Len(x) + k] = y[k]
    BY <2>2, <2>3, <2>4, <2>5
  <2>8. ASSUME NEW i \in 1 .. n, NEW j \in DOMAIN lists[i]
        PROVE  \E k \in DOMAIN z : z[k] = lists[i][j]
    <3>1. CASE i \in 1 .. (n - 1)
      <4>1. PICK k \in DOMAIN x : x[k] = lists[i][j]
        BY <2>2, <2>8, <3>1
      <4>2. k \in DOMAIN z /\ z[k] = x[k]
        BY <2>7, <4>1
      <4> QED
        BY <4>1, <4>2
    <3>2. CASE i = n
      <4>1. j \in DOMAIN y /\ y[j] = lists[i][j]
        BY <2>4, <2>8, <3>2
      <4>2. Len(x) + j \in DOMAIN z /\ z[Len(x) + j] = y[j]
        BY <2>7, <4>1
      <4> QED
        BY <4>1, <4>2
    <3> QED
      BY <1>4, <3>1, <3>2
  <2> QED
    BY <2>1, <2>6, <2>8
<1>14. Folded(step, <<>>, lists) \in Holds[Len(lists)]
  <2> HIDE DEF Holds
  <2>1. PICK start : start = <<>>
    OBVIOUS
  <2>2. Folded(step, start, lists) \in Holds[Len(lists)]
    BY <1>9, <1>10, <1>11, <1>12, <1>13, <2>1, FoldedInvariant
  <2> QED
    BY <2>1, <2>2
<1>15. PICK c : c = Concat(lists)
  OBVIOUS
<1>16. c \in Seq(E) /\ \A i \in 1 .. Len(lists) : \A j \in DOMAIN lists[i] : \E k \in DOMAIN c : c[k] = lists[i][j]
  BY <1>4, <1>7, <1>14, <1>15
<1>17. \A k \in DOMAIN c : c[k] \in E
  BY <1>16
<1>18. \A k \in DOMAIN c : \E i \in DOMAIN lists : \E j \in DOMAIN lists[i] : c[k] = lists[i][j]
  BY <1>1, <1>17
<1>19. c \in Seq(T)
  BY <1>3, <1>16
<1> QED
  BY <1>4, <1>15, <1>16, <1>18, <1>19

(* One list behind another. *)
LEMMA OneBehindOther ==
    ASSUME NEW S, NEW a \in Seq(S), NEW b \in Seq(S)
    PROVE  /\ a \o b \in Seq(S) /\ Len(a \o b) = Len(a) + Len(b) /\ DOMAIN (a \o b) = 1 .. (Len(a) + Len(b))
           /\ \A i \in 1 .. Len(a) : (a \o b)[i] = a[i]
           /\ \A i \in 1 .. Len(b) : (a \o b)[Len(a) + i] = b[i]
  OBVIOUS

(* Where the elements at some places come to stand: kept holds them in     *)
(* their order, and at names the place of each.                            *)
KeptAt(at, kept, seq, places) ==
    /\ at \in [DOMAIN kept -> places]
    /\ \A k \in DOMAIN at : kept[k] = seq[at[k]]
    /\ \A j, k \in DOMAIN at : j < k => at[j] < at[k]
    /\ \A i \in places : \E k \in DOMAIN at : at[k] = i

(* The elements at some places have such places. *)
LEMMA KeptAtPlaces ==
    ASSUME NEW S, NEW seq, seq \in Seq(S), NEW places, places \in SUBSET DOMAIN seq,
           NEW kept, kept = AtPlaces(seq, places)
    PROVE  kept \in Seq(S) /\ \E at : KeptAt(at, kept, seq, places)
<1>1. \E at \in [DOMAIN AtPlaces(seq, places) -> places] :
         /\ \A k \in DOMAIN at : AtPlaces(seq, places)[k] = seq[at[k]]
         /\ \A j, k \in DOMAIN at : j < k => at[j] < at[k]
         /\ \A i \in places : \E k \in DOMAIN at : at[k] = i
  BY PlacesKept
<1>2. kept \in Seq(S)
  BY PlacesKept
<1> QED
  BY <1>1, <1>2 DEF KeptAt

(* An element with no gap before it keeps its place. *)
NoGap(m, places) == places \in SUBSET (Nat \ {0}) /\ 1 .. m \subseteq places

LEMMA KeptInPlace ==
    ASSUME NEW places, NEW n \in Nat, NEW kept, DOMAIN kept = 1 .. n, NEW seq, NEW at, KeptAt(at, kept, seq, places),
           NEW k \in DOMAIN kept, NoGap(at[k], places)
    PROVE  at[k] = k
<1> SUFFICES ASSUME at[k] # k PROVE FALSE
  OBVIOUS
<1>1. /\ \A j \in 1 .. n : at[j] \in Nat \ {0}
      /\ \A i, j \in 1 .. n : i < j => at[i] < at[j]
      /\ \A i \in places : \E j \in 1 .. n : at[j] = i
  BY DEF KeptAt, NoGap
<1> DEFINE moved == {j \in 1 .. n : at[j] # j}
<1>2. moved \in SUBSET Nat /\ moved # {}
  OBVIOUS
<1>3. PICK m \in moved : \A j \in moved : m <= j
  BY <1>2, LeastNatural
<1>4. m \in 1 .. n /\ at[m] # m /\ m <= k /\ \A j \in 1 .. n : j < m => at[j] = j
  BY <1>3
<1>5. at[m] <= at[k]
  BY <1>1, <1>4
<1>6. CASE at[m] < m
  <2>1. at[m] \in 1 .. n
    BY <1>1, <1>4, <1>6
  <2>2. at[at[m]] = at[m] /\ at[at[m]] < at[m]
    BY <1>1, <1>4, <1>6, <2>1
  <2> QED
    BY <1>1, <1>4, <2>2
<1>7. CASE m < at[m]
  <2>1. m \in places
    BY <1>1, <1>4, <1>5, <1>7 DEF NoGap
  <2>2. PICK j \in 1 .. n : at[j] = m
    BY <1>1, <2>1
  <2> QED
    BY <1>1, <1>4, <1>7, <2>2
<1> QED
  BY <1>1, <1>4, <1>6, <1>7

(* The elements at some places, without saying where they come to stand. *)
LEMMA PlacesChosen ==
    ASSUME NEW S, NEW seq \in Seq(S), NEW places \in SUBSET DOMAIN seq
    PROVE  /\ AtPlaces(seq, places) \in Seq(S)
           /\ \A k \in DOMAIN AtPlaces(seq, places) : \E i \in places : AtPlaces(seq, places)[k] = seq[i]
           /\ \A i \in places : \E k \in DOMAIN AtPlaces(seq, places) : AtPlaces(seq, places)[k] = seq[i]
           /\ (\A i, j \in DOMAIN seq : seq[i] = seq[j] => i = j) =>
                 \A j, k \in DOMAIN AtPlaces(seq, places) :
                    AtPlaces(seq, places)[j] = AtPlaces(seq, places)[k] => j = k
<1>1. PICK kept : kept = AtPlaces(seq, places)
  OBVIOUS
<1>2. /\ AtPlaces(seq, places) \in Seq(S)
      /\ \E at \in [DOMAIN AtPlaces(seq, places) -> places] :
           /\ \A k \in DOMAIN at : AtPlaces(seq, places)[k] = seq[at[k]]
           /\ \A j, k \in DOMAIN at : j < k => at[j] < at[k]
           /\ \A i \in places : \E k \in DOMAIN at : at[k] = i
  BY PlacesKept
<1>3. PICK at \in [DOMAIN kept -> places] :
        /\ \A k \in DOMAIN at : kept[k] = seq[at[k]]
        /\ \A j, k \in DOMAIN at : j < k => at[j] < at[k]
        /\ \A i \in places : \E k \in DOMAIN at : at[k] = i
  BY <1>1, <1>2
<1>4. kept \in Seq(S) /\ DOMAIN kept = 1 .. Len(kept) /\ Len(kept) \in Nat /\ DOMAIN at = DOMAIN kept
  BY <1>1, <1>2, <1>3
<1>5. \A k \in DOMAIN kept : at[k] \in places /\ at[k] \in DOMAIN seq /\ at[k] \in Nat
  BY <1>3
<1>6. ASSUME \A i, j \in DOMAIN seq : seq[i] = seq[j] => i = j,
             NEW j \in DOMAIN kept, NEW k \in DOMAIN kept, kept[j] = kept[k]
      PROVE  j = k
  <2>1. at[j] = at[k] /\ at[j] \in Nat
    BY <1>3, <1>4, <1>5, <1>6
  <2>2. ~(at[j] < at[k]) /\ ~(at[k] < at[j])
    BY <2>1
  <2>3. ~(j < k) /\ ~(k < j)
    BY <1>3, <1>4, <1>6, <2>2
  <2> QED
    BY <1>4, <2>3
<1>7. \A k \in DOMAIN kept : \E i \in places : kept[k] = seq[i]
  BY <1>3, <1>4, <1>5
<1>8. \A i \in places : \E k \in DOMAIN kept : kept[k] = seq[i]
  BY <1>3, <1>4
<1> QED
  BY <1>1, <1>4, <1>6, <1>7, <1>8

-----------------------------------------------------------------------------
(* Sorting                                                                 *)

(* A relation that can order D: no element is before itself, and what is  *)
(* before something is before everything that is behind it.               *)
IsOrderOf(before, D) ==
    /\ \A x \in D : <<x, x>> \notin before
    /\ \A x, y, z \in D : <<x, y>> \in before /\ <<y, z>> \in before => <<x, z>> \in before

(* Of finitely many elements there is one that no other is before. *)
LEMMA SomethingFirst ==
    ASSUME NEW D, IsFiniteSet(D), D # {}, NEW before, IsOrderOf(before, D)
    PROVE  \E x \in D : \A y \in D : <<y, x>> \notin before
<1> DEFINE Below(x) == {z \in D : <<z, x>> \in before}
           sizes == {Cardinality(Below(x)) : x \in D}
<1>1. \A x \in D : Below(x) \subseteq D /\ IsFiniteSet(Below(x)) /\ Cardinality(Below(x)) \in Nat
  <2> SUFFICES ASSUME NEW x \in D
               PROVE  Below(x) \subseteq D /\ IsFiniteSet(Below(x)) /\ Cardinality(Below(x)) \in Nat
    OBVIOUS
  <2>1. Below(x) \subseteq D
    OBVIOUS
  <2> HIDE DEF Below
  <2>2. IsFiniteSet(Below(x))
    BY <2>1, FS_Subset
  <2> QED
    BY <2>1, <2>2, FS_CardinalityType
<1>2. sizes \in SUBSET Nat /\ sizes # {}
  BY <1>1
<1>3. PICK m \in sizes : \A n \in sizes : m <= n
  <2> HIDE DEF sizes
  <2> QED
    BY <1>2, LeastNatural
<1>4. PICK x \in D : m = Cardinality(Below(x))
  BY <1>3
<1>5. ASSUME NEW y \in D, <<y, x>> \in before
      PROVE  FALSE
  <2>1. Below(y) \subseteq Below(x)
    BY <1>5 DEF IsOrderOf
  <2>2. y \in Below(x) /\ y \notin Below(y)
    BY <1>5 DEF IsOrderOf
  <2>3. Cardinality(Below(x)) <= Cardinality(Below(y))
    BY <1>3, <1>4
  <2> HIDE DEF Below
  <2>4. Cardinality(Below(y)) < Cardinality(Below(x)) \/ Below(y) = Below(x)
    <3>1. Cardinality(Below(y)) <= Cardinality(Below(x))
          /\ (Cardinality(Below(y)) = Cardinality(Below(x)) => Below(y) = Below(x))
      BY <1>1, <2>1, FS_Subset
    <3> QED
      BY <1>1, <3>1
  <2> QED
    BY <1>1, <2>2, <2>3, <2>4
<1> QED
  BY <1>5

(* What InOrder lists: every element of D once, none behind one that it is *)
(* before.                                                                 *)
LEMMA InOrderListed ==
    ASSUME NEW D, IsFiniteSet(D), NEW before, IsOrderOf(before, D)
    PROVE  /\ InOrder(D, before) \in Seq(D)
           /\ Len(InOrder(D, before)) = Cardinality(D)
           /\ \A j, k \in DOMAIN InOrder(D, before) : InOrder(D, before)[j] = InOrder(D, before)[k] => j = k
           /\ \A x \in D : \E k \in DOMAIN InOrder(D, before) : InOrder(D, before)[k] = x
           /\ \A j, k \in DOMAIN InOrder(D, before) :
                 j < k => <<InOrder(D, before)[k], InOrder(D, before)[j]>> \notin before
<1> DEFINE Left(listed) == D \ {listed[k] : k \in DOMAIN listed}
           Next(s) == CHOOSE x \in Left(s) : \A y \in Left(s) : <<y, x>> \notin before
           size == Cardinality(D)
           numbers == [k \in 1 .. size |-> k]
<1>1. PICK step : step = [pair \in Seq(D) \X Nat |-> Append(pair[1], Next(pair[1]))]
  OBVIOUS
<1>2. InOrder(D, before) = Folded(step, <<>>, numbers)
  BY <1>1 DEF InOrder
<1>3. size \in Nat
  BY FS_CardinalityType
<1>4. Len(numbers) = size /\ DOMAIN numbers = 1 .. size /\ \A k \in 1 .. size : numbers[k] = k
  <2> HIDE DEF size
  <2> QED
    BY <1>3
<1>5. ASSUME NEW s \in Seq(D), NEW n \in Nat
      PROVE  step[<<s, n>>] = Append(s, Next(s))
  <2>1. <<s, n>> \in Seq(D) \X Nat /\ <<s, n>>[1] = s
    OBVIOUS
  <2> HIDE DEF Next
  <2> QED
    BY <1>1, <2>1
<1> HIDE DEF numbers, size
<1>6. PICK upTo : IsFold(upTo, step, <<>>, numbers) /\ Folded(step, <<>>, numbers) = upTo[Len(numbers)]
  <2>1. PICK start : start = <<>>
    OBVIOUS
  <2>2. \E upTo : IsFold(upTo, step, start, numbers) /\ Folded(step, start, numbers) = upTo[Len(numbers)]
    BY <1>3, <1>4, FoldedSteps
  <2> QED
    BY <2>1, <2>2
<1> DEFINE Listed(s, n) ==
             /\ s \in Seq(D) /\ Len(s) = n
             /\ \A j, k \in 1 .. n : s[j] = s[k] => j = k
             /\ \A j, k \in 1 .. n : j < k => <<s[k], s[j]>> \notin before
             /\ \A y \in Left(s), k \in 1 .. n : <<y, s[k]>> \notin before
           Good == {n \in Nat : n <= size => Listed(upTo[n], n)}
<1>7. 0 \in Good
  <2>1. upTo[0] = <<>>
    BY <1>3, <1>4, <1>6 DEF IsFold
  <2>2. Listed(<<>>, 0)
    OBVIOUS
  <2> HIDE DEF Listed
  <2> QED
    BY <2>1, <2>2
<1>8. ASSUME NEW n \in Nat, n \in Good
      PROVE  n + 1 \in Good
  <2> SUFFICES ASSUME n + 1 <= size PROVE Listed(upTo[n + 1], n + 1)
    OBVIOUS
  <2>1. PICK s : s = upTo[n]
    OBVIOUS
  <2>2. Listed(s, n)
    BY <1>3, <1>8, <2>1
  <2>3. upTo[n + 1] = Append(s, Next(s))
    <3>1. n + 1 \in 0 .. Len(numbers) /\ n + 1 # 0 /\ (n + 1) - 1 = n
      BY <1>3, <1>4
    <3>2. upTo[n + 1] = step[<<upTo[(n + 1) - 1], numbers[n + 1]>>]
      BY <1>6, <3>1 DEF IsFold
    <3>3. numbers[n + 1] = n + 1 /\ n + 1 \in Nat
      BY <1>3, <1>4, <3>1
    <3>4. upTo[n + 1] = step[<<s, n + 1>>]
      BY <2>1, <3>1, <3>2, <3>3
    <3>5. s \in Seq(D)
      BY <2>2
    <3> HIDE DEF Next
    <3> QED
      BY <1>5, <3>3, <3>4, <3>5
  <2>4. Left(s) # {}
    <3>1. s \in [1 .. n -> D] /\ DOMAIN s = 1 .. n /\ \A j, k \in 1 .. n : s[j] = s[k] => j = k
      BY <2>2
    <3>2. n # Cardinality(D)
      BY <1>3 DEF size
    <3>3. n = Cardinality(D) <=> \A x \in D : \E k \in 1 .. n : s[k] = x
      BY <3>1, EnumerationLength
    <3> QED
      BY <3>1, <3>2, <3>3
  <2>5. Left(s) \subseteq D /\ IsFiniteSet(Left(s))
    <3>1. Left(s) \subseteq D
      OBVIOUS
    <3> HIDE DEF Left
    <3> QED
      BY <3>1, FS_Subset
  <2>6. IsOrderOf(before, Left(s))
    BY <2>5 DEF IsOrderOf
  <2>7. PICK x : x = Next(s)
    OBVIOUS
  <2>8. x \in Left(s) /\ \A y \in Left(s) : <<y, x>> \notin before
    <3>1. \E z \in Left(s) : \A y \in Left(s) : <<y, z>> \notin before
      <4> HIDE DEF Left
      <4> QED
        BY <2>4, <2>5, <2>6, SomethingFirst
    <3> QED
      BY <2>7, <3>1
  <2>9. PICK t : t = Append(s, x)
    OBVIOUS
  <2>10. /\ t \in Seq(D) /\ Len(t) = n + 1 /\ DOMAIN t = 1 .. (n + 1)
         /\ \A k \in 1 .. n : t[k] = s[k]
         /\ t[n + 1] = x
    BY <2>2, <2>5, <2>8, <2>9
  <2>11. DOMAIN s = 1 .. n /\ \A k \in 1 .. n : s[k] # x
    BY <2>2, <2>8
  <2>12. Left(t) \subseteq Left(s)
    <3>1. \A k \in DOMAIN s : k \in DOMAIN t /\ t[k] = s[k]
      BY <2>10, <2>11
    <3> QED
      BY <3>1
  <2>13. \A j, k \in 1 .. (n + 1) : t[j] = t[k] => j = k
    <3> SUFFICES ASSUME NEW j \in 1 .. (n + 1), NEW k \in 1 .. (n + 1), t[j] = t[k] PROVE j = k
      OBVIOUS
    <3>1. (j \in 1 .. n \/ j = n + 1) /\ (k \in 1 .. n \/ k = n + 1)
      OBVIOUS
    <3> QED
      BY <2>2, <2>10, <2>11, <3>1
  <2>14. \A j, k \in 1 .. (n + 1) : j < k => <<t[k], t[j]>> \notin before
    <3> SUFFICES ASSUME NEW j \in 1 .. (n + 1), NEW k \in 1 .. (n + 1), j < k PROVE <<t[k], t[j]>> \notin before
      OBVIOUS
    <3>1. j \in 1 .. n /\ t[j] = s[j]
      BY <2>10
    <3>2. CASE k \in 1 .. n
      BY <2>2, <2>10, <3>1, <3>2
    <3>3. CASE k = n + 1
      <4>1. t[k] = x /\ <<x, s[j]>> \notin before
        BY <2>2, <2>8, <2>10, <3>1, <3>3
      <4> QED
        BY <3>1, <4>1
    <3> QED
      BY <3>2, <3>3
  <2>15. \A y \in Left(t), k \in 1 .. (n + 1) : <<y, t[k]>> \notin before
    <3> SUFFICES ASSUME NEW y \in Left(t), NEW k \in 1 .. (n + 1) PROVE <<y, t[k]>> \notin before
      OBVIOUS
    <3>1. y \in Left(s)
      BY <2>12
    <3>2. CASE k \in 1 .. n
      BY <2>2, <2>10, <3>1, <3>2
    <3>3. CASE k = n + 1
      BY <2>8, <2>10, <3>1, <3>3
    <3> QED
      BY <3>2, <3>3
  <2>16. upTo[n + 1] = t
    BY <2>3, <2>7, <2>9
  <2>17. Listed(t, n + 1)
    <3> HIDE DEF Left
    <3> QED
      BY <2>10, <2>13, <2>14, <2>15
  <2> HIDE DEF Listed
  <2> QED
    BY <2>16, <2>17
<1>9. size \in Good
  <2> HIDE DEF Good
  <2> QED
    BY <1>3, <1>7, <1>8, InductionOnNat
<1>10. PICK s : s = InOrder(D, before)
  OBVIOUS
<1>11. Listed(s, size)
  <2>1. s = upTo[size]
    BY <1>2, <1>4, <1>6, <1>10
  <2> QED
    BY <1>3, <1>9, <2>1
<1>12. s \in [1 .. size -> D] /\ DOMAIN s = 1 .. size
  BY <1>11
<1>13. \A x \in D : \E k \in 1 .. size : s[k] = x
  <2>1. size = Cardinality(D) <=> \A x \in D : \E k \in 1 .. size : s[k] = x
    BY <1>3, <1>11, <1>12, EnumerationLength
  <2> QED
    BY <2>1 DEF size
<1>14. Len(s) = Cardinality(D)
  BY <1>11 DEF size
<1> QED
  BY <1>10, <1>11, <1>12, <1>13, <1>14

-----------------------------------------------------------------------------
(* Listings of a set                                                       *)

(* The list holds every element of S once, and nothing else. *)
Enumerates(list, S) ==
    /\ list \in Seq(S)
    /\ \A i, j \in DOMAIN list : list[i] = list[j] => i = j
    /\ \A x \in S : \E i \in DOMAIN list : list[i] = x

(* One listing after another, of sets that have nothing in common. *)
LEMMA EnumeratedJoined ==
    ASSUME NEW S, NEW T, NEW s, NEW t, Enumerates(s, S), Enumerates(t, T), S \cap T = {}
    PROVE  Enumerates(s \o t, S \cup T)
<1>1. s \in Seq(S) /\ t \in Seq(T) /\ s \in Seq(S \cup T) /\ t \in Seq(S \cup T)
  BY DEF Enumerates
<1>2. PICK m \in Nat, n \in Nat : m = Len(s) /\ n = Len(t) /\ DOMAIN s = 1 .. m /\ DOMAIN t = 1 .. n
  BY <1>1
<1>3. PICK both : both = s \o t
  OBVIOUS
<1>4. both \in Seq(S \cup T) /\ Len(both) = m + n /\ DOMAIN both = 1 .. m + n
  BY <1>1, <1>2, <1>3
<1>5. \A k \in 1 .. m + n : both[k] = IF k <= m THEN s[k] ELSE t[k - m]
  BY <1>1, <1>2, <1>3
<1>6. \A k \in 1 .. m : s[k] \in S
  BY <1>1, <1>2
<1>7. \A k \in 1 .. n : t[k] \in T
  BY <1>1, <1>2
<1>8. ASSUME NEW i \in 1 .. m + n, NEW j \in 1 .. m + n, both[i] = both[j]
      PROVE  i = j
  <2>1. CASE i <= m /\ j <= m
    <3>1. i \in 1 .. m /\ j \in 1 .. m /\ s[i] = s[j]
      BY <1>5, <1>8, <2>1
    <3> QED
      BY <1>2, <3>1 DEF Enumerates
  <2>2. CASE ~(i <= m) /\ ~(j <= m)
    <3>1. i - m \in 1 .. n /\ j - m \in 1 .. n /\ t[i - m] = t[j - m]
      BY <1>5, <1>8, <2>2
    <3>2. i - m = j - m
      BY <1>2, <3>1 DEF Enumerates
    <3> QED
      BY <3>2
  <2>3. ASSUME NEW a \in 1 .. m + n, NEW b \in 1 .. m + n, a <= m, ~(b <= m), both[a] = both[b]
        PROVE  FALSE
    <3>1. a \in 1 .. m /\ b - m \in 1 .. n /\ s[a] = t[b - m]
      BY <1>5, <2>3
    <3>2. s[a] \in S /\ t[b - m] \in T
      BY <1>6, <1>7, <3>1
    <3> QED
      BY <3>1, <3>2
  <2> QED
    BY <1>8, <2>1, <2>2, <2>3
<1>9. ASSUME NEW x \in S \cup T
      PROVE  \E k \in 1 .. m + n : both[k] = x
  <2>1. CASE x \in S
    <3>1. PICK k \in 1 .. m : s[k] = x
      BY <1>2, <2>1 DEF Enumerates
    <3>2. k \in 1 .. m + n /\ both[k] = x
      BY <1>5, <3>1
    <3> QED
      BY <3>2
  <2>2. CASE x \in T
    <3>1. PICK k \in 1 .. n : t[k] = x
      BY <1>2, <2>2 DEF Enumerates
    <3>2. m + k \in 1 .. m + n /\ ~(m + k <= m) /\ (m + k) - m = k
      OBVIOUS
    <3>3. both[m + k] = x
      BY <1>5, <3>1, <3>2
    <3> QED
      BY <3>2, <3>3
  <2> QED
    BY <2>1, <2>2
<1> QED
  BY <1>3, <1>4, <1>8, <1>9 DEF Enumerates

(* What is kept of a listing lists what is kept of the set. *)
LEMMA EnumeratedKept ==
    ASSUME NEW S, NEW list, Enumerates(list, S), NEW T
    PROVE  Enumerates(Keep(list, T), S \cap T)
<1>1. PICK kept : kept = Keep(list, T)
  OBVIOUS
<1>2. list \in Seq(S)
  BY DEF Enumerates
<1>3. /\ kept \in Seq(S \cap T)
      /\ \E at \in [DOMAIN kept -> DOMAIN list] :
            /\ \A k \in DOMAIN at : kept[k] = list[at[k]]
            /\ \A j, k \in DOMAIN at : j < k => at[j] < at[k]
            /\ \A i \in DOMAIN list : list[i] \in T => \E k \in DOMAIN at : at[k] = i
  BY <1>1, <1>2, KeepKept
<1>4. PICK at \in [DOMAIN kept -> DOMAIN list] :
            /\ \A k \in DOMAIN at : kept[k] = list[at[k]]
            /\ \A j, k \in DOMAIN at : j < k => at[j] < at[k]
            /\ \A i \in DOMAIN list : list[i] \in T => \E k \in DOMAIN at : at[k] = i
  BY <1>3
<1>5. DOMAIN at = DOMAIN kept /\ \A k \in DOMAIN kept : k \in Nat /\ at[k] \in DOMAIN list /\ at[k] \in Nat
  <2>1. DOMAIN kept = 1 .. Len(kept) /\ DOMAIN list = 1 .. Len(list)
    BY <1>2, <1>3
  <2>2. DOMAIN at = DOMAIN kept /\ \A k \in DOMAIN kept : at[k] \in DOMAIN list
    OBVIOUS
  <2> QED
    BY <2>1, <2>2
<1>6. ASSUME NEW j \in DOMAIN kept, NEW k \in DOMAIN kept, kept[j] = kept[k]
      PROVE  j = k
  <2>1. at[j] = at[k]
    BY <1>4, <1>5, <1>6 DEF Enumerates
  <2>2. ~(j < k) /\ ~(k < j)
    BY <1>4, <1>5, <2>1
  <2> QED
    BY <1>5, <2>2
<1>7. \A x \in S \cap T : \E k \in DOMAIN kept : kept[k] = x
  <2> SUFFICES ASSUME NEW x \in S, x \in T PROVE \E k \in DOMAIN kept : kept[k] = x
    OBVIOUS
  <2>1. PICK i \in DOMAIN list : list[i] = x
    BY DEF Enumerates
  <2>2. PICK k \in DOMAIN at : at[k] = i
    BY <1>4, <2>1
  <2> QED
    BY <1>4, <1>5, <2>1, <2>2
<1> QED
  BY <1>1, <1>3, <1>6, <1>7 DEF Enumerates

(* The images of a listing under f, which maps no two elements to one. *)
LEMMA EnumeratedMapped ==
    ASSUME NEW S, NEW T, NEW list, Enumerates(list, S), NEW f \in [S -> T],
           \A x, y \in S : f[x] = f[y] => x = y
    PROVE  Enumerates([i \in DOMAIN list |-> f[list[i]]], {f[x] : x \in S})
<1> DEFINE R == {f[x] : x \in S}
<1>1. PICK n \in Nat : DOMAIN list = 1 .. n /\ \A i \in 1 .. n : list[i] \in S
  <2>1. list \in Seq(S)
    BY DEF Enumerates
  <2> QED
    BY <2>1
<1>2. PICK mapped : mapped = [i \in 1 .. n |-> f[list[i]]]
  OBVIOUS
<1>3. \A i \in 1 .. n : f[list[i]] \in R
  BY <1>1
<1>4. \A x \in S : f[x] \in R
  OBVIOUS
<1>5. \A y \in R : \E x \in S : y = f[x]
  OBVIOUS
<1> HIDE DEF R
<1>6. mapped \in [1 .. n -> R]
  BY <1>2, <1>3
<1>7. mapped \in Seq(R) /\ DOMAIN mapped = 1 .. n
  BY <1>1, <1>6, FunctionIsList
<1>8. \A i, j \in 1 .. n : mapped[i] = mapped[j] => i = j
  <2> SUFFICES ASSUME NEW i \in 1 .. n, NEW j \in 1 .. n, mapped[i] = mapped[j] PROVE i = j
    OBVIOUS
  <2>1. list[i] = list[j]
    BY <1>1, <1>2
  <2> QED
    BY <1>1, <2>1 DEF Enumerates
<1>9. \A y \in R : \E i \in 1 .. n : mapped[i] = y
  <2> SUFFICES ASSUME NEW y \in R PROVE \E i \in 1 .. n : mapped[i] = y
    OBVIOUS
  <2>1. PICK x \in S : y = f[x]
    BY <1>5
  <2>2. PICK i \in 1 .. n : list[i] = x
    BY <1>1 DEF Enumerates
  <2> QED
    BY <1>2, <2>1, <2>2
<1>10. [i \in DOMAIN list |-> f[list[i]]] = mapped
  BY <1>1, <1>2
<1> QED
  BY <1>7, <1>8, <1>9, <1>10 DEF Enumerates, R
=============================================================================
