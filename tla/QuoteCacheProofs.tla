-------------------------- MODULE QuoteCacheProofs --------------------------
(***************************************************************************)
(* Theorems about QuoteCache: any callers, symbols, adapters, sizes, ttls,  *)
(* with or without a failing database.                                     *)
(***************************************************************************)
EXTENDS QuoteCache, FiniteSetTheorems, SequenceTheorems, TLAPS

USE CacheConstants

-----------------------------------------------------------------------------
(* The cache                                                               *)

(* Leaving out a symbol keeps the others. *)
LEMMA WithoutShape ==
    ASSUME NEW s, NEW k
    PROVE  /\ DOMAIN Without(s, k) = DOMAIN s \ {k}
           /\ \A j \in DOMAIN s \ {k} : Without(s, k)[j] = s[j]
BY DEF Without

(* get pops nothing but an entry that has expired. *)
LEMMA PoppedShape ==
    ASSUME NEW k
    PROVE  /\ DOMAIN Popped(k) \subseteq DOMAIN store
           /\ \A j \in DOMAIN Popped(k) : Popped(k)[j] = store[j]
           /\ \A j \in DOMAIN store : j \in DOMAIN Popped(k) \/ (j = k /\ store[k].expires < clock)
BY WithoutShape DEF Popped

(* set stores the quote and keeps what it does not evict. *)
LEMMA SetShape ==
    ASSUME NEW k, NEW quote, Set(k, quote)
    PROVE  /\ DOMAIN store' \subseteq DOMAIN store \cup {k}
           /\ k \in DOMAIN store' /\ store'[k] = [expires |-> clock + Ttl, quote |-> quote]
           /\ \A j \in DOMAIN store' \ {k} : j \in DOMAIN store /\ store'[j] = store[j]
<1>1. PICK s \in MadeRoom(store) : store' = Put(s, k, quote)
  BY DEF Set
<1>2. DOMAIN s \subseteq DOMAIN store /\ \A j \in DOMAIN s : s[j] = store[j]
  <2>1. s = store \/ \E o \in DOMAIN store : s = Without(store, o)
    BY <1>1 DEF MadeRoom
  <2>2. CASE s = store
    BY <2>2
  <2>3. ASSUME NEW o \in DOMAIN store, s = Without(store, o)
        PROVE  DOMAIN s \subseteq DOMAIN store /\ \A j \in DOMAIN s : s[j] = store[j]
    BY <2>3, WithoutShape
  <2> QED
    BY <2>1, <2>2, <2>3
<1> QED
  BY <1>1, <1>2 DEF Put

(* The cache stays within its bound when a value is set ... *)
LEMMA SetBounded ==
    ASSUME NEW k, NEW quote, Set(k, quote), IsFiniteSet(DOMAIN store), SizeBounded
    PROVE  IsFiniteSet(DOMAIN store)' /\ SizeBounded'
<1>1. PICK s \in MadeRoom(store) : store' = Put(s, k, quote)
  BY DEF Set
<1>2. Cardinality(DOMAIN store) \in Nat
  BY FS_CardinalityType
<1>3. IsFiniteSet(DOMAIN s) /\ Cardinality(DOMAIN s) \in Nat /\ Cardinality(DOMAIN s) < MaxSize
  <2>1. CASE Cardinality(DOMAIN store) >= MaxSize
    <3>1. PICK o \in DOMAIN store : s = Without(store, o)
      BY <1>1, <2>1 DEF MadeRoom
    <3>2. DOMAIN s = DOMAIN store \ {o}
      BY <3>1, WithoutShape
    <3>3. /\ IsFiniteSet(DOMAIN store \ {o})
          /\ Cardinality(DOMAIN store \ {o}) = Cardinality(DOMAIN store) - 1
      BY FS_RemoveElement
    <3>4. Cardinality(DOMAIN store \ {o}) \in Nat
      BY <3>3, FS_CardinalityType
    <3> QED
      BY <1>2, <3>2, <3>3, <3>4 DEF SizeBounded
  <2>2. CASE ~(Cardinality(DOMAIN store) >= MaxSize)
    BY <1>1, <1>2, <2>2 DEF MadeRoom
  <2> QED
    BY <2>1, <2>2
<1>4. DOMAIN store' = DOMAIN s \cup {k}
  BY <1>1 DEF Put
<1>5. /\ IsFiniteSet(DOMAIN s \cup {k})
      /\ \/ Cardinality(DOMAIN s \cup {k}) = Cardinality(DOMAIN s)
         \/ Cardinality(DOMAIN s \cup {k}) = Cardinality(DOMAIN s) + 1
  BY <1>3, FS_AddElement
<1> QED
  BY <1>3, <1>4, <1>5 DEF SizeBounded

(* ... and when an entry is popped. *)
LEMMA PoppedBounded ==
    ASSUME NEW k, store' = Popped(k), IsFiniteSet(DOMAIN store), SizeBounded
    PROVE  IsFiniteSet(DOMAIN store)' /\ SizeBounded'
<1>1. DOMAIN store' \subseteq DOMAIN store
  BY PoppedShape
<1>2. /\ IsFiniteSet(DOMAIN store') /\ Cardinality(DOMAIN store') <= Cardinality(DOMAIN store)
      /\ Cardinality(DOMAIN store) \in Nat /\ Cardinality(DOMAIN store') \in Nat
  BY <1>1, FS_Subset, FS_CardinalityType
<1> QED
  BY <1>2 DEF SizeBounded

-----------------------------------------------------------------------------
(* The lock's queue                                                        *)

(* Leaving a queue keeps the order of the others. *)
LEMMA RemoveAtShape ==
    ASSUME NEW S, NEW s \in Seq(S), NEW n \in 1..Len(s)
    PROVE  /\ RemoveAt(s, n) \in Seq(S)
           /\ Len(RemoveAt(s, n)) = Len(s) - 1
           /\ \A i \in 1..Len(s) - 1 : RemoveAt(s, n)[i] = IF i < n THEN s[i] ELSE s[i + 1]
<1> DEFINE before == SubSeq(s, 1, n - 1)
           after == SubSeq(s, n + 1, Len(s))
<1>1. Len(s) \in Nat /\ n \in Int /\ \A i \in 1..Len(s) : s[i] \in S
  BY ElementOfSeq
<1>2. before \in Seq(S) /\ Len(before) = n - 1 /\ \A i \in 1..n - 1 : before[i] = s[i]
  <2>1. \A i \in 1..n - 1 : s[i] \in S
    BY <1>1
  <2>2. /\ before \in Seq(S)
        /\ Len(before) = IF 1 <= n - 1 THEN (n - 1) - 1 + 1 ELSE 0
        /\ \A i \in 1..(n - 1) - 1 + 1 : before[i] = s[1 + i - 1]
    BY <1>1, <2>1, SubSeqProperties
  <2> QED
    BY <1>1, <2>2
<1>3. after \in Seq(S) /\ Len(after) = Len(s) - n /\ \A i \in 1..Len(s) - n : after[i] = s[n + i]
  <2>1. \A i \in n + 1..Len(s) : s[i] \in S
    BY <1>1
  <2>2. /\ after \in Seq(S)
        /\ Len(after) = IF n + 1 <= Len(s) THEN Len(s) - (n + 1) + 1 ELSE 0
        /\ \A i \in 1..Len(s) - (n + 1) + 1 : after[i] = s[(n + 1) + i - 1]
    BY <1>1, <2>1, SubSeqProperties
  <2>3. \A i \in 1..Len(s) - n : i \in 1..Len(s) - (n + 1) + 1 /\ (n + 1) + i - 1 = n + i
    BY <1>1
  <2> QED
    BY <1>1, <2>2, <2>3
<1> HIDE DEF before, after
<1>4. /\ before \o after \in Seq(S)
      /\ Len(before \o after) = Len(before) + Len(after)
      /\ \A i \in 1..Len(before) + Len(after) :
           (before \o after)[i] = IF i <= Len(before) THEN before[i] ELSE after[i - Len(before)]
  BY <1>2, <1>3, ConcatProperties
<1>5. \A i \in 1..Len(s) - 1 : (before \o after)[i] = IF i < n THEN s[i] ELSE s[i + 1]
  <2> TAKE i \in 1..Len(s) - 1
  <2>1. i \in Int /\ i \in 1..Len(before) + Len(after)
    BY <1>1, <1>2, <1>3
  <2>2. CASE i < n
    BY <1>1, <1>2, <1>4, <2>1, <2>2
  <2>3. CASE i >= n
    <3>1. i - (n - 1) \in 1..Len(s) - n /\ n + (i - (n - 1)) = i + 1 /\ ~(i <= n - 1)
      BY <1>1, <2>1, <2>3
    <3>2. (before \o after)[i] = after[i - (n - 1)]
      BY <1>2, <1>4, <2>1, <3>1
    <3>3. after[i - (n - 1)] = s[i + 1]
      BY <1>3, <3>1
    <3> QED
      BY <1>1, <2>1, <2>3, <3>2, <3>3
  <2> QED
    BY <1>1, <2>1, <2>2, <2>3
<1>6. RemoveAt(s, n) = before \o after
  BY DEF RemoveAt, before, after
<1>7. Len(before) + Len(after) = Len(s) - 1
  BY <1>1, <1>2, <1>3
<1> QED
  BY <1>4, <1>5, <1>6, <1>7

(* A waiter that leaves the queue leaves the other waiters in it. *)
LEMMA LeftShape ==
    ASSUME NEW c \in Callers, queue \in Seq(Callers), LockSound, task[c].at = "wait"
    PROVE  /\ Left(c) \in Seq(Callers)
           /\ \A i \in 1..Len(Left(c)) : \E j \in 1..Len(queue) : Left(c)[i] = queue[j] /\ queue[j] # c
           /\ \A i, j \in 1..Len(Left(c)) : Left(c)[i] = Left(c)[j] => i = j
           /\ \A j \in 1..Len(queue) : queue[j] # c => \E i \in 1..Len(Left(c)) : Left(c)[i] = queue[j]
<1> DEFINE n == CHOOSE i \in 1..Len(queue) : queue[i] = c
           left == RemoveAt(queue, n)
<1>1. n \in 1..Len(queue) /\ queue[n] = c
  BY DEF LockSound
<1>2. Left(c) = left
  BY DEF Left
<1> HIDE DEF n
<1>3. /\ left \in Seq(Callers)
      /\ Len(left) = Len(queue) - 1
      /\ \A i \in 1..Len(queue) - 1 : left[i] = IF i < n THEN queue[i] ELSE queue[i + 1]
  BY <1>1, RemoveAtShape
<1> HIDE DEF left
<1>4. Len(queue) \in Nat
  BY LenProperties
<1>5. \A i, j \in 1..Len(queue) : queue[i] = queue[j] => i = j
  BY DEF LockSound
<1>6. \A i \in 1..Len(left) : \E j \in 1..Len(queue) : left[i] = queue[j] /\ queue[j] # c
  <2> TAKE i \in 1..Len(left)
  <2>1. i \in 1..Len(queue) - 1
    BY <1>3
  <2> DEFINE j == IF i < n THEN i ELSE i + 1
  <2>2. j \in 1..Len(queue) /\ j # n
    BY <1>1, <1>4, <2>1
  <2>3. left[i] = queue[j]
    BY <1>3, <2>1
  <2> QED
    BY <1>1, <1>5, <2>2, <2>3
<1>7. \A i, j \in 1..Len(left) : left[i] = left[j] => i = j
  <2> SUFFICES ASSUME NEW i \in 1..Len(left), NEW j \in 1..Len(left), left[i] = left[j] PROVE i = j
    OBVIOUS
  <2> DEFINE At(m) == IF m < n THEN m ELSE m + 1
  <2>1. /\ i \in 1..Len(queue) - 1 /\ j \in 1..Len(queue) - 1
        /\ At(i) \in 1..Len(queue) /\ At(j) \in 1..Len(queue)
    BY <1>1, <1>3, <1>4
  <2>2. queue[At(i)] = queue[At(j)]
    BY <1>3, <2>1
  <2>3. At(i) = At(j)
    BY <1>5, <2>1, <2>2
  <2> QED
    BY <1>1, <1>4, <2>1, <2>3
<1>8. \A j \in 1..Len(queue) : queue[j] # c => \E i \in 1..Len(left) : left[i] = queue[j]
  <2> SUFFICES ASSUME NEW j \in 1..Len(queue), j # n PROVE \E i \in 1..Len(left) : left[i] = queue[j]
    BY <1>1
  <2> DEFINE i == IF j < n THEN j ELSE j - 1
  <2>1. i \in 1..Len(queue) - 1
    BY <1>1, <1>4
  <2>2. left[i] = queue[j]
    BY <1>1, <1>3, <1>4, <2>1
  <2> QED
    BY <1>3, <2>1, <2>2
<1> QED
  BY <1>2, <1>3, <1>6, <1>7, <1>8

-----------------------------------------------------------------------------
(* The steps                                                               *)

\* A caller changes nobody's task but its own.
LEMMA BecomeShape ==
    ASSUME NEW c \in Callers, NEW t, DOMAIN task = Callers, Become(c, t)
    PROVE  /\ DOMAIN task' = Callers
           /\ task'[c] = t
           /\ \A d \in Callers \ {c} : task'[d] = task[d]
BY DEF Become

\* What is returned is noted.
LEMMA ReturnShape ==
    ASSUME NEW c \in Callers, NEW k \in Keys, NEW quote \in Quotes, CacheTypeOK, Return(c, k, quote)
    PROVE  /\ served' \in [Keys -> Quotes]
           /\ served'[k] = IF quote = NoQuote THEN served[k] ELSE quote
           /\ \A j \in Keys \ {k} : served'[j] = served[j]
BY DEF Return, CacheTypeOK

CacheInv == CacheSound /\ IsFiniteSet(DOMAIN store)

\* A hit changes what was served last, and nothing else.
LEMMA CallHitStep ==
    ASSUME CacheInv, NEW c \in Callers, NEW k \in Keys, CallHit(c, k)
    PROVE  CacheInv' /\ (k \notin lost => served'[k] >= served[k]) /\ \A j \in Keys \ {k} : served'[j] = served[j]
<1> DEFINE quote == store[k].quote
<1>1. CacheTypeOK /\ SizeBounded /\ LockSound /\ AnswersKept /\ QuotesOrdered
  BY DEF CacheInv, CacheSound
<1>2. /\ task[c] = Idle /\ Fresh(k) /\ Return(c, k, quote)
      /\ UNCHANGED <<clock, store, saved, queue, answered, joined, lost>>
  BY DEF CallHit
<1>3. quote \in Quotes /\ quote # NoQuote /\ k \in DOMAIN store
  BY <1>1, <1>2 DEF Fresh, CacheTypeOK
<1>4. DOMAIN task' = Callers /\ \A d \in Callers : task'[d] = task[d]
  BY <1>1, <1>2, BecomeShape DEF CacheTypeOK, Return
<1>5. /\ served' \in [Keys -> Quotes] /\ served'[k] = quote
      /\ \A j \in Keys \ {k} : served'[j] = served[j]
  BY <1>1, <1>2, <1>3, ReturnShape
<1>6. CacheTypeOK'
  BY <1>1, <1>2, <1>4, <1>5 DEF CacheTypeOK, Idle, Waiting
<1>7. LockSound'
  <2>1. \A i \in 1..Len(queue) : queue[i] \in Callers
    BY <1>1, ElementOfSeq DEF CacheTypeOK
  <2> QED
    BY <1>1, <1>2, <1>4, <2>1 DEF LockSound
<1>8. AnswersKept'
  BY <1>1, <1>2, <1>4 DEF AnswersKept, Spent
<1>9. k \notin lost => served'[k] >= served[k]
  BY <1>1, <1>3, <1>5 DEF QuotesOrdered, CacheTypeOK, Quotes, Times, NoQuote
<1>10. QuotesOrdered'
  <2>1. \A j \in Keys : saved[j] <= clock /\ served'[j] <= clock
    BY <1>1, <1>3, <1>5 DEF QuotesOrdered
  <2>2. ASSUME NEW d \in Callers, task[d].at = "fetch" PROVE served'[task[d].key] <= task[d].asked
    <3>1. CASE task[d].key = k
      BY <1>1, <1>3, <1>5, <2>2, <3>1 DEF QuotesOrdered
    <3>2. CASE task[d].key # k
      <4>1. task[d].key \in Keys
        BY <1>1, <2>2 DEF CacheTypeOK, Idle, Waiting
      <4> QED
        BY <1>1, <1>5, <2>2, <3>2, <4>1 DEF QuotesOrdered
    <3> QED
      BY <3>1, <3>2
  <2>3. ASSUME NEW j \in Keys \ lost
        PROVE  /\ served'[j] <= saved[j]
               /\ j \in DOMAIN store /\ store[j].quote # NoQuote => served'[j] <= store[j].quote
    <3>1. CASE j = k
      BY <1>1, <1>3, <1>5, <2>3, <3>1 DEF QuotesOrdered, CacheTypeOK, Quotes, Times, NoQuote
    <3>2. CASE j # k
      BY <1>1, <1>5, <2>3, <3>2 DEF QuotesOrdered
    <3> QED
      BY <3>1, <3>2
  <2> QED
    BY <1>1, <1>2, <1>4, <2>1, <2>2, <2>3 DEF QuotesOrdered
<1> QED
  BY <1>1, <1>2, <1>5, <1>6, <1>7, <1>8, <1>9, <1>10 DEF CacheInv, CacheSound, SizeBounded

\* A symbol is fetched only when no answer for it is within its ttl.
LEMMA NotFreshIsSpent ==
    ASSUME CacheTypeOK, AnswersKept, NEW k \in Keys, ~Fresh(k)
    PROVE  Spent(k)
<1>1. k \in DOMAIN store => store[k].expires \in Int
  BY DEF CacheTypeOK
<1>2. answered[k] \in Int /\ clock \in Int
  BY DEF CacheTypeOK, Times, Never
<1> QED
  BY <1>1, <1>2 DEF AnswersKept, Fresh, Spent

\* An entry that get pops is spent.
LEMMA PopKeeps ==
    ASSUME CacheTypeOK, AnswersKept, NEW k \in Keys, store' = Popped(k), UNCHANGED <<clock, answered>>
    PROVE  /\ \A j \in Keys : Spent(j)' = Spent(j)
           /\ \A j \in Keys :
                \/ Spent(j)
                \/ j \in DOMAIN store' /\ store'[j].quote # NoQuote /\ store'[j].expires >= answered[j] + Ttl
<1>1. \A j \in Keys : Spent(j)' = Spent(j)
  BY DEF Spent
<1>2. ASSUME NEW j \in Keys, ~Spent(j)
      PROVE  j \in DOMAIN store' /\ store'[j].quote # NoQuote /\ store'[j].expires >= answered[j] + Ttl
  <2>1. j \in DOMAIN store /\ store[j].quote # NoQuote /\ store[j].expires >= answered[j] + Ttl
    BY <1>2 DEF AnswersKept
  <2>2. store[j].expires \in Int /\ answered[j] \in Int /\ clock \in Int
    BY <2>1 DEF CacheTypeOK, Times, Never
  <2>3. ~(store[j].expires < clock)
    BY <1>2, <2>1, <2>2 DEF Spent
  <2>4. j \in DOMAIN store'
    BY <2>1, <2>3, PoppedShape
  <2> QED
    BY <2>1, <2>4, PoppedShape
<1> QED
  BY <1>1, <1>2

\* A caller that takes the free lock fetches, and asks now.
LEMMA FetchOrdered ==
    ASSUME CacheInv, NEW c \in Callers, NEW k \in Keys, ~LockHeld, Become(c, Fetching(k, 1)),
           store' = Popped(k), UNCHANGED <<clock, saved, served, lost>>
    PROVE  QuotesOrdered'
<1>1. CacheTypeOK /\ QuotesOrdered
  BY DEF CacheInv, CacheSound
<1>2. /\ task'[c] = Fetching(k, 1) /\ \A d \in Callers \ {c} : task'[d] = task[d]
  BY <1>1, BecomeShape DEF CacheTypeOK
<1>3. \A d \in Callers : task'[d].at = "fetch" => d = c
  BY <1>2 DEF LockHeld
<1>4. DOMAIN store' \subseteq DOMAIN store /\ \A j \in DOMAIN store' : store'[j] = store[j]
  BY PoppedShape
<1>5. task'[c].key = k /\ task'[c].asked = clock /\ clock <= clock
  BY <1>1, <1>2 DEF Fetching, CacheTypeOK, Times
<1>6. /\ \A j \in Keys : saved[j] <= clock /\ served[j] <= clock
      /\ \A j \in DOMAIN store' : store'[j].quote <= clock
  BY <1>1, <1>4 DEF QuotesOrdered
<1>7. \A j \in Keys \ lost :
        /\ served[j] <= saved[j]
        /\ j \in DOMAIN store' /\ store'[j].quote # NoQuote =>
             served[j] <= store'[j].quote /\ store'[j].quote <= saved[j]
  BY <1>1, <1>4 DEF QuotesOrdered
<1> QED
  BY <1>3, <1>5, <1>6, <1>7 DEF QuotesOrdered

\* A miss queues, or takes the free lock and fetches.
LEMMA CallMissStep ==
    ASSUME CacheInv, NEW c \in Callers, NEW k \in Keys, CallMiss(c, k)
    PROVE  CacheInv'
<1>1. CacheTypeOK /\ SizeBounded /\ LockSound /\ AnswersKept /\ QuotesOrdered /\ IsFiniteSet(DOMAIN store)
  BY DEF CacheInv, CacheSound
<1>2. /\ task[c] = Idle /\ ~Fresh(k) /\ store' = Popped(k)
      /\ UNCHANGED <<clock, saved, answered, joined, served, lost>>
  BY DEF CallMiss, aux
<1>3. IsFiniteSet(DOMAIN store)' /\ SizeBounded'
  BY <1>1, <1>2, PoppedBounded
<1>4. DOMAIN store' \subseteq DOMAIN store /\ \A j \in DOMAIN store' : store'[j] = store[j]
  BY <1>2, PoppedShape
<1>5. Spent(k) /\ \A j \in Keys : Spent(j)' = Spent(j)
  BY <1>1, <1>2, NotFreshIsSpent, PopKeeps
<1>6. \A j \in Keys :
        \/ Spent(j)
        \/ j \in DOMAIN store' /\ store'[j].quote # NoQuote /\ store'[j].expires >= answered[j] + Ttl
  BY <1>1, <1>2, PopKeeps
<1>7. \A i \in 1..Len(queue) : queue[i] \in Callers
  BY <1>1, ElementOfSeq DEF CacheTypeOK
<1>8. CASE Become(c, Waiting(k)) /\ queue' = Append(queue, c)
  <2>1. DOMAIN task' = Callers /\ task'[c] = Waiting(k) /\ \A d \in Callers \ {c} : task'[d] = task[d]
    BY <1>1, <1>8, BecomeShape DEF CacheTypeOK
  <2>2. /\ queue' \in Seq(Callers) /\ Len(queue') = Len(queue) + 1
        /\ \A i \in 1..Len(queue) : queue'[i] = queue[i]
        /\ queue'[Len(queue) + 1] = c /\ Len(queue) \in Nat
    BY <1>1, <1>8, AppendProperties, LenProperties DEF CacheTypeOK
  <2>3. CacheTypeOK'
    <3>1. \A j \in DOMAIN store' : store'[j] \in [expires : 0..(MaxTime + Ttl), quote : Quotes]
      BY <1>1, <1>4 DEF CacheTypeOK
    <3> QED
      BY <1>1, <1>2, <1>4, <2>1, <2>2, <3>1 DEF CacheTypeOK
  <2>4. LockSound'
    <3>1. \A i \in 1..Len(queue') : i \in 1..Len(queue) \/ i = Len(queue) + 1
      BY <2>2
    <3>2. \A i \in 1..Len(queue) : queue[i] # c
      BY <1>1, <1>2 DEF LockSound, Idle
    <3>3. task'[c].at = "wait"
      BY <2>1 DEF Waiting
    <3>4. \A i, j \in 1..Len(queue') : queue'[i] = queue'[j] => i = j
      BY <1>1, <2>2, <3>1, <3>2 DEF LockSound
    <3>5. \A i \in 1..Len(queue') : task'[queue'[i]].at = "wait"
      BY <1>1, <1>7, <2>1, <2>2, <3>1, <3>2, <3>3 DEF LockSound
    <3>6. 1..Len(queue) \subseteq 1..Len(queue') /\ Len(queue) + 1 \in 1..Len(queue')
      BY <2>2
    <3>7. \A d \in Callers : task'[d].at = "wait" => \E i \in 1..Len(queue') : queue'[i] = d
      BY <1>1, <2>1, <2>2, <3>6 DEF LockSound
    <3>8. \A d, e \in Callers : task'[d].at = "fetch" /\ task'[e].at = "fetch" => d = e
      BY <1>1, <2>1, <3>3 DEF LockSound
    <3> QED
      BY <3>4, <3>5, <3>7, <3>8 DEF LockSound
  <2>5. AnswersKept'
    BY <1>1, <1>2, <1>5, <1>6, <2>1 DEF AnswersKept, CacheTypeOK, Waiting, Idle
  <2>6. QuotesOrdered'
    BY <1>1, <1>2, <1>4, <2>1 DEF QuotesOrdered, Waiting
  <2> QED
    BY <1>3, <2>3, <2>4, <2>5, <2>6 DEF CacheInv, CacheSound
<1>9. CASE ~LockHeld /\ queue = <<>> /\ Become(c, Fetching(k, 1)) /\ UNCHANGED queue
  <2>1. DOMAIN task' = Callers /\ task'[c] = Fetching(k, 1) /\ \A d \in Callers \ {c} : task'[d] = task[d]
    BY <1>1, <1>9, BecomeShape DEF CacheTypeOK
  <2>2. \A d \in Callers : task[d].at # "fetch" /\ task[d].at # "wait"
    BY <1>1, <1>9 DEF LockHeld, LockSound
  <2>3. CacheTypeOK'
    BY <1>1, <1>2, <1>4, <1>9, <2>1 DEF CacheTypeOK, Fetching
  <2>4. LockSound'
    BY <1>9, <2>1, <2>2 DEF LockSound, Fetching
  <2>5. AnswersKept'
    BY <1>2, <1>5, <1>6, <2>1, <2>2 DEF AnswersKept, Fetching
  <2>6. QuotesOrdered'
    BY <1>2, <1>9, FetchOrdered
  <2> QED
    BY <1>3, <2>3, <2>4, <2>5, <2>6 DEF CacheInv, CacheSound
<1> QED
  BY <1>8, <1>9 DEF CallMiss

\* A quote of the cache that is returned to a waiter is as good as a hit.
LEMMA ServedOrdered ==
    ASSUME CacheTypeOK, QuotesOrdered, NEW c \in Callers, NEW k \in DOMAIN store, store[k].quote # NoQuote,
           Return(c, k, store[k].quote), task[c].at # "fetch", UNCHANGED <<clock, store, saved, lost>>
    PROVE  QuotesOrdered' /\ (k \notin lost => served'[k] >= served[k]) /\ \A j \in Keys \ {k} : served'[j] = served[j]
<1> DEFINE quote == store[k].quote
<1>1. k \in Keys /\ quote \in Quotes
  BY DEF CacheTypeOK
<1>2. /\ DOMAIN task' = Callers /\ task'[c].at = "idle"
      /\ \A d \in Callers \ {c} : task'[d] = task[d]
  BY BecomeShape DEF CacheTypeOK, Return, Idle
<1>3. /\ served'[k] = quote
      /\ \A j \in Keys \ {k} : served'[j] = served[j]
  BY <1>1, ReturnShape
<1>4. \A j \in Keys : saved[j] <= clock /\ served'[j] <= clock
  BY <1>3 DEF QuotesOrdered
<1>5. ASSUME NEW d \in Callers, task[d].at = "fetch" PROVE served'[task[d].key] <= task[d].asked
  <2>1. CASE task[d].key = k
    BY <1>3, <1>5, <2>1 DEF QuotesOrdered
  <2>2. CASE task[d].key # k
    <3>1. task[d].key \in Keys
      BY <1>5 DEF CacheTypeOK, Idle, Waiting
    <3> QED
      BY <1>3, <1>5, <2>2, <3>1 DEF QuotesOrdered
  <2> QED
    BY <2>1, <2>2
<1>6. ASSUME NEW j \in Keys \ lost
      PROVE  /\ served'[j] <= saved[j]
             /\ j \in DOMAIN store /\ store[j].quote # NoQuote => served'[j] <= store[j].quote
  <2>1. CASE j = k
    BY <1>1, <1>3, <1>6, <2>1 DEF QuotesOrdered, Quotes, Times, NoQuote
  <2>2. CASE j # k
    BY <1>3, <1>6, <2>2 DEF QuotesOrdered
  <2> QED
    BY <2>1, <2>2
<1>7. k \notin lost => served'[k] >= served[k]
  BY <1>1, <1>3 DEF QuotesOrdered, CacheTypeOK, Quotes, Times, NoQuote
<1> QED
  BY <1>2, <1>3, <1>4, <1>5, <1>6, <1>7 DEF QuotesOrdered

\* The first waiter gets the lock when it is free.
LEMMA WakeStep ==
    ASSUME CacheInv, NEW c \in Callers, Wake(c)
    PROVE  /\ CacheInv'
           /\ \A j \in Keys \ lost : served'[j] >= served[j]
           /\ task'[c].at = "fetch" => task'[c].key \in Keys /\ Spent(task'[c].key)
<1>1. CacheTypeOK /\ SizeBounded /\ LockSound /\ AnswersKept /\ QuotesOrdered /\ IsFiniteSet(DOMAIN store)
  BY DEF CacheInv, CacheSound
<1> DEFINE k == task[c].key
<1>2. /\ ~LockHeld /\ queue # <<>> /\ c = Head(queue) /\ queue' = Tail(queue)
      /\ joined' = joined \ {c} /\ store' = Popped(k)
      /\ \/ Fresh(k) /\ Return(c, k, store[k].quote)
         \/ ~Fresh(k) /\ Become(c, Fetching(k, 1)) /\ UNCHANGED served
      /\ UNCHANGED <<clock, saved, answered, lost>>
  BY DEF Wake
<1>3. /\ Len(queue) \in Nat \ {0} /\ queue[1] = c
      /\ \A i \in 1..Len(queue) : queue[i] \in Callers
  BY <1>1, <1>2, ElementOfSeq, EmptySeq, LenProperties DEF CacheTypeOK
<1>4. task[c].at = "wait"
  BY <1>1, <1>3 DEF LockSound
<1>5. k \in Keys
  BY <1>1, <1>4 DEF CacheTypeOK, Idle, Waiting
<1>6. IsFiniteSet(DOMAIN store)' /\ SizeBounded'
  BY <1>1, <1>2, PoppedBounded
<1>7. DOMAIN store' \subseteq DOMAIN store /\ \A j \in DOMAIN store' : store'[j] = store[j]
  BY <1>2, PoppedShape
<1>8. \A j \in Keys : Spent(j)' = Spent(j)
  BY <1>1, <1>2, <1>5, PopKeeps
<1>9. \A j \in Keys :
        \/ Spent(j)
        \/ j \in DOMAIN store' /\ store'[j].quote # NoQuote /\ store'[j].expires >= answered[j] + Ttl
  BY <1>1, <1>2, <1>5, PopKeeps
<1>10. /\ queue' \in Seq(Callers) /\ Len(queue') = Len(queue) - 1
       /\ \A i \in 1..Len(queue') : queue'[i] = queue[i + 1] /\ i + 1 \in 1..Len(queue) /\ i + 1 # 1
  BY <1>1, <1>2, <1>3, HeadTailProperties DEF CacheTypeOK
<1>11. \A d \in Callers : task[d].at # "fetch"
  BY <1>2 DEF LockHeld
<1>12. /\ DOMAIN task' = Callers /\ \A d \in Callers \ {c} : task'[d] = task[d]
       /\ task'[c] = Idle \/ task'[c] = Fetching(k, 1)
  BY <1>1, <1>2, BecomeShape DEF CacheTypeOK, Return
<1>13. LockSound'
  <2>1. \A i, j \in 1..Len(queue') : queue'[i] = queue'[j] => i = j
    BY <1>1, <1>3, <1>10 DEF LockSound
  <2>2. \A i \in 1..Len(queue') : queue'[i] # c
    BY <1>1, <1>3, <1>10 DEF LockSound
  <2>3. \A i \in 1..Len(queue') : task'[queue'[i]].at = "wait"
    BY <1>1, <1>3, <1>10, <1>12, <2>2 DEF LockSound
  <2>4. ASSUME NEW d \in Callers, task'[d].at = "wait" PROVE \E i \in 1..Len(queue') : queue'[i] = d
    <3>1. d # c
      BY <1>12, <2>4 DEF Idle, Fetching
    <3>2. PICK i \in 1..Len(queue) : queue[i] = d
      BY <1>1, <1>12, <2>4, <3>1 DEF LockSound
    <3>3. i # 1 /\ i - 1 \in 1..Len(queue') /\ (i - 1) + 1 = i
      BY <1>3, <1>10, <3>1, <3>2
    <3> QED
      BY <1>10, <3>2, <3>3
  <2>5. \A d, e \in Callers : task'[d].at = "fetch" /\ task'[e].at = "fetch" => d = e
    BY <1>11, <1>12
  <2> QED
    BY <2>1, <2>3, <2>4, <2>5 DEF LockSound
<1>14. \A j \in DOMAIN store' : store'[j] \in [expires : 0..(MaxTime + Ttl), quote : Quotes]
  BY <1>1, <1>7 DEF CacheTypeOK
<1>15. CASE Fresh(k) /\ Return(c, k, store[k].quote)
  <2>1. store' = store /\ k \in DOMAIN store /\ store[k].quote # NoQuote /\ store[k].quote \in Quotes
    <3>1. k \in DOMAIN store /\ store[k].expires >= clock /\ store[k].quote # NoQuote
      BY <1>15 DEF Fresh
    <3>2. store[k].expires \in Int /\ clock \in Int /\ store[k].quote \in Quotes
      BY <1>1, <3>1 DEF CacheTypeOK, Times
    <3> QED
      BY <1>2, <3>1, <3>2 DEF Popped
  <2>2. task'[c] = Idle /\ served' \in [Keys -> Quotes]
    BY <1>1, <1>5, <1>15, <2>1, BecomeShape, ReturnShape DEF CacheTypeOK, Return
  <2>3. CacheTypeOK'
    BY <1>1, <1>2, <1>7, <1>10, <1>12, <1>14, <2>2 DEF CacheTypeOK
  <2>4. AnswersKept'
    BY <1>2, <1>8, <1>9, <1>11, <1>12, <2>2 DEF AnswersKept, Idle
  <2>5. QuotesOrdered' /\ (k \notin lost => served'[k] >= served[k]) /\ \A j \in Keys \ {k} : served'[j] = served[j]
    BY <1>1, <1>2, <1>4, <1>15, <2>1, ServedOrdered
  <2>6. \A j \in Keys : served[j] \in Int
    BY <1>1 DEF CacheTypeOK, Quotes, Times, NoQuote
  <2>7. \A j \in Keys \ lost : served'[j] >= served[j]
    BY <2>5, <2>6
  <2> QED
    BY <1>6, <1>13, <2>2, <2>3, <2>4, <2>5, <2>7 DEF CacheInv, CacheSound, Idle
<1>16. CASE ~Fresh(k) /\ Become(c, Fetching(k, 1)) /\ UNCHANGED served
  <2>1. task'[c] = Fetching(k, 1)
    BY <1>1, <1>16, BecomeShape DEF CacheTypeOK
  <2>2. Spent(k)
    BY <1>1, <1>5, <1>16, NotFreshIsSpent
  <2>3. task'[c] \in [at : {"fetch"}, key : Keys, tried : 1..Adapters, asked : Times]
    BY <1>1, <1>5, <2>1 DEF Fetching, CacheTypeOK
  <2>4. CacheTypeOK'
    BY <1>1, <1>2, <1>7, <1>10, <1>12, <1>14, <1>16, <2>3 DEF CacheTypeOK
  <2>5. task'[c].key = k
    BY <2>1 DEF Fetching
  <2>6. AnswersKept'
    BY <1>2, <1>8, <1>9, <1>11, <1>12, <2>2, <2>5, <1>5 DEF AnswersKept
  <2>7. QuotesOrdered'
    BY <1>2, <1>5, <1>16, FetchOrdered
  <2>8. \A j \in Keys : served'[j] >= served[j]
    <3>1. \A j \in Keys : served[j] \in Int
      BY <1>1 DEF CacheTypeOK, Quotes, Times, NoQuote
    <3> QED
      BY <1>16, <3>1
  <2> QED
    BY <1>5, <1>6, <1>13, <2>2, <2>4, <2>5, <2>6, <2>7, <2>8 DEF CacheInv, CacheSound
<1> QED
  BY <1>2, <1>15, <1>16

\* The end of a fetch: what was fetched is no older than what is there, and
\* what the database had is what was served last.
LEMMA FinishStep ==
    ASSUME CacheInv, NEW c \in Callers, task[c].at = "fetch", NEW k, k = task[c].key,
           NEW quote \in Quotes, Finish(c, quote), UNCHANGED <<clock, queue>>,
           \/ answered' = Evicted
           \/ answered' = [Evicted EXCEPT ![k] = clock] /\ quote # NoQuote,
           \/ saved' = [saved EXCEPT ![k] = quote] /\ lost' = lost \ {k} /\ quote = task[c].asked
           \/ saved' = saved /\ lost' = lost \cup {k} /\ quote = task[c].asked
           \/ saved' = saved /\ lost' = lost /\ quote \in {saved[k], NoQuote}
    PROVE  CacheInv' /\ \A j \in Keys \ lost : served'[j] >= served[j]
<1>1. CacheTypeOK /\ SizeBounded /\ LockSound /\ AnswersKept /\ QuotesOrdered /\ IsFiniteSet(DOMAIN store)
  BY DEF CacheInv, CacheSound
<1>2. /\ k \in Keys /\ task[c].asked \in Times /\ clock \in Times
  BY <1>1 DEF CacheTypeOK, Idle, Waiting
<1>3. /\ Set(k, quote) /\ Return(c, k, quote)
      /\ joined' = joined \cup {d \in Callers : task[d] = Waiting(k)}
  BY DEF Finish
<1>4. /\ DOMAIN store' \subseteq DOMAIN store \cup {k}
      /\ k \in DOMAIN store' /\ store'[k] = [expires |-> clock + Ttl, quote |-> quote]
      /\ \A j \in DOMAIN store' \ {k} : j \in DOMAIN store /\ store'[j] = store[j]
  BY <1>3, SetShape
<1>5. IsFiniteSet(DOMAIN store)' /\ SizeBounded'
  BY <1>1, <1>3, SetBounded
<1>6. /\ DOMAIN task' = Callers /\ task'[c] = Idle
      /\ \A d \in Callers \ {c} : task'[d] = task[d]
  BY <1>1, <1>3, BecomeShape DEF CacheTypeOK, Return
<1>7. /\ served' \in [Keys -> Quotes]
      /\ served'[k] = IF quote = NoQuote THEN served[k] ELSE quote
      /\ \A j \in Keys \ {k} : served'[j] = served[j]
  BY <1>1, <1>2, <1>3, ReturnShape
<1>8. /\ answered' \in [Keys -> Times \cup {Never}]
      /\ \A j \in Keys \ {k} : answered'[j] = IF j \in DOMAIN store' THEN answered[j] ELSE Never
      /\ \/ answered'[k] = answered[k]
         \/ answered'[k] = clock /\ quote # NoQuote
  <2>1. /\ Evicted \in [Keys -> Times \cup {Never}]
        /\ \A j \in Keys : Evicted[j] = IF j \in DOMAIN store' THEN answered[j] ELSE Never
    BY <1>1 DEF Evicted, CacheTypeOK
  <2>2. CASE answered' = Evicted
    BY <1>2, <1>4, <2>1, <2>2
  <2>3. CASE answered' = [Evicted EXCEPT ![k] = clock] /\ quote # NoQuote
    BY <1>2, <2>1, <2>3
  <2> QED
    BY <2>2, <2>3
<1>9. /\ saved' \in [Keys -> Quotes]
      /\ \A j \in Keys \ {k} : saved'[j] = saved[j] /\ (j \in lost' <=> j \in lost)
      /\ lost' \subseteq Keys
  BY <1>1, <1>2 DEF CacheTypeOK
<1>10. \A d \in Callers : task'[d].at # "fetch"
  BY <1>1, <1>6 DEF LockSound, Idle
<1>11. quote <= clock /\ \A j \in Keys : served[j] \in Int /\ saved[j] \in Int
  <2>1. saved[k] <= clock /\ task[c].asked <= clock /\ \A j \in Keys : served[j] \in Int /\ saved[j] \in Int
    <3>1. \A j \in Keys : served[j] \in Int /\ saved[j] \in Int
      BY <1>1 DEF CacheTypeOK, Quotes, Times, NoQuote
    <3>2. saved[k] <= clock /\ task[c].asked <= clock
      BY <1>1, <1>2 DEF QuotesOrdered
    <3> QED
      BY <3>1, <3>2
  <2> QED
    BY <1>2, <2>1 DEF Times, NoQuote
<1>12. CacheTypeOK'
  <2>1. store'[k] \in [expires : 0..(MaxTime + Ttl), quote : Quotes]
    BY <1>2, <1>4 DEF Times
  <2>2. \A j \in DOMAIN store' : j \in Keys /\ store'[j] \in [expires : 0..(MaxTime + Ttl), quote : Quotes]
    BY <1>1, <1>2, <1>4, <2>1 DEF CacheTypeOK
  <2>3. joined' \subseteq Callers
    BY <1>1, <1>3 DEF CacheTypeOK
  <2> QED
    BY <1>1, <1>6, <1>7, <1>8, <1>9, <2>2, <2>3 DEF CacheTypeOK
<1>13. LockSound'
  <2>1. \A i \in 1..Len(queue) : queue[i] \in Callers /\ queue[i] # c
    BY <1>1, ElementOfSeq DEF CacheTypeOK, LockSound
  <2>2. \A d \in Callers : task'[d].at = "wait" => d # c
    BY <1>6 DEF Idle
  <2> QED
    BY <1>1, <1>6, <1>10, <2>1, <2>2 DEF LockSound
<1>14. AnswersKept'
  <2>1. ASSUME NEW j \in Keys \ {k}
        PROVE  \/ Spent(j)'
               \/ j \in DOMAIN store' /\ store'[j].quote # NoQuote /\ store'[j].expires >= answered'[j] + Ttl
    <3>1. CASE j \in DOMAIN store'
      <4>1. answered'[j] = answered[j] /\ store'[j] = store[j]
        BY <1>4, <1>8, <3>1
      <4> QED
        BY <1>1, <3>1, <4>1 DEF AnswersKept, Spent
    <3>2. CASE j \notin DOMAIN store'
      BY <1>8, <3>2 DEF Spent
    <3> QED
      BY <3>1, <3>2
  <2>2. \/ Spent(k)'
        \/ k \in DOMAIN store' /\ store'[k].quote # NoQuote /\ store'[k].expires >= answered'[k] + Ttl
    <3>1. CASE answered'[k] = answered[k]
      BY <1>1, <3>1 DEF AnswersKept, Spent
    <3>2. CASE answered'[k] = clock /\ quote # NoQuote
      BY <1>2, <1>4, <3>2 DEF Times
    <3> QED
      BY <1>8, <3>1, <3>2
  <2> QED
    BY <1>10, <2>1, <2>2 DEF AnswersKept
<1>15. /\ served[k] <= task[c].asked /\ saved[k] <= task[c].asked
  BY <1>1 DEF QuotesOrdered
<1>16. \A j \in Keys \ lost : served'[j] >= served[j]
  <2>1. \A j \in Keys \ {k} : served'[j] >= served[j]
    BY <1>7, <1>11
  <2>2. k \notin lost => served'[k] >= served[k]
    <3>1. k \notin lost => served[k] <= saved[k]
      BY <1>1, <1>2 DEF QuotesOrdered
    <3> QED
      BY <1>2, <1>7, <1>11, <1>15, <3>1 DEF NoQuote, Times
  <2> QED
    BY <2>1, <2>2
<1>17. QuotesOrdered'
  <2>1. saved'[k] <= clock /\ served'[k] <= clock
    <3>1. saved'[k] = quote \/ saved'[k] = saved[k]
      BY <1>1, <1>2 DEF CacheTypeOK
    <3>2. saved[k] <= clock /\ served[k] <= clock
      BY <1>1, <1>2 DEF QuotesOrdered
    <3> QED
      BY <1>7, <1>11, <3>1, <3>2
  <2>2. \A j \in Keys : saved'[j] <= clock /\ served'[j] <= clock
    BY <1>1, <1>7, <1>9, <2>1 DEF QuotesOrdered
  <2>3. \A j \in DOMAIN store' : store'[j].quote <= clock
    BY <1>1, <1>4, <1>11 DEF QuotesOrdered
  <2>4. ASSUME NEW j \in Keys \ lost'
        PROVE  /\ served'[j] <= saved'[j]
               /\ j \in DOMAIN store' /\ store'[j].quote # NoQuote =>
                    served'[j] <= store'[j].quote /\ store'[j].quote <= saved'[j]
    <3>1. CASE j # k
      BY <1>1, <1>4, <1>7, <1>9, <2>4, <3>1 DEF QuotesOrdered
    <3>2. CASE j = k
      <4>1. CASE saved' = [saved EXCEPT ![k] = quote] /\ quote = task[c].asked
        <5>1. saved'[k] = quote /\ quote # NoQuote /\ quote \in Int
          BY <1>1, <1>2, <4>1 DEF CacheTypeOK, Times, NoQuote
        <5> QED
          BY <1>4, <1>7, <3>2, <5>1
      <4>2. CASE saved' = saved /\ lost' = lost /\ quote \in {saved[k], NoQuote}
        <5>1. served[k] <= saved[k]
          BY <1>1, <2>4, <3>2, <4>2 DEF QuotesOrdered
        <5> QED
          BY <1>4, <1>7, <1>11, <1>2, <3>2, <4>2, <5>1
      <4> QED
        BY <2>4, <3>2, <4>1, <4>2
    <3> QED
      BY <3>1, <3>2
  <2> QED
    BY <1>10, <2>2, <2>3, <2>4 DEF QuotesOrdered
<1> QED
  BY <1>5, <1>12, <1>13, <1>14, <1>16, <1>17 DEF CacheInv, CacheSound

\* The next adapter is asked for the same symbol, now.
LEMMA NextAdapterStep ==
    ASSUME CacheInv, NEW c \in Callers, NextAdapter(c)
    PROVE  CacheInv'
<1>1. CacheTypeOK /\ SizeBounded /\ LockSound /\ AnswersKept /\ QuotesOrdered /\ IsFiniteSet(DOMAIN store)
  BY DEF CacheInv, CacheSound
<1>2. /\ task[c].at = "fetch" /\ task[c].tried < Adapters
      /\ Become(c, Fetching(task[c].key, task[c].tried + 1))
      /\ UNCHANGED <<clock, store, saved, queue, answered, joined, served, lost>>
  BY DEF NextAdapter, aux
<1>3. /\ DOMAIN task' = Callers /\ \A d \in Callers \ {c} : task'[d] = task[d]
      /\ task'[c].at = "fetch" /\ task'[c].key = task[c].key /\ task'[c].asked = clock
      /\ task'[c].tried = task[c].tried + 1 /\ DOMAIN task'[c] = {"at", "key", "tried", "asked"}
  BY <1>1, <1>2, BecomeShape DEF CacheTypeOK, Fetching
<1>4. task[c].key \in Keys /\ task[c].tried \in 1..Adapters /\ clock \in Times
  BY <1>1, <1>2 DEF CacheTypeOK, Idle, Waiting
<1>5. task'[c] \in [at : {"fetch"}, key : Keys, tried : 1..Adapters, asked : Times]
  <2>1. task'[c] = Fetching(task[c].key, task[c].tried + 1)
    BY <1>1, <1>2, BecomeShape DEF CacheTypeOK
  <2> QED
    BY <1>2, <1>4, <2>1 DEF Fetching
<1>6. CacheTypeOK'
  BY <1>1, <1>2, <1>3, <1>5 DEF CacheTypeOK
<1>7. LockSound'
  <2>1. \A i \in 1..Len(queue) : queue[i] \in Callers /\ queue[i] # c
    BY <1>1, <1>2, ElementOfSeq DEF CacheTypeOK, LockSound
  <2>2. \A d \in Callers : task'[d].at = task[d].at
    BY <1>2, <1>3
  <2> QED
    BY <1>1, <1>2, <2>1, <2>2 DEF LockSound
<1>8. AnswersKept'
  BY <1>1, <1>2, <1>3, <1>4 DEF AnswersKept, Spent
<1>9. QuotesOrdered'
  <2>1. /\ served[task[c].key] <= clock /\ saved[task[c].key] <= clock /\ clock <= clock
        /\ task[c].key \in DOMAIN store => store[task[c].key].quote <= clock
    BY <1>1, <1>4 DEF QuotesOrdered, Times
  <2>2. \A d \in Callers : task'[d].at = "fetch" => d = c
    BY <1>1, <1>2, <1>3 DEF LockSound
  <2>3. /\ \A k \in Keys : saved[k] <= clock /\ served[k] <= clock
        /\ \A k \in DOMAIN store : store[k].quote <= clock
        /\ \A k \in Keys \ lost :
             /\ served[k] <= saved[k]
             /\ k \in DOMAIN store /\ store[k].quote # NoQuote =>
                  served[k] <= store[k].quote /\ store[k].quote <= saved[k]
    BY <1>1 DEF QuotesOrdered
  <2> QED
    BY <1>2, <1>3, <2>1, <2>2, <2>3 DEF QuotesOrdered
<1> QED
  BY <1>1, <1>2, <1>6, <1>7, <1>8, <1>9 DEF CacheInv, CacheSound, SizeBounded

\* A cancelled caller lets the lock go, or leaves the queue.
LEMMA CancelStep ==
    ASSUME CacheInv, NEW c \in Callers, Cancel(c)
    PROVE  CacheInv'
<1>1. CacheTypeOK /\ SizeBounded /\ LockSound /\ AnswersKept /\ QuotesOrdered /\ IsFiniteSet(DOMAIN store)
  BY DEF CacheInv, CacheSound
<1>2. /\ Become(c, Idle) /\ queue' = IF task[c].at = "wait" THEN Left(c) ELSE queue
      /\ joined' = joined \ {c}
      /\ UNCHANGED <<clock, store, saved, answered, served, lost>>
  BY DEF Cancel
<1>3. /\ DOMAIN task' = Callers /\ task'[c] = Idle
      /\ \A d \in Callers \ {c} : task'[d] = task[d]
  BY <1>1, <1>2, BecomeShape DEF CacheTypeOK
<1>4. \A i \in 1..Len(queue) : queue[i] \in Callers
  BY <1>1, ElementOfSeq DEF CacheTypeOK
<1>5. /\ queue' \in Seq(Callers)
      /\ \A i \in 1..Len(queue') : \E j \in 1..Len(queue) : queue'[i] = queue[j] /\ queue[j] # c
      /\ \A i, j \in 1..Len(queue') : queue'[i] = queue'[j] => i = j
      /\ \A j \in 1..Len(queue) : queue[j] # c => \E i \in 1..Len(queue') : queue'[i] = queue[j]
  <2>1. CASE task[c].at = "wait"
    BY <1>1, <1>2, <2>1, LeftShape DEF CacheTypeOK
  <2>2. CASE task[c].at # "wait"
    <3>1. queue' = queue /\ \A i \in 1..Len(queue) : queue[i] # c
      BY <1>1, <1>2, <2>2 DEF LockSound
    <3> QED
      BY <1>1, <3>1 DEF LockSound, CacheTypeOK
  <2> QED
    BY <2>1, <2>2
<1>6. CacheTypeOK'
  BY <1>1, <1>2, <1>3, <1>5 DEF CacheTypeOK
<1>7. LockSound'
  <2>1. \A i \in 1..Len(queue') : task'[queue'[i]].at = "wait"
    BY <1>1, <1>3, <1>4, <1>5 DEF LockSound
  <2>2. ASSUME NEW d \in Callers, task'[d].at = "wait" PROVE \E i \in 1..Len(queue') : queue'[i] = d
    <3>1. d # c /\ task[d].at = "wait"
      BY <1>3, <2>2 DEF Idle
    <3>2. PICK j \in 1..Len(queue) : queue[j] = d
      BY <1>1, <3>1 DEF LockSound
    <3> QED
      BY <1>5, <3>1, <3>2
  <2>3. \A d, e \in Callers : task'[d].at = "fetch" /\ task'[e].at = "fetch" => d = e
    BY <1>1, <1>3 DEF LockSound, Idle
  <2> QED
    BY <1>5, <2>1, <2>2, <2>3 DEF LockSound
<1>8. AnswersKept'
  BY <1>1, <1>2, <1>3 DEF AnswersKept, Spent, Idle
<1>9. QuotesOrdered'
  BY <1>1, <1>2, <1>3 DEF QuotesOrdered, Idle
<1> QED
  BY <1>1, <1>2, <1>6, <1>7, <1>8, <1>9 DEF CacheInv, CacheSound, SizeBounded

\* Time lets answers expire and makes nothing older.
LEMMA AdvanceStep ==
    ASSUME CacheInv, Advance
    PROVE  CacheInv'
<1>1. CacheTypeOK /\ SizeBounded /\ LockSound /\ AnswersKept /\ QuotesOrdered /\ IsFiniteSet(DOMAIN store)
  BY DEF CacheInv, CacheSound
<1>2. /\ clock < MaxTime /\ clock' = clock + 1 /\ clock \in Times
      /\ UNCHANGED <<store, saved, task, queue, answered, joined, served, lost>>
  BY <1>1 DEF Advance, aux, CacheTypeOK
<1>3. clock' \in Times /\ \A x \in Int : x <= clock => x <= clock'
  BY <1>2 DEF Times
<1>4. CacheTypeOK'
  BY <1>1, <1>2, <1>3 DEF CacheTypeOK
<1>5. LockSound'
  BY <1>1, <1>2 DEF LockSound
<1>6. \A k \in Keys : Spent(k) => Spent(k)'
  <2>1. \A k \in Keys : answered[k] \in Int
    BY <1>1 DEF CacheTypeOK, Times, Never
  <2> QED
    BY <1>2, <2>1 DEF Spent, Times
<1>7. AnswersKept'
  <2>1. \A c \in Callers : task[c].at = "fetch" => task[c].key \in Keys
    BY <1>1 DEF CacheTypeOK, Idle, Waiting
  <2>2. \A k \in Keys :
          \/ Spent(k)'
          \/ k \in DOMAIN store /\ store[k].quote # NoQuote /\ store[k].expires >= answered[k] + Ttl
    BY <1>1, <1>6 DEF AnswersKept
  <2>3. \A c \in Callers : task[c].at = "fetch" => Spent(task[c].key)'
    <3>1. \A c \in Callers : task[c].at = "fetch" => Spent(task[c].key)
      BY <1>1 DEF AnswersKept
    <3> QED
      BY <1>2, <1>6, <2>1, <3>1
  <2> QED
    BY <1>2, <2>2, <2>3 DEF AnswersKept
<1>8. QuotesOrdered'
  <2>1. /\ \A k \in Keys : saved[k] \in Int /\ served[k] \in Int
        /\ \A k \in DOMAIN store : store[k].quote \in Int
        /\ \A c \in Callers : task[c].at = "fetch" => task[c].asked \in Int
    BY <1>1 DEF CacheTypeOK, Idle, Waiting, Quotes, Times, NoQuote
  <2>2. /\ \A k \in Keys : saved[k] <= clock' /\ served[k] <= clock'
        /\ \A k \in DOMAIN store : store[k].quote <= clock'
    BY <1>1, <1>3, <2>1 DEF QuotesOrdered
  <2>3. \A c \in Callers : task[c].at = "fetch" => task[c].asked <= clock'
    BY <1>1, <1>3, <2>1 DEF QuotesOrdered
  <2> QED
    BY <1>1, <1>2, <2>2, <2>3 DEF QuotesOrdered
<1> QED
  BY <1>1, <1>2, <1>4, <1>5, <1>7, <1>8 DEF CacheInv, CacheSound, SizeBounded

\* An adapter that answers, and the chain that ends without an answer.
LEMMA AnswerStep ==
    ASSUME CacheInv, NEW c \in Callers, AdapterAnswers(c) \/ FallBack(c)
    PROVE  CacheInv' /\ \A j \in Keys \ lost : served'[j] >= served[j]
<1> DEFINE k == task[c].key
<1>1. task[c].at = "fetch" /\ UNCHANGED <<clock, queue>>
  BY DEF AdapterAnswers, FallBack
<1>2. CacheTypeOK
  BY DEF CacheInv, CacheSound
<1>3. task[c].asked \in Quotes /\ task[c].asked # NoQuote /\ k \in Keys /\ saved[k] \in Quotes /\ NoQuote \in Quotes
  BY <1>1, <1>2 DEF CacheTypeOK, Idle, Waiting, Quotes, Times, NoQuote
<1>4. CASE AdapterAnswers(c)
  <2>1. /\ Finish(c, task[c].asked)
        /\ answered' = [Evicted EXCEPT ![k] = clock]
        /\ \/ saved' = [saved EXCEPT ![k] = task[c].asked] /\ lost' = lost \ {k}
           \/ saved' = saved /\ lost' = lost \cup {k}
    BY <1>4 DEF AdapterAnswers
  <2> QED
    BY <1>1, <1>3, <2>1, FinishStep
<1>5. CASE FallBack(c)
  <2>1. /\ Finish(c, saved[k]) \/ Finish(c, NoQuote)
        /\ answered' = Evicted /\ saved' = saved /\ lost' = lost
    BY <1>5 DEF FallBack
  <2> QED
    BY <1>1, <1>3, <2>1, FinishStep
<1> QED
  BY <1>4, <1>5

\* Whoever starts to fetch a symbol found no answer within its ttl.
LEMMA StartsWhenSpent ==
    ASSUME CacheInv, [CacheNext]_cacheVars, NEW c \in Callers, Starts(c)
    PROVE  task'[c].key \in Keys /\ Spent(task'[c].key)
<1>1. CacheTypeOK /\ AnswersKept /\ DOMAIN task = Callers
  BY DEF CacheInv, CacheSound, CacheTypeOK
<1>2. task[c].at # "fetch" /\ task'[c].at = "fetch"
  BY DEF Starts
<1>3. ASSUME NEW b \in Callers, NEW t, Become(b, t) PROVE b = c /\ task'[c] = t
  BY <1>1, <1>2, <1>3, BecomeShape
<1>4. ASSUME NEW b \in Callers, NEW k \in Keys, CallHit(b, k) \/ CallMiss(b, k)
      PROVE  task'[c].key \in Keys /\ Spent(task'[c].key)
  <2>1. ~CallHit(b, k)
    BY <1>2, <1>3 DEF CallHit, Return, Idle
  <2>2. (~Fresh(k) /\ Become(b, Fetching(k, 1))) \/ Become(b, Waiting(k))
    BY <1>4, <2>1 DEF CallMiss
  <2>3. ~Become(b, Waiting(k))
    BY <1>2, <1>3 DEF Waiting
  <2>4. ~Fresh(k) /\ task'[c].key = k
    BY <1>3, <1>4, <2>1, <2>2, <2>3 DEF Fetching, CallMiss
  <2> QED
    BY <1>1, <1>4, <2>4, NotFreshIsSpent
<1>5. ASSUME NEW b \in Callers, Wake(b) PROVE task'[c].key \in Keys /\ Spent(task'[c].key)
  <2>1. b = c
    BY <1>3, <1>5 DEF Wake, Return
  <2> QED
    BY <1>2, <1>5, <2>1, WakeStep
<1>6. ASSUME NEW b \in Callers, AdapterAnswers(b) \/ FallBack(b) PROVE FALSE
  <2>1. Become(b, Idle)
    BY <1>6 DEF AdapterAnswers, FallBack, Finish, Return
  <2> QED
    BY <1>2, <1>3, <2>1 DEF Idle
<1>7. ASSUME NEW b \in Callers, NextAdapter(b) PROVE FALSE
  BY <1>2, <1>3, <1>7 DEF NextAdapter
<1>8. ASSUME NEW b \in Callers, Cancel(b) PROVE FALSE
  BY <1>2, <1>3, <1>8 DEF Cancel, Idle
<1>9. CASE Advance \/ UNCHANGED cacheVars
  BY <1>2, <1>9 DEF Advance, cacheVars
<1> QED
  BY <1>4, <1>5, <1>6, <1>7, <1>8, <1>9 DEF CacheNext, Proceed

\* Each step keeps the invariant and returns no quote older than the last.
LEMMA CacheStep ==
    ASSUME CacheInv, [CacheNext]_cacheVars
    PROVE  CacheInv' /\ \A j \in Keys \ lost : served'[j] >= served[j]
<1>1. \A j \in Keys : served[j] \in Int
  BY DEF CacheInv, CacheSound, CacheTypeOK, Quotes, Times, NoQuote
<1>2. UNCHANGED served => \A j \in Keys \ lost : served'[j] >= served[j]
  BY <1>1
<1>3. ASSUME NEW c \in Callers, NEW k \in Keys, CallHit(c, k)
      PROVE  CacheInv' /\ \A j \in Keys \ lost : served'[j] >= served[j]
  BY <1>1, <1>3, CallHitStep
<1>4. ASSUME NEW c \in Callers, NEW k \in Keys, CallMiss(c, k)
      PROVE  CacheInv' /\ \A j \in Keys \ lost : served'[j] >= served[j]
  BY <1>2, <1>4, CallMissStep DEF CallMiss, aux
<1>5. ASSUME NEW c \in Callers, NextAdapter(c) \/ Cancel(c)
      PROVE  CacheInv' /\ \A j \in Keys \ lost : served'[j] >= served[j]
  BY <1>2, <1>5, NextAdapterStep, CancelStep DEF NextAdapter, Cancel, aux
<1>6. ASSUME NEW c \in Callers, Wake(c) \/ AdapterAnswers(c) \/ FallBack(c)
      PROVE  CacheInv' /\ \A j \in Keys \ lost : served'[j] >= served[j]
  BY <1>6, WakeStep, AnswerStep
<1>7. CASE Advance
  BY <1>2, <1>7, AdvanceStep DEF Advance, aux
<1>8. CASE UNCHANGED cacheVars
  <2>1. UNCHANGED <<clock, store, saved, task, queue, answered, joined, served, lost>>
    BY <1>8 DEF cacheVars, aux
  <2> QED
    BY <1>2, <2>1 DEF CacheInv, CacheSound, CacheTypeOK, SizeBounded, LockSound, AnswersKept, QuotesOrdered, Spent
<1> QED
  BY <1>3, <1>4, <1>5, <1>6, <1>7, <1>8 DEF CacheNext, Proceed

\* The cache starts empty, and nobody is in it.
LEMMA CacheStart == CacheInit => CacheInv
<1> SUFFICES ASSUME CacheInit PROVE CacheInv
  OBVIOUS
<1>1. DOMAIN store = {}
  BY DEF CacheInit
<1>2. IsFiniteSet(DOMAIN store) /\ Cardinality(DOMAIN store) = 0
  BY <1>1, FS_EmptySet
<1>3. \A c \in Callers : task[c].at = "idle"
  BY DEF CacheInit, Idle
<1>4. queue \in Seq(Callers) /\ Len(queue) = 0
  BY EmptySeq DEF CacheInit
<1>5. CacheTypeOK
  BY <1>1, <1>4 DEF CacheInit, CacheTypeOK, Times, Quotes, Never, NoQuote
<1>6. LockSound
  BY <1>3, <1>4 DEF LockSound
<1>7. AnswersKept
  BY <1>3 DEF AnswersKept, Spent, CacheInit
<1>8. QuotesOrdered
  BY <1>1, <1>3 DEF QuotesOrdered, CacheInit, NoQuote
<1> QED
  BY <1>2, <1>5, <1>6, <1>7, <1>8 DEF CacheInv, CacheSound, SizeBounded

-----------------------------------------------------------------------------
(* The theorems                                                            *)

(* The cache of core/cache.py stays within maxsize and its lock is          *)
(* exclusive, an answer stays for its ttl unless it is evicted, and quotes  *)
(* are ordered by the time they were asked for.                             *)
THEOREM CacheSoundCorrect == CacheSpec => []CacheSound
<1>1. CacheInv /\ [CacheNext]_cacheVars => CacheInv'
  BY CacheStep
<1>2. CacheInv => CacheSound
  BY DEF CacheInv
<1> QED
  BY CacheStart, <1>1, <1>2, PTL DEF CacheSpec

(* However the callers of get_quote interleave and whoever is cancelled, an *)
(* adapter is not asked for a symbol again within the ttl of its answer.    *)
THEOREM RateLimitedCorrect == CacheSpec => RateLimited
<1> DEFINE Limited == \A c \in Callers : Starts(c) =>
              \/ answered[task'[c].key] = Never
              \/ clock - answered[task'[c].key] > Ttl
<1>1. CacheInv /\ [CacheNext]_cacheVars => [Limited]_cacheVars
  <2> SUFFICES ASSUME CacheInv, [CacheNext]_cacheVars, NEW c \in Callers, Starts(c)
               PROVE  \/ answered[task'[c].key] = Never
                      \/ clock - answered[task'[c].key] > Ttl
    OBVIOUS
  <2> DEFINE k == task'[c].key
  <2>1. k \in Keys /\ Spent(k)
    BY StartsWhenSpent
  <2> HIDE DEF k
  <2>2. answered[k] \in Int /\ clock \in Int
    BY <2>1 DEF CacheInv, CacheSound, CacheTypeOK, Times, Never
  <2>3. answered[k] = Never \/ clock - answered[k] > Ttl
    BY <2>1, <2>2 DEF Spent
  <2> QED
    BY <2>3 DEF k
<1>2. CacheInv /\ [CacheNext]_cacheVars => CacheInv'
  BY CacheStep
<1> QED
  BY CacheStart, <1>1, <1>2, PTL DEF CacheSpec, RateLimited

(* The quotes that get_quote returns for a symbol never go back in time,    *)
(* whichever adapters fail, as long as the database keeps what it is given. *)
THEOREM NeverGoesBackCorrect == CacheSpec => NeverGoesBack
<1> DEFINE Forward == \A k \in Keys : k \notin lost => served'[k] >= served[k]
<1>1. CacheInv /\ [CacheNext]_cacheVars => [Forward]_cacheVars
  BY CacheStep
<1>2. CacheInv /\ [CacheNext]_cacheVars => CacheInv'
  BY CacheStep
<1> QED
  BY CacheStart, <1>1, <1>2, PTL DEF CacheSpec, NeverGoesBack
=============================================================================
