------------------------- MODULE WatchlistSyncProofs -------------------------
(***************************************************************************)
(* Theorems about WatchlistSync: any symbols, seed and number of calls.     *)
(***************************************************************************)
EXTENDS WatchlistSync, ListLemmas

-----------------------------------------------------------------------------
(* The inductive invariant                                                 *)

Optimistic == {"add", "remove", "reorder"}

(* What a request carries, and what it has read, at each stage. *)
RequestShaped(r) ==
    /\ IsFiniteSet(DOMAIN r.seen)
    /\ r.kind \in {"add", "remove"} => Len(r.arg) = 1
    /\ r.at = "read" => r.list \in Ids /\ r.kind \notin {"load", "create"}
    /\ r.at = "replied" /\ r.kind # "load" => Len(r.reply) = 1

Shaped ==
    /\ \A i \in DOMAIN items : IsFiniteSet(DOMAIN items[i])
    /\ \A c \in Busy : RequestShaped(chain[c])

(* The lists show the tables, apart from the list `gone`: all of them, or   *)
(* before the first load some.                                              *)
Shows(l, table) == l.id \in DOMAIN table /\ l.symbols \in ToSchema(table[l.id])

Mirrors(ls, all, table, gone) ==
    /\ \A i \in DOMAIN ls : ls[i].id # gone => Shows(ls[i], table)
    /\ \A i, j \in DOMAIN ls : i < j => ls[i].id < ls[j].id
    /\ all => \A d \in DOMAIN table : Has(ls, d)

(* What a request of the optimistic operations makes of its list. *)
Promised(r, positions) ==
    IF r.kind = "reorder" THEN Reordered(positions, r.arg)
    ELSE IF r.kind = "remove" THEN Without(positions, r.arg[1])
    ELSE IF r.arg[1] \in DOMAIN positions THEN positions
    ELSE With(positions, r.arg[1], NextPos(positions))

(* While a call runs by itself, the store shows the tables as they will be  *)
(* once its request is written, and its response what was written.          *)
Reconciles(r) ==
    /\ r.at \in {"sent", "read"} /\ r.kind \in {"create", "rename", "delete"} => Mirrors(lists, loaded, items, None)
    /\ r.at \in {"sent", "read"} /\ r.kind \in Optimistic =>
         /\ r.list \in DOMAIN items
         /\ Mirrors(lists, loaded, [items EXCEPT ![r.list] = Promised(r, @)], None)
    /\ r.at = "read" => r.list \in DOMAIN items /\ r.seen = items[r.list]
    /\ r.at = "replied" /\ r.kind \in Optimistic \cup {"rename"} =>
         /\ r.reply[1].id = r.list /\ Shows(r.reply[1], items)
         /\ Mirrors(lists, loaded, items, None)
    /\ r.at = "replied" /\ r.kind = "create" =>
         LET id == r.reply[1].id
         IN  /\ Shows(r.reply[1], items)
             /\ \A d \in DOMAIN items : d <= id
             /\ Mirrors(lists, loaded, [d \in DOMAIN items \ {id} |-> items[d]], None)
    /\ r.at = "replied" /\ r.kind = "delete" =>
         r.list \notin DOMAIN items /\ Mirrors(lists, loaded, items, r.list)

Reconciling ==
    /\ \A c \in Busy : chain[c].alone => Busy = {c}
    /\ \A c \in Busy : chain[c].alone /\ chain[c].at = "replied" /\ chain[c].kind = "load" =>
         chain[c].reply \in AllLists
    /\ ~suspect => \A c \in Busy : chain[c].alone /\ Reconciles(chain[c])
    /\ ~suspect /\ Busy = {} => Mirrors(lists, loaded, items, None)

StoreInv == TypeOK /\ Shaped /\ DerivedInSync /\ Reconciling

-----------------------------------------------------------------------------
(* Tables and their listings                                               *)

(* The symbols of a list, each once, in order of position. *)
Listing(s, positions) ==
    /\ s \in Seq(DOMAIN positions)
    /\ \A x \in DOMAIN positions : \E k \in DOMAIN s : s[k] = x
    /\ \A i, j \in DOMAIN s : i < j => s[i] # s[j] /\ positions[s[i]] <= positions[s[j]]

(* That is what ToSchema, which is given by a length, returns. *)
LEMMA SchemaIsListing ==
    ASSUME NEW positions, IsFiniteSet(DOMAIN positions), NEW s
    PROVE  s \in ToSchema(positions) <=> Listing(s, positions)
<1> DEFINE D == DOMAIN positions
           n == Cardinality(D)
<1>1. n \in Nat
  BY FS_CardinalityType
<1>2. ASSUME s \in ToSchema(positions)
      PROVE  Listing(s, positions)
  <2>1. s \in [1..n -> D] /\ DOMAIN s = 1..n
    BY <1>2 DEF ToSchema
  <2>2. \A i, j \in 1..n : i < j => s[i] # s[j] /\ positions[s[i]] <= positions[s[j]]
    BY <1>2, <2>1 DEF ToSchema
  <2>3. \A i, j \in 1..n : s[i] = s[j] => i = j
    BY <1>1, <2>2
  <2>4. \A x \in D : \E k \in 1..n : s[k] = x
    <3> HIDE DEF D, n
    <3>1. IsFiniteSet(D) /\ n = Cardinality(D)
      BY DEF D, n
    <3> QED
      BY <1>1, <2>1, <2>3, <3>1, EnumerationLength
  <2>5. s \in Seq(D)
    BY <1>1, <2>1
  <2> QED
    BY <2>1, <2>2, <2>4, <2>5 DEF Listing
<1>3. ASSUME Listing(s, positions)
      PROVE  s \in ToSchema(positions)
  <2> DEFINE m == Len(s)
  <2>1. m \in Nat /\ s \in [1..m -> D] /\ DOMAIN s = 1..m
    BY <1>3 DEF Listing
  <2>2. \A i, j \in 1..m : i < j => s[i] # s[j] /\ positions[s[i]] <= positions[s[j]]
    BY <1>3, <2>1 DEF Listing
  <2>3. \A i, j \in 1..m : s[i] = s[j] => i = j
    BY <2>1, <2>2
  <2>4. \A x \in D : \E k \in 1..m : s[k] = x
    BY <1>3, <2>1 DEF Listing
  <2>5. m = n
    <3> HIDE DEF D, m
    <3>1. IsFiniteSet(D)
      BY DEF D
    <3> QED
      BY <2>1, <2>3, <2>4, <3>1, EnumerationLength
  <2> QED
    BY <2>1, <2>2, <2>5 DEF ToSchema
<1> QED
  BY <1>2, <1>3

(* GET / answers with every list, in order of the ids. *)
LEMMA AllListsMirror ==
    ASSUME TypeOK, \A i \in DOMAIN items : IsFiniteSet(DOMAIN items[i]), NEW ls
    PROVE  ls \in AllLists <=> ls \in Seq(List) /\ Mirrors(ls, TRUE, items, None)
<1> DEFINE D == DOMAIN items
           n == Cardinality(D)
           Entries == [id : D, symbols : UNION {ToSchema(items[i]) : i \in D}]
<1>1. n \in Nat /\ IsFiniteSet(D) /\ D \subseteq Ids /\ MaxId \in Nat
  <2>1. D \subseteq Ids /\ MaxId \in Nat
    BY WatchlistConstants DEF TypeOK
  <2>2. IsFiniteSet(Ids)
    BY <2>1, FS_Interval DEF Ids
  <2> QED
    BY <2>1, <2>2, FS_Subset, FS_CardinalityType
<1>2. ASSUME ls \in AllLists
      PROVE  ls \in Seq(List) /\ Mirrors(ls, TRUE, items, None)
  <2>1. /\ ls \in [1..n -> Entries]
        /\ \A i \in 1..n : ls[i].symbols \in ToSchema(items[ls[i].id])
        /\ \A i, j \in 1..n : i < j => ls[i].id < ls[j].id
    BY <1>2 DEF AllLists
  <2> DEFINE e == [i \in 1..n |-> ls[i].id]
  <2>2. \A i \in 1..n : ls[i] \in Entries /\ ls[i].id \in D
    BY <2>1
  <2>3. e \in [1..n -> D]
    BY <2>2
  <2>4. \A i, j \in 1..n : e[i] = e[j] => i = j
    <3>1. \A i \in 1..n : ls[i].id \in Nat
      BY <1>1, <2>2 DEF Ids
    <3>2. \A i, j \in 1..n : ls[i].id = ls[j].id => ~(i < j) /\ ~(j < i)
      BY <3>1, <2>1
    <3>3. \A i, j \in 1..n : ls[i].id = ls[j].id => i = j
      BY <1>1, <3>2
    <3> QED
      BY <3>3
  <2>5. \A d \in D : \E k \in 1..n : e[k] = d
    <3> HIDE DEF D, e, n
    <3>1. n = Cardinality(D)
      BY DEF n
    <3> QED
      BY <1>1, <2>3, <2>4, <3>1, EnumerationLength
  <2>6. \A i \in 1..n : ls[i] \in List
    <3> SUFFICES ASSUME NEW i \in 1..n PROVE ls[i] \in List
      OBVIOUS
    <3>1. IsFiniteSet(DOMAIN items[ls[i].id]) /\ DOMAIN items[ls[i].id] \subseteq Symbols
      BY <2>2 DEF TypeOK, IsTable
    <3>2. ls[i].symbols \in Seq(DOMAIN items[ls[i].id])
      BY <2>1, <3>1, SchemaIsListing DEF Listing
    <3>3. ls[i].symbols \in Seq(Symbols)
      BY <3>1, <3>2
    <3> QED
      BY <1>1, <2>2, <3>3 DEF List
  <2>7. ls \in Seq(List)
    BY <1>1, <2>1, <2>6
  <2>8. DOMAIN ls = 1..n
    BY <2>1
  <2> QED
    BY <2>1, <2>2, <2>5, <2>7, <2>8 DEF Mirrors, Shows, Has
<1>3. ASSUME ls \in Seq(List), Mirrors(ls, TRUE, items, None)
      PROVE  ls \in AllLists
  <2> DEFINE m == Len(ls)
             e == [i \in 1..m |-> ls[i].id]
  <2>1. m \in Nat /\ ls \in [1..m -> List] /\ DOMAIN ls = 1..m
    BY <1>3
  <2>2. \A i \in 1..m : ls[i].id \in Ids /\ ls[i].id # None
    BY <2>1 DEF List, Ids, None
  <2>3. /\ \A i \in 1..m : ls[i].id \in D /\ ls[i].symbols \in ToSchema(items[ls[i].id])
        /\ \A i, j \in 1..m : i < j => ls[i].id < ls[j].id
        /\ \A d \in D : \E i \in 1..m : ls[i].id = d
    BY <1>3, <2>1, <2>2 DEF Mirrors, Shows, Has
  <2>4. e \in [1..m -> D] /\ \A i, j \in 1..m : e[i] = e[j] => i = j
    <3>0. e \in [1..m -> D]
      BY <2>3
    <3>1. \A i \in 1..m : ls[i].id \in Nat
      BY <1>1, <2>2 DEF Ids
    <3>2. \A i, j \in 1..m : ls[i].id = ls[j].id => ~(i < j) /\ ~(j < i)
      BY <3>1, <2>3
    <3>3. \A i, j \in 1..m : ls[i].id = ls[j].id => i = j
      BY <1>1, <2>1, <3>2
    <3> QED
      BY <3>0, <3>3
  <2>5. m = n
    <3> HIDE DEF D, m
    <3>1. \A d \in D : \E k \in 1..m : e[k] = d
      BY <2>3
    <3> HIDE DEF e
    <3> QED
      BY <1>1, <2>1, <2>4, <3>1, EnumerationLength
  <2>6. \A i \in 1..m : ls[i] \in Entries
    BY <2>1, <2>3 DEF List
  <2>7. ls \in [1..n -> Entries]
    BY <2>1, <2>5, <2>6
  <2> QED
    BY <2>1, <2>3, <2>5, <2>7 DEF AllLists
<1> QED
  BY <1>2, <1>3

(* The next position is above every position of the table. *)
LEMMA NextPosAbove ==
    ASSUME NEW positions, IsTable(positions), IsFiniteSet(DOMAIN positions)
    PROVE  /\ NextPos(positions) \in Nat
           /\ \A s \in DOMAIN positions : positions[s] < NextPos(positions)
<1>1. CASE DOMAIN positions = {}
  BY <1>1 DEF NextPos
<1>2. CASE DOMAIN positions # {}
  <2> DEFINE D == DOMAIN positions
             taken == {positions[s] : s \in D}
  <2>1. positions \in [D -> Nat]
    BY DEF IsTable
  <2>2. taken \in SUBSET Nat /\ taken # {}
    BY <1>2, <2>1
  <2>3. IsFiniteSet(taken)
    <3>1. positions \in Surjection(D, taken)
      BY <2>1 DEF Surjection
    <3> HIDE DEF taken
    <3> QED
      BY <3>1, FS_Surjection
  <2>4. \E m \in taken : \A n \in taken : n <= m
    <3> HIDE DEF taken
    <3> QED
      BY <2>2, <2>3, GreatestNatural
  <2>5. \E m \in taken : \A s \in D : positions[s] <= m
    BY <2>4
  <2> DEFINE top == CHOOSE p \in taken : \A s \in D : positions[s] <= p
  <2>6. top \in taken /\ \A s \in D : positions[s] <= top
    <3> HIDE DEF taken
    <3> QED
      BY <2>5
  <2>7. NextPos(positions) = 1 + top
    BY <1>2 DEF NextPos
  <2>8. top \in Nat
    BY <2>2, <2>6
  <2> HIDE DEF top, taken
  <2> QED
    BY <2>1, <2>6, <2>7, <2>8
<1> QED
  BY <1>1, <1>2

(* The operations on a table leave tables. *)
LEMMA TablesStay ==
    ASSUME NEW positions, IsTable(positions), IsFiniteSet(DOMAIN positions)
    PROVE  /\ \A sym : IsTable(Without(positions, sym)) /\ IsFiniteSet(DOMAIN Without(positions, sym))
           /\ \A sym \in Symbols, p \in Nat :
                IsTable(With(positions, sym, p)) /\ IsFiniteSet(DOMAIN With(positions, sym, p))
           /\ \A order \in Seq(Symbols) :
                IsTable(Reordered(positions, order)) /\ IsFiniteSet(DOMAIN Reordered(positions, order))
<1>1. ASSUME NEW sym
      PROVE  IsTable(Without(positions, sym)) /\ IsFiniteSet(DOMAIN Without(positions, sym))
  <2>1. DOMAIN Without(positions, sym) = DOMAIN positions \ {sym}
    BY DEF Without
  <2>2. IsFiniteSet(DOMAIN positions \ {sym})
    BY FS_RemoveElement
  <2> QED
    BY <2>1, <2>2 DEF Without, IsTable
<1>2. ASSUME NEW sym \in Symbols, NEW p \in Nat
      PROVE  IsTable(With(positions, sym, p)) /\ IsFiniteSet(DOMAIN With(positions, sym, p))
  <2>1. DOMAIN With(positions, sym, p) = DOMAIN positions \cup {sym}
    BY DEF With
  <2>2. IsFiniteSet(DOMAIN positions \cup {sym})
    BY FS_AddElement
  <2> QED
    BY <2>1, <2>2 DEF With, IsTable
<1>3. ASSUME NEW order \in Seq(Symbols)
      PROVE  IsTable(Reordered(positions, order)) /\ IsFiniteSet(DOMAIN Reordered(positions, order))
  <2>1. DOMAIN Reordered(positions, order) = DOMAIN positions
    BY DEF Reordered
  <2>2. \A s : (\E i \in DOMAIN order : order[i] = s) => PlaceOf(order, s) \in DOMAIN order
    BY DEF PlaceOf
  <2>3. \A i \in DOMAIN order : i - 1 \in Nat
    OBVIOUS
  <2>4. \A s \in DOMAIN positions : Reordered(positions, order)[s] \in Nat
    BY <2>2, <2>3 DEF Reordered, IsTable
  <2> QED
    BY <2>1, <2>4 DEF Reordered, IsTable
<1> QED
  BY <1>1, <1>2, <1>3

(* Add: the symbol comes last unless it is there. *)
LEMMA AddListing ==
    ASSUME NEW positions, IsTable(positions), IsFiniteSet(DOMAIN positions),
           NEW s, Listing(s, positions), NEW sym
    PROVE  /\ In(sym, s) <=> sym \in DOMAIN positions
           /\ sym \notin DOMAIN positions =>
                Listing(Append(s, sym), With(positions, sym, NextPos(positions)))
<1> DEFINE D == DOMAIN positions
           p == NextPos(positions)
           l == Len(s)
<1>1. s \in Seq(D) /\ l \in Nat /\ DOMAIN s = 1..l /\ \A k \in 1..l : s[k] \in D
  BY DEF Listing
<1>2. In(sym, s) <=> sym \in D
  BY <1>1 DEF In, Listing
<1>3. ASSUME sym \notin D
      PROVE  Listing(Append(s, sym), With(positions, sym, p))
  <2>1. /\ DOMAIN With(positions, sym, p) = D \cup {sym}
        /\ With(positions, sym, p)[sym] = p
        /\ \A x \in D : With(positions, sym, p)[x] = positions[x]
    BY <1>3 DEF With
  <2>2. /\ Append(s, sym) \in Seq(D \cup {sym})
        /\ DOMAIN Append(s, sym) = 1..(l + 1)
        /\ Append(s, sym)[l + 1] = sym
        /\ \A k \in 1..l : Append(s, sym)[k] = s[k]
    <3>1. s \in Seq(D \cup {sym})
      BY <1>1
    <3> QED
      BY <1>1, <3>1
  <2>3. \A k \in 1..(l + 1) : k \in 1..l \/ k = l + 1
    BY <1>1
  <2>4. \A x \in D \cup {sym} : \E k \in 1..(l + 1) : Append(s, sym)[k] = x
    <3>1. \A x \in D : \E k \in 1..l : s[k] = x
      BY <1>1 DEF Listing
    <3>2. l + 1 \in 1..(l + 1) /\ \A k \in 1..l : k \in 1..(l + 1)
      BY <1>1
    <3> QED
      BY <2>2, <3>1, <3>2
  <2>5. ASSUME NEW i \in 1..(l + 1), NEW j \in 1..(l + 1), i < j
        PROVE  /\ Append(s, sym)[i] # Append(s, sym)[j]
               /\ With(positions, sym, p)[Append(s, sym)[i]] <= With(positions, sym, p)[Append(s, sym)[j]]
    <3>1. i \in 1..l
      BY <1>1, <2>5
    <3>2. CASE j \in 1..l
      BY <1>1, <2>1, <2>2, <2>5, <3>1, <3>2 DEF Listing
    <3>3. CASE j = l + 1
      <4>1. positions[s[i]] \in Nat /\ p \in Nat /\ positions[s[i]] < p
        BY <1>1, <3>1, NextPosAbove DEF IsTable
      <4>2. s[i] \in D /\ s[i] # sym
        BY <1>1, <1>3, <3>1
      <4> HIDE DEF p
      <4> QED
        BY <2>1, <2>2, <3>1, <3>3, <4>1, <4>2
    <3> QED
      BY <2>3, <3>2, <3>3
  <2> QED
    BY <2>1, <2>2, <2>4, <2>5 DEF Listing
<1> QED
  BY <1>2, <1>3

(* Remove: the other symbols keep their order. *)
LEMMA RemoveListing ==
    ASSUME NEW positions, IsTable(positions), NEW s, Listing(s, positions), NEW sym
    PROVE  Listing(Keep(s, Symbols \ {sym}), Without(positions, sym))
<1> DEFINE D == DOMAIN positions
           S == Symbols \ {sym}
           kept == Keep(s, S)
<1>1. s \in Seq(D) /\ D \subseteq Symbols /\ positions \in [D -> Nat]
  BY DEF Listing, IsTable
<1>2. /\ kept \in Seq(D \cap S)
      /\ \E at \in [DOMAIN kept -> DOMAIN s] :
           /\ \A k \in DOMAIN at : kept[k] = s[at[k]]
           /\ \A j, k \in DOMAIN at : j < k => at[j] < at[k]
           /\ \A i \in DOMAIN s : s[i] \in S => \E k \in DOMAIN at : at[k] = i
  <2> HIDE DEF D, S, kept
  <2>1. s \in Seq(D)
    BY <1>1
  <2>2. kept = Keep(s, S)
    BY DEF kept
  <2> QED
    BY <2>1, <2>2, KeepKept, SMTT(30)
<1>3. PICK at \in [DOMAIN kept -> DOMAIN s] :
           /\ \A k \in DOMAIN at : kept[k] = s[at[k]]
           /\ \A j, k \in DOMAIN at : j < k => at[j] < at[k]
           /\ \A i \in DOMAIN s : s[i] \in S => \E k \in DOMAIN at : at[k] = i
  BY <1>2
<1>4. DOMAIN Without(positions, sym) = D \cap S /\ \A x \in D \cap S : Without(positions, sym)[x] = positions[x]
  BY <1>1 DEF Without
<1> HIDE DEF kept
<1>5. \A x \in D \cap S : \E k \in DOMAIN kept : kept[k] = x
  <2> SUFFICES ASSUME NEW x \in D \cap S PROVE \E k \in DOMAIN kept : kept[k] = x
    OBVIOUS
  <2>1. PICK i \in DOMAIN s : s[i] = x
    BY DEF Listing
  <2>2. PICK k \in DOMAIN at : at[k] = i
    BY <1>3, <2>1
  <2> QED
    BY <1>3, <2>1, <2>2
<1>6. ASSUME NEW i \in DOMAIN kept, NEW j \in DOMAIN kept, i < j
      PROVE  kept[i] # kept[j] /\ Without(positions, sym)[kept[i]] <= Without(positions, sym)[kept[j]]
  <2>1. at[i] \in DOMAIN s /\ at[j] \in DOMAIN s /\ at[i] < at[j]
    BY <1>3, <1>6
  <2>2. kept[i] \in D \cap S /\ kept[j] \in D \cap S
    BY <1>2
  <2> QED
    BY <1>3, <1>4, <2>1, <2>2 DEF Listing
<1> QED
  BY <1>2, <1>4, <1>5, <1>6 DEF Listing, kept

(* Reorder: two neighbours change places, and the positions are theirs. *)
LEMMA ReorderListing ==
    ASSUME NEW positions, NEW s, Listing(s, positions), NEW i \in 1..(Len(s) - 1),
           NEW order, order = [s EXCEPT ![i] = s[i + 1], ![i + 1] = s[i]]
    PROVE  order \in Seq(DOMAIN positions) /\ Listing(order, Reordered(positions, order))
<1> DEFINE D == DOMAIN positions
           l == Len(s)
           swap == [k \in 1..l |-> IF k = i THEN i + 1 ELSE IF k = i + 1 THEN i ELSE k]
<1>1. l \in Nat /\ s \in [1..l -> D] /\ DOMAIN s = 1..l /\ i \in 1..l /\ i + 1 \in 1..l
  BY DEF Listing
<1>2. \A k \in 1..l : swap[k] \in 1..l /\ swap[swap[k]] = k
  BY <1>1
<1>3. order \in [1..l -> D] /\ \A k \in 1..l : order[k] = s[swap[k]]
  BY <1>1
<1>4. order \in Seq(D) /\ DOMAIN order = 1..l
  BY <1>1, <1>3
<1>5. \A j, k \in 1..l : s[j] = s[k] => j = k
  BY <1>1 DEF Listing
<1> HIDE DEF swap
<1>6. \A j, k \in 1..l : order[j] = order[k] => j = k
  <2> SUFFICES ASSUME NEW j \in 1..l, NEW k \in 1..l, order[j] = order[k] PROVE j = k
    OBVIOUS
  <2>1. swap[j] = swap[k]
    BY <1>2, <1>3, <1>5
  <2> QED
    BY <1>2, <2>1
<1>7. \A x \in D : \E k \in 1..l : order[k] = x
  <2> SUFFICES ASSUME NEW x \in D PROVE \E k \in 1..l : order[k] = x
    OBVIOUS
  <2>1. PICK k \in 1..l : s[k] = x
    BY <1>1 DEF Listing
  <2> QED
    BY <1>2, <1>3, <2>1
<1>8. \A k \in 1..l : PlaceOf(order, order[k]) = k
  BY <1>4, <1>6 DEF PlaceOf
<1>9. /\ DOMAIN Reordered(positions, order) = D
      /\ \A k \in 1..l : Reordered(positions, order)[order[k]] = k - 1
  BY <1>3, <1>4, <1>8 DEF Reordered
<1>10. ASSUME NEW j \in 1..l, NEW k \in 1..l, j < k
       PROVE  /\ order[j] # order[k]
              /\ Reordered(positions, order)[order[j]] <= Reordered(positions, order)[order[k]]
  <2>1. order[j] # order[k]
    BY <1>6, <1>10
  <2>2. Reordered(positions, order)[order[j]] = j - 1 /\ Reordered(positions, order)[order[k]] = k - 1
    BY <1>9
  <2>3. j - 1 <= k - 1
    BY <1>1, <1>10
  <2> HIDE DEF l
  <2> QED
    BY <2>1, <2>2, <2>3
<1> DEFINE after == Reordered(positions, order)
<1>11. DOMAIN after = D /\ \A j, k \in 1..l : j < k => order[j] # order[k] /\ after[order[j]] <= after[order[k]]
  BY <1>9, <1>10
<1>12. Listing(order, after)
  <2> HIDE DEF after, D, l
  <2> QED
    BY <1>4, <1>7, <1>11 DEF Listing
<1> QED
  BY <1>4, <1>12

(* A table with no two equal positions has one listing. *)
LEMMA OneListing ==
    ASSUME NEW positions, IsTable(positions), IsFiniteSet(DOMAIN positions), Untied(positions),
           NEW s \in ToSchema(positions), NEW t \in ToSchema(positions)
    PROVE  s = t
<1> DEFINE D == DOMAIN positions
           n == Cardinality(D)
<1>1. n \in Nat /\ positions \in [D -> Nat]
  BY FS_CardinalityType DEF IsTable
<1>2. s \in [1..n -> D] /\ t \in [1..n -> D]
  BY DEF ToSchema
<1>3. /\ \A i, j \in 1..n : i < j => s[i] # s[j] /\ positions[s[i]] <= positions[s[j]]
      /\ \A i, j \in 1..n : i < j => t[i] # t[j] /\ positions[t[i]] <= positions[t[j]]
  BY <1>2 DEF ToSchema
<1>4. /\ \A x \in D : \E k \in 1..n : s[k] = x
      /\ \A x \in D : \E k \in 1..n : t[k] = x
  BY <1>2, SchemaIsListing DEF Listing
<1> DEFINE differ == {k \in 1..n : s[k] # t[k]}
<1>5. ASSUME differ # {}
      PROVE  FALSE
  <2>1. differ \in SUBSET Nat
    BY <1>1
  <2>2. PICK k \in differ : \A j \in differ : k <= j
    <3> HIDE DEF differ
    <3> QED
      BY <1>5, <2>1, LeastNatural
  <2>3. k \in 1..n /\ s[k] # t[k] /\ \A j \in 1..n : j < k => s[j] = t[j]
    BY <1>1, <2>2
  <2>4. PICK i \in 1..n : s[i] = t[k]
    BY <1>2, <1>4, <2>3
  <2>5. PICK j \in 1..n : t[j] = s[k]
    BY <1>2, <1>4, <2>3
  <2> HIDE DEF n, D
  <2>6. k < i
    BY <1>1, <1>3, <2>3, <2>4
  <2>7. k < j
    BY <1>1, <1>3, <2>3, <2>5
  <2>8. positions[s[k]] <= positions[t[k]] /\ positions[t[k]] <= positions[s[k]]
    BY <1>3, <2>3, <2>4, <2>5, <2>6, <2>7
  <2>9. positions[s[k]] \in Nat /\ positions[t[k]] \in Nat /\ s[k] \in D /\ t[k] \in D
    BY <1>1, <1>2, <2>3
  <2> QED
    BY <2>3, <2>8, <2>9 DEF Untied, D
<1>6. \A k \in 1..n : s[k] = t[k]
  BY <1>5
<1>7. s = [k \in 1..n |-> s[k]] /\ t = [k \in 1..n |-> t[k]]
  BY <1>2
<1> HIDE DEF n
<1> QED
  BY <1>6, <1>7

-----------------------------------------------------------------------------
(* What a step may leave alone                                             *)

(* Mirrors depends on the tables of the lists only. *)
LEMMA MirrorsSame ==
    ASSUME NEW ls, NEW all, NEW table, NEW other, NEW gone, Mirrors(ls, all, table, gone),
           DOMAIN other = DOMAIN table, \A d \in DOMAIN table : other[d] = table[d]
    PROVE  Mirrors(ls, all, other, gone)
BY DEF Mirrors, Shows

(* One list of the store, and its table, change. *)
LEMMA MirrorsOne ==
    ASSUME NEW ls \in Seq(List), NEW all, NEW table, Mirrors(ls, all, table, None),
           NEW id \in DOMAIN table, NEW other, NEW more,
           DOMAIN other = DOMAIN table, \A d \in DOMAIN table : d # id => other[d] = table[d],
           DOMAIN more = DOMAIN ls,
           \A i \in DOMAIN ls : more[i].id = ls[i].id,
           \A i \in DOMAIN ls : ls[i].id # id => more[i].symbols = ls[i].symbols,
           \A i \in DOMAIN ls : ls[i].id = id => more[i].symbols \in ToSchema(other[id])
    PROVE  Mirrors(more, all, other, None)
BY DEF Mirrors, Shows, Has

(* A list of the store's is a list of the engine's, if none is gone. *)
LEMMA KnownLists ==
    ASSUME TypeOK, NEW table, NEW all, Mirrors(lists, all, table, None), NEW i \in DOMAIN lists
    PROVE  lists[i].id \in DOMAIN table /\ lists[i].symbols \in ToSchema(table[lists[i].id])
<1>1. lists[i] \in List
  BY DEF TypeOK
<1>2. lists[i].id # None
  BY <1>1 DEF List, Ids, None
<1> QED
  BY <1>2 DEF Mirrors, Shows

(* A chain moves on: nothing else of the chains changes. *)
LEMMA ChainMoves ==
    ASSUME TypeOK, NEW c \in Calls, NEW r, chain' = [chain EXCEPT ![c] = r]
    PROVE  /\ chain'[c] = r /\ DOMAIN chain' = Calls
           /\ \A d \in Calls : d # c => chain'[d] = chain[d]
           /\ Busy' = IF r = Idle THEN Busy \ {c} ELSE Busy \cup {c}
BY DEF TypeOK, Busy

(* A step of the engine's: the store sees nothing of it. *)
LEMMA EngineMoves ==
    ASSUME StoreInv, NEW c \in Calls, chain[c] # Idle, NEW r, IsRequest(r), RequestShaped(r),
           chain' = [chain EXCEPT ![c] = r],
           r.alone = chain[c].alone,
           UNCHANGED <<store, suspect, readies, ops>>,
           DOMAIN items' \subseteq Ids,
           \A i \in DOMAIN items' : IsTable(items'[i]) /\ IsFiniteSet(DOMAIN items'[i]),
           r.alone /\ r.at = "replied" /\ r.kind = "load" => r.reply \in AllLists',
           ~suspect => Reconciles(r)'
    PROVE  StoreInv'
<1>1. /\ chain'[c] = r /\ DOMAIN chain' = Calls
      /\ \A d \in Calls : d # c => chain'[d] = chain[d]
      /\ Busy' = Busy /\ c \in Busy
  <2>1. r # Idle
    BY DEF IsRequest, Idle
  <2> QED
    BY <2>1, ChainMoves DEF Busy, StoreInv
<1>2. TypeOK'
  BY <1>1 DEF StoreInv, TypeOK, store
<1>3. Shaped'
  BY <1>1 DEF StoreInv, Shaped, Busy
<1>4. DerivedInSync'
  BY DEF StoreInv, DerivedInSync, store
<1>5. Reconciling'
  <2>1. \A d \in Busy' : chain'[d].alone => Busy' = {d}
    BY <1>1 DEF StoreInv, Reconciling
  <2>2. \A d \in Busy' : chain'[d].alone => d = c
    BY <1>1, <2>1
  <2>3. \A d \in Busy' : chain'[d].alone /\ chain'[d].at = "replied" /\ chain'[d].kind = "load" =>
          chain'[d].reply \in AllLists'
    BY <1>1, <2>2
  <2>4. ASSUME ~suspect', NEW d \in Busy'
        PROVE  chain'[d].alone /\ Reconciles(chain[d])'
    <3>1. chain[d].alone /\ ~suspect
      BY <1>1, <2>4 DEF StoreInv, Reconciling
    <3>2. chain'[d].alone /\ d = c
      BY <1>1, <2>2, <3>1
    <3> QED
      BY <1>1, <3>1, <3>2
  <2> QED
    BY <1>1, <2>1, <2>3, <2>4 DEF Reconciling
<1> QED
  BY <1>2, <1>3, <1>4, <1>5 DEF StoreInv

-----------------------------------------------------------------------------
(* The steps of the engine                                                 *)

(* What is known of a request under way. *)
LEMMA Underway ==
    ASSUME StoreInv, NEW c \in Calls, chain[c].at \in {"sent", "read", "replied", "failed"}
    PROVE  /\ chain[c] # Idle /\ IsRequest(chain[c]) /\ RequestShaped(chain[c])
           /\ ~suspect => chain[c].alone /\ Reconciles(chain[c])
<1>1. chain[c] # Idle
  BY DEF Idle
<1> QED
  BY <1>1 DEF StoreInv, TypeOK, Shaped, Reconciling, Busy

(* A request fails: nothing is known of the store until it is loaded. *)
LEMMA FailedStep ==
    ASSUME StoreInv, NEW c \in Calls, chain[c].at \in {"sent", "read", "replied"},
           chain' = [chain EXCEPT ![c] = Failed(c)],
           UNCHANGED <<items, store, suspect, readies, ops>>
    PROVE  StoreInv'
<1>1. PICK r : r = Failed(c)
  OBVIOUS
<1>2. chain[c] # Idle /\ IsRequest(chain[c]) /\ RequestShaped(chain[c])
  BY Underway
<1>3. /\ r.at = "failed" /\ r.alone = chain[c].alone /\ r.kind = chain[c].kind
      /\ IsRequest(r) /\ RequestShaped(r)
  BY <1>1, <1>2 DEF Failed, IsRequest, RequestShaped
<1>4. Reconciles(r)'
  BY <1>3 DEF Reconciles
<1>5. /\ DOMAIN items' \subseteq Ids
      /\ \A i \in DOMAIN items' : IsTable(items'[i]) /\ IsFiniteSet(DOMAIN items'[i])
  BY DEF StoreInv, TypeOK, Shaped
<1> QED
  BY <1>1, <1>2, <1>3, <1>4, <1>5, EngineMoves

(* GET /: with no other call under way the answer stays right. *)
LEMMA ListAllStep ==
    ASSUME StoreInv, NEW c \in Calls, ListAll(c)
    PROVE  StoreInv'
<1>1. PICK all \in AllLists : chain' = [chain EXCEPT ![c] = Reply(c, all)]
  BY DEF ListAll
<1>2. PICK r : r = Reply(c, all)
  OBVIOUS
<1>3. chain[c] # Idle /\ IsRequest(chain[c]) /\ RequestShaped(chain[c]) /\ chain[c].kind = "load"
  BY Underway DEF ListAll
<1>4. /\ DOMAIN items' \subseteq Ids
      /\ \A i \in DOMAIN items' : IsTable(items'[i]) /\ IsFiniteSet(DOMAIN items'[i])
  BY DEF StoreInv, TypeOK, Shaped, ListAll
<1>5. all \in Seq(List)
  BY AllListsMirror DEF StoreInv, Shaped
<1>6. /\ r.at = "replied" /\ r.alone = chain[c].alone /\ r.kind = "load" /\ r.reply = all
      /\ IsRequest(r) /\ RequestShaped(r)
  BY <1>2, <1>3, <1>5 DEF Reply, IsRequest, RequestShaped
<1>7. Reconciles(r)'
  BY <1>6 DEF Reconciles, Optimistic
<1>8. r.reply \in AllLists'
  BY <1>6 DEF AllLists, ListAll
<1> QED
  BY <1>1, <1>2, <1>3, <1>4, <1>6, <1>7, <1>8, EngineMoves DEF ListAll

(* POST /: the new list comes after the others. *)
LEMMA CreateStep ==
    ASSUME StoreInv, NEW c \in Calls, Create(c)
    PROVE  StoreInv'
<1>1. PICK id \in Ids :
        /\ \A i \in DOMAIN items : i < id
        /\ items' = [i \in DOMAIN items \cup {id} |-> IF i = id THEN [s \in {} |-> 0] ELSE items[i]]
        /\ chain' = [chain EXCEPT ![c] = Reply(c, <<[id |-> id, symbols |-> <<>>]>>)]
  BY DEF Create
<1> DEFINE new == [id |-> id, symbols |-> <<>>]
           empty == [s \in {} |-> 0]
<1>2. PICK r : r = Reply(c, <<new>>)
  OBVIOUS
<1>3. /\ chain[c] # Idle /\ IsRequest(chain[c]) /\ RequestShaped(chain[c])
      /\ chain[c].at = "sent" /\ chain[c].kind = "create"
      /\ ~suspect => Reconciles(chain[c])
  BY Underway DEF Create
<1>4. new \in List /\ <<new>> \in Seq(List) /\ Len(<<new>>) = 1 /\ <<new>>[1] = new
  BY DEF List
<1>5. /\ r.at = "replied" /\ r.alone = chain[c].alone /\ r.kind = "create" /\ r.reply = <<new>>
      /\ IsRequest(r) /\ RequestShaped(r)
  BY <1>2, <1>3, <1>4 DEF Reply, IsRequest, RequestShaped
<1>6. IsTable(empty) /\ IsFiniteSet(DOMAIN empty) /\ Listing(<<>>, empty)
  BY FS_EmptySet DEF IsTable, Listing
<1>7. /\ DOMAIN items' \subseteq Ids
      /\ \A i \in DOMAIN items' : IsTable(items'[i]) /\ IsFiniteSet(DOMAIN items'[i])
  BY <1>1, <1>6 DEF StoreInv, TypeOK, Shaped
<1>8. UNCHANGED <<store, suspect, readies, ops>> /\ lists' = lists /\ loaded' = loaded
  BY DEF Create, store
<1>9. ASSUME ~suspect
      PROVE  Reconciles(r)'
  <2>1. Mirrors(lists, loaded, items, None)
    BY <1>3, <1>9 DEF Reconciles
  <2>2. \A i \in DOMAIN items : i \in Nat /\ i # id
    BY <1>1, WatchlistConstants DEF StoreInv, TypeOK, Ids
  <2> DEFINE others == [d \in DOMAIN items' \ {id} |-> items'[d]]
  <2>3. DOMAIN others = DOMAIN items /\ \A d \in DOMAIN items : others[d] = items[d]
    BY <1>1, <2>2
  <2>4. Mirrors(lists, loaded, others, None)
    <3> HIDE DEF others
    <3> QED
      BY <2>1, <2>3, MirrorsSame
  <2>5. id \in DOMAIN items' /\ items'[id] = empty
    BY <1>1
  <2>6. <<>> \in ToSchema(empty)
    <3> HIDE DEF empty
    <3> QED
      BY <1>6, SchemaIsListing
  <2>7. Shows(new, items')
    BY <2>5, <2>6 DEF Shows
  <2>8. \A d \in DOMAIN items' : d <= id
    BY <1>1, <2>2 DEF Ids
  <2>9. r.reply[1] = new /\ new.id = id
    BY <1>4, <1>5
  <2> HIDE DEF new
  <2> QED
    BY <1>5, <1>8, <2>4, <2>7, <2>8, <2>9 DEF Reconciles, Optimistic
<1> QED
  BY <1>1, <1>2, <1>3, <1>5, <1>7, <1>8, <1>9, EngineMoves

(* The list is read, or is gone. *)
LEMMA ReadListStep ==
    ASSUME StoreInv, NEW c \in Calls, ReadList(c)
    PROVE  StoreInv'
<1>1. /\ chain[c] # Idle /\ IsRequest(chain[c]) /\ RequestShaped(chain[c])
      /\ chain[c].at = "sent" /\ chain[c].kind \notin {"load", "create"}
      /\ ~suspect => Reconciles(chain[c])
      /\ UNCHANGED <<items, store, suspect, readies, ops>>
  BY Underway DEF ReadList
<1>2. CASE chain[c].list \in DOMAIN items
  <2>1. PICK r : r = [chain[c] EXCEPT !.at = "read", !.seen = items[chain[c].list]]
    OBVIOUS
  <2>2. chain' = [chain EXCEPT ![c] = r]
    BY <1>2, <2>1 DEF ReadList
  <2>3. IsTable(items[chain[c].list]) /\ IsFiniteSet(DOMAIN items[chain[c].list]) /\ chain[c].list \in Ids
    BY <1>2 DEF StoreInv, TypeOK, Shaped
  <2>4. /\ r.at = "read" /\ r.alone = chain[c].alone /\ r.kind = chain[c].kind
        /\ r.list = chain[c].list /\ r.arg = chain[c].arg /\ r.seen = items[chain[c].list]
        /\ r.reply = chain[c].reply
    BY <1>1, <2>1 DEF IsRequest
  <2>5. IsRequest(r) /\ RequestShaped(r)
    BY <1>1, <2>1, <2>3, <2>4 DEF IsRequest, RequestShaped
  <2>6. ASSUME ~suspect
        PROVE  Reconciles(r)'
    <3>1. \A positions : Promised(r, positions) = Promised(chain[c], positions)
      BY <2>4 DEF Promised
    <3>2. Reconciles(chain[c]) /\ lists' = lists /\ loaded' = loaded /\ items' = items
      BY <1>1, <2>6 DEF store
    <3> QED
      BY <1>1, <1>2, <2>4, <3>1, <3>2 DEF Reconciles, Optimistic
  <2>7. /\ DOMAIN items' \subseteq Ids
        /\ \A i \in DOMAIN items' : IsTable(items'[i]) /\ IsFiniteSet(DOMAIN items'[i])
    BY <1>1 DEF StoreInv, TypeOK, Shaped
  <2> QED
    BY <1>1, <2>2, <2>4, <2>5, <2>6, <2>7, EngineMoves
<1>3. CASE chain[c].list \notin DOMAIN items
  <2>1. chain' = [chain EXCEPT ![c] = Failed(c)]
    BY <1>3 DEF ReadList
  <2> QED
    BY <1>1, <2>1, FailedStep
<1> QED
  BY <1>2, <1>3

(* A write of a request: the response shows the table it leaves. *)
LEMMA WritesStep ==
    ASSUME StoreInv, NEW c \in Calls, chain[c].at = "read",
           NEW new, IsTable(new), IsFiniteSet(DOMAIN new), NEW ok, NEW table,
           Writes(c, new, ok, table),
           ok => /\ DOMAIN table \subseteq Ids
                 /\ \A i \in DOMAIN table : IsTable(table[i]) /\ IsFiniteSet(DOMAIN table[i]),
           ok /\ ~suspect =>
             IF chain[c].kind = "delete"
               THEN chain[c].list \notin DOMAIN table /\ Mirrors(lists, loaded, table, chain[c].list)
               ELSE /\ chain[c].list \in DOMAIN table /\ new = table[chain[c].list]
                    /\ Mirrors(lists, loaded, table, None)
    PROVE  StoreInv'
<1>1. /\ chain[c] # Idle /\ IsRequest(chain[c]) /\ RequestShaped(chain[c])
      /\ chain[c].kind \notin {"load", "create"} /\ chain[c].list \in Ids
  BY Underway DEF RequestShaped
<1>2. CASE ok
  <2>1. PICK s \in ToSchema(new) :
          chain' = [chain EXCEPT ![c] = Reply(c, <<[id |-> chain[c].list, symbols |-> s]>>)]
    BY <1>2 DEF Writes
  <2>2. items' = table /\ UNCHANGED <<store, suspect, readies, ops>> /\ lists' = lists /\ loaded' = loaded
    BY <1>2 DEF Writes, store
  <2>3. PICK l : l = [id |-> chain[c].list, symbols |-> s]
    OBVIOUS
  <2>4. PICK r : r = Reply(c, <<l>>)
    OBVIOUS
  <2>5. l \in List
    <3>1. s \in Seq(DOMAIN new) /\ DOMAIN new \subseteq Symbols
      BY SchemaIsListing DEF Listing, IsTable
    <3>2. s \in Seq(Symbols)
      BY <3>1
    <3> QED
      BY <1>1, <2>3, <3>2 DEF List
  <2>6. <<l>> \in Seq(List) /\ Len(<<l>>) = 1 /\ <<l>>[1] = l
    BY <2>5
  <2>7. /\ r.at = "replied" /\ r.alone = chain[c].alone /\ r.kind = chain[c].kind
        /\ r.reply = <<l>> /\ r.list = chain[c].list
        /\ IsRequest(r) /\ RequestShaped(r)
    BY <1>1, <2>4, <2>6 DEF Reply, IsRequest, RequestShaped
  <2>8. ASSUME ~suspect
        PROVE  Reconciles(r)'
    <3>1. r.reply[1] = l /\ l.id = r.list /\ l.symbols \in ToSchema(new)
      BY <2>3, <2>6, <2>7
    <3>2. CASE r.kind = "delete"
      BY <1>2, <2>2, <2>7, <2>8, <3>2 DEF Reconciles, Optimistic
    <3>3. CASE r.kind # "delete"
      <4>1. r.reply[1].id = r.list /\ Shows(r.reply[1], table) /\ Mirrors(lists, loaded, table, None)
        BY <1>2, <2>7, <2>8, <3>1, <3>3 DEF Shows
      <4> QED
        BY <1>1, <2>2, <2>7, <3>3, <4>1 DEF Reconciles, Optimistic
    <3> QED
      BY <3>2, <3>3
  <2> QED
    BY <1>1, <1>2, <2>1, <2>2, <2>3, <2>4, <2>7, <2>8, EngineMoves
<1>3. CASE ~ok
  BY <1>3, FailedStep DEF Writes
<1> QED
  BY <1>2, <1>3

(* What a thread that has read its list knows. *)
LEMMA HasRead ==
    ASSUME StoreInv, NEW c \in Calls, chain[c].at = "read"
    PROVE  /\ IsRequest(chain[c]) /\ RequestShaped(chain[c])
           /\ IsTable(chain[c].seen) /\ IsFiniteSet(DOMAIN chain[c].seen)
           /\ DOMAIN items \subseteq Ids
           /\ \A i \in DOMAIN items : IsTable(items[i]) /\ IsFiniteSet(DOMAIN items[i])
           /\ ~suspect => /\ chain[c].list \in DOMAIN items
                          /\ chain[c].seen = items[chain[c].list]
                          /\ Reconciles(chain[c])
BY Underway DEF StoreInv, TypeOK, Shaped, IsRequest, RequestShaped, Reconciles

(* What an optimistic operation has promised is written. *)
LEMMA PromiseKept ==
    ASSUME StoreInv, NEW c \in Calls, chain[c].at = "read", chain[c].kind \in Optimistic, ~suspect,
           NEW table, DOMAIN table = DOMAIN items,
           \A d \in DOMAIN items : d # chain[c].list => table[d] = items[d],
           table[chain[c].list] = Promised(chain[c], items[chain[c].list])
    PROVE  Mirrors(lists, loaded, table, None)
<1> DEFINE id == chain[c].list
           promised == [items EXCEPT ![id] = Promised(chain[c], @)]
<1>1. Mirrors(lists, loaded, promised, None) /\ id \in DOMAIN items
  BY HasRead DEF Reconciles
<1>2. DOMAIN promised = DOMAIN table /\ \A d \in DOMAIN promised : table[d] = promised[d]
  BY <1>1
<1> HIDE DEF promised
<1> QED
  BY <1>1, <1>2, MirrorsSame

LEMMA AddItemStep ==
    ASSUME StoreInv, NEW c \in Calls, AddItem(c)
    PROVE  StoreInv'
<1> DEFINE id   == chain[c].list
           sym  == chain[c].arg[1]
           seen == chain[c].seen
           new  == With(seen, sym, NextPos(seen))
<1>1. chain[c].at = "read" /\ chain[c].kind = "add"
  BY DEF AddItem, Reading
<1>2. /\ IsTable(seen) /\ IsFiniteSet(DOMAIN seen) /\ DOMAIN items \subseteq Ids
      /\ \A i \in DOMAIN items : IsTable(items[i]) /\ IsFiniteSet(DOMAIN items[i])
      /\ ~suspect => id \in DOMAIN items /\ seen = items[id]
  BY <1>1, HasRead
<1>3. sym \in Symbols
  BY <1>1, HasRead DEF IsRequest, RequestShaped
<1>4. CASE sym \in DOMAIN seen
  <2>1. Writes(c, seen, TRUE, items)
    BY <1>4 DEF AddItem
  <2>2. ASSUME ~suspect
        PROVE  id \in DOMAIN items /\ seen = items[id] /\ Mirrors(lists, loaded, items, None)
    <3>1. Promised(chain[c], items[id]) = items[id]
      BY <1>1, <1>2, <1>4, <2>2 DEF Promised
    <3> QED
      BY <1>1, <1>2, <2>2, <3>1, PromiseKept DEF Optimistic
  <2> QED
    BY <1>1, <1>2, <2>1, <2>2, WritesStep
<1>5. CASE sym \notin DOMAIN seen
  <2> DEFINE table == [items EXCEPT ![id] = With(@, sym, NextPos(seen))]
             ok == id \in DOMAIN items /\ sym \notin DOMAIN InTable(id)
  <2>1. Writes(c, new, ok, table)
    BY <1>5 DEF AddItem
  <2>2. NextPos(seen) \in Nat
    BY <1>2, NextPosAbove
  <2>3. IsTable(new) /\ IsFiniteSet(DOMAIN new)
    BY <1>2, <1>3, <2>2, TablesStay
  <2>4. ASSUME ok
        PROVE  /\ DOMAIN table \subseteq Ids
               /\ \A i \in DOMAIN table : IsTable(table[i]) /\ IsFiniteSet(DOMAIN table[i])
    <3>1. /\ DOMAIN table = DOMAIN items /\ table[id] = With(items[id], sym, NextPos(seen))
          /\ \A i \in DOMAIN items : i # id => table[i] = items[i]
      BY <2>4
    <3>2. IsTable(table[id]) /\ IsFiniteSet(DOMAIN table[id])
      BY <1>2, <1>3, <2>2, <2>4, <3>1, TablesStay
    <3> HIDE DEF table
    <3> QED
      BY <1>2, <3>1, <3>2
  <2>5. ASSUME ok, ~suspect
        PROVE  id \in DOMAIN table /\ new = table[id] /\ Mirrors(lists, loaded, table, None)
    <3>1. /\ DOMAIN table = DOMAIN items /\ id \in DOMAIN items /\ seen = items[id] /\ table[id] = new
          /\ \A i \in DOMAIN items : i # id => table[i] = items[i]
      BY <1>2, <2>5
    <3>2. table[id] = Promised(chain[c], items[id])
      BY <1>1, <1>5, <3>1 DEF Promised
    <3> HIDE DEF table, new
    <3> QED
      BY <1>1, <2>5, <3>1, <3>2, PromiseKept DEF Optimistic
  <2> HIDE DEF table, ok, new
  <2> QED
    BY <1>1, <2>1, <2>3, <2>4, <2>5, WritesStep
<1> QED
  BY <1>4, <1>5

LEMMA RemoveItemStep ==
    ASSUME StoreInv, NEW c \in Calls, RemoveItem(c)
    PROVE  StoreInv'
<1> DEFINE id    == chain[c].list
           sym   == chain[c].arg[1]
           seen  == chain[c].seen
           new   == Without(seen, sym)
           table == IF sym \in DOMAIN seen
                      THEN [i \in DOMAIN items |-> IF i = id THEN Without(items[i], sym) ELSE items[i]]
                      ELSE items
<1>1. chain[c].at = "read" /\ chain[c].kind = "remove" /\ Writes(c, new, TRUE, table)
  BY DEF RemoveItem, Reading
<1>2. /\ IsTable(seen) /\ IsFiniteSet(DOMAIN seen) /\ DOMAIN items \subseteq Ids
      /\ \A i \in DOMAIN items : IsTable(items[i]) /\ IsFiniteSet(DOMAIN items[i])
      /\ ~suspect => id \in DOMAIN items /\ seen = items[id]
  BY <1>1, HasRead
<1>3. IsTable(new) /\ IsFiniteSet(DOMAIN new)
  BY <1>2, TablesStay
<1>4. /\ DOMAIN table \subseteq Ids
      /\ \A i \in DOMAIN table : IsTable(table[i]) /\ IsFiniteSet(DOMAIN table[i])
  BY <1>2, TablesStay
<1>5. ASSUME ~suspect
      PROVE  id \in DOMAIN table /\ new = table[id] /\ Mirrors(lists, loaded, table, None)
  <2>1. sym \notin DOMAIN seen => new = seen
    BY <1>2 DEF Without, IsTable
  <2>2. /\ DOMAIN table = DOMAIN items /\ id \in DOMAIN items /\ table[id] = new /\ seen = items[id]
        /\ \A i \in DOMAIN items : i # id => table[i] = items[i]
    BY <1>2, <1>5, <2>1
  <2>3. table[id] = Promised(chain[c], items[id])
    BY <1>1, <2>2 DEF Promised
  <2> HIDE DEF table, new
  <2> QED
    BY <1>1, <1>5, <2>2, <2>3, PromiseKept DEF Optimistic
<1> HIDE DEF table, new
<1> QED
  BY <1>1, <1>3, <1>4, <1>5, WritesStep

LEMMA ReorderItemsStep ==
    ASSUME StoreInv, NEW c \in Calls, ReorderItems(c)
    PROVE  StoreInv'
<1> DEFINE id    == chain[c].list
           seen  == chain[c].seen
           new   == Reordered(seen, chain[c].arg)
           dirty == {s \in DOMAIN new : new[s] # seen[s]}
           table == [i \in DOMAIN items |->
                       IF i = id
                         THEN [s \in DOMAIN items[i] |-> IF s \in dirty THEN new[s] ELSE items[i][s]]
                         ELSE items[i]]
           ok    == dirty \subseteq DOMAIN InTable(id)
<1>1. chain[c].at = "read" /\ chain[c].kind = "reorder" /\ Writes(c, new, ok, table)
  BY DEF ReorderItems, Reading
<1>2. /\ IsTable(seen) /\ IsFiniteSet(DOMAIN seen) /\ DOMAIN items \subseteq Ids
      /\ \A i \in DOMAIN items : IsTable(items[i]) /\ IsFiniteSet(DOMAIN items[i])
      /\ ~suspect => id \in DOMAIN items /\ seen = items[id]
      /\ chain[c].arg \in Seq(Symbols)
  BY <1>1, HasRead DEF IsRequest
<1>3. IsTable(new) /\ IsFiniteSet(DOMAIN new)
  BY <1>2, TablesStay
<1>4. /\ DOMAIN table \subseteq Ids
      /\ \A i \in DOMAIN table : IsTable(table[i]) /\ IsFiniteSet(DOMAIN table[i])
  <2>1. \A s \in dirty : new[s] \in Nat
    BY <1>3 DEF IsTable
  <2> HIDE DEF new, dirty
  <2>2. ASSUME NEW i \in DOMAIN items
        PROVE  IsTable(table[i]) /\ IsFiniteSet(DOMAIN table[i])
    BY <1>2, <2>1 DEF IsTable
  <2> QED
    BY <1>2, <2>2
<1>5. ASSUME ~suspect
      PROVE  id \in DOMAIN table /\ new = table[id] /\ Mirrors(lists, loaded, table, None)
  <2>1. DOMAIN new = DOMAIN seen /\ new = [s \in DOMAIN seen |-> new[s]]
    BY DEF Reordered
  <2>2. /\ DOMAIN table = DOMAIN items /\ id \in DOMAIN items /\ seen = items[id]
        /\ \A i \in DOMAIN items : i # id => table[i] = items[i]
    BY <1>2, <1>5
  <2>3. table[id] = [s \in DOMAIN seen |-> IF s \in dirty THEN new[s] ELSE seen[s]]
    BY <2>2
  <2>4. \A s \in DOMAIN seen : s \notin dirty => new[s] = seen[s]
    BY <2>1
  <2>5. table[id] = new
    <3> HIDE DEF new, dirty, table
    <3> QED
      BY <2>1, <2>3, <2>4
  <2>6. table[id] = Promised(chain[c], items[id])
    BY <1>1, <2>2, <2>5 DEF Promised
  <2> HIDE DEF table, new
  <2> QED
    BY <1>1, <1>5, <2>2, <2>5, <2>6, PromiseKept DEF Optimistic
<1> HIDE DEF table, new, ok
<1> QED
  BY <1>1, <1>3, <1>4, <1>5, WritesStep

LEMMA RenameStep ==
    ASSUME StoreInv, NEW c \in Calls, Rename(c)
    PROVE  StoreInv'
<1>1. /\ chain[c].at = "read" /\ chain[c].kind = "rename"
      /\ Writes(c, chain[c].seen, chain[c].list \in DOMAIN items, items)
  BY DEF Rename, Reading
<1>2. ~suspect => Mirrors(lists, loaded, items, None)
  BY <1>1, HasRead DEF Reconciles
<1> QED
  BY <1>1, <1>2, HasRead, WritesStep

LEMMA DeleteListStep ==
    ASSUME StoreInv, NEW c \in Calls, DeleteList(c)
    PROVE  StoreInv'
<1> DEFINE id    == chain[c].list
           table == [i \in DOMAIN items \ {id} |-> items[i]]
<1>1. chain[c].at = "read" /\ chain[c].kind = "delete" /\ Writes(c, chain[c].seen, TRUE, table)
  BY DEF DeleteList, Reading
<1>2. /\ IsTable(chain[c].seen) /\ IsFiniteSet(DOMAIN chain[c].seen) /\ DOMAIN items \subseteq Ids
      /\ \A i \in DOMAIN items : IsTable(items[i]) /\ IsFiniteSet(DOMAIN items[i])
      /\ ~suspect => Reconciles(chain[c])
  BY <1>1, HasRead
<1>3. /\ DOMAIN table \subseteq Ids
      /\ \A i \in DOMAIN table : IsTable(table[i]) /\ IsFiniteSet(DOMAIN table[i])
  BY <1>2
<1>4. ASSUME ~suspect
      PROVE  id \notin DOMAIN table /\ Mirrors(lists, loaded, table, id)
  <2>1. Mirrors(lists, loaded, items, None)
    BY <1>1, <1>2, <1>4 DEF Reconciles
  <2>2. \A i \in DOMAIN lists : Shows(lists[i], items)
    BY <2>1, KnownLists DEF StoreInv, Shows
  <2>3. \A i \in DOMAIN lists : lists[i].id # id => Shows(lists[i], table)
    BY <2>2 DEF Shows
  <2> QED
    BY <2>1, <2>3 DEF Mirrors
<1> HIDE DEF table
<1> QED
  BY <1>1, <1>2, <1>3, <1>4, WritesStep

LEMMA EngineKeeps ==
    ASSUME StoreInv, EngineStep
    PROVE  StoreInv'
<1>1. PICK c \in Calls :
        \/ ListAll(c) \/ Create(c) \/ ReadList(c)
        \/ AddItem(c) \/ RemoveItem(c) \/ ReorderItems(c) \/ Rename(c) \/ DeleteList(c)
        \/ Fail(c)
  BY DEF EngineStep
<1>2. CASE Fail(c)
  BY <1>2, FailedStep DEF Fail
<1> QED
  BY <1>1, <1>2, ListAllStep, CreateStep, ReadListStep, AddItemStep, RemoveItemStep, ReorderItemsStep,
     RenameStep, DeleteListStep

-----------------------------------------------------------------------------
(* The steps of the store                                                  *)

(* symbolsOf returns the symbols of a list of that id, or none. *)
LEMMA SymbolsOfList ==
    ASSUME NEW ls \in Seq(List), NEW id
    PROVE  /\ SymbolsOf(ls, id) \in Seq(Symbols)
           /\ Has(ls, id) => \E i \in DOMAIN ls : ls[i] = [id |-> id, symbols |-> SymbolsOf(ls, id)]
           /\ ~Has(ls, id) => SymbolsOf(ls, id) = <<>>
<1>1. CASE Has(ls, id)
  <2> DEFINE places == {i \in DOMAIN ls : ls[i].id = id}
             First(i) == ls[i].id = id /\ \A j \in 1..(i - 1) : ls[j].id # id
  <2>1. places \in SUBSET Nat /\ places # {} /\ Len(ls) \in Nat /\ DOMAIN ls = 1..Len(ls)
    BY <1>1 DEF Has
  <2>2. PICK m \in places : \A i \in places : m <= i
    <3> HIDE DEF places
    <3> QED
      BY <2>1, LeastNatural
  <2>3. \A j \in 1..(m - 1) : j \in DOMAIN ls /\ ~(m <= j)
    BY <2>1, <2>2
  <2>4. m \in DOMAIN ls /\ First(m)
    BY <2>2, <2>3
  <2> DEFINE f == CHOOSE i \in DOMAIN ls : First(i)
  <2>5. f \in DOMAIN ls /\ First(f)
    <3> HIDE DEF First
    <3> QED
      BY <2>4
  <2>6. SymbolsOf(ls, id) = ls[f].symbols
    BY <1>1 DEF SymbolsOf
  <2>7. ls[f] \in List /\ ls[f].id = id
    BY <2>5
  <2>8. ls[f] = [id |-> id, symbols |-> ls[f].symbols] /\ ls[f].symbols \in Seq(Symbols)
    <3> HIDE DEF f
    <3> QED
      BY <2>7 DEF List
  <2> HIDE DEF f
  <2> QED
    BY <1>1, <2>5, <2>6, <2>8
<1>2. CASE ~Has(ls, id)
  BY <1>2 DEF SymbolsOf
<1> QED
  BY <1>1, <1>2

(* The request of a call, as Call makes it. *)
Sent(c, kind, list, arg) ==
    [at |-> "sent", kind |-> kind, list |-> list, arg |-> arg,
     seen |-> <<>>, reply |-> <<>>, alone |-> Busy \ {c} = {}]

(* A request goes out: by itself, or with others under way. *)
LEMMA CallMoves ==
    ASSUME StoreInv, NEW c \in Calls,
           NEW kind \in {"load", "create", "rename", "delete", "add", "remove", "reorder"},
           NEW list \in Ids \cup {None}, NEW arg \in Seq(Symbols),
           kind \in {"add", "remove"} => Len(arg) = 1,
           Call(c, kind, list, arg),
           items' = items,
           readies' \in 0..MaxReady, ops' \in 0..MaxOps,
           lists' \in Seq(List), active' \in Ids \cup {None}, symbols' \in Seq(Symbols),
           loaded' \in BOOLEAN, DerivedInSync',
           NEW req,
           req = Sent(c, kind, list, arg),
           Busy \ {c} = {} /\ ~suspect => Reconciles(req)'
    PROVE  StoreInv'
<1> DEFINE others == Busy \ {c}
<1>1. /\ chain' = [d \in Calls |->
                     IF d = c THEN req
                     ELSE IF d \in others THEN [chain[d] EXCEPT !.alone = FALSE]
                     ELSE chain[d]]
      /\ suspect' = (suspect \/ others # {})
  BY DEF Call, Sent
<1>2. IsRequest(req) /\ RequestShaped(req) /\ req # Idle /\ req.at = "sent" /\ req.alone = (others = {})
  <2>1. IsTable(<<>>) /\ IsFiniteSet(DOMAIN <<>>)
    BY FS_EmptySet DEF IsTable
  <2>2. <<>> \in Seq(List)
    OBVIOUS
  <2> QED
    BY <2>1, <2>2 DEF IsRequest, RequestShaped, Idle, Sent
<1>3. ASSUME NEW d \in others
      PROVE  /\ chain'[d] # Idle /\ IsRequest(chain'[d]) /\ RequestShaped(chain'[d])
             /\ chain'[d].alone = FALSE
  <2>1. d \in Calls /\ d # c /\ IsRequest(chain[d]) /\ RequestShaped(chain[d])
    BY DEF Busy, StoreInv, TypeOK, Shaped
  <2>2. PICK r : r = [chain[d] EXCEPT !.alone = FALSE]
    OBVIOUS
  <2>3. chain'[d] = r
    BY <1>1, <2>1, <2>2
  <2>4. r # Idle /\ IsRequest(r) /\ RequestShaped(r) /\ r.alone = FALSE
    BY <2>1, <2>2 DEF IsRequest, RequestShaped, Idle
  <2> QED
    BY <2>3, <2>4
<1>4. Busy' = others \cup {c} /\ chain'[c] = req /\ DOMAIN chain' = Calls
  <2>1. \A d \in Calls : d # c /\ d \notin others => chain'[d] = Idle
    BY <1>1 DEF Busy
  <2>2. \A d \in others : d \in Calls /\ chain'[d] # Idle
    BY <1>3 DEF Busy
  <2>3. chain'[c] = req /\ DOMAIN chain' = Calls
    BY <1>1
  <2> QED
    BY <1>2, <2>1, <2>2, <2>3 DEF Busy
<1>5. TypeOK'
  <2>1. \A d \in Calls : (chain[d] = Idle \/ IsRequest(chain[d]))'
    <3> SUFFICES ASSUME NEW d \in Calls PROVE chain'[d] = Idle \/ IsRequest(chain'[d])
      BY DEF Idle, IsRequest, IsTable, List, Ids, None
    <3>1. d \in others \/ d = c \/ chain'[d] = Idle
      BY <1>1 DEF Busy
    <3> QED
      BY <1>2, <1>3, <1>4, <3>1
  <2>2. suspect' \in BOOLEAN
    BY <1>1 DEF StoreInv, TypeOK
  <2> QED
    BY <1>4, <2>1, <2>2 DEF StoreInv, TypeOK
<1>6. Shaped'
  <2>1. \A d \in Busy' : RequestShaped(chain'[d])
    BY <1>2, <1>3, <1>4
  <2> QED
    BY <2>1 DEF StoreInv, Shaped
<1>7. Reconciling'
  <2>1. \A d \in Busy' : chain'[d].alone => d = c /\ others = {}
    BY <1>2, <1>3, <1>4
  <2>2. \A d \in Busy' : chain'[d].alone => Busy' = {d}
    BY <1>4, <2>1
  <2>3. \A d \in Busy' : chain'[d].alone => chain'[d].at # "replied"
    BY <1>2, <1>4, <2>1
  <2>4. ~suspect' => \A d \in Busy' : chain'[d].alone /\ Reconciles(chain[d])'
    BY <1>1, <1>2, <1>4
  <2> QED
    BY <1>4, <2>2, <2>3, <2>4 DEF Reconciling
<1> QED
  BY <1>5, <1>6, <1>7 DEF StoreInv

(* A call of the user's that runs by itself finds the store reconciled. *)
LEMMA BeginQuiet ==
    ASSUME StoreInv, NEW c \in Calls, chain[c] = Idle, Busy \ {c} = {}, ~suspect
    PROVE  Mirrors(lists, loaded, items, None)
<1>1. Busy = {}
  BY DEF Busy
<1> QED
  BY <1>1 DEF StoreInv, Reconciling

(* An optimistic update gives the active list other symbols. *)
Updated(new) ==
    /\ lists' \in Seq(List) /\ DOMAIN lists' = DOMAIN lists
    /\ \A i \in DOMAIN lists : lists'[i].id = lists[i].id
    /\ \A i \in DOMAIN lists : lists[i].id # active => lists'[i].symbols = lists[i].symbols
    /\ \A i \in DOMAIN lists : lists[i].id = active => lists'[i] = [id |-> active, symbols |-> new[i]]
    /\ Has(lists, active) /\ Has(lists', active)

LEMMA ShownStep ==
    ASSUME StoreInv, active # None, NEW new,
           \A i \in DOMAIN lists : lists[i].id = active => new[i] \in Seq(Symbols),
           lists' = [i \in DOMAIN lists |->
                       IF lists[i].id = active THEN [lists[i] EXCEPT !.symbols = new[i]] ELSE lists[i]]
    PROVE  Updated(new)
<1>1. lists \in Seq(List) /\ Len(lists) \in Nat /\ DOMAIN lists = 1..Len(lists)
      /\ \A i \in DOMAIN lists : lists[i] \in List
  BY DEF StoreInv, TypeOK
<1>2. DOMAIN lists' = DOMAIN lists
  OBVIOUS
<1>3. ASSUME NEW i \in DOMAIN lists
      PROVE  /\ lists'[i] \in List /\ lists'[i].id = lists[i].id
             /\ lists[i].id # active => lists'[i].symbols = lists[i].symbols
             /\ lists[i].id = active => lists'[i] = [id |-> active, symbols |-> new[i]]
  BY <1>1 DEF List
<1>4. lists' \in Seq(List)
  <2>1. PICK n \in Nat : n = Len(lists) /\ DOMAIN lists = 1..n
    BY <1>1
  <2>2. lists' = [i \in 1..n |-> lists'[i]] /\ \A i \in 1..n : lists'[i] \in List
    BY <1>3, <2>1
  <2> QED
    BY ONLY <2>2
<1>5. PICK i \in DOMAIN lists : lists[i] = [id |-> active, symbols |-> symbols]
  BY DEF StoreInv, DerivedInSync
<1>6. Has(lists, active) /\ Has(lists', active)
  BY <1>2, <1>3, <1>5 DEF Has
<1> QED
  BY <1>2, <1>3, <1>4, <1>6 DEF Updated

(* An optimistic operation: what it shows is what it has asked for. *)
LEMMA OptimisticStep ==
    ASSUME StoreInv, NEW c \in Calls, NEW kind \in Optimistic, NEW arg \in Seq(Symbols),
           kind \in {"add", "remove"} => Len(arg) = 1,
           Begin(c, kind, active, arg), active # None, active' = active, loaded' = loaded,
           readies' = readies,
           NEW new, Updated(new),
           \E i \in DOMAIN lists : lists[i].id = active /\ symbols' = new[i],
           NEW req,
           req = Sent(c, kind, active, arg),
           \A i \in DOMAIN lists :
             /\ lists[i].id = active /\ active \in DOMAIN items
             /\ lists[i].symbols \in ToSchema(items[active])
             /\ Mirrors(lists, loaded, items, None)
             => new[i] \in ToSchema(Promised(req, items[active]))
    PROVE  StoreInv'
<1>1. /\ chain[c] = Idle /\ Call(c, kind, active, arg) /\ items' = items
      /\ readies' \in 0..MaxReady /\ ops' \in 0..MaxOps
  BY WatchlistConstants DEF Begin, StoreInv, TypeOK
<1>2. PICK k \in DOMAIN lists : lists[k].id = active /\ symbols' = new[k]
  OBVIOUS
<1>3. DerivedInSync' /\ symbols' \in Seq(Symbols) /\ lists' \in Seq(List)
  <2>1. lists'[k] = [id |-> active, symbols |-> symbols'] /\ lists' \in Seq(List) /\ k \in DOMAIN lists'
    BY <1>2 DEF Updated
  <2>2. lists'[k] \in List
    BY <2>1
  <2> QED
    BY <2>1, <2>2 DEF DerivedInSync, List
<1>4. active \in Ids /\ active' \in Ids \cup {None} /\ loaded' \in BOOLEAN /\ lists \in Seq(List) /\ TypeOK
  BY DEF StoreInv, TypeOK
<1>5. ASSUME Busy \ {c} = {}, ~suspect
      PROVE  Reconciles(req)'
  <2> DEFINE promised == [items EXCEPT ![active] = Promised(req, @)]
  <2>1. Mirrors(lists, loaded, items, None)
    BY <1>1, <1>5, BeginQuiet
  <2>2. \A i \in DOMAIN lists : lists[i].id \in DOMAIN items /\ lists[i].symbols \in ToSchema(items[lists[i].id])
    BY <1>4, <2>1, KnownLists
  <2>3. active \in DOMAIN items
    BY <2>2 DEF Has, Updated
  <2>4. /\ DOMAIN promised = DOMAIN items /\ promised[active] = Promised(req, items[active])
        /\ \A d \in DOMAIN items : d # active => promised[d] = items[d]
    BY <2>3
  <2>5. \A i \in DOMAIN lists : lists[i].id = active => lists'[i].symbols \in ToSchema(promised[active])
    <3> HIDE DEF promised
    <3> SUFFICES ASSUME NEW i \in DOMAIN lists, lists[i].id = active
                 PROVE  lists'[i].symbols \in ToSchema(promised[active])
      OBVIOUS
    <3>1. new[i] \in ToSchema(Promised(req, items[active]))
      BY <2>1, <2>2, <2>3
    <3>2. lists'[i].symbols = new[i]
      BY DEF Updated
    <3> QED
      BY <2>4, <3>1, <3>2
  <2>6. Mirrors(lists', loaded, promised, None)
    <3> HIDE DEF promised
    <3> QED
      BY <1>4, <2>1, <2>3, <2>4, <2>5, MirrorsOne DEF Updated
  <2>7. req.at = "sent" /\ req.kind \in Optimistic /\ req.list = active
    BY DEF Sent
  <2>8. Mirrors(lists', loaded', [items' EXCEPT ![req.list] = Promised(req, @)], None)
    BY <1>1, <2>6, <2>7
  <2> QED
    BY <1>1, <2>3, <2>7, <2>8 DEF Reconciles, Optimistic
<1> QED
  BY <1>1, <1>2, <1>3, <1>4, <1>5, CallMoves DEF Optimistic

(* Add and Remove show the updated list. *)
LEMMA ShownSymbols ==
    ASSUME StoreInv, active # None, NEW new,
           \A i \in DOMAIN lists : lists[i].id = active => new[i] \in Seq(Symbols),
           Shown(new)
    PROVE  /\ active' = active /\ loaded' = loaded /\ readies' = readies /\ Updated(new)
           /\ \E i \in DOMAIN lists : lists[i].id = active /\ symbols' = new[i]
<1>1. /\ active' = active /\ loaded' = loaded /\ readies' = readies /\ symbols' = SymbolsOf(lists', active)
      /\ lists' = [i \in DOMAIN lists |->
                     IF lists[i].id = active THEN [lists[i] EXCEPT !.symbols = new[i]] ELSE lists[i]]
  BY DEF Shown
<1>2. Updated(new)
  BY <1>1, ShownStep
<1>3. PICK i \in DOMAIN lists' : lists'[i] = [id |-> active, symbols |-> SymbolsOf(lists', active)]
  BY <1>2, SymbolsOfList DEF Updated
<1>4. lists[i].id = active /\ symbols' = new[i] /\ i \in DOMAIN lists
  <2>1. lists'[i].symbols = symbols' /\ lists'[i].id = active
    <3>1. symbols' = SymbolsOf(lists', active)
      BY <1>1
    <3>2. lists'[i] = [id |-> active, symbols |-> symbols']
      BY ONLY <1>3, <3>1
    <3> QED
      BY ONLY <3>2
  <2>2. i \in DOMAIN lists /\ lists'[i].id = active /\ lists'[i].symbols = symbols'
    BY <1>2, <2>1 DEF Updated
  <2>3. lists[i].id = active
    BY <1>2, <2>2 DEF Updated
  <2> QED
    BY <1>2, <2>2, <2>3 DEF Updated
<1> QED
  BY <1>1, <1>2, <1>4

LEMMA AddStep ==
    ASSUME StoreInv, NEW c \in Calls, NEW sym \in Symbols, Add(c, sym)
    PROVE  StoreInv'
<1> DEFINE new == [i \in DOMAIN lists |-> IF In(sym, lists[i].symbols) THEN lists[i].symbols
                                          ELSE Append(lists[i].symbols, sym)]
<1>1. active # None /\ Begin(c, "add", active, <<sym>>) /\ Shown(new)
  BY DEF Add
<1>2. \A i \in DOMAIN lists : new[i] \in Seq(Symbols)
  <2>1. \A i \in DOMAIN lists : lists[i] \in List
    BY DEF StoreInv, TypeOK
  <2> QED
    BY <2>1 DEF List
<1>3. PICK req : req = Sent(c, "add", active, <<sym>>)
  OBVIOUS
<1>4. ASSUME NEW i \in DOMAIN lists, active \in DOMAIN items, lists[i].symbols \in ToSchema(items[active])
      PROVE  new[i] \in ToSchema(Promised(req, items[active]))
  <2> DEFINE positions == items[active]
             s == lists[i].symbols
  <2>1. IsTable(positions) /\ IsFiniteSet(DOMAIN positions)
    BY <1>4 DEF StoreInv, TypeOK, Shaped
  <2>2. Listing(s, positions)
    BY <1>4, <2>1, SchemaIsListing
  <2>3. NextPos(positions) \in Nat
    BY <2>1, NextPosAbove
  <2>4. Promised(req, positions) = IF sym \in DOMAIN positions THEN positions
                                   ELSE With(positions, sym, NextPos(positions))
    BY <1>3 DEF Promised, Sent
  <2>5. new[i] = IF In(sym, s) THEN s ELSE Append(s, sym)
    OBVIOUS
  <2>6. IsFiniteSet(DOMAIN With(positions, sym, NextPos(positions)))
    BY <2>1, <2>3, TablesStay
  <2> SUFFICES new[i] \in ToSchema(Promised(req, positions))
    OBVIOUS
  <2> HIDE DEF positions, s, new
  <2>7. CASE sym \in DOMAIN positions
    <3>1. new[i] = s /\ Promised(req, positions) = positions
      BY <2>1, <2>2, <2>4, <2>5, <2>7, AddListing
    <3>2. Listing(s, positions) /\ IsFiniteSet(DOMAIN positions)
      BY <2>1, <2>2, <2>6, <2>7, AddListing
    <3> QED
      BY <3>1, <3>2, SchemaIsListing
  <2>8. CASE sym \notin DOMAIN positions
    <3>1. new[i] = Append(s, sym) /\ Promised(req, positions) = With(positions, sym, NextPos(positions))
      BY <2>1, <2>2, <2>4, <2>5, <2>8, AddListing
    <3>2. Listing(Append(s, sym), With(positions, sym, NextPos(positions))) /\ IsFiniteSet(DOMAIN With(positions, sym, NextPos(positions)))
      BY <2>1, <2>2, <2>6, <2>8, AddListing
    <3> QED
      BY <3>1, <3>2, SchemaIsListing
  <2> QED
    BY <2>7, <2>8
<1>5. <<sym>> \in Seq(Symbols) /\ Len(<<sym>>) = 1
  OBVIOUS
<1> HIDE DEF new
<1>6. /\ active' = active /\ loaded' = loaded /\ readies' = readies /\ Updated(new)
      /\ \E i \in DOMAIN lists : lists[i].id = active /\ symbols' = new[i]
  BY <1>1, <1>2, ShownSymbols
<1> QED
  BY <1>1, <1>2, <1>3, <1>4, <1>5, <1>6, OptimisticStep DEF Optimistic

LEMMA RemoveStep ==
    ASSUME StoreInv, NEW c \in Calls, NEW sym \in Symbols, Remove(c, sym)
    PROVE  StoreInv'
<1> DEFINE new == [i \in DOMAIN lists |-> Keep(lists[i].symbols, Symbols \ {sym})]
<1>1. active # None /\ Begin(c, "remove", active, <<sym>>) /\ Shown(new)
  BY DEF Remove
<1>2. \A i \in DOMAIN lists : new[i] \in Seq(Symbols)
  <2> SUFFICES ASSUME NEW i \in DOMAIN lists PROVE Keep(lists[i].symbols, Symbols \ {sym}) \in Seq(Symbols)
    OBVIOUS
  <2>1. PICK s \in Seq(Symbols) : s = lists[i].symbols
    <3>1. lists[i] \in List
      BY DEF StoreInv, TypeOK
    <3> QED
      BY <3>1 DEF List
  <2>2. Keep(s, Symbols \ {sym}) \in Seq(Symbols \cap (Symbols \ {sym}))
    BY KeepKept
  <2>3. Keep(s, Symbols \ {sym}) \in Seq(Symbols)
    BY <2>2
  <2> QED
    BY <2>1, <2>3
<1>3. PICK req : req = Sent(c, "remove", active, <<sym>>)
  OBVIOUS
<1>4. ASSUME NEW i \in DOMAIN lists, active \in DOMAIN items, lists[i].symbols \in ToSchema(items[active])
      PROVE  new[i] \in ToSchema(Promised(req, items[active]))
  <2> DEFINE positions == items[active]
             s == lists[i].symbols
  <2>1. IsTable(positions) /\ IsFiniteSet(DOMAIN positions)
    BY <1>4 DEF StoreInv, TypeOK, Shaped
  <2>2. Listing(s, positions)
    BY <1>4, <2>1, SchemaIsListing
  <2>3. Promised(req, positions) = Without(positions, sym)
    BY <1>3 DEF Promised, Sent
  <2>4. new[i] = Keep(s, Symbols \ {sym})
    OBVIOUS
  <2>5. IsFiniteSet(DOMAIN Without(positions, sym))
    BY <2>1, TablesStay
  <2> HIDE DEF positions, s, new
  <2>6. new[i] \in ToSchema(Promised(req, positions))
    BY <2>1, <2>2, <2>3, <2>4, <2>5, RemoveListing, SchemaIsListing
  <2> QED
    BY <2>6 DEF positions
<1>5. <<sym>> \in Seq(Symbols) /\ Len(<<sym>>) = 1
  OBVIOUS
<1> HIDE DEF new
<1>6. /\ active' = active /\ loaded' = loaded /\ readies' = readies /\ Updated(new)
      /\ \E i \in DOMAIN lists : lists[i].id = active /\ symbols' = new[i]
  BY <1>1, <1>2, ShownSymbols
<1> QED
  BY <1>1, <1>2, <1>3, <1>4, <1>5, <1>6, OptimisticStep DEF Optimistic

LEMMA ReorderStep ==
    ASSUME StoreInv, NEW c \in Calls, Reorder(c)
    PROVE  StoreInv'
<1>1. PICK k \in 1..(Len(symbols) - 1) :
        /\ Begin(c, "reorder", active, Swapped(k))
        /\ lists' = [j \in DOMAIN lists |->
                       IF lists[j].id = active THEN [lists[j] EXCEPT !.symbols = Swapped(k)] ELSE lists[j]]
        /\ symbols' = Swapped(k)
  BY DEF Reorder
<1>2. active # None /\ active' = active /\ loaded' = loaded /\ readies' = readies
  BY DEF Reorder
<1>3. PICK order : order = Swapped(k)
  OBVIOUS
<1>4. order \in Seq(Symbols)
  <2>1. symbols \in Seq(Symbols) /\ Len(symbols) \in Nat
    BY DEF StoreInv, TypeOK
  <2>2. k \in DOMAIN symbols /\ k + 1 \in DOMAIN symbols
    BY <2>1
  <2> QED
    BY <1>3, <2>1, <2>2 DEF Swapped
<1> DEFINE new == [i \in DOMAIN lists |-> order]
<1>5. PICK l \in DOMAIN lists : lists[l] = [id |-> active, symbols |-> symbols]
  BY <1>2 DEF StoreInv, DerivedInSync
<1>6. /\ lists[l].id = active /\ symbols' = new[l]
      /\ \A i \in DOMAIN lists : new[i] \in Seq(Symbols)
      /\ lists' = [i \in DOMAIN lists |->
                     IF lists[i].id = active THEN [lists[i] EXCEPT !.symbols = new[i]] ELSE lists[i]]
  BY <1>1, <1>3, <1>4, <1>5
<1>9. Updated(new)
  <2> HIDE DEF new
  <2> QED
    BY <1>2, <1>6, ShownStep
<1>7. PICK req : req = Sent(c, "reorder", active, order)
  OBVIOUS
<1>8. ASSUME NEW i \in DOMAIN lists, active \in DOMAIN items, Mirrors(lists, loaded, items, None)
      PROVE  new[i] \in ToSchema(Promised(req, items[active]))
  <2> DEFINE positions == items[active]
  <2>1. IsTable(positions) /\ IsFiniteSet(DOMAIN positions)
    BY <1>8 DEF StoreInv, TypeOK, Shaped
  <2>2. symbols \in ToSchema(positions)
    BY <1>5, <1>8, KnownLists DEF StoreInv
  <2> HIDE DEF positions
  <2>3. Listing(symbols, positions)
    BY <2>1, <2>2, SchemaIsListing
  <2>4. order = [symbols EXCEPT ![k] = symbols[k + 1], ![k + 1] = symbols[k]]
    BY <1>3 DEF Swapped
  <2>5. Listing(order, Reordered(positions, order))
    BY <2>3, <2>4, ReorderListing
  <2>6. IsFiniteSet(DOMAIN Reordered(positions, order))
    BY <1>4, <2>1, TablesStay
  <2>7. order \in ToSchema(Promised(req, positions))
    BY <1>7, <2>5, <2>6, SchemaIsListing DEF Promised, Sent
  <2> QED
    BY <2>7 DEF positions
<1> HIDE DEF new
<1> QED
  BY <1>1, <1>2, <1>3, <1>4, <1>6, <1>7, <1>8, <1>9, OptimisticStep DEF Optimistic

(* CreateWatchlist, RenameWatchlist, DeleteWatchlist and Bootstrap wait for *)
(* their response before the store changes.                                 *)
LEMMA PatientStep ==
    ASSUME StoreInv, NEW c \in Calls, NEW kind \in {"load", "create", "rename", "delete"},
           NEW list \in Ids \cup {None}, Begin(c, kind, list, <<>>), UNCHANGED store,
           readies' \in 0..MaxReady
    PROVE  StoreInv'
<1>1. /\ chain[c] = Idle /\ Call(c, kind, list, <<>>) /\ items' = items
      /\ readies' \in 0..MaxReady /\ ops' \in 0..MaxOps
  BY WatchlistConstants DEF Begin, StoreInv, TypeOK
<1>2. /\ lists' \in Seq(List) /\ active' \in Ids \cup {None} /\ symbols' \in Seq(Symbols)
      /\ loaded' \in BOOLEAN /\ DerivedInSync' /\ lists' = lists /\ loaded' = loaded
  BY DEF store, StoreInv, TypeOK, DerivedInSync
<1>3. PICK req : req = Sent(c, kind, list, <<>>)
  OBVIOUS
<1>4. ASSUME Busy \ {c} = {}, ~suspect
      PROVE  Reconciles(req)'
  <2>1. Mirrors(lists, loaded, items, None)
    BY <1>1, <1>4, BeginQuiet
  <2>2. req.at = "sent" /\ req.kind \notin Optimistic
    BY <1>3 DEF Sent, Optimistic
  <2> QED
    BY <1>1, <1>2, <2>1, <2>2 DEF Reconciles
<1>5. /\ <<>> \in Seq(Symbols) /\ (kind \in {"add", "remove"} => Len(<<>>) = 1)
      /\ kind \in {"load", "create", "rename", "delete", "add", "remove", "reorder"}
  OBVIOUS
<1> QED
  BY <1>1, <1>2, <1>3, <1>4, <1>5, CallMoves

(* A failed request: load again, or leave the store as it is. *)
LEMMA RejectStep ==
    ASSUME StoreInv, NEW c \in Calls, Reject(c)
    PROVE  StoreInv'
<1>1. /\ chain[c].at = "failed" /\ UNCHANGED <<items, store, readies, ops>>
      /\ lists' \in Seq(List) /\ active' \in Ids \cup {None} /\ symbols' \in Seq(Symbols)
      /\ loaded' \in BOOLEAN /\ DerivedInSync' /\ readies' \in 0..MaxReady /\ ops' \in 0..MaxOps
  BY DEF Reject, store, StoreInv, TypeOK, DerivedInSync
<1>2. CASE Call(c, "load", None, <<>>)
  <2>1. PICK req : req = Sent(c, "load", None, <<>>)
    OBVIOUS
  <2>2. Reconciles(req)'
    BY <2>1 DEF Reconciles, Sent, Optimistic
  <2>3. <<>> \in Seq(Symbols)
    OBVIOUS
  <2> QED
    BY <1>1, <1>2, <2>1, <2>2, <2>3, CallMoves
<1>3. CASE chain' = [chain EXCEPT ![c] = Idle] /\ suspect' = TRUE
  <2>1. /\ Busy' = Busy \ {c} /\ DOMAIN chain' = Calls /\ c \in Busy
        /\ chain'[c] = Idle /\ \A d \in Calls : d # c => chain'[d] = chain[d]
    BY <1>1, <1>3, Underway, ChainMoves DEF StoreInv, Busy
  <2>2. TypeOK'
    BY <1>1, <1>3, <2>1 DEF StoreInv, TypeOK
  <2>3. Shaped'
    BY <1>1, <2>1 DEF StoreInv, Shaped, Busy
  <2>4. Reconciling'
    <3>1. \A d \in Busy' : chain'[d].alone => Busy = {d} /\ d # c
      BY <2>1 DEF StoreInv, Reconciling, Busy
    <3> QED
      BY <1>3, <2>1, <3>1 DEF Reconciling
  <2> QED
    BY <1>1, <2>2, <2>3, <2>4 DEF StoreInv
<1> QED
  BY <1>2, <1>3 DEF Reject

(* Another list is shown. *)
LEMMA SetActiveStep ==
    ASSUME StoreInv, NEW i \in DOMAIN lists, SetActiveWatchlist(lists[i].id)
    PROVE  StoreInv'
<1>1. PICK id : id = lists[i].id
  OBVIOUS
<1>2. /\ active' = id /\ symbols' = SymbolsOf(lists, id)
      /\ UNCHANGED <<items, lists, loaded, chain, suspect, readies, ops>>
  BY <1>1 DEF SetActiveWatchlist
<1>3. lists \in Seq(List) /\ id \in Ids /\ Has(lists, id)
  <2>1. lists \in Seq(List) /\ lists[i] \in List
    BY DEF StoreInv, TypeOK
  <2> QED
    BY <1>1, <2>1 DEF Has, List
<1>4. TypeOK'
  BY <1>2, <1>3, SymbolsOfList DEF StoreInv, TypeOK
<1>5. DerivedInSync'
  <2>1. PICK j \in DOMAIN lists : lists[j] = [id |-> id, symbols |-> SymbolsOf(lists, id)]
    BY <1>3, SymbolsOfList
  <2>2. id # None
    BY <1>3 DEF Ids, None
  <2> QED
    BY <1>2, <2>1, <2>2 DEF DerivedInSync
<1>6. Shaped'
  BY <1>2 DEF StoreInv, Shaped, Busy
<1>7. Reconciling'
  BY <1>2 DEF StoreInv, Reconciling, Busy, AllLists, Reconciles
<1> QED
  BY <1>4, <1>5, <1>6, <1>7 DEF StoreInv

-----------------------------------------------------------------------------
(* The responses                                                           *)

(* A chain ends: the store is right if it ended as it should. *)
LEMMA ResolveMoves ==
    ASSUME StoreInv, NEW c \in Calls, chain[c].at = "replied",
           chain' = [chain EXCEPT ![c] = Idle], items' = items,
           readies' = readies, ops' = ops,
           suspect' = (suspect /\ ~(chain[c].kind = "load" /\ chain[c].alone)),
           lists' \in Seq(List), active' \in Ids \cup {None}, symbols' \in Seq(Symbols),
           loaded' \in BOOLEAN, DerivedInSync',
           ~suspect' => Mirrors(lists', loaded', items, None)
    PROVE  StoreInv'
<1>1. /\ Busy' = Busy \ {c} /\ DOMAIN chain' = Calls /\ c \in Busy
      /\ chain'[c] = Idle /\ \A d \in Calls : d # c => chain'[d] = chain[d]
  BY Underway, ChainMoves DEF StoreInv, Busy
<1>2. suspect' \in BOOLEAN
  BY DEF StoreInv, TypeOK
<1>3. TypeOK'
  BY <1>1, <1>2 DEF StoreInv, TypeOK
<1>4. Shaped'
  BY <1>1 DEF StoreInv, Shaped, Busy
<1>5. Reconciling'
  <2>1. \A d \in Busy' : chain'[d].alone => Busy = {d} /\ d # c
    BY <1>1 DEF StoreInv, Reconciling, Busy
  <2>2. \A d \in Busy' : ~chain'[d].alone
    BY <1>1, <2>1
  <2>3. ~suspect' => Busy' = {}
    <3> SUFFICES ASSUME ~suspect' PROVE Busy' = {}
      OBVIOUS
    <3>1. chain[c].alone
      BY <1>1 DEF StoreInv, Reconciling
    <3>2. Busy = {c}
      BY <1>1, <3>1 DEF StoreInv, Reconciling
    <3> QED
      BY <1>1, <3>2
  <2> QED
    BY <1>1, <2>2, <2>3 DEF Reconciling
<1> QED
  BY <1>3, <1>4, <1>5 DEF StoreInv

(* applyList: the list of the response takes the place of the store's. *)
LEMMA ApplyStep ==
    ASSUME StoreInv, NEW c \in Calls, Resolve(c), chain[c].kind \in Optimistic \cup {"rename"}
    PROVE  StoreInv'
<1>1. PICK wl : wl = chain[c].reply[1]
  OBVIOUS
<1>2. /\ chain[c].at = "replied" /\ chain' = [chain EXCEPT ![c] = Idle] /\ UNCHANGED <<items, readies, ops>>
      /\ suspect' = (suspect /\ ~(chain[c].kind = "load" /\ chain[c].alone))
      /\ ApplyList(wl)
  BY <1>1 DEF Resolve, Optimistic
<1>3. /\ wl \in List
      /\ ~suspect => wl.id = chain[c].list /\ Shows(wl, items) /\ Mirrors(lists, loaded, items, None)
  <2>1. chain[c].reply \in Seq(List) /\ Len(chain[c].reply) = 1
    BY <1>2, Underway DEF IsRequest, RequestShaped, Optimistic
  <2>2. wl \in List
    BY <1>1, <2>1
  <2> QED
    BY <1>1, <1>2, <2>2, Underway DEF Reconciles
<1>4. /\ lists \in Seq(List) /\ active \in Ids \cup {None} /\ symbols \in Seq(Symbols)
      /\ loaded \in BOOLEAN
  BY DEF StoreInv, TypeOK
<1>5. /\ lists' = [i \in DOMAIN lists |-> IF lists[i].id = wl.id THEN wl ELSE lists[i]]
      /\ symbols' = (IF wl.id = active THEN wl.symbols ELSE symbols)
      /\ UNCHANGED <<active, loaded>>
  BY <1>2 DEF ApplyList
<1>6. /\ lists' \in Seq(List) /\ DOMAIN lists' = DOMAIN lists
      /\ \A i \in DOMAIN lists : lists'[i] = IF lists[i].id = wl.id THEN wl ELSE lists[i]
  <2>1. PICK n \in Nat : DOMAIN lists = 1..n /\ n = Len(lists) /\ \A i \in 1..n : lists[i] \in List
    BY <1>4
  <2>2. PICK more : more = lists'
    OBVIOUS
  <2>3. /\ more = [i \in 1..n |-> IF lists[i].id = wl.id THEN wl ELSE lists[i]]
        /\ \A i \in 1..n : more[i] \in List
    BY <1>3, <1>5, <2>1, <2>2
  <2>4. more \in Seq(List)
    BY <2>3
  <2> QED
    BY <1>5, <2>2, <2>4
<1>7. DerivedInSync'
  <2>1. CASE active = None
    <3>1. wl.id # active
      BY <1>3, <2>1 DEF List, Ids, None
    <3> QED
      BY <1>5, <2>1, <3>1 DEF StoreInv, DerivedInSync
  <2>2. CASE active # None
    <3>1. PICK i \in DOMAIN lists : lists[i] = [id |-> active, symbols |-> symbols]
      BY <2>2 DEF StoreInv, DerivedInSync
    <3>2. lists'[i] = [id |-> active, symbols |-> symbols']
      <4>1. wl = [id |-> wl.id, symbols |-> wl.symbols]
        BY <1>3 DEF List
      <4>2. lists[i].id = active
        BY <3>1
      <4> QED
        BY <1>5, <1>6, <3>1, <4>1, <4>2
    <3> QED
      BY <1>5, <1>6, <2>2, <3>2 DEF DerivedInSync
  <2> QED
    BY <2>1, <2>2
<1>8. ASSUME ~suspect
      PROVE  Mirrors(lists', loaded', items, None)
  <2>1. wl.id \in DOMAIN items /\ wl.symbols \in ToSchema(items[wl.id]) /\ Mirrors(lists, loaded, items, None)
    BY <1>3, <1>8 DEF Shows
  <2>2. /\ \A i \in DOMAIN lists : lists'[i].id = lists[i].id
        /\ \A i \in DOMAIN lists : lists[i].id # wl.id => lists'[i].symbols = lists[i].symbols
        /\ \A i \in DOMAIN lists : lists[i].id = wl.id => lists'[i].symbols \in ToSchema(items[wl.id])
    BY <1>6, <2>1
  <2>3. PICK more : more = lists'
    OBVIOUS
  <2>4. Mirrors(more, loaded, items, None)
    BY <1>4, <1>6, <2>1, <2>2, <2>3, MirrorsOne
  <2> QED
    BY <1>5, <2>3, <2>4
<1>9. symbols' \in Seq(Symbols)
  BY <1>3, <1>4, <1>5 DEF List
<1>10. suspect' = suspect
  BY <1>2 DEF StoreInv, TypeOK, Optimistic
<1>11. /\ active' \in Ids \cup {None} /\ loaded' \in BOOLEAN /\ items' = items /\ readies' = readies
       /\ ops' = ops
       /\ chain[c].at = "replied" /\ chain' = [chain EXCEPT ![c] = Idle]
       /\ suspect' = (suspect /\ ~(chain[c].kind = "load" /\ chain[c].alone))
  BY <1>2, <1>4, <1>5
<1>12. StoreInv /\ c \in Calls /\ lists' \in Seq(List) /\ (~suspect' => Mirrors(lists', loaded', items, None))
  BY <1>6, <1>8, <1>10
<1> QED
  BY ONLY <1>7, <1>9, <1>11, <1>12, ResolveMoves

(* load replaces the store by the answer. *)
LEMMA LoadedStep ==
    ASSUME StoreInv, NEW c \in Calls, Resolve(c), chain[c].kind = "load"
    PROVE  StoreInv'
<1>1. PICK all : all = chain[c].reply
  OBVIOUS
<1>2. /\ chain[c].at = "replied" /\ chain' = [chain EXCEPT ![c] = Idle] /\ UNCHANGED <<items, readies, ops>>
      /\ suspect' = (suspect /\ ~(chain[c].kind = "load" /\ chain[c].alone))
      /\ Loaded(all)
  BY <1>1 DEF Resolve
<1>3. all \in Seq(List) /\ c \in Busy
  BY <1>1, <1>2, Underway DEF IsRequest, Busy
<1>4. /\ lists' = all /\ loaded' = TRUE /\ symbols' = SymbolsOf(all, active')
      /\ active' = IF active # None /\ Has(all, active) THEN active ELSE FirstId(all)
  BY <1>2 DEF Loaded
<1>5. /\ active' \in Ids \cup {None} /\ symbols' \in Seq(Symbols)
      /\ active' # None => Has(all, active')
      /\ active' = None => all = <<>>
  <2>1. symbols' \in Seq(Symbols)
    BY <1>3, <1>4, SymbolsOfList
  <2>2. all # <<>> => all[1] \in List /\ 1 \in DOMAIN all
    BY <1>3
  <2>3. all # <<>> => all[1].id \in Ids /\ all[1].id # None /\ Has(all, all[1].id)
    BY <2>2 DEF List, Ids, None, Has
  <2>4. active \in Ids \cup {None}
    BY DEF StoreInv, TypeOK
  <2> QED
    BY <1>4, <2>1, <2>3, <2>4 DEF FirstId
<1>6. DerivedInSync'
  <2>1. CASE active' = None
    <3>1. ~Has(all, active')
      BY <1>5, <2>1 DEF Has
    <3> QED
      BY <1>3, <1>4, <2>1, <3>1, SymbolsOfList DEF DerivedInSync
  <2>2. CASE active' # None
    <3>1. PICK i \in DOMAIN all : all[i] = [id |-> active', symbols |-> SymbolsOf(all, active')]
      BY <1>3, <1>5, <2>2, SymbolsOfList
    <3> QED
      BY <1>4, <2>2, <3>1 DEF DerivedInSync
  <2> QED
    BY <2>1, <2>2
<1>7. ASSUME ~suspect'
      PROVE  Mirrors(lists', loaded', items, None)
  <2>1. chain[c].alone
    BY <1>2, <1>3, <1>7 DEF StoreInv, Reconciling
  <2>2. all \in AllLists
    BY <1>1, <1>2, <1>3, <2>1 DEF StoreInv, Reconciling
  <2>3. Mirrors(all, TRUE, items, None)
    BY <2>2, AllListsMirror DEF StoreInv, Shaped
  <2> QED
    BY <1>4, <2>3
<1> QED
  BY <1>2, <1>3, <1>4, <1>5, <1>6, <1>7, ResolveMoves

(* The new list is shown, after the others. *)
LEMMA CreatedStep ==
    ASSUME StoreInv, NEW c \in Calls, Resolve(c), chain[c].kind = "create"
    PROVE  StoreInv'
<1>1. PICK wl : wl = chain[c].reply[1]
  OBVIOUS
<1>2. /\ chain[c].at = "replied" /\ chain' = [chain EXCEPT ![c] = Idle] /\ UNCHANGED <<items, readies, ops>>
      /\ suspect' = (suspect /\ ~(chain[c].kind = "load" /\ chain[c].alone))
      /\ Created(wl)
  BY <1>1 DEF Resolve
<1>3. wl \in List /\ wl = [id |-> wl.id, symbols |-> wl.symbols] /\ wl.id # None
  <2>1. chain[c].reply \in Seq(List) /\ Len(chain[c].reply) = 1
    BY <1>2, Underway DEF IsRequest, RequestShaped
  <2>2. wl \in List
    BY <1>1, <2>1
  <2> QED
    BY <2>2 DEF List, Ids, None
<1>4. lists' = Append(lists, wl) /\ active' = wl.id /\ symbols' = wl.symbols /\ loaded' = loaded
  BY <1>2 DEF Created
<1>5. /\ lists \in Seq(List) /\ loaded \in BOOLEAN /\ Len(lists) \in Nat /\ DOMAIN lists = 1..Len(lists)
      /\ lists' \in Seq(List) /\ active' \in Ids \cup {None} /\ symbols' \in Seq(Symbols)
  BY <1>3, <1>4 DEF StoreInv, TypeOK, List
<1> DEFINE n == Len(lists)
<1>6. /\ DOMAIN lists' = 1..(n + 1) /\ lists'[n + 1] = wl
      /\ \A i \in 1..n : lists'[i] = lists[i] /\ i \in 1..(n + 1)
  BY <1>3, <1>4, <1>5
<1>7. DerivedInSync'
  <2>1. n + 1 \in DOMAIN lists' /\ lists'[n + 1] = [id |-> active', symbols |-> symbols']
    BY <1>3, <1>4, <1>5, <1>6
  <2> QED
    BY <1>3, <1>4, <2>1 DEF DerivedInSync
<1>8. ASSUME ~suspect
      PROVE  Mirrors(lists', loaded', items, None)
  <2> DEFINE others == [d \in DOMAIN items \ {wl.id} |-> items[d]]
  <2>1. Shows(wl, items) /\ (\A d \in DOMAIN items : d <= wl.id) /\ Mirrors(lists, loaded, others, None)
    BY <1>1, <1>2, <1>8, Underway DEF Reconciles
  <2>2. \A i \in 1..n : lists[i].id \in DOMAIN others /\ lists[i].symbols \in ToSchema(others[lists[i].id])
    <3> HIDE DEF others
    <3> QED
      BY <1>5, <2>1, KnownLists DEF StoreInv
  <2>3. \A i \in 1..n : Shows(lists[i], items) /\ lists[i].id # wl.id
    BY <2>2 DEF Shows
  <2>4. \A i \in 1..n : lists[i].id < wl.id
    <3>1. \A d \in DOMAIN items : d \in Nat
      BY WatchlistConstants DEF StoreInv, TypeOK, Ids
    <3>2. wl.id \in Nat
      BY <2>1, <3>1 DEF Shows
    <3> QED
      BY <2>1, <2>3, <3>1, <3>2 DEF Shows
  <2>5. \A i \in 1..(n + 1) : i \in 1..n \/ i = n + 1
    BY <1>5
  <2>6. \A i \in 1..(n + 1) : Shows(lists'[i], items)
    BY <1>6, <2>1, <2>3, <2>5
  <2>7. ASSUME NEW i \in 1..(n + 1), NEW j \in 1..(n + 1), i < j
        PROVE  lists'[i].id < lists'[j].id
    <3>1. i \in 1..n
      BY <1>5, <2>7
    <3>2. CASE j \in 1..n
      BY <1>5, <1>6, <2>1, <2>7, <3>1, <3>2 DEF Mirrors
    <3>3. CASE j = n + 1
      BY <1>6, <2>4, <3>1, <3>3
    <3> QED
      BY <2>5, <3>2, <3>3
  <2>8. ASSUME loaded, NEW d \in DOMAIN items
        PROVE  Has(lists', d)
    <3>1. CASE d = wl.id
      BY <1>5, <1>6, <3>1 DEF Has
    <3>2. CASE d # wl.id
      <4>1. d \in DOMAIN others
        BY <3>2
      <4>2. PICK i \in 1..n : lists[i].id = d
        BY <1>5, <2>1, <2>8, <4>1 DEF Mirrors, Has
      <4> QED
        BY <1>6, <4>2 DEF Has
    <3> QED
      BY <3>1, <3>2
  <2> QED
    BY <1>4, <1>6, <2>6, <2>7, <2>8 DEF Mirrors
<1>9. suspect' = suspect
  BY <1>2 DEF StoreInv, TypeOK
<1> QED
  BY <1>2, <1>4, <1>5, <1>7, <1>8, <1>9, ResolveMoves

(* The list is left out, and the first shown in its place. *)
LEMMA DeletedStep ==
    ASSUME StoreInv, NEW c \in Calls, Resolve(c), chain[c].kind = "delete"
    PROVE  StoreInv'
<1>1. PICK id : id = chain[c].list
  OBVIOUS
<1>2. /\ chain[c].at = "replied" /\ chain' = [chain EXCEPT ![c] = Idle] /\ UNCHANGED <<items, readies, ops>>
      /\ suspect' = (suspect /\ ~(chain[c].kind = "load" /\ chain[c].alone))
      /\ Deleted(id)
  BY <1>1 DEF Resolve
<1>3. /\ lists \in Seq(List) /\ loaded \in BOOLEAN /\ active \in Ids \cup {None} /\ symbols \in Seq(Symbols)
  BY DEF StoreInv, TypeOK
<1> DEFINE places == {i \in DOMAIN lists : lists[i].id # id}
<1>4. lists' = AtPlaces(lists, places) /\ loaded' = loaded
  BY <1>2 DEF Deleted
<1>5. /\ lists' \in Seq(List)
      /\ \E at \in [DOMAIN lists' -> places] :
           /\ \A k \in DOMAIN at : lists'[k] = lists[at[k]]
           /\ \A j, k \in DOMAIN at : j < k => at[j] < at[k]
           /\ \A i \in places : \E k \in DOMAIN at : at[k] = i
  <2>1. PICK kept : kept = AtPlaces(lists, places)
    OBVIOUS
  <2>2. places \in SUBSET DOMAIN lists
    OBVIOUS
  <2> HIDE DEF places
  <2>3. /\ kept \in Seq(List)
        /\ \E at \in [DOMAIN kept -> places] :
             /\ \A k \in DOMAIN at : kept[k] = lists[at[k]]
             /\ \A j, k \in DOMAIN at : j < k => at[j] < at[k]
             /\ \A i \in places : \E k \in DOMAIN at : at[k] = i
    BY <1>3, <2>1, <2>2, PlacesKept, SMTT(30)
  <2> QED
    BY <1>4, <2>1, <2>3
<1>6. PICK at \in [DOMAIN lists' -> places] :
        /\ \A k \in DOMAIN at : lists'[k] = lists[at[k]]
        /\ \A j, k \in DOMAIN at : j < k => at[j] < at[k]
        /\ \A i \in places : \E k \in DOMAIN at : at[k] = i
  BY <1>5
<1>7. \A i \in DOMAIN lists : lists[i].id # id => \E k \in DOMAIN lists' : lists'[k] = lists[i]
  BY <1>6
<1>8. /\ DerivedInSync' /\ active' \in Ids \cup {None} /\ symbols' \in Seq(Symbols)
  <2>1. CASE active # id /\ UNCHANGED <<active, symbols>>
    <3>1. CASE active = None
      BY <1>3, <2>1, <3>1 DEF StoreInv, DerivedInSync
    <3>2. CASE active # None
      <4>1. PICK i \in DOMAIN lists : lists[i] = [id |-> active, symbols |-> symbols]
        BY <3>2 DEF StoreInv, DerivedInSync
      <4>2. \E k \in DOMAIN lists' : lists'[k] = [id |-> active, symbols |-> symbols]
        BY <1>7, <2>1, <4>1
      <4> QED
        BY <1>3, <2>1, <3>2, <4>2 DEF DerivedInSync
    <3> QED
      BY <3>1, <3>2
  <2>2. CASE active' = FirstId(lists') /\ symbols' = SymbolsOf(lists', active')
    <3>1. CASE lists' = <<>>
      <4>1. active' = None /\ ~Has(lists', active')
        BY <2>2, <3>1 DEF FirstId, Has
      <4>2. symbols' = <<>>
        BY <1>5, <2>2, <4>1, SymbolsOfList
      <4> QED
        BY <4>1, <4>2 DEF DerivedInSync
    <3>2. CASE lists' # <<>>
      <4>1. lists'[1] \in List /\ 1 \in DOMAIN lists'
        BY <1>5, <3>2
      <4>2. active' \in Ids /\ active' # None /\ Has(lists', active')
        BY <2>2, <3>2, <4>1 DEF FirstId, Has, List, Ids, None
      <4> QED
        BY <1>5, <2>2, <4>2, SymbolsOfList DEF DerivedInSync
    <3> QED
      BY <3>1, <3>2
  <2> QED
    BY <1>2, <2>1, <2>2 DEF Deleted
<1>9. ASSUME ~suspect
      PROVE  Mirrors(lists', loaded', items, None)
  <2>1. id \notin DOMAIN items /\ Mirrors(lists, loaded, items, id)
    BY <1>1, <1>2, <1>9, Underway DEF Reconciles
  <2>2. \A k \in DOMAIN lists' : at[k] \in DOMAIN lists /\ lists[at[k]].id # id /\ lists'[k] = lists[at[k]]
    BY <1>6
  <2>3. \A k \in DOMAIN lists' : Shows(lists'[k], items)
    BY <2>1, <2>2 DEF Mirrors
  <2>4. \A j, k \in DOMAIN lists' : j < k => lists'[j].id < lists'[k].id
    BY <1>6, <2>1, <2>2 DEF Mirrors
  <2>5. loaded => \A d \in DOMAIN items : Has(lists', d)
    <3> SUFFICES ASSUME loaded, NEW d \in DOMAIN items PROVE Has(lists', d)
      OBVIOUS
    <3>1. PICK i \in DOMAIN lists : lists[i].id = d
      BY <2>1 DEF Mirrors, Has
    <3> QED
      BY <1>7, <2>1, <3>1 DEF Has
  <2> QED
    BY <1>4, <2>3, <2>4, <2>5 DEF Mirrors
<1>10. suspect' = suspect
  BY <1>2 DEF StoreInv, TypeOK
<1> HIDE DEF places
<1> QED
  BY <1>2, <1>3, <1>4, <1>5, <1>8, <1>9, <1>10, ResolveMoves

-----------------------------------------------------------------------------
(* The theorems                                                            *)

LEMMA StoreKeeps ==
    ASSUME StoreInv, StoreStep
    PROVE  StoreInv'
<1>1. CASE \E c \in Calls, s \in Symbols : Add(c, s) \/ Remove(c, s)
  BY <1>1, AddStep, RemoveStep
<1>2. CASE \E c \in Calls : Reorder(c) \/ Reject(c)
  BY <1>2, ReorderStep, RejectStep
<1>3. CASE \E c \in Calls : CreateWatchlist(c) \/ Bootstrap(c)
  <2>1. readies' \in 0..MaxReady
    BY <1>3, WatchlistConstants DEF CreateWatchlist, Bootstrap, StoreInv, TypeOK
  <2> QED
    BY <1>3, <2>1, PatientStep DEF CreateWatchlist, Bootstrap
<1>4. CASE \E c \in Calls, i \in DOMAIN lists : RenameWatchlist(c, lists[i].id) \/ DeleteWatchlist(c, lists[i].id)
  <2>1. PICK c \in Calls, i \in DOMAIN lists : RenameWatchlist(c, lists[i].id) \/ DeleteWatchlist(c, lists[i].id)
    BY <1>4
  <2>2. lists[i] \in List
    BY DEF StoreInv, TypeOK
  <2>3. lists[i].id \in Ids \cup {None}
    BY <2>2 DEF List
  <2>4. readies' \in 0..MaxReady
    BY <2>1 DEF RenameWatchlist, DeleteWatchlist, StoreInv, TypeOK
  <2> QED
    BY <2>1, <2>3, <2>4, PatientStep DEF RenameWatchlist, DeleteWatchlist
<1>5. CASE \E c \in Calls : Resolve(c)
  <2>1. PICK c \in Calls : Resolve(c)
    BY <1>5
  <2>2. \/ chain[c].kind \in Optimistic \cup {"rename"}
        \/ chain[c].kind \in {"load", "create", "delete"}
    BY <2>1 DEF Resolve, Optimistic
  <2> QED
    BY <2>1, <2>2, ApplyStep, LoadedStep, CreatedStep, DeletedStep
<1>6. CASE \E i \in DOMAIN lists : SetActiveWatchlist(lists[i].id)
  BY <1>6, SetActiveStep
<1> QED
  BY <1>1, <1>2, <1>3, <1>4, <1>5, <1>6 DEF StoreStep

LEMMA StoreStutters ==
    ASSUME StoreInv, UNCHANGED vars
    PROVE  StoreInv'
<1>1. UNCHANGED <<items, lists, active, symbols, loaded, chain, suspect, readies, ops>>
  BY DEF vars, store
<1>2. TypeOK' /\ Shaped' /\ DerivedInSync'
  BY <1>1 DEF StoreInv, TypeOK, Shaped, DerivedInSync, Busy
<1>3. Reconciling'
  BY <1>1 DEF StoreInv, Reconciling, Busy, AllLists, Reconciles
<1> QED
  BY <1>2, <1>3 DEF StoreInv

LEMMA StoreStarts == Init => StoreInv
<1> SUFFICES ASSUME Init PROVE StoreInv
  OBVIOUS
<1> DEFINE D == {Seed[j] : j \in DOMAIN Seed}
           first == [s \in D |-> PlaceOf(Seed, s) - 1]
<1>1. Seed \in Seq(Symbols) /\ 1 \in Ids
  BY WatchlistConstants DEF Ids
<1>2. /\ items = [i \in {1} |-> first] /\ lists = <<>> /\ active = None /\ symbols = <<>> /\ loaded = FALSE
      /\ chain = [c \in Calls |-> Idle] /\ suspect = FALSE /\ readies = 0 /\ ops = 0
  BY DEF Init
<1>3. IsTable(first) /\ IsFiniteSet(DOMAIN first)
  <2>1. D \subseteq Symbols
    BY <1>1
  <2>2. \A s \in D : PlaceOf(Seed, s) \in DOMAIN Seed
    BY DEF PlaceOf
  <2>3. \A s \in D : first[s] \in Nat
    BY <1>1, <2>2
  <2>4. IsFiniteSet(D)
    <3>1. IsFiniteSet(DOMAIN Seed)
      BY <1>1, FS_Interval
    <3>2. Seed \in Surjection(DOMAIN Seed, D)
      BY <1>1 DEF Surjection
    <3> HIDE DEF D
    <3> QED
      BY <3>1, <3>2, FS_Surjection
  <2> QED
    BY <2>1, <2>3, <2>4 DEF IsTable
<1> HIDE DEF first
<1>4. TypeOK
  <2>1. lists \in Seq(List) /\ symbols \in Seq(Symbols)
        /\ readies \in 0..MaxReady /\ ops \in 0..MaxOps
    BY <1>2, WatchlistConstants
  <2>2. DOMAIN items \subseteq Ids /\ \A i \in DOMAIN items : IsTable(items[i])
    BY <1>1, <1>2, <1>3
  <2>3. DOMAIN chain = Calls /\ \A c \in Calls : chain[c] = Idle
    BY <1>2
  <2> QED
    BY <1>2, <2>1, <2>2, <2>3 DEF TypeOK
<1>5. Busy = {}
  BY <1>2 DEF Busy
<1>6. Shaped /\ DerivedInSync
  BY <1>2, <1>3, <1>5 DEF Shaped, DerivedInSync
<1>7. Mirrors(lists, loaded, items, None)
  BY <1>2 DEF Mirrors
<1> QED
  BY <1>4, <1>5, <1>6, <1>7 DEF StoreInv, Reconciling

(* Whatever the order of the steps, the store and the chains hold what      *)
(* StoreInv says.                                                           *)
THEOREM StoreInvariant == Spec => []StoreInv
<1>1. StoreInv /\ [Next]_vars => StoreInv'
  BY EngineKeeps, StoreKeeps, StoreStutters DEF Next
<1> QED
  BY <1>1, StoreStarts, PTL DEF Spec

LEMMA StoreIsSound == StoreInv => StoreSound
<1> SUFFICES ASSUME StoreInv PROVE StoreSound
  OBVIOUS
<1>1. ASSUME loaded, Busy = {}, ~suspect
      PROVE  lists \in AllLists
  <2>1. Mirrors(lists, TRUE, items, None)
    <3>1. loaded = TRUE
      BY <1>1 DEF StoreInv, TypeOK
    <3> QED
      BY <1>1, <3>1 DEF StoreInv, Reconciling
  <2> QED
    BY <2>1, AllListsMirror DEF StoreInv, TypeOK, Shaped
<1> QED
  BY <1>1 DEF StoreInv, StoreSound, ReconciledOneByOne, Quiet, Mirrored

(* The view is that of the active list, and calls that run one at a time   *)
(* leave the store with what the engine has, requests that fail included.  *)
THEOREM StoreSoundCorrect == Spec => []StoreSound
BY StoreInvariant, StoreIsSound, PTL

(* Only its response ends a call that the engine has answered. *)
LEMMA AnsweredEnds ==
    ASSUME StoreInv, [Next]_vars, NEW c \in Calls, chain[c].at = "replied", chain'[c] = Idle
    PROVE  Resolve(c)
<1>1. chain[c] # Idle /\ IsRequest(chain[c]) /\ DOMAIN chain = Calls
  BY Underway DEF StoreInv, TypeOK
<1>2. ASSUME NEW d \in Calls, d # c, NEW r, chain' = [chain EXCEPT ![d] = r]
      PROVE  FALSE
  BY <1>1, <1>2
<1>3. ASSUME NEW d \in Calls, NEW kind, NEW list, NEW arg, Call(d, kind, list, arg)
      PROVE  FALSE
  <2>1. chain'[c] = IF c = d THEN Sent(d, kind, list, arg)
                    ELSE IF c \in Busy \ {d} THEN [chain[c] EXCEPT !.alone = FALSE]
                    ELSE chain[c]
    BY <1>3 DEF Call, Sent
  <2>2. Sent(d, kind, list, arg).at = "sent"
    BY DEF Sent
  <2>3. [chain[c] EXCEPT !.alone = FALSE].at = "replied"
    BY <1>1 DEF IsRequest
  <2>4. chain'[c].at # "idle"
    BY <2>1, <2>2, <2>3
  <2> QED
    BY <2>4 DEF Idle
<1>4. ASSUME EngineStep
      PROVE  FALSE
  <2>1. PICK d \in Calls :
          \/ ListAll(d) \/ Create(d) \/ ReadList(d)
          \/ AddItem(d) \/ RemoveItem(d) \/ ReorderItems(d) \/ Rename(d) \/ DeleteList(d)
          \/ Fail(d)
    BY <1>4 DEF EngineStep
  <2>2. CASE d = c
    <3>1. chain' = [chain EXCEPT ![c] = Failed(c)]
      BY <2>1, <2>2
         DEF ListAll, Create, ReadList, AddItem, RemoveItem, ReorderItems, Rename, DeleteList, Fail, Reading
    <3>2. Failed(c).at = "failed"
      BY <1>1 DEF Failed, IsRequest
    <3> QED
      BY <1>1, <3>1, <3>2 DEF Idle
  <2>3. CASE d # c
    <3>1. \E r : chain' = [chain EXCEPT ![d] = r]
      <4>1. CASE ListAll(d) \/ Create(d) \/ ReadList(d) \/ Fail(d)
        BY <4>1 DEF ListAll, Create, ReadList, Fail
      <4>2. ASSUME NEW new, NEW ok, NEW table, Writes(d, new, ok, table)
            PROVE  \E r : chain' = [chain EXCEPT ![d] = r]
        BY <4>2 DEF Writes
      <4>3. CASE AddItem(d)
        BY <4>2, <4>3 DEF AddItem
      <4>4. CASE RemoveItem(d)
        BY <4>2, <4>4 DEF RemoveItem
      <4>5. CASE ReorderItems(d)
        BY <4>2, <4>5 DEF ReorderItems
      <4>6. CASE Rename(d)
        BY <4>2, <4>6 DEF Rename
      <4>7. CASE DeleteList(d)
        BY <4>2, <4>7 DEF DeleteList
      <4> QED
        BY <2>1, <4>1, <4>3, <4>4, <4>5, <4>6, <4>7
    <3> QED
      BY <1>2, <2>3, <3>1
  <2> QED
    BY <2>2, <2>3
<1>5. CASE StoreStep
  <2>1. CASE \E d \in Calls, s \in Symbols : Add(d, s) \/ Remove(d, s)
    BY <1>3, <2>1 DEF Add, Remove, Begin
  <2>2. CASE \E d \in Calls : Reorder(d) \/ CreateWatchlist(d) \/ Bootstrap(d)
    BY <1>3, <2>2 DEF Reorder, CreateWatchlist, Bootstrap, Begin
  <2>3. CASE \E d \in Calls, i \in DOMAIN lists :
               RenameWatchlist(d, lists[i].id) \/ DeleteWatchlist(d, lists[i].id)
    BY <1>3, <2>3 DEF RenameWatchlist, DeleteWatchlist, Begin
  <2>4. CASE \E d \in Calls : Resolve(d)
    <3>1. PICK d \in Calls : Resolve(d)
      BY <2>4
    <3>2. chain' = [chain EXCEPT ![d] = Idle]
      BY <3>1 DEF Resolve
    <3> QED
      BY <1>2, <3>1, <3>2
  <2>5. CASE \E d \in Calls : Reject(d)
    <3>1. PICK d \in Calls : Reject(d)
      BY <2>5
    <3>2. d # c /\ (chain' = [chain EXCEPT ![d] = Idle] \/ Call(d, "load", None, <<>>))
      BY <3>1 DEF Reject
    <3> QED
      BY <1>2, <1>3, <3>2
  <2>6. CASE \E i \in DOMAIN lists : SetActiveWatchlist(lists[i].id)
    BY <1>1, <2>6 DEF SetActiveWatchlist
  <2> QED
    BY <1>5, <2>1, <2>2, <2>3, <2>4, <2>5, <2>6 DEF StoreStep
<1>6. CASE UNCHANGED vars
  BY <1>1, <1>6 DEF vars
<1> QED
  BY <1>4, <1>5, <1>6 DEF Next

(* What ApplyList puts in the store of a call by itself is what is there. *)
LEMMA AnswerShown ==
    ASSUME StoreInv, NEW c \in Calls, Resolve(c), chain[c].kind \in Optimistic, ~suspect,
           Untied(items[chain[c].list])
    PROVE  UNCHANGED store
<1>1. PICK wl : wl = chain[c].reply[1]
  OBVIOUS
<1>2. /\ chain[c].at = "replied"
      /\ lists' = [i \in DOMAIN lists |-> IF lists[i].id = wl.id THEN wl ELSE lists[i]]
      /\ symbols' = (IF wl.id = active THEN wl.symbols ELSE symbols)
      /\ UNCHANGED <<active, loaded>>
  BY <1>1 DEF Resolve, ApplyList, Optimistic
<1>3. /\ wl \in List /\ wl.id = chain[c].list /\ wl.id \in DOMAIN items
      /\ wl.symbols \in ToSchema(items[wl.id]) /\ Mirrors(lists, loaded, items, None)
  <2>1. chain[c].reply \in Seq(List) /\ Len(chain[c].reply) = 1
    BY <1>2, Underway DEF IsRequest, RequestShaped, Optimistic
  <2>2. wl \in List
    BY <1>1, <2>1
  <2>3. Reconciles(chain[c])
    BY <1>2, Underway
  <2> QED
    BY <1>1, <1>2, <2>2, <2>3 DEF Reconciles, Shows
<1>4. lists \in Seq(List) /\ IsTable(items[wl.id]) /\ IsFiniteSet(DOMAIN items[wl.id])
  BY <1>3 DEF StoreInv, TypeOK, Shaped
<1>5. ASSUME NEW i \in DOMAIN lists, lists[i].id = wl.id
      PROVE  lists[i] = wl
  <2>1. lists[i].symbols \in ToSchema(items[wl.id])
    BY <1>3, <1>5, KnownLists DEF StoreInv
  <2>2. lists[i].symbols = wl.symbols
    BY <1>3, <1>4, <2>1, OneListing
  <2>3. lists[i] \in List
    BY <1>4
  <2> QED
    BY <1>3, <1>5, <2>2, <2>3 DEF List
<1>6. lists' = lists
  <2>1. lists = [i \in DOMAIN lists |-> lists[i]]
    BY <1>4
  <2>2. lists' = [i \in DOMAIN lists |-> lists[i]]
    BY <1>2, <1>5
  <2> QED
    BY <2>1, <2>2
<1>7. symbols' = symbols
  <2>1. CASE wl.id = active
    <3>1. active # None
      BY <1>3, <2>1 DEF List, Ids, None
    <3>2. PICK i \in DOMAIN lists : lists[i] = [id |-> active, symbols |-> symbols]
      BY <3>1 DEF StoreInv, DerivedInSync
    <3> QED
      BY <1>2, <1>5, <2>1, <3>2
  <2>2. CASE wl.id # active
    BY <1>2, <2>2
  <2> QED
    BY <2>1, <2>2
<1> QED
  BY <1>2, <1>6, <1>7 DEF store

(* The response of a call that runs by itself changes nothing: the engine   *)
(* answers what the store already shows.                                    *)
THEOREM OptimismIsRightCorrect == Spec => OptimismIsRight
<1> DEFINE Ends(c) ==
             /\ chain[c] # Idle /\ chain'[c] = Idle
             /\ chain[c].at = "replied" /\ chain[c].kind \in {"add", "remove", "reorder"}
             /\ chain[c].alone /\ ~suspect
             /\ chain[c].list \in DOMAIN items => Untied(items[chain[c].list])
<1>1. ASSUME StoreInv, [Next]_vars, NEW c \in Calls, Ends(c)
      PROVE  UNCHANGED store
  <2>1. Resolve(c)
    BY <1>1, AnsweredEnds
  <2>2. Reconciles(chain[c])
    BY <1>1, Underway
  <2>3. chain[c].list \in DOMAIN items
    BY <1>1, <2>2 DEF Reconciles, Shows, Optimistic
  <2> QED
    BY <1>1, <2>1, <2>3, AnswerShown DEF Optimistic
<1>2. StoreInv /\ [Next]_vars => [\A c \in Calls : Ends(c) => UNCHANGED store]_vars
  BY <1>1
<1> QED
  BY <1>2, StoreInvariant, PTL DEF Spec, OptimismIsRight
=============================================================================
