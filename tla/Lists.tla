-------------------------------- MODULE Lists --------------------------------
(***************************************************************************)
(* Going through a list.  The same as SelectSeq, FoldLeft, FlattenSeq and   *)
(* SetToSortSeq, with a test or an order given as a set and a step as a     *)
(* function, which a proof can be about.                                    *)
(***************************************************************************)
EXTENDS Integers, Sequences, FiniteSets

(* The elements of seq at the given places, in their order. *)
AtPlaces(seq, places) ==
    LET upTo[n \in 0..Len(seq)] ==
            IF n = 0 THEN <<>>
            ELSE IF n \in places THEN Append(upTo[n - 1], seq[n])
            ELSE upTo[n - 1]
    IN  upTo[Len(seq)]

(* The elements of seq that are in S, in their order. *)
Keep(seq, S) == AtPlaces(seq, {i \in DOMAIN seq : seq[i] \in S})

(* A value taken through a list: step says what comes of it and an element. *)
Folded(step, start, seq) ==
    LET upTo[n \in 0..Len(seq)] == IF n = 0 THEN start ELSE step[<<upTo[n - 1], seq[n]>>]
    IN  upTo[Len(seq)]

ListSum(numbers) == Folded([pair \in Int \X Int |-> pair[1] + pair[2]], 0, numbers)

(* The lists of a list, one after the other. *)
Concat(lists) ==
    LET elements == UNION {{lists[i][j] : j \in DOMAIN lists[i]} : i \in DOMAIN lists}
    IN  Folded([pair \in Seq(elements) \X Seq(elements) |-> pair[1] \o pair[2]], <<>>, lists)

(* Each element once, at its first place. *)
Firsts(seq) == AtPlaces(seq, {i \in DOMAIN seq : \A j \in 1 .. i - 1 : seq[j] # seq[i]})

Upto(limit, seq) == [k \in 1 .. (IF Len(seq) < limit THEN Len(seq) ELSE limit) |-> seq[k]]

(* The elements of D, none behind one that it is before: of those that are *)
(* left the next is one that no other is before.                           *)
InOrder(D, before) ==
    LET Left(listed) == D \ {listed[k] : k \in DOMAIN listed}
        next == [pair \in Seq(D) \X Nat |->
                    Append(pair[1], CHOOSE x \in Left(pair[1]) : \A y \in Left(pair[1]) : <<y, x>> \notin before)]
    IN  Folded(next, <<>>, [k \in 1 .. Cardinality(D) |-> k])
=============================================================================
