---------------------------- MODULE LaiHashtable ----------------------------
(***************************************************************************)
(* The hash table of core/util-hash.h as operators on a table, a record    *)
(* with the fields of struct lai_hashtable.  Elements live in slots, and   *)
(* stay in their slot when the table grows; an open-addressing bucket      *)
(* table maps hashes to slots.  Removal leaves no tombstone: it is the     *)
(* lookup that goes through every bucket.                                  *)
(***************************************************************************)
EXTENDS Integers, FiniteSets

Null == 0     \* the null pointer; elements are positive numbers

\* Where two or more i qualify, the loops of the code stop at the first.
Least(S) == CHOOSE i \in S : \A j \in S : i <= j

\* A zeroed struct lai_hashtable.
EmptyTable ==
    [elem_capacity |-> 0, bucket_capacity |-> 0, num_elems |-> 0,
     elem |-> [k \in {} |-> Null], hash |-> [k \in {} |-> 0],
     bucket |-> [b \in {} |-> -1]]

Slots(t)   == 0..t.elem_capacity - 1
Buckets(t) == 0..t.bucket_capacity - 1
Used(t)    == {k \in Slots(t) : t.elem[k] # Null}
Elements(t) == {t.elem[k] : k \in Used(t)}

\* The i-th bucket that is probed for hash h; capacities are powers of two.
Probe(h, i, m) == (h + i) % m

\* The free bucket that the probe loops of insert and grow stop at.
FreeBucket(bucket, m, h) ==
    Probe(h, Least({i \in 0..m - 1 : bucket[Probe(h, i, m)] < 0}), m)

\* lai_hashtable_grow() enters the used slots into a new bucket table.
Rehash(t, m) ==
    LET table[k \in 0..t.elem_capacity] ==
          IF k = 0 THEN [b \in 0..m - 1 |-> -1]
          ELSE IF t.elem[k - 1] = Null THEN table[k - 1]
          ELSE [table[k - 1] EXCEPT
                  ![FreeBucket(table[k - 1], m, t.hash[k - 1])] = k - 1]
    IN  table[t.elem_capacity]

\* Mutation: growing copies the elements to the end of the new array.
GrowAtEnd(t, n, m) ==
    LET by == n - t.elem_capacity
        Move(f) == [k \in 0..n - 1 |-> IF k >= by THEN f[k - by] ELSE 0]
        moved == [t EXCEPT !.elem_capacity = n, !.elem = Move(t.elem),
                           !.hash = Move(t.hash)]
    IN  [moved EXCEPT !.bucket_capacity = m, !.bucket = Rehash(moved, m)]

\* lai_hashtable_grow(); the hash of a free slot is never read.
Grow(t, n, m) ==
    [elem_capacity |-> n, bucket_capacity |-> m, num_elems |-> t.num_elems,
     elem |-> [k \in 0..n - 1 |-> IF k \in Used(t) THEN t.elem[k] ELSE Null],
     hash |-> [k \in 0..n - 1 |-> IF k \in Used(t) THEN t.hash[k] ELSE 0],
     bucket |-> Rehash(t, m)]

\* The table with room for one more element.
Roomy(t) ==
    IF t.elem_capacity = 0 \/ t.bucket_capacity = 0 THEN Grow(t, 2, 4)
    ELSE IF t.num_elems + 1 >= t.elem_capacity
         THEN Grow(t, 2 * t.elem_capacity, 2 * t.bucket_capacity)
         ELSE t

\* lai_hashtable_insert() into a table with room.
Enter(t, h, e) ==
    LET k == Least(Slots(t) \ Used(t))
    IN  [t EXCEPT !.elem[k] = e, !.hash[k] = h, !.num_elems = @ + 1,
                  !.bucket[FreeBucket(t.bucket, t.bucket_capacity, h)] = k]

Insert(t, h, e) == Enter(Roomy(t), h, e)

\* lai_hashtable_chain_get().
ChainGet(t, h, i) == t.elem[t.bucket[Probe(h, i, t.bucket_capacity)]]

\* Mutation: a lookup ends at the first bucket that is free.
ChainUntilFree(t, h) ==
    {i \in Buckets(t) :
        /\ \A j \in 0..i : t.bucket[Probe(h, j, t.bucket_capacity)] >= 0
        /\ t.hash[t.bucket[Probe(h, i, t.bucket_capacity)]] = h}

\* The places at which lai_hashtable_chain_advance() stops for hash h.
Chain(t, h) ==
    {i \in Buckets(t) :
        LET k == t.bucket[Probe(h, i, t.bucket_capacity)]
        IN  k >= 0 /\ t.hash[k] = h}

\* Mutation: the bucket goes on leading to the slot.
ChainRemoveElement(t, h, i) ==
    LET b == Probe(h, i, t.bucket_capacity)
    IN  [t EXCEPT !.elem[t.bucket[b]] = Null, !.num_elems = @ - 1]

\* lai_hashtable_chain_remove().
ChainRemove(t, h, i) ==
    LET b == Probe(h, i, t.bucket_capacity)
    IN  [t EXCEPT !.elem[t.bucket[b]] = Null, !.bucket[b] = -1,
                  !.num_elems = @ - 1]
=============================================================================
