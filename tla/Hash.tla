-------------------------------- MODULE Hash --------------------------------
(***************************************************************************)
(* libhash: chained buckets, the newest item of a bucket first.            *)
(***************************************************************************)
EXTENDS Integers, FiniteSets, FiniteSetsExt, SequencesExt

CONSTANTS Keys, Vals, NULL,
          HashOf,   \* hash_gen32 of each key
          Bucket    \* the number of buckets hash_create is given

ASSUME HashAssumption ==
    /\ NULL \notin Keys \cup Vals /\ HashOf \in [Keys -> Nat] /\ Bucket \in Nat \ {0}

VARIABLES list,  \* h->opaque_list, the items of each bucket in order
          call   \* the last call and its result

vars == <<list, call>>

\* hash_create
Init == list = [i \in 0 .. Bucket - 1 |-> <<>>] /\ call = <<"new">>

\* hash & (bucket - 1); librpc has 10240 buckets, which is no power of two
Bit(n, i) == (n \div 2 ^ i) % 2
Pos(k) == FoldSet(LAMBDA i, n : n + 2 ^ i * Bit(HashOf[k], i) * Bit(Bucket - 1, i),
                  0, 0 .. Bucket)

\* Mutant: the hash is compared and the key is not.
hash_lookup_hash(k) ==
    LET at == {i \in DOMAIN list[Pos(k)] : HashOf[list[Pos(k)][i].key] = HashOf[k]}
    IN  IF at = {} THEN 0 ELSE Min(at)

\* where the item of k is in its bucket, 0 when there is none
hash_lookup(k) ==
    LET at == {i \in DOMAIN list[Pos(k)] : list[Pos(k)][i].key = k}
    IN  IF at = {} THEN 0 ELSE Min(at)

hash_set(k, v) ==
    LET i == hash_lookup(k)
    IN  /\ call' = <<"set", k, v>>
        /\ list' = [list EXCEPT ![Pos(k)] = IF i # 0 THEN [@ EXCEPT ![i].val = v]
                                            ELSE <<[key |-> k, val |-> v]>> \o @]

hash_del(k) ==
    LET i == hash_lookup(k)
    IN  /\ call' = <<"del", k>>
        /\ list' = IF i = 0 THEN list ELSE [list EXCEPT ![Pos(k)] = RemoveAt(@, i)]

\* hash_get_and_del: what it returns is a copy of the first bytes at the value
hash_get_and_del(k) == hash_del(k)

\* hash_get
hash_get(k) ==
    LET i == hash_lookup(k)
    IN  /\ call' = <<"get", k, IF i = 0 THEN NULL ELSE list[Pos(k)][i].val>>
        /\ UNCHANGED list

\* hash_get_all_cnt and hash_dump_all leave out the last bucket
Dumped == 0 .. Bucket - 2

hash_get_all_cnt == FoldSet(LAMBDA i, n : n + Len(list[i]), 0, Dumped)
hash_dump_all == UNION {{list[i][j].key : j \in DOMAIN list[i]} : i \in Dumped}

Next == \E k \in Keys : hash_get(k) \/ hash_del(k) \/ hash_get_and_del(k) \/ \E v \in Vals : hash_set(k, v)

Spec == Init /\ [][Next]_vars

-----------------------------------------------------------------------------
Items == UNION {{<<i, j>> : j \in DOMAIN list[i]} : i \in 0 .. Bucket - 1}
Item(p) == list[p[1]][p[2]]

\* Types; an item is in the bucket its hash says.
TypeOK ==
    /\ DOMAIN list = 0 .. Bucket - 1
    /\ \A p \in Items : Item(p) \in [key : Keys, val : Vals] /\ p[1] = Pos(Item(p).key)

Contents(k) ==
    IF \E p \in Items : Item(p).key = k
    THEN Item(CHOOSE p \in Items : Item(p).key = k).val ELSE NULL

\* Setting, deleting and getting keys, also of one bucket and of one hash, is what
\* a map does.
M == INSTANCE KeyMap WITH map <- [k \in Keys |-> Contents(k)]
ImplementsMap == M!Spec

\* The comment on opaque_list in libhash.c has items in every bucket up to the last
\* one: the count is the number of items and the dump has the key of each.
CountIsAll ==
    /\ hash_get_all_cnt = Cardinality(Items)
    /\ hash_dump_all = {Item(p).key : p \in Items}
=============================================================================
