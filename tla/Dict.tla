-------------------------------- MODULE Dict --------------------------------
(***************************************************************************)
(* libdict: an open-addressing table probed the way Python does, with      *)
(* markers where keys were deleted and a table that grows with its use.    *)
(* A call whose probing or growing never ends sets hung.                   *)
(***************************************************************************)
EXTENDS Integers, FiniteSets, FiniteSetsExt, SequencesExt

CONSTANTS Keys, Vals, NULL,
          DUMMY,     \* DUMMY_PTR, the key of a slot whose key was deleted
          Hash,      \* dict_hash of each key
          MinSize,   \* DICT_MIN_SZ, a power of two
          BigSize,   \* DICT_BIGSZ
          Width,     \* bits of used, fill and size: 32
          Missing,   \* whether keys that are not there are deleted
          MaxBelow,  \* bound: how far used is decremented below 0
          MaxAdds,   \* bound: calls of dict_add
          MaxLive    \* bound: keys stored at a time

ASSUME DictAssumption ==
    /\ NULL \notin Keys \cup Vals /\ DUMMY \notin Keys \cup {NULL}
    /\ Hash \in [Keys -> Nat]
    /\ MinSize \in Nat \ {0} /\ BigSize \in Nat /\ Width \in Nat \ {0}
    /\ Missing \in BOOLEAN /\ MaxBelow \in 0 .. 2 ^ (Width - 1) /\ MaxAdds \in Nat /\ MaxLive \in Nat

VARIABLES table, size, used, fill,  \* struct _dict_
          call,                     \* the last call and its result
          adds,                     \* calls of dict_add so far
          hung                      \* whether a call does not return

vars == <<table, size, used, fill, call, adds, hung>>
dict == <<table, size, used, fill>>

Live == {i \in DOMAIN table : table[i].key \in Keys}
EmptySlot == [key |-> NULL, val |-> NULL]

\* dict_new
Init ==
    /\ size = MinSize /\ used = 0 /\ fill = 0
    /\ table = [i \in 0 .. MinSize - 1 |-> EmptySlot]
    /\ call = <<"new">> /\ adds = 0 /\ hung = FALSE

-----------------------------------------------------------------------------
\* the slots dict_lookup looks at: after seven shifts perturb is 0, and then the
\* probe goes round all slots, so that Rounds probes decide
Rounds(sz) == sz + 7
Probe(h, sz) ==
    LET perturb[n \in 1 .. Rounds(sz)] == IF n = 1 THEN h ELSE perturb[n - 1] \div 32
        p[n \in 0 .. Rounds(sz)] ==
          IF n = 0 THEN h % sz ELSE (5 * p[n - 1] + perturb[n] + 1) % sz
    IN  [n \in DOMAIN p |-> p[n]]

Word == 2 ^ Width
Sizes == {MinSize * 2 ^ i : i \in 0 .. Width} \cap 0 .. Word - 1
Probes == [k \in Keys |-> [sz \in Sizes |-> Probe(Hash[k], sz)]]

Never == -1

\* Mutant: a deleted slot ends the search.
dict_lookup_dummy(t, sz, k) ==
    LET p == Probes[k][sz]
        ends == {n \in DOMAIN p : t[p[n]].key \in {NULL, DUMMY, k}}
    IN  IF ends = {} THEN Never ELSE p[Min(ends)]

\* the slot of k, or else the first deleted one on the way to an empty one
dict_lookup(t, sz, k) ==
    LET p == Probes[k][sz]
        ends == {n \in DOMAIN p : t[p[n]].key \in {NULL, k}}
        last == Min(ends)
        free == {n \in 0 .. last : t[p[n]].key = DUMMY}
    IN  IF ends = {} THEN Never
        ELSE IF t[p[last]].key = k \/ free = {} THEN p[last]
        ELSE p[Min(free)]

\* dict_add_p for every key of the old table, in its order; it never resizes again,
\* since the new table has at least twice the slots of the old one
Reinsert(new, sz, old) ==
    FoldLeft(LAMBDA t, i : IF old[i - 1].key \in {NULL, DUMMY} THEN t
                           ELSE [t EXCEPT ![dict_lookup(t, sz, old[i - 1].key)] = old[i - 1]],
             new, [i \in 1 .. Cardinality(DOMAIN old) |-> i])

\* the sizes the doubling goes through before it overflows, large enough for u keys
NewSizes(u) ==
    LET factor == IF size > BigSize THEN 2 ELSE 4
    IN  {n \in Sizes : n >= size /\ n > (factor * u) % Word}

\* Mutant: the old table is left behind.
dict_resize_loses(t, u, f, c) ==
    /\ size' = Min(NewSizes(u))
    /\ hung' = FALSE
    /\ call' = c
    /\ table' = IF size' = size THEN t ELSE [i \in 0 .. size' - 1 |-> EmptySlot]
    /\ used' = u /\ fill' = f

\* dict_resize: a table that is large enough for its keys stays as it is, deleted
\* slots included
dict_resize(t, u, f, c) ==
    LET live == Cardinality({i \in DOMAIN t : t[i].key \notin {NULL, DUMMY}})
    IN  IF NewSizes(u) = {}
        THEN hung' = TRUE /\ UNCHANGED <<dict, call>>
        ELSE /\ size' = Min(NewSizes(u))
             /\ hung' = FALSE
             /\ call' = c
             /\ IF size' = size
                THEN table' = t /\ used' = u /\ fill' = f
                ELSE /\ table' = Reinsert([i \in 0 .. size' - 1 |-> EmptySlot], size', t)
                     /\ used' = live /\ fill' = live

dict_add(k, v) ==
    LET i == dict_lookup(table, size, k)
        t == [table EXCEPT ![i] = [key |-> k, val |-> v]]
        u == (used + 1) % Word
        f == (fill + 1) % Word
    IN  /\ ~hung /\ adds < MaxAdds
        /\ Cardinality(Live \ {i}) < MaxLive
        /\ adds' = adds + 1
        /\ \/ i = Never /\ hung' = TRUE /\ UNCHANGED <<dict, call>>
           \/ /\ i # Never
              /\ (3 * f) % Word >= (2 * size) % Word
              /\ dict_resize(t, u, f, <<"set", k, v>>)
           \/ /\ i # Never
              /\ (3 * f) % Word < (2 * size) % Word
              /\ table' = t /\ used' = u /\ fill' = f
              /\ call' = <<"set", k, v>>
              /\ UNCHANGED <<size, hung>>

\* the bound on used: far below 0 the factor of dict_resize would wrap it round
\* again, which takes 2^29 deletes of 32 bits
MayDecrement == (used - 1) % Word \notin Word \div 2 .. Word - MaxBelow - 1

\* Mutant: the slot is emptied instead of marked.
dict_del_empties(k) ==
    LET i == dict_lookup(table, size, k)
    IN  /\ ~hung /\ i # Never /\ MayDecrement
        /\ Missing \/ table[i].key = k
        /\ call' = <<"del", k>>
        /\ table' = [table EXCEPT ![i] = EmptySlot]
        /\ used' = (used - 1) % Word
        /\ UNCHANGED <<size, fill, adds, hung>>

\* dict_del marks whatever slot the lookup returns
dict_del(k) ==
    LET i == dict_lookup(table, size, k)
    IN  /\ ~hung
        /\ \/ i = Never /\ Missing /\ hung' = TRUE /\ UNCHANGED <<dict, call>>
           \/ /\ i # Never /\ MayDecrement
              /\ Missing \/ table[i].key = k
              /\ call' = <<"del", k>>
              /\ table' = [table EXCEPT ![i] = [key |-> DUMMY, val |-> NULL]]
              /\ used' = (used - 1) % Word
              /\ UNCHANGED <<size, fill, hung>>
        /\ UNCHANGED adds

\* dict_get with a default: the lookup always returns a slot, so that a key that is
\* not there gives the NULL of its free slot
dict_get(k) ==
    LET i == dict_lookup(table, size, k)
    IN  /\ ~hung
        /\ \/ i = Never /\ hung' = TRUE /\ UNCHANGED call
           \/ i # Never /\ call' = <<"get", k, table[i].val>> /\ UNCHANGED hung
        /\ UNCHANGED <<dict, adds>>

\* a caller that is stuck in a call
Hung == hung /\ UNCHANGED vars

Next ==
    \/ \E k \in Keys : dict_get(k) \/ dict_del(k) \/ \E v \in Vals : dict_add(k, v)
    \/ Hung

Spec == Init /\ [][Next]_vars

-----------------------------------------------------------------------------

\* Types, and a power-of-two table the probe stays inside of, of a
\* size whose double does not overflow, and a value wherever there is a key.
TypeOK ==
    /\ size \in Sizes /\ 2 * size < Word
    /\ table \in [0 .. size - 1 -> [key : Keys \cup {NULL, DUMMY}, val : Vals \cup {NULL}]]
    /\ used \in 0 .. Word - 1 /\ fill \in 0 .. Word - 1
    /\ \A i \in DOMAIN table : (table[i].val = NULL) <=> (table[i].key \notin Keys)

\* No key is in two slots, whatever was deleted on its probe path before it was
\* added again: dict_enumerate reports a key once and dict_del deletes all of it.
KeyStoredOnce == \A i, j \in Live : table[i].key = table[j].key => i = j

Contents(k) ==
    IF \E i \in Live : table[i].key = k
    THEN table[CHOOSE i \in Live : table[i].key = k].val ELSE NULL

\* Through collisions, deleted slots and resizing, every call that returns does to
\* the map what it should, and dict_get returns the value last added.
M == INSTANCE KeyMap WITH map <- [k \in Keys |-> Contents(k)]
ImplementsMap == M!Spec

\* dict_lookup is "copied almost verbatim from the Python dictionary object", whose
\* lookups end: every call returns.
CallsReturn == ~hung

\* dict_get takes a default, and test_libdict.c passes one: a key that is not there
\* gives the default, not NULL.
AbsentGivesDefault == call[1] = "get" => call[3] # NULL
=============================================================================
