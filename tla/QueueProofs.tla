---------------------------- MODULE QueueProofs ----------------------------
(***************************************************************************)
(* Proofs about libqueue, for every number of writers, readers and items,  *)
(* and for every depth limit.                                              *)
(***************************************************************************)
EXTENDS Queue, FiniteSetTheorems, SequenceTheorems, TLAPS

\* A signal changes only program counters, from waiting to woken.
LEMMA SignalFacts ==
  ASSUME NEW p \in [Threads -> PC], Signal(p)
  PROVE  /\ pc' \in [Threads -> PC]
         /\ \A t \in Threads : pc'[t] = p[t] \/ (p[t] = "wait" /\ pc'[t] = "woken")
  BY DEF Signal, PC

\* Every variable keeps its type, a writer inside queue_push has an item to link
\* and a thread has an item in hand exactly after a pop that found one.
THEOREM QueueTypeCorrect == Spec => []TypeOK
  <1>1. Init => TypeOK
    BY QueueAssumption DEF Init, TypeOK, PC, Items, Threads, NULL
  <1>2. TypeOK /\ [Next]_vars => TypeOK'
    <2> SUFFICES ASSUME TypeOK, [Next]_vars PROVE TypeOK'
      OBVIOUS
    <2> USE QueueAssumption DEF NULL, config, Threads
    <2>1. ASSUME NEW d \in Depths, queue_set_depth(d) PROVE TypeOK'
      BY <2>1 DEF queue_set_depth, TypeOK
    <2>2. ASSUME NEW m \in Modes, queue_set_mode(m) PROVE TypeOK'
      BY <2>2 DEF queue_set_mode, TypeOK
    <2>3. ASSUME NEW b \in Branches, queue_branch_new(b) PROVE TypeOK'
      BY <2>3 DEF queue_branch_new, TypeOK
    <2>4. ASSUME NEW b \in Branches, queue_branch_del(b) PROVE TypeOK'
      BY <2>4 DEF queue_branch_del, TypeOK
    <2>5. ASSUME NEW w \in Writers, queue_item_alloc(w) PROVE TypeOK'
      <3>1. made + 1 \in Items /\ made + 1 # 0 /\ made + 1 \in 0 .. MaxItems
        BY <2>5 DEF queue_item_alloc, TypeOK, Items
      <3>2. Cardinality(branch) \in Int
        BY FS_Subset, FS_CardinalityType DEF TypeOK
      <3>3. QED  BY <2>5, <3>1, <3>2 DEF queue_item_alloc, TypeOK, PC
    <2>6. ASSUME NEW w \in Writers, PushCheck(w) PROVE TypeOK'
      <3>1. PICK x \in {"link", "flush", "pop"} : pc' = [pc EXCEPT ![w] = x]
        BY <2>6 DEF PushCheck
      <3>2. pc' \in [Threads -> PC] /\ \A u \in Threads : pc'[u] = IF u = w THEN x ELSE pc[u]
        BY <3>1 DEF TypeOK, PC
      <3>3. pc[w] = "push" /\ UNCHANGED <<list, depth, config, notified, ref_cnt, made,
                                         freed, new, hand, log, got>>
        BY <2>6 DEF PushCheck
      <3>4. \A r \in Readers : pc'[r] \in {"idle", "pop", "wait", "woken", "has"}
        BY <3>2, QueueAssumption DEF TypeOK, Threads
      <3>5. \A v \in Writers : (new'[v] = NULL) <=> (pc'[v] = "idle")
        BY <3>2, <3>3 DEF TypeOK, Threads
      <3>6. \A t \in Threads : (hand'[t] = NULL) <=> (pc'[t] # "has")
        BY <3>2, <3>3 DEF TypeOK
      <3>7. QED  BY <3>2, <3>3, <3>4, <3>5, <3>6 DEF TypeOK, config
    <2>7. ASSUME NEW w \in Writers, PushFlush(w) PROVE TypeOK'
      <3>1. /\ pc' \in [Threads -> PC]
            /\ \A t \in Threads : \/ pc'[t] = [pc EXCEPT ![w] = "link"][t]
                                  \/ /\ [pc EXCEPT ![w] = "link"][t] = "wait"
                                     /\ pc'[t] = "woken"
        <4>1. [pc EXCEPT ![w] = "link"] \in [Threads -> PC]  BY DEF TypeOK, PC
        <4>2. Signal([pc EXCEPT ![w] = "link"])
          BY <2>7 DEF PushFlush, queue_flush
        <4>3. QED  BY <4>1, <4>2, SignalFacts
      <3>2. list' = <<>> /\ freed' \subseteq Items /\ depth' \in Int
        BY <2>7 DEF PushFlush, queue_flush, Linked, TypeOK
      <3>3. /\ pc[w] = "flush" /\ pc'[w] = "link"
            /\ \A t \in Threads \ {w} : \/ pc'[t] = pc[t]
                                        \/ pc[t] = "wait" /\ pc'[t] = "woken"
        BY <2>7, <3>1 DEF PushFlush, TypeOK
      <3>4. /\ \A v \in Writers : (new'[v] = NULL) <=> (pc'[v] = "idle")
            /\ \A t \in Threads : (hand'[t] = NULL) <=> (pc'[t] # "has")
        BY <2>7, <3>3 DEF PushFlush, TypeOK
      <3>5. \A r \in Readers : pc'[r] \in {"idle", "pop", "wait", "woken", "has"}
        BY <2>7, <3>3 DEF PushFlush, TypeOK
      <3>6. QED  BY <2>7, <3>1, <3>2, <3>4, <3>5 DEF PushFlush, TypeOK
    <2>8. ASSUME NEW w \in Writers, queue_pop_free(w) PROVE TypeOK'
      <3>1. pc' \in [Threads -> PC] /\ \A u \in Threads : pc'[u] = IF u = w THEN "link" ELSE pc[u]
        BY <2>8 DEF queue_pop_free, TypeOK, PC
      <3>2. /\ hand' \in [Threads -> Items \cup {NULL}]
            /\ \A u \in Threads : hand'[u] = IF u = w THEN NULL ELSE hand[u]
        BY <2>8 DEF queue_pop_free, TypeOK
      <3>3. /\ pc[w] = "has" /\ freed' = freed \cup {hand[w]}
            /\ UNCHANGED <<list, depth, config, notified, ref_cnt, made, new, log, got>>
        BY <2>8 DEF queue_pop_free
      <3>4. hand[w] \in Items  BY <3>3 DEF TypeOK, Threads
      <3>5. \A r \in Readers : pc'[r] \in {"idle", "pop", "wait", "woken", "has"}
        BY <3>1, QueueAssumption DEF TypeOK, Threads
      <3>6. \A v \in Writers : (new'[v] = NULL) <=> (pc'[v] = "idle")
        BY <3>1, <3>3 DEF TypeOK, Threads
      <3>7. \A t \in Threads : (hand'[t] = NULL) <=> (pc'[t] # "has")
        BY <3>1, <3>2 DEF TypeOK
      <3>8. QED  BY <3>1, <3>2, <3>3, <3>4, <3>5, <3>6, <3>7 DEF TypeOK, config
    <2>9. ASSUME NEW w \in Writers, PushLink(w) PROVE TypeOK'
      <3>1. /\ pc' \in [Threads -> PC]
            /\ \A t \in Threads : \/ pc'[t] = [pc EXCEPT ![w] = "idle"][t]
                                  \/ /\ [pc EXCEPT ![w] = "idle"][t] = "wait"
                                     /\ pc'[t] = "woken"
        <4>1. [pc EXCEPT ![w] = "idle"] \in [Threads -> PC]  BY DEF TypeOK, PC
        <4>2. Signal([pc EXCEPT ![w] = "idle"])  BY <2>9 DEF PushLink
        <4>3. QED  BY <4>1, <4>2, SignalFacts
      <3>2. new[w] \in Items  BY <2>9 DEF PushLink, TypeOK
      <3>3. list' \in Seq(Items) /\ log' \in Seq(Items) /\ depth' \in Int
        BY <2>9, <3>2 DEF PushLink, TypeOK
      <3>4. /\ max_depth' \in Depths /\ mode' \in Modes
            /\ branch' \subseteq Branches /\ notified' \subseteq branch'
            /\ ref_cnt' \in [Items -> Int]
            /\ made' \in 0 .. MaxItems /\ freed' \subseteq Items
        BY <2>9 DEF PushLink, TypeOK, config
      <3>5. /\ new' \in [Writers -> Items \cup {NULL}]
            /\ hand' \in [Threads -> Items \cup {NULL}]
            /\ got' \in [Readers -> Seq(Items)]
        BY <2>9 DEF PushLink, TypeOK
      <3>6. \A v \in Writers : (new'[v] = NULL) <=> (pc'[v] = "idle")
        BY <2>9, <3>1 DEF PushLink, TypeOK, Threads
      <3>7. \A t \in Threads : (hand'[t] = NULL) <=> (pc'[t] # "has")
        <4>1. pc[w] = "link" /\ hand' = hand  BY <2>9 DEF PushLink
        <4>2. \A t \in Threads : (pc'[t] = "has") <=> (pc[t] = "has")
          BY <3>1, <4>1 DEF TypeOK
        <4>3. QED  BY <4>1, <4>2 DEF TypeOK
      <3>8. \A r \in Readers : pc'[r] \in {"idle", "pop", "wait", "woken", "has"}
        BY <2>9, <3>1 DEF PushLink, TypeOK, Threads
      <3>9. QED  BY <3>1, <3>3, <3>4, <3>5, <3>6, <3>7, <3>8 DEF TypeOK
    <2>10. ASSUME NEW t \in Threads, TakeFirst(t), pc[t] \in {"pop", "wait", "woken"}
           PROVE  TypeOK'
      <3>1. Head(list) \in Items /\ Tail(list) \in Seq(Items)
        BY <2>10 DEF TakeFirst, TypeOK
      <3>2. list' \in Seq(Items) /\ depth' \in Int /\ ref_cnt' \in [Items -> Int]
        BY <2>10, <3>1 DEF TakeFirst, TypeOK
      <3>3. got' \in [Readers -> Seq(Items)]
        BY <2>10, <3>1 DEF TakeFirst, TypeOK
      <3>4. hand' \in [Threads -> Items \cup {NULL}] /\ pc' \in [Threads -> PC]
        BY <2>10, <3>1 DEF TakeFirst, TypeOK, PC
      <3>5. /\ \A w \in Writers : (new'[w] = NULL) <=> (pc'[w] = "idle")
            /\ \A r \in Readers : pc'[r] \in {"idle", "pop", "wait", "woken", "has"}
        BY <2>10 DEF TakeFirst, TypeOK
      <3>6. \A u \in Threads : (hand'[u] = NULL) <=> (pc'[u] # "has")
        BY <2>10, <3>1 DEF TakeFirst, TypeOK, Items
      <3>7. QED  BY <2>10, <3>2, <3>3, <3>4, <3>5, <3>6 DEF TakeFirst, TypeOK
    <2>11. ASSUME NEW t \in Threads, TakeNothing(t), pc[t] \in {"pop", "wait", "woken"}
           PROVE  TypeOK'
      BY <2>11 DEF TakeNothing, TypeOK, PC
    <2>12. ASSUME NEW t \in Threads, queue_pop(t) PROVE TypeOK'
      <3>1. ASSUME pc[t] = "pop", pc' = [pc EXCEPT ![t] = "wait"],
                   UNCHANGED <<list, depth, config, notified, ref_cnt, made, freed,
                               new, hand, log, got>>
            PROVE  TypeOK'
        BY <3>1 DEF TypeOK, PC
      <3>2. QED  BY <2>10, <2>11, <2>12, <3>1
                 DEF queue_pop, PopEnter, PopWoken, PopTimeout
    <2>13. ASSUME NEW t \in Threads, PopSpurious(t) PROVE TypeOK'
      BY <2>11, <2>13 DEF PopSpurious
    <2>14. ASSUME NEW r \in Readers, PopCall(r) PROVE TypeOK'
      BY <2>14 DEF PopCall, TypeOK, PC
    <2>15. ASSUME NEW r \in Readers, queue_branch_pop(r) PROVE TypeOK'
      BY <2>15 DEF queue_branch_pop, TypeOK, PC
    <2>16. ASSUME NEW r \in Readers, ReaderDone(r) PROVE TypeOK'
      <3>1. /\ pc' \in [Threads -> PC]
            /\ \A u \in Threads : pc'[u] = IF u = r THEN "idle" ELSE pc[u]
        BY <2>16 DEF ReaderDone, TypeOK, PC
      <3>2. /\ hand' \in [Threads -> Items \cup {NULL}]
            /\ \A u \in Threads : hand'[u] = IF u = r THEN NULL ELSE hand[u]
        BY <2>16 DEF ReaderDone, TypeOK
      <3>3. hand[r] \in Items  BY <2>16 DEF ReaderDone, TypeOK
      <3>4. freed' \subseteq Items  BY <2>16, <3>3 DEF ReaderDone, TypeOK
      <3>5. \A u \in Readers : pc'[u] \in {"idle", "pop", "wait", "woken", "has"}
        BY <3>1 DEF TypeOK
      <3>6. \A v \in Writers : (new'[v] = NULL) <=> (pc'[v] = "idle")
        BY <2>16, <3>1 DEF ReaderDone, TypeOK
      <3>7. \A t \in Threads : (hand'[t] = NULL) <=> (pc'[t] # "has")
        BY <3>1, <3>2 DEF TypeOK
      <3>8. UNCHANGED <<list, depth, config, notified, ref_cnt, made, new, log, got>>
        BY <2>16 DEF ReaderDone
      <3>9. QED  BY <3>1, <3>2, <3>4, <3>5, <3>6, <3>7, <3>8 DEF TypeOK
    <2>17. ASSUME NEW r \in Readers, ReaderFlush(r) PROVE TypeOK'
      <3>1. /\ pc' \in [Threads -> PC]
            /\ \A t \in Threads : pc'[t] = pc[t] \/ (pc[t] = "wait" /\ pc'[t] = "woken")
        BY <2>17, SignalFacts DEF ReaderFlush, queue_flush, TypeOK
      <3>2. list' = <<>> /\ freed' \subseteq Items /\ depth' \in Int
        BY <2>17 DEF ReaderFlush, queue_flush, Linked, TypeOK
      <3>3. QED  BY <2>17, <3>1, <3>2 DEF ReaderFlush, TypeOK
    <2>18. CASE UNCHANGED vars
      BY <2>18 DEF vars, TypeOK
    <2>19. QED
      BY <2>1, <2>2, <2>3, <2>4, <2>5, <2>6, <2>7, <2>8, <2>9, <2>12, <2>13,
         <2>14, <2>15, <2>16, <2>17, <2>18
      DEF Next, Configure, queue_push
  <1>3. QED  BY <1>1, <1>2, PTL DEF Spec

-----------------------------------------------------------------------------
\* The elements of a sequence, and a sequence without repetition.
Elems(s) == {s[i] : i \in DOMAIN s}
Distinct(s) == \A i, j \in DOMAIN s : s[i] = s[j] => i = j

\* Linking a new item at the tail.
LEMMA AppendElems ==
  ASSUME NEW S, NEW s \in Seq(S), NEW x \in S
  PROVE  /\ Elems(Append(s, x)) = Elems(s) \cup {x}
         /\ Distinct(s) /\ x \notin Elems(s) => Distinct(Append(s, x))
  <1> DEFINE a == Append(s, x)
  <1>1. /\ DOMAIN s = 1 .. Len(s) /\ Len(s) \in Nat
        /\ DOMAIN a = 1 .. Len(s) + 1
        /\ a[Len(s) + 1] = x
        /\ \A i \in 1 .. Len(s) : a[i] = s[i]
    OBVIOUS
  <1> HIDE DEF a
  <1>2. Elems(a) = Elems(s) \cup {x}
    <2>1. ASSUME NEW y \in Elems(a) PROVE y \in Elems(s) \cup {x}
      <3>1. PICK i \in 1 .. Len(s) + 1 : y = a[i]  BY <1>1, <2>1 DEF Elems
      <3>2. i = Len(s) + 1 \/ i \in 1 .. Len(s)  BY <1>1
      <3>3. QED  BY <1>1, <3>1, <3>2 DEF Elems
    <2>2. ASSUME NEW y \in Elems(s) \cup {x} PROVE y \in Elems(a)
      <3>1. CASE y = x
        <4>1. Len(s) + 1 \in DOMAIN a  BY <1>1
        <4>2. QED  BY <3>1, <1>1, <4>1 DEF Elems
      <3>2. CASE y \in Elems(s)
        <4>1. PICK i \in 1 .. Len(s) : y = s[i]  BY <1>1, <3>2 DEF Elems
        <4>2. i \in DOMAIN a  BY <1>1
        <4>3. QED  BY <1>1, <4>1, <4>2 DEF Elems
      <3>3. QED  BY <2>2, <3>1, <3>2
    <2>3. QED  BY <2>1, <2>2
  <1>3. ASSUME Distinct(s), x \notin Elems(s) PROVE Distinct(a)
    <2>1. SUFFICES ASSUME NEW i \in 1 .. Len(s) + 1, NEW j \in 1 .. Len(s) + 1,
                          a[i] = a[j]
                   PROVE  i = j
      BY <1>1 DEF Distinct
    <2>2. \A k \in 1 .. Len(s) : a[k] = s[k] /\ s[k] # x
      BY <1>1, <1>3 DEF Elems
    <2>3. CASE i \in 1 .. Len(s) /\ j \in 1 .. Len(s)
      BY <1>1, <1>3, <2>1, <2>2, <2>3 DEF Distinct
    <2>4. CASE i = Len(s) + 1 \/ j = Len(s) + 1
      BY <1>1, <2>1, <2>2, <2>4
    <2>5. QED  BY <1>1, <2>3, <2>4
  <1>4. QED  BY <1>2, <1>3 DEF a

\* Unlinking the oldest item.
LEMMA TailElems ==
  ASSUME NEW S, NEW s \in Seq(S), s # <<>>, Distinct(s)
  PROVE  /\ Head(s) \in Elems(s)
         /\ Elems(Tail(s)) = Elems(s) \ {Head(s)}
         /\ Distinct(Tail(s))
  <1> DEFINE a == Tail(s)
             n == Len(s)
  <1>1. /\ n \in Nat \ {0} /\ DOMAIN s = 1 .. n
        /\ DOMAIN a = 1 .. n - 1
        /\ Head(s) = s[1]
        /\ \A i \in 1 .. n - 1 : a[i] = s[i + 1]
    OBVIOUS
  <1> HIDE DEF a, n
  <1>2. Head(s) \in Elems(s)
    <2>1. 1 \in DOMAIN s  BY <1>1
    <2>2. QED  BY <1>1, <2>1 DEF Elems
  <1>3. Elems(a) = Elems(s) \ {Head(s)}
    <2>1. ASSUME NEW y \in Elems(a) PROVE y \in Elems(s) \ {Head(s)}
      <3>1. PICK i \in 1 .. n - 1 : y = s[i + 1]  BY <1>1, <2>1 DEF Elems
      <3>2. i + 1 \in DOMAIN s /\ 1 \in DOMAIN s /\ i + 1 # 1  BY <1>1
      <3>3. s[i + 1] # s[1]  BY <3>2 DEF Distinct
      <3>4. QED  BY <1>1, <3>1, <3>2, <3>3 DEF Elems
    <2>2. ASSUME NEW y \in Elems(s) \ {Head(s)} PROVE y \in Elems(a)
      <3>1. PICK i \in 1 .. n : y = s[i]  BY <1>1, <2>2 DEF Elems
      <3>2. i # 1  BY <1>1, <2>2, <3>1
      <3>3. i - 1 \in 1 .. n - 1 /\ (i - 1) + 1 = i  BY <1>1, <3>2
      <3>4. a[i - 1] = y  BY <1>1, <3>1, <3>3
      <3>5. QED  BY <1>1, <3>3, <3>4 DEF Elems
    <2>3. QED  BY <2>1, <2>2
  <1>4. Distinct(a)
    <2>1. SUFFICES ASSUME NEW i \in 1 .. n - 1, NEW j \in 1 .. n - 1, a[i] = a[j]
                   PROVE  i = j
      BY <1>1 DEF Distinct
    <2>2. i + 1 \in DOMAIN s /\ j + 1 \in DOMAIN s /\ s[i + 1] = s[j + 1]
      BY <1>1, <2>1
    <2>3. i + 1 = j + 1  BY <2>2 DEF Distinct
    <2>4. QED  BY <1>1, <2>3
  <1>5. QED  BY <1>2, <1>3, <1>4 DEF a
-----------------------------------------------------------------------------
\* Who owns which item, item by item: l the linked items, n what the writers
\* are pushing, h what the threads have in hand, f the freed items, k the number
\* of items there are.
Own(l, n, h, f, k) ==
    /\ Distinct(l)
    /\ \A v, w \in Writers : n[v] = n[w] /\ n[v] # NULL => v = w
    /\ \A t, u \in Threads : h[t] = h[u] /\ h[t] # NULL => t = u
    /\ \A w \in Writers : n[w] \notin Elems(l) /\ n[w] \notin f /\ n[w] <= k
    /\ \A w \in Writers, t \in Threads : n[w] # NULL => n[w] # h[t]
    /\ \A t \in Threads : h[t] \notin Elems(l) /\ h[t] \notin f /\ h[t] <= k
    /\ \A x \in Elems(l) : x \notin f /\ x <= k
    /\ \A x \in f : x <= k

\* At most one reference is ever outstanding, and none once an item is popped.
OneRef ==
    /\ \A x \in Items : ref_cnt[x] <= 1
    /\ \A t \in Threads : hand[t] # NULL => ref_cnt[hand[t]] <= 0

OwnInv == Own(list, new, hand, freed, made) /\ OneRef

\* The item-by-item form implies the invariant TLC checks.
LEMMA OwnIsOneOwner == TypeOK /\ OwnInv => OneOwner
  <1> SUFFICES ASSUME TypeOK, OwnInv PROVE OneOwner
    OBVIOUS
  <1>1. Linked = Elems(list)  BY DEF Linked, Elems
  <1>2. \A i, j \in DOMAIN list : list[i] = list[j] => i = j
    BY DEF OwnInv, Own, Distinct
  <1> HIDE DEF Elems
  <1>3. InPush \cap (Linked \cup InHand \cup freed) = {}
    BY <1>1 DEF OwnInv, Own, InPush, InHand
  <1>4. Linked \cap (InHand \cup freed) = {} /\ InHand \cap freed = {}
    BY <1>1 DEF OwnInv, Own, InHand
  <1>5. QED  BY <1>2, <1>3, <1>4 DEF OwnInv, Own, OneOwner

\* One branch at most: a fresh item has at most one reference.
LEMMA FewBranches ==
  ASSUME Cardinality(Branches) <= 1, TypeOK
  PROVE  Cardinality(branch) \in Int /\ Cardinality(branch) <= 1
  <1>1. /\ IsFiniteSet(branch) /\ Cardinality(branch) <= Cardinality(Branches)
    BY QueueAssumption, FS_Subset DEF TypeOK
  <1>2. Cardinality(branch) \in Nat /\ Cardinality(Branches) \in Nat
    BY <1>1, QueueAssumption, FS_CardinalityType
  <1>3. QED  BY <1>1, <1>2

\* A step of queue_pop that finds an item moves it from the list to the hand of
\* the thread: with one reference it is always unlinked.
LEMMA TakeMoves ==
  ASSUME TypeOK, OneRef, NEW t \in Threads, TakeFirst(t)
  PROVE  /\ list' = Tail(list) /\ list # <<>> /\ depth' = depth - 1
         /\ hand' = [hand EXCEPT ![t] = Head(list)]
         /\ Head(list) \in Items /\ OneRef'
  <1>1. Head(list) \in Items /\ list # <<>>
    BY DEF TakeFirst, TypeOK
  <1>2. ref_cnt[Head(list)] - 1 <= 0
    BY <1>1 DEF OneRef, TypeOK
  <1>3. /\ list' = Tail(list) /\ depth' = depth - 1
        /\ hand' = [hand EXCEPT ![t] = Head(list)]
        /\ ref_cnt' = [ref_cnt EXCEPT ![Head(list)] = ref_cnt[Head(list)] - 1]
    BY <1>2 DEF TakeFirst
  <1>4. \A x \in Items : ref_cnt'[x] <= ref_cnt[x] /\ ref_cnt'[x] \in Int
    BY <1>1, <1>3 DEF TypeOK
  <1>5. \A x \in Items : ref_cnt'[x] <= 1
    BY <1>4 DEF OneRef, TypeOK
  <1>6. ASSUME NEW u \in Threads, hand'[u] # NULL PROVE ref_cnt'[hand'[u]] <= 0
    <2>1. CASE u = t
      BY <1>1, <1>2, <1>3, <2>1 DEF TypeOK
    <2>2. CASE u # t
      <3>1. hand'[u] = hand[u] /\ hand[u] \in Items
        BY <1>3, <1>6, <2>2 DEF TypeOK
      <3>2. ref_cnt[hand[u]] <= 0 /\ ref_cnt[hand[u]] \in Int
        BY <1>6, <3>1 DEF OneRef, TypeOK
      <3>3. QED  BY <1>4, <3>1, <3>2
    <2>3. QED  BY <2>1, <2>2
  <1>7. QED  BY <1>1, <1>3, <1>5, <1>6 DEF OneRef
\* With at most one branch the ownership invariant holds: every step moves an
\* item from one owner to the next.
LEMMA OwnInvariant ==
  ASSUME Cardinality(Branches) <= 1
  PROVE  Spec => []OwnInv
  <1>1. Init => OwnInv
    BY DEF Init, OwnInv, Own, OneRef, Distinct, Elems, NULL, Threads
  <1>2. TypeOK /\ OwnInv /\ [Next]_vars => OwnInv'
    <2> SUFFICES ASSUME TypeOK, OwnInv, [Next]_vars PROVE OwnInv'
      OBVIOUS
    <2> USE DEF NULL, config
    <2>1. ASSUME UNCHANGED <<list, new, hand, freed, made, ref_cnt>> PROVE OwnInv'
      BY <2>1 DEF OwnInv, OneRef
    <2>2. ASSUME NEW w \in Writers, queue_item_alloc(w) PROVE OwnInv'
      <3> DEFINE k == made + 1
      <3>1. /\ k \in Items /\ made' = k /\ new' = [new EXCEPT ![w] = k]
            /\ made \in Nat /\ new \in [Writers -> Items \cup {NULL}]
            /\ hand \in [Threads -> Items \cup {NULL}]
            /\ UNCHANGED <<list, hand, freed>>
            /\ ref_cnt' = [ref_cnt EXCEPT ![k] = Cardinality(branch)]
        <4>1. made \in Nat /\ k \in Items
          BY <2>2, QueueAssumption DEF queue_item_alloc, TypeOK, Items
        <4>2. QED  BY <2>2, <4>1 DEF queue_item_alloc, TypeOK
      <3>2. Own(list, new, hand, freed, made)  BY DEF OwnInv
      <3>3. k \notin Elems(list) /\ k \notin freed /\ \A t \in Threads : hand[t] # k
        BY <3>1, <3>2 DEF Own
      <3>4. \A v \in Writers : new[v] # k
        BY <3>1, <3>2 DEF Own
      <3>5. \A v \in Writers : new'[v] = IF v = w THEN k ELSE new[v]
        BY <3>1
      <3>6. \A x \in Items : x <= made => x <= k
        BY <3>1 DEF Items
      <3>7. Elems(list) \subseteq Items /\ freed \subseteq Items
        BY DEF TypeOK, Elems
      <3>8. Own(list, new', hand, freed, k)
        <4>1. /\ \A x \in Elems(list) : x \notin freed /\ x <= k
              /\ \A x \in freed : x <= k
              /\ Distinct(list)
          BY <3>2, <3>6, <3>7 DEF Own
        <4>2. /\ \A t, u \in Threads : hand[t] = hand[u] /\ hand[t] # NULL => t = u
              /\ \A t \in Threads : /\ hand[t] \notin Elems(list)
                                    /\ hand[t] \notin freed /\ hand[t] <= k
          BY <3>1, <3>2 DEF Own, Items
        <4>3. \A v, u \in Writers : new'[v] = new'[u] /\ new'[v] # NULL => v = u
          BY <3>2, <3>4, <3>5 DEF Own
        <4>4. \A v \in Writers : /\ new'[v] \notin Elems(list)
                                 /\ new'[v] \notin freed /\ new'[v] <= k
          BY <3>1, <3>2, <3>3, <3>5 DEF Own, Items
        <4>5. \A v \in Writers, t \in Threads : new'[v] # NULL => new'[v] # hand[t]
          BY <3>2, <3>3, <3>5 DEF Own
        <4>6. QED  BY <4>1, <4>2, <4>3, <4>4, <4>5 DEF Own
      <3>9. OneRef'
        <4>1. Cardinality(branch) \in Int /\ Cardinality(branch) <= 1
          BY FewBranches
        <4>2. \A x \in Items : ref_cnt'[x] = IF x = k THEN Cardinality(branch)
                                             ELSE ref_cnt[x]
          BY <3>1 DEF TypeOK
        <4>3. \A x \in Items : ref_cnt'[x] <= 1
          BY <4>1, <4>2 DEF OwnInv, OneRef
        <4>4. ASSUME NEW t \in Threads, hand[t] # NULL PROVE ref_cnt'[hand[t]] <= 0
          <5>1. hand[t] \in Items /\ hand[t] # k  BY <3>1, <3>3, <4>4
          <5>2. QED  BY <4>2, <4>4, <5>1 DEF OwnInv, OneRef
        <4>5. QED  BY <3>1, <4>3, <4>4 DEF OneRef
      <3>10. QED  BY <3>1, <3>8, <3>9 DEF OwnInv
    <2>3. ASSUME list' = <<>>, freed' = freed \cup Linked,
                 UNCHANGED <<new, hand, made, ref_cnt>>
          PROVE  OwnInv'
      <3>1. Elems(list') = {} /\ Distinct(list') /\ Linked = Elems(list)
        BY <2>3 DEF Elems, Distinct, Linked
      <3>2. Own(list, new, hand, freed, made)  BY DEF OwnInv
      <3>3. Own(list', new, hand, freed \cup Elems(list), made)
        BY <3>1, <3>2 DEF Own
      <3>4. OneRef'  BY <2>3 DEF OwnInv, OneRef
      <3>5. QED  BY <2>3, <3>1, <3>3, <3>4 DEF OwnInv
    <2>4. ASSUME NEW w \in Writers, PushLink(w) PROVE OwnInv'
      <3>1. /\ new[w] \in Items /\ list \in Seq(Items)
            /\ list' = Append(list, new[w]) /\ new' = [new EXCEPT ![w] = NULL]
            /\ new \in [Writers -> Items \cup {NULL}]
            /\ UNCHANGED <<hand, freed, made, ref_cnt>>
        BY <2>4 DEF PushLink, TypeOK
      <3>2. Own(list, new, hand, freed, made)  BY DEF OwnInv
      <3>3. new[w] \notin Elems(list) /\ Distinct(list)  BY <3>2 DEF Own
      <3>4. Elems(list') = Elems(list) \cup {new[w]} /\ Distinct(list')
        BY <3>1, <3>3, AppendElems
      <3>5. \A v \in Writers : new'[v] = IF v = w THEN NULL ELSE new[v]
        BY <3>1
      <3>6. 0 \notin Items /\ new[w] # 0 /\ Elems(list) \subseteq Items /\ freed \subseteq Items
            /\ made \in Nat
        <4>1. 0 \notin Items  BY DEF Items
        <4>2. Elems(list) \subseteq Items /\ freed \subseteq Items
          BY DEF TypeOK, Elems
        <4>3. made \in Nat  BY QueueAssumption DEF TypeOK
        <4>4. QED  BY <3>1, <4>1, <4>2, <4>3
      <3>7. Own(list', new', hand, freed, made)
        BY <3>1, <3>2, <3>4, <3>5, <3>6 DEF Own
      <3>8. OneRef'  BY <3>1 DEF OwnInv, OneRef
      <3>9. QED  BY <3>1, <3>7, <3>8 DEF OwnInv
    <2>5. ASSUME NEW t \in Threads, TakeFirst(t), hand[t] = NULL PROVE OwnInv'
      <3>1. /\ list' = Tail(list) /\ list # <<>>
            /\ hand' = [hand EXCEPT ![t] = Head(list)]
            /\ Head(list) \in Items /\ OneRef'
        BY <2>5, TakeMoves DEF OwnInv
      <3>2. UNCHANGED <<new, freed, made>>  BY <2>5 DEF TakeFirst
      <3>3. Own(list, new, hand, freed, made) /\ list \in Seq(Items)
        BY DEF OwnInv, TypeOK
      <3>4. /\ Head(list) \in Elems(list) /\ Distinct(list')
            /\ Elems(list') = Elems(list) \ {Head(list)}
        BY <3>1, <3>3, TailElems DEF Own
      <3>5. \A u \in Threads : hand'[u] = IF u = t THEN Head(list) ELSE hand[u]
        BY <3>1 DEF TypeOK
      <3>6. Own(list', new, hand', freed, made)
        <4>1. /\ Head(list) \notin freed /\ Head(list) <= made
              /\ \A u \in Threads : hand[u] # Head(list)
              /\ \A w \in Writers : new[w] # Head(list)
          BY <3>3, <3>4 DEF Own
        <4>2. \A u, v \in Threads : hand'[u] = hand'[v] /\ hand'[u] # NULL => u = v
          BY <3>3, <3>5, <4>1 DEF Own
        <4>3. \A w \in Writers, u \in Threads : new[w] # NULL => new[w] # hand'[u]
          BY <3>3, <3>5, <4>1 DEF Own
        <4>4. \A u \in Threads :
                hand'[u] \notin Elems(list') /\ hand'[u] \notin freed /\ hand'[u] <= made
          BY <3>3, <3>4, <3>5, <4>1 DEF Own
        <4>5. QED  BY <3>3, <3>4, <4>2, <4>3, <4>4 DEF Own
      <3>7. QED  BY <3>1, <3>2, <3>6 DEF OwnInv
    <2>6. ASSUME NEW t \in Threads, hand[t] # NULL,
                 hand' = [hand EXCEPT ![t] = NULL],
                 freed' = freed \cup {hand[t]} \/ freed' = freed,
                 UNCHANGED <<list, new, made, ref_cnt>>
          PROVE  OwnInv'
      <3>1. \A u \in Threads : hand'[u] = IF u = t THEN NULL ELSE hand[u]
        BY <2>6 DEF TypeOK
      <3>2. Own(list, new, hand, freed, made)  BY DEF OwnInv
      <3>3. 0 \notin Elems(list) /\ 0 \notin freed /\ hand[t] \in Items /\ made \in Nat
            /\ 0 \notin Items
        <4>1. 0 \notin Items  BY DEF Items
        <4>2. Elems(list) \subseteq Items /\ freed \subseteq Items
          BY DEF TypeOK, Elems
        <4>3. made \in Nat  BY QueueAssumption DEF TypeOK
        <4>4. hand[t] \in Items  BY <2>6 DEF TypeOK
        <4>5. QED  BY <4>1, <4>2, <4>3, <4>4
      <3>4. Own(list, new, hand', freed', made)
        BY <2>6, <3>1, <3>2, <3>3 DEF Own
      <3>5. OneRef'  BY <2>6, <3>1 DEF OwnInv, OneRef
      <3>6. QED  BY <2>6, <3>4, <3>5 DEF OwnInv
    <2>7. ASSUME Configure PROVE OwnInv'
      BY <2>1, <2>7 DEF Configure, queue_set_depth, queue_set_mode,
                        queue_branch_new, queue_branch_del
    <2>8. ASSUME NEW w \in Writers, queue_push(w) PROVE OwnInv'
      <3>1. CASE PushCheck(w)  BY <2>1, <3>1 DEF PushCheck
      <3>2. CASE PushFlush(w)  BY <2>3, <3>2 DEF PushFlush, queue_flush
      <3>3. CASE queue_pop_free(w)
        BY <2>6, <3>3 DEF queue_pop_free, TypeOK, Threads
      <3>4. QED  BY <2>4, <2>8, <3>1, <3>2, <3>3 DEF queue_push
    <2>9. ASSUME NEW t \in Threads, queue_pop(t) \/ PopSpurious(t) PROVE OwnInv'
      <3>1. pc[t] \in {"pop", "wait", "woken"}
        BY <2>9 DEF queue_pop, PopEnter, PopWoken, PopTimeout, PopSpurious
      <3>2. hand[t] = NULL  BY <3>1 DEF TypeOK
      <3>3. \/ TakeFirst(t)
            \/ UNCHANGED <<list, new, hand, freed, made, ref_cnt>>
        BY <2>9 DEF queue_pop, PopEnter, PopWoken, PopTimeout, PopSpurious, TakeNothing
      <3>4. QED  BY <2>1, <2>5, <3>2, <3>3
    <2>10. ASSUME NEW r \in Readers,
                  PopCall(r) \/ queue_branch_pop(r) \/ ReaderDone(r) \/ ReaderFlush(r)
           PROVE  OwnInv'
      <3>1. CASE PopCall(r) \/ queue_branch_pop(r)
        BY <2>1, <3>1 DEF PopCall, queue_branch_pop
      <3>2. CASE ReaderDone(r)
        BY <2>6, <3>2 DEF ReaderDone, TypeOK, Threads
      <3>3. CASE ReaderFlush(r)  BY <2>3, <3>3 DEF ReaderFlush, queue_flush
      <3>4. QED  BY <2>10, <3>1, <3>2, <3>3
    <2>11. CASE UNCHANGED vars  BY <2>1, <2>11 DEF vars
    <2>12. QED  BY <2>2, <2>7, <2>8, <2>9, <2>10, <2>11 DEF Next
  <1>3. QED  BY <1>1, <1>2, QueueTypeCorrect, PTL DEF Spec

\* With at most one branch every item has one owner at a time: what queue_flush,
\* an eviction or a reader frees is linked nowhere and in no other hand.
THEOREM QueueOneOwner ==
  ASSUME Cardinality(Branches) <= 1
  PROVE  Spec => []OneOwner
  BY OwnInvariant, QueueTypeCorrect, OwnIsOneOwner, PTL

-----------------------------------------------------------------------------
\* q->depth is the length of the list, with any number of branches.
THEOREM QueueDepthIsLength == Spec => []DepthIsLength
  <1>1. Init => DepthIsLength
    BY DEF Init, DepthIsLength
  <1>2. TypeOK /\ DepthIsLength /\ [Next]_vars => DepthIsLength'
    <2> SUFFICES ASSUME TypeOK, DepthIsLength, [Next]_vars PROVE DepthIsLength'
      OBVIOUS
    <2>0. list \in Seq(Items) /\ depth = Len(list)  BY DEF TypeOK, DepthIsLength
    <2>1. ASSUME UNCHANGED <<list, depth>> PROVE DepthIsLength'
      BY <2>0, <2>1 DEF DepthIsLength
    <2>2. ASSUME list' = <<>>, depth' = depth - Len(list) PROVE DepthIsLength'
      BY <2>0, <2>2 DEF DepthIsLength
    <2>3. ASSUME NEW w \in Writers, PushLink(w) PROVE DepthIsLength'
      <3>1. new[w] \in Items  BY <2>3 DEF PushLink, TypeOK
      <3>2. QED  BY <2>0, <2>3, <3>1 DEF PushLink, DepthIsLength
    <2>4. ASSUME NEW t \in Threads, TakeFirst(t) PROVE DepthIsLength'
      <3>1. Len(Tail(list)) = Len(list) - 1  BY <2>0, <2>4 DEF TakeFirst
      <3>2. (list' = Tail(list) /\ depth' = depth - 1) \/ UNCHANGED <<list, depth>>
        BY <2>4 DEF TakeFirst
      <3>3. QED  BY <2>0, <3>1, <3>2 DEF DepthIsLength
    <2>5. QED
      BY <2>1, <2>2, <2>3, <2>4
      DEF Next, vars, Configure, queue_set_depth, queue_set_mode, queue_branch_new,
          queue_branch_del, queue_item_alloc, queue_push, PushCheck, PushFlush,
          queue_flush, queue_pop_free, queue_pop, PopEnter, PopWoken, PopTimeout,
          PopSpurious, TakeNothing, PopCall, queue_branch_pop, ReaderDone, ReaderFlush
  <1>3. QED  BY <1>1, <1>2, QueueTypeCorrect, PTL DEF Spec

-----------------------------------------------------------------------------
\* The writers that will link an item without another look at the depth.
AtLink == {w \in Writers : pc[w] \in {"has", "link"}}

\* The strengthening of DepthBound: every writer past the full-queue test counts
\* as if its item were linked. A writer that evicted an item made its own room;
\* a writer that flushed, or found nothing to evict, left the list empty.
Room == depth + Cardinality(AtLink) <= MaxDepth + Cardinality(Writers) - 1

\* Sets of writers are finite.
LEMMA WriterSets ==
  ASSUME NEW A, A \subseteq Writers
  PROVE  /\ IsFiniteSet(A) /\ Cardinality(A) \in Nat
         /\ Cardinality(Writers) \in Nat
         /\ Cardinality(A) <= Cardinality(Writers)
  <1>1. IsFiniteSet(Writers)  BY QueueAssumption
  <1>2. IsFiniteSet(A) /\ Cardinality(A) <= Cardinality(Writers)
    BY <1>1, FS_Subset
  <1>3. QED  BY <1>1, <1>2, FS_CardinalityType

\* With at most one branch the queue never holds more than MaxDepth items and
\* one for every writer but the first, although queue_push tests the depth
\* before it takes the lock; with the single writer of libqueue.h it never
\* holds more than MaxDepth.
THEOREM QueueDepthBound ==
  ASSUME Cardinality(Branches) <= 1
  PROVE  Spec => []DepthBound
  <1> DEFINE N == Cardinality(Writers)
  <1>0. N \in Nat \ {0} /\ MaxDepth \in Nat \ {0}
    BY QueueAssumption, FS_CardinalityType, FS_EmptySet
  <1>1. Init => Room
    <2> SUFFICES ASSUME Init PROVE Room
      OBVIOUS
    <2>1. AtLink = {}  BY DEF Init, AtLink, Threads
    <2>2. depth = 0  BY DEF Init
    <2>3. QED  BY <1>0, <2>1, <2>2, FS_EmptySet DEF Room
  <1>2. TypeOK /\ DepthIsLength /\ OwnInv /\ Room /\ [Next]_vars => Room'
    <2> SUFFICES ASSUME TypeOK, DepthIsLength, OwnInv, Room, [Next]_vars PROVE Room'
      OBVIOUS
    <2> DEFINE c == Cardinality(AtLink)
               d == Cardinality(AtLink')
    <2>0. /\ AtLink \subseteq Writers /\ IsFiniteSet(AtLink) /\ c \in 0 .. N
          /\ AtLink' \subseteq Writers /\ IsFiniteSet(AtLink') /\ d \in 0 .. N
      BY WriterSets DEF AtLink
    <2>a. depth \in Nat /\ depth = Len(list) /\ depth + c <= MaxDepth + N - 1
      BY DEF TypeOK, DepthIsLength, Room
    <2>1. ASSUME AtLink' \subseteq AtLink, depth' \in Int, depth' <= depth PROVE Room'
      <3>1. d <= c  BY <2>0, <2>1, FS_Subset
      <3>2. QED  BY <1>0, <2>0, <2>a, <2>1, <3>1 DEF Room
    <2>2. ASSUME depth' \in Int, depth' <= MaxDepth - 1 PROVE Room'
      BY <1>0, <2>0, <2>2 DEF Room
    <2>3. ASSUME NEW w \in Writers, AtLink' \subseteq AtLink \cup {w}, depth' = depth - 1
          PROVE  Room'
      <3>1. d <= c + 1
        <4>1. /\ IsFiniteSet(AtLink \cup {w})
              /\ Cardinality(AtLink \cup {w}) <= c + 1
              /\ Cardinality(AtLink \cup {w}) \in Nat
          <5>1. IsFiniteSet(AtLink \cup {w})  BY <2>0, FS_AddElement
          <5>2. Cardinality(AtLink \cup {w}) = IF w \in AtLink THEN c ELSE c + 1
            BY <2>0, FS_AddElement
          <5>3. Cardinality(AtLink \cup {w}) \in Nat  BY <5>1, FS_CardinalityType
          <5>4. QED  BY <2>0, <5>1, <5>2, <5>3
        <4>2. d <= Cardinality(AtLink \cup {w})  BY <2>3, <4>1, FS_Subset
        <4>3. QED  BY <2>0, <4>1, <4>2
      <3>2. QED  BY <1>0, <2>0, <2>a, <2>3, <3>1 DEF Room
    <2>4. ASSUME NEW w \in Writers, PushLink(w) PROVE Room'
      <3>1. w \in AtLink /\ AtLink' \subseteq AtLink \ {w} /\ depth' = depth + 1
        <4>1. [pc EXCEPT ![w] = "idle"] \in [Threads -> PC]  BY DEF TypeOK, PC
        <4>2. Signal([pc EXCEPT ![w] = "idle"])  BY <2>4 DEF PushLink
        <4>3. \A t \in Threads : \/ pc'[t] = [pc EXCEPT ![w] = "idle"][t]
                                 \/ pc'[t] = "woken"
          BY <4>1, <4>2, SignalFacts
        <4>4. QED  BY <2>4, <4>3 DEF PushLink, AtLink, TypeOK, Threads
      <3>2. d <= c - 1
        <4>1. IsFiniteSet(AtLink \ {w}) /\ Cardinality(AtLink \ {w}) = c - 1
          BY <2>0, <3>1, FS_RemoveElement
        <4>2. QED  BY <3>1, <4>1, FS_Subset
      <3>3. QED  BY <1>0, <2>0, <2>a, <3>1, <3>2 DEF Room
    <2>5. ASSUME Configure PROVE Room'
      <3>1. UNCHANGED <<pc, depth>>
        BY <2>5 DEF Configure, queue_set_depth, queue_set_mode, queue_branch_new,
                    queue_branch_del
      <3>2. QED  BY <2>1, <2>a, <3>1 DEF AtLink
    <2>6. ASSUME NEW w \in Writers, queue_item_alloc(w) PROVE Room'
      <3>1. depth' = depth /\ pc' = [pc EXCEPT ![w] = "push"]
        BY <2>6 DEF queue_item_alloc
      <3>2. AtLink' \subseteq AtLink  BY <3>1 DEF AtLink, TypeOK, Threads
      <3>3. QED  BY <2>1, <2>a, <3>1, <3>2
    <2>7. ASSUME NEW w \in Writers, PushCheck(w) PROVE Room'
      <3>0. max_depth \in 1 .. MaxDepth  BY QueueAssumption DEF TypeOK
      <3>1. depth' = depth  BY <2>7 DEF PushCheck
      <3>2. CASE depth < max_depth  BY <1>0, <2>2, <2>a, <3>0, <3>1, <3>2
      <3>3. CASE depth >= max_depth
        <4>1. pc' = [pc EXCEPT ![w] = "flush"] \/ pc' = [pc EXCEPT ![w] = "pop"]
          BY <2>7, <2>a, <3>0, <3>3 DEF PushCheck
        <4>2. AtLink' \subseteq AtLink  BY <4>1 DEF AtLink, TypeOK, Threads
        <4>3. QED  BY <2>1, <2>a, <3>1, <4>2
      <3>4. QED  BY <2>a, <3>0, <3>2, <3>3
    <2>8. ASSUME depth' = depth - Len(list) PROVE Room'
      BY <1>0, <2>2, <2>a, <2>8
    <2>9. ASSUME NEW w \in Writers, queue_pop_free(w) PROVE Room'
      <3>1. AtLink' \subseteq AtLink /\ depth' = depth
        BY <2>9 DEF queue_pop_free, AtLink, TypeOK, Threads
      <3>2. QED  BY <2>1, <2>a, <3>1
    <2>10. ASSUME NEW t \in Threads, TakeFirst(t) PROVE Room'
      <3>1. depth' = depth - 1  BY <2>10, TakeMoves DEF OwnInv
      <3>2. AtLink' \subseteq AtLink \cup {t}
        BY <2>10 DEF TakeFirst, AtLink, TypeOK, Threads
      <3>3. CASE t \in Writers  BY <2>3, <3>1, <3>2, <3>3
      <3>4. CASE t \notin Writers
        BY <2>0, <2>1, <2>a, <3>1, <3>2, <3>4
      <3>5. QED  BY <3>3, <3>4
    <2>11. ASSUME NEW t \in Threads, TakeNothing(t) PROVE Room'
      <3>1. depth' = 0  BY <2>11, <2>a DEF TakeNothing
      <3>2. QED  BY <1>0, <2>2, <3>1
    <2>12. ASSUME NEW t \in Threads, queue_pop(t) \/ PopSpurious(t) PROVE Room'
      <3>1. ASSUME pc' = [pc EXCEPT ![t] = "wait"], depth' = depth PROVE Room'
        <4>1. AtLink' \subseteq AtLink  BY <3>1 DEF AtLink, TypeOK, Threads
        <4>2. QED  BY <2>1, <2>a, <3>1, <4>1
      <3>2. QED  BY <2>10, <2>11, <2>12, <3>1
                 DEF queue_pop, PopEnter, PopWoken, PopTimeout, PopSpurious
    <2>13. ASSUME NEW r \in Readers,
                  PopCall(r) \/ queue_branch_pop(r) \/ ReaderDone(r)
           PROVE  Room'
      <3>1. depth' = depth
        BY <2>13 DEF PopCall, queue_branch_pop, ReaderDone
      <3>2. AtLink' \subseteq AtLink
        BY <2>13, QueueAssumption
        DEF PopCall, queue_branch_pop, ReaderDone, AtLink, TypeOK, Threads
      <3>3. QED  BY <2>1, <2>a, <3>1, <3>2
    <2>14. CASE UNCHANGED vars
      BY <2>1, <2>a, <2>14 DEF vars, AtLink
    <2>15. QED
      BY <2>4, <2>5, <2>6, <2>7, <2>8, <2>9, <2>12, <2>13, <2>14
      DEF Next, queue_push, PushFlush, ReaderFlush, queue_flush
  <1>3. TypeOK /\ Room => DepthBound
    <2> SUFFICES ASSUME TypeOK, Room PROVE DepthBound
      OBVIOUS
    <2>1. AtLink \subseteq Writers  BY DEF AtLink
    <2>2. Cardinality(AtLink) \in Nat  BY <2>1, WriterSets
    <2>3. QED  BY <1>0, <2>2 DEF Room, DepthBound, TypeOK
  <1>4. QED
    BY <1>1, <1>2, <1>3, QueueTypeCorrect, QueueDepthIsLength, OwnInvariant, PTL DEF Spec
=============================================================================
