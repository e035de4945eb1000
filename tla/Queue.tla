-------------------------------- MODULE Queue --------------------------------
(***************************************************************************)
(* libqueue: a list of items behind a mutex and a condition variable.      *)
(* Threads interleave between the locked sections: the body of queue_flush,*)
(* the linking half of queue_push, and queue_pop up to and after the wait. *)
(* queue_push looks at the depth before it takes the lock.                 *)
(***************************************************************************)
EXTENDS Integers, Sequences, FiniteSets

CONSTANTS Writers,   \* threads that push
          Readers,   \* threads that pop
          Branches,  \* names of branches
          BranchOf,  \* the branch a reader pops from, or NoBranch: queue_pop
          NoBranch,
          Modes,     \* the modes queue_set_mode is called with
          Depths,    \* the depths queue_set_depth is called with
          MaxDepth,  \* the largest of them
          MaxItems   \* bound: items allocated

ASSUME QueueAssumption ==
    /\ IsFiniteSet(Writers) /\ Writers # {} /\ Writers \cap Readers = {}
    /\ IsFiniteSet(Branches) /\ NoBranch \notin Branches
    /\ BranchOf \in [Readers -> Branches \cup {NoBranch}]
    /\ Modes \subseteq {"FLUSH", "RING"} /\ Modes # {}
    /\ MaxDepth \in Nat \ {0} /\ Depths \subseteq 1 .. MaxDepth /\ Depths # {}
    /\ MaxItems \in Nat

VARIABLES list,       \* q->head: the linked items, oldest first
          depth,      \* q->depth
          max_depth,  \* q->max_depth
          mode,       \* q->mode
          branch,     \* q->branch: the branches there are
          notified,   \* the branches whose eventfd counter is not zero
          ref_cnt,    \* item->ref_cnt
          made,       \* items allocated so far
          freed,      \* items given to queue_item_free
          pc,         \* where each thread is
          new,        \* the item a writer is pushing, or NULL
          hand,       \* the item queue_pop gave a thread, or NULL
          log,        \* history: items in the order they were linked
          got         \* history: what each reader was given

vars == <<list, depth, max_depth, mode, branch, notified, ref_cnt, made, freed,
          pc, new, hand, log, got>>

config == <<max_depth, mode, branch>>

Threads == Writers \cup Readers
Items == 1 .. MaxItems
NULL == 0

Linked == {list[i] : i \in DOMAIN list}

Init ==
    /\ list = <<>> /\ depth = 0
    /\ max_depth \in Depths /\ mode \in Modes
    /\ branch = {} /\ notified = {}
    /\ ref_cnt = [x \in Items |-> 0]
    /\ made = 0 /\ freed = {}
    /\ pc = [t \in Threads |-> "idle"]
    /\ new = [w \in Writers |-> NULL]
    /\ hand = [t \in Threads |-> NULL]
    /\ log = <<>> /\ got = [r \in Readers |-> <<>>]

-----------------------------------------------------------------------------
\* Configuration calls; none of them takes the lock.

queue_set_depth(d) ==
    /\ max_depth' = d
    /\ UNCHANGED <<list, depth, mode, branch, notified, ref_cnt, made, freed,
                   pc, new, hand, log, got>>

queue_set_mode(m) ==
    /\ mode' = m
    /\ UNCHANGED <<list, depth, max_depth, branch, notified, ref_cnt, made,
                   freed, pc, new, hand, log, got>>

queue_branch_new(b) ==
    /\ b \notin branch
    /\ branch' = branch \cup {b}
    /\ UNCHANGED <<list, depth, max_depth, mode, notified, ref_cnt, made, freed,
                   pc, new, hand, log, got>>

\* closing the eventfd loses the notifications it holds
queue_branch_del(b) ==
    /\ b \in branch
    /\ branch' = branch \ {b}
    /\ notified' = notified \ {b}
    /\ UNCHANGED <<list, depth, max_depth, mode, ref_cnt, made, freed, pc, new,
                   hand, log, got>>

-----------------------------------------------------------------------------
\* pthread_cond_signal, with p the program counters: one waiter, if any, wakes
Signal(p) ==
    \/ /\ \A t \in Threads : p[t] # "wait"
       /\ pc' = p
    \/ \E t \in Threads : p[t] = "wait" /\ pc' = [p EXCEPT ![t] = "woken"]

\* Mutant: the flush unlinks the items and does not free them.
queue_flush_leaks(p) ==
    /\ list' = <<>>
    /\ freed' = freed
    /\ depth' = depth - Len(list)
    /\ Signal(p)

\* the locked body of queue_flush, its caller going on at p
queue_flush(p) ==
    /\ list' = <<>>
    /\ freed' = freed \cup Linked
    /\ depth' = depth - Len(list)
    /\ Signal(p)

queue_item_alloc(w) ==
    /\ pc[w] = "idle"
    /\ made < MaxItems
    /\ made' = made + 1
    /\ new' = [new EXCEPT ![w] = made + 1]
    /\ ref_cnt' = [ref_cnt EXCEPT ![made + 1] = Cardinality(branch)]
    /\ pc' = [pc EXCEPT ![w] = "push"]
    /\ UNCHANGED <<list, depth, config, notified, freed, hand, log, got>>

\* Mutant: one too many before the queue counts as full.
PushCheck_off_by_one(w) ==
    /\ pc[w] = "push"
    /\ \/ /\ depth <= max_depth
          /\ pc' = [pc EXCEPT ![w] = "link"]
       \/ /\ depth > max_depth
          /\ pc' = [pc EXCEPT ![w] = IF mode = "FLUSH" THEN "flush" ELSE "pop"]
    /\ UNCHANGED <<list, depth, config, notified, ref_cnt, made, freed, new,
                   hand, log, got>>


\* the test for a full queue, made without the lock
PushCheck(w) ==
    /\ pc[w] = "push"
    /\ \/ /\ depth < max_depth
          /\ pc' = [pc EXCEPT ![w] = "link"]
       \/ /\ depth >= max_depth
          /\ mode = "FLUSH"
          /\ pc' = [pc EXCEPT ![w] = "flush"]
       \/ /\ depth >= max_depth
          /\ mode = "RING"
          /\ pc' = [pc EXCEPT ![w] = "pop"]
    /\ UNCHANGED <<list, depth, config, notified, ref_cnt, made, freed, new,
                   hand, log, got>>

PushFlush(w) ==
    /\ pc[w] = "flush"
    /\ queue_flush([pc EXCEPT ![w] = "link"])
    /\ UNCHANGED <<config, notified, ref_cnt, made, new, hand, log, got>>

\* queue_pop_free: the item evicted from a full ring
queue_pop_free(w) ==
    /\ pc[w] = "has"
    /\ freed' = freed \cup {hand[w]}
    /\ hand' = [hand EXCEPT ![w] = NULL]
    /\ pc' = [pc EXCEPT ![w] = "link"]
    /\ UNCHANGED <<list, depth, config, notified, ref_cnt, made, new, log, got>>

\* Mutant: list_add for list_add_tail.
PushLink_at_head(w) ==
    /\ pc[w] = "link"
    /\ list' = <<new[w]>> \o list
    /\ log' = Append(log, new[w])
    /\ depth' = depth + 1
    /\ notified' = branch
    /\ new' = [new EXCEPT ![w] = NULL]
    /\ Signal([pc EXCEPT ![w] = "idle"])
    /\ UNCHANGED <<config, ref_cnt, made, freed, hand, got>>

\* the locked half of queue_push, queue_branch_notify included
PushLink(w) ==
    /\ pc[w] = "link"
    /\ list' = Append(list, new[w])
    /\ log' = Append(log, new[w])
    /\ depth' = depth + 1
    /\ notified' = branch
    /\ new' = [new EXCEPT ![w] = NULL]
    /\ Signal([pc EXCEPT ![w] = "idle"])
    /\ UNCHANGED <<config, ref_cnt, made, freed, hand, got>>

-----------------------------------------------------------------------------
\* Mutant: the item is unlinked only when its count is exactly zero.
TakeFirst_at_zero(t) ==
    LET x == Head(list)
        last == ref_cnt[x] - 1 = 0
    IN  /\ list # <<>>
        /\ ref_cnt' = [ref_cnt EXCEPT ![x] = @ - 1]
        /\ list' = IF last THEN Tail(list) ELSE list
        /\ depth' = IF last THEN depth - 1 ELSE depth
        /\ hand' = [hand EXCEPT ![t] = x]
        /\ pc' = [pc EXCEPT ![t] = "has"]
        /\ got' = IF t \in Readers THEN [got EXCEPT ![t] = Append(@, x)] ELSE got
        /\ UNCHANGED <<config, notified, made, freed, new, log>>

\* queue_pop with the lock held and an item there: one reference of the oldest
\* item is given away, and the item is unlinked with its last reference
TakeFirst(t) ==
    LET x == Head(list)
        last == ref_cnt[x] - 1 <= 0
    IN  /\ list # <<>>
        /\ ref_cnt' = [ref_cnt EXCEPT ![x] = @ - 1]
        /\ list' = IF last THEN Tail(list) ELSE list
        /\ depth' = IF last THEN depth - 1 ELSE depth
        /\ hand' = [hand EXCEPT ![t] = x]
        /\ pc' = [pc EXCEPT ![t] = "has"]
        /\ got' = IF t \in Readers THEN [got EXCEPT ![t] = Append(@, x)] ELSE got
        /\ UNCHANGED <<config, notified, made, freed, new, log>>

\* queue_pop returning NULL: a push goes on without having evicted anything
TakeNothing(t) ==
    /\ list = <<>>
    /\ pc' = [pc EXCEPT ![t] = IF t \in Writers THEN "link" ELSE "idle"]
    /\ UNCHANGED <<list, depth, config, notified, ref_cnt, made, freed, new,
                   hand, log, got>>

PopCall(r) ==
    /\ pc[r] = "idle"
    /\ BranchOf[r] = NoBranch
    /\ pc' = [pc EXCEPT ![r] = "pop"]
    /\ UNCHANGED <<list, depth, config, notified, ref_cnt, made, freed, new,
                   hand, log, got>>

\* the eventfd read takes every notification there is; one pop follows
queue_branch_pop(r) ==
    /\ pc[r] = "idle"
    /\ BranchOf[r] \in branch \cap notified
    /\ notified' = notified \ {BranchOf[r]}
    /\ pc' = [pc EXCEPT ![r] = "pop"]
    /\ UNCHANGED <<list, depth, config, ref_cnt, made, freed, new, hand, log,
                   got>>

PopEnter(t) ==
    /\ pc[t] = "pop"
    /\ \/ TakeFirst(t)
       \/ /\ list = <<>>
          /\ pc' = [pc EXCEPT ![t] = "wait"]
          /\ UNCHANGED <<list, depth, config, notified, ref_cnt, made, freed,
                         new, hand, log, got>>

\* after a signal the list is not tested again before its first entry is taken
PopWoken(t) ==
    /\ pc[t] = "woken"
    /\ TakeFirst(t) \/ TakeNothing(t)

\* Mutant: pthread_cond_wait, without a timeout.
PopTimeout_never(t) ==
    /\ pc[t] = "timed out"
    /\ TakeFirst(t)

\* after a second the list is tested again
PopTimeout(t) ==
    /\ pc[t] = "wait"
    /\ TakeFirst(t)

\* a wait that returns 0 without a signal, which POSIX allows
PopSpurious(t) ==
    /\ pc[t] = "wait"
    /\ TakeNothing(t)

\* the reader is done with the item; the last one frees it
ReaderDone(r) ==
    /\ pc[r] = "has"
    /\ freed' = IF ref_cnt[hand[r]] <= 0 THEN freed \cup {hand[r]} ELSE freed
    /\ hand' = [hand EXCEPT ![r] = NULL]
    /\ pc' = [pc EXCEPT ![r] = "idle"]
    /\ UNCHANGED <<list, depth, config, notified, ref_cnt, made, new, log, got>>

\* a reader's thread may flush between two pops (rtmpc_stream_thread does)
ReaderFlush(r) ==
    /\ pc[r] = "idle"
    /\ queue_flush(pc)
    /\ UNCHANGED <<config, notified, ref_cnt, made, new, hand, log, got>>

-----------------------------------------------------------------------------
queue_push(w) == PushCheck(w) \/ PushFlush(w) \/ queue_pop_free(w) \/ PushLink(w)

queue_pop(t) == PopEnter(t) \/ PopWoken(t) \/ PopTimeout(t)

Configure ==
    \/ \E d \in Depths : queue_set_depth(d)
    \/ \E m \in Modes : queue_set_mode(m)
    \/ \E b \in Branches : queue_branch_new(b) \/ queue_branch_del(b)

Next ==
    \/ Configure
    \/ \E w \in Writers : queue_item_alloc(w) \/ queue_push(w)
    \/ \E t \in Threads : queue_pop(t) \/ PopSpurious(t)
    \/ \E r \in Readers :
          PopCall(r) \/ queue_branch_pop(r) \/ ReaderDone(r) \/ ReaderFlush(r)

Spec == Init /\ [][Next]_vars

\* A thread inside a call goes on: the lock is held for bounded work only, and
\* a wait ends after a second. Nothing makes a thread call, flush or be woken
\* without a signal.
Fairness ==
    /\ \A w \in Writers : WF_vars(queue_push(w))
    /\ \A t \in Threads : WF_vars(queue_pop(t))
    /\ \A r \in Readers : WF_vars(ReaderDone(r))

FairSpec == Spec /\ Fairness

-----------------------------------------------------------------------------
PC == {"idle", "push", "flush", "pop", "wait", "woken", "has", "link"}

\* Every variable has its type; a writer inside queue_push has an item to link
\* and a thread past queue_pop has one in hand.
TypeOK ==
    /\ list \in Seq(Items) /\ log \in Seq(Items)
    /\ depth \in Int
    /\ max_depth \in Depths /\ mode \in Modes
    /\ branch \subseteq Branches /\ notified \subseteq branch
    /\ ref_cnt \in [Items -> Int]
    /\ made \in 0 .. MaxItems /\ freed \subseteq Items
    /\ pc \in [Threads -> PC]
    /\ new \in [Writers -> Items \cup {NULL}]
    /\ hand \in [Threads -> Items \cup {NULL}]
    /\ got \in [Readers -> Seq(Items)]
    /\ \A w \in Writers : (new[w] = NULL) <=> (pc[w] = "idle")
    /\ \A t \in Threads : (hand[t] = NULL) <=> (pc[t] # "has")
    /\ \A r \in Readers : pc[r] \in {"idle", "pop", "wait", "woken", "has"}

\* The depth the full-queue test of queue_push reads is the number of linked
\* items whenever the lock is free, so "queue_flush still dirty!" is never
\* printed.
DepthIsLength == depth = Len(list)

InPush == {new[w] : w \in Writers} \ {NULL}
InHand == {hand[t] : t \in Threads} \ {NULL}

\* With at most one branch, an item has one owner at a time - the writer that
\* is pushing it, its place in the list, the thread that popped it - until it is
\* freed: no interleaving of flushes, evictions and pops gives an item to two
\* threads, leaves a freed item linked or in use, or frees one twice.
OneOwner ==
    /\ \A i, j \in DOMAIN list : list[i] = list[j] => i = j
    /\ \A v, w \in Writers : new[v] = new[w] /\ new[v] # NULL => v = w
    /\ \A t, u \in Threads : hand[t] = hand[u] /\ hand[t] # NULL => t = u
    /\ InPush \cap (Linked \cup InHand \cup freed) = {}
    /\ Linked \cap (InHand \cup freed) = {}
    /\ InHand \cap freed = {}

\* No item is lost or leaked: whatever was allocated is being pushed, linked,
\* in a thread's hand, or freed, also when a writer's eviction finds nothing or
\* two writers find the queue full at once.
NothingLost == 1 .. made \subseteq InPush \cup Linked \cup InHand \cup freed

\* The full-queue test is made before the lock is taken, so several writers may
\* pass it together; the depth still exceeds the limit by at most one item for
\* every writer but one. A single writer, the use libqueue.h describes, never
\* exceeds it.
DepthBound == depth <= MaxDepth + Cardinality(Writers) - 1

\* Every reader is given items in the order they were linked, and none twice.
ReaderOrder ==
    \A r \in Readers : \A i, j \in DOMAIN got[r] :
        i < j => \E m, n \in DOMAIN log :
                    m < n /\ log[m] = got[r][i] /\ log[n] = got[r][j]


\* A reader that waits while items are linked does not wait for ever, even when
\* the signal for them went to another thread: the timeout makes it look again.
WaiterServed ==
    \A r \in Readers :
        (pc[r] = "wait" /\ list # <<>>) ~> (pc[r] # "wait" \/ list = <<>>)

\* libqueue.h draws an item going to every branch; then no branch is given the
\* same item twice.
BranchSeesItemOnce ==
    \A r \in Readers : \A i, j \in DOMAIN got[r] :
        got[r][i] = got[r][j] => i = j
=============================================================================
