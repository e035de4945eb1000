------------------------------- MODULE Gevent -------------------------------
(***************************************************************************)
(* libgevent with its epoll backend: one thread runs gevent_base_loop, one *)
(* other thread adds, changes and deletes events, stops the loop and       *)
(* destroys the base. epoll is modelled edge-triggered, as epoll_add asks. *)
(***************************************************************************)
EXTENDS Integers, FiniteSets, SequencesExt

CONSTANTS Fds, OneShots, Timers,  \* events: of a file, of the two kinds of timer
          Inner,                  \* the event of the inner eventfd
          Uses                    \* the uses of the library; see use

User == Fds \cup OneShots \cup Timers
Events == User \cup {Inner}

ASSUME GeventAssumption ==
    /\ IsFiniteSet(User) /\ Inner \notin User
    /\ Fds \cap OneShots = {} /\ Fds \cap Timers = {} /\ OneShots \cap Timers = {}
    /\ Uses \subseteq [events : SUBSET User, cb_frees : BOOLEAN]

VARIABLES loop,      \* eb->loop
          ev_array,  \* eb->ev_array
          interest,  \* how epoll watches an event: "none", "persist", "oneshot",
                     \* or "off" after a oneshot
          level,     \* events whose file is readable
          hup,       \* events whose file has hung up
          ready,     \* events on the ready list of epoll
          batch,     \* events epoll_wait has returned, not yet dispatched
          cur,       \* the event being dispatched
          lpc, upc,  \* where the loop thread and the user's thread are
          frees,     \* how often each event was freed
          mine,      \* events the user has to free
          use,       \* the events the user has created, and whether callbacks delete
                     \* and free their own event; if so the other thread leaves the
                     \* events alone while the loop runs
          credit     \* callbacks a one-shot timer may have, from being armed; one
                     \* is in the batch and one to come at most, so bound: 2

vars == <<loop, ev_array, interest, level, hup, ready, batch, cur, lpc, upc, frees,
          mine, use, credit>>
looper == <<batch, cur, lpc>>

\* gevent_base_create, and events created by the user
Init ==
    /\ loop = 1
    /\ ev_array = <<Inner>>
    /\ interest = [e \in Events |-> IF e = Inner THEN "persist" ELSE "none"]
    /\ level = {} /\ hup = {} /\ ready = {} /\ batch = {} /\ cur = Inner
    /\ lpc = "off" /\ upc = "idle"
    /\ use \in Uses
    /\ frees = [e \in Events |-> 0] /\ mine = use.events
    /\ credit = [e \in OneShots |-> 0]

-----------------------------------------------------------------------------
\* da_erase_item: the first entry equal to e
Erase(s, e) ==
    IF e \in ToSet(s) THEN RemoveAt(s, SelectInSeq(s, LAMBDA x : x = e)) ELSE s

\* the user's thread is outside of the library and may change the set of events
Free(e) == e \in use.events /\ frees[e] = 0
MayChange == upc = "idle" /\ (use.cb_frees => lpc = "off")

Armed(e) ==
    credit' = [o \in OneShots |-> IF o = e /\ credit[o] < 2 THEN credit[o] + 1 ELSE credit[o]]

\* Mutant: a one-shot timer is registered without EPOLLONESHOT.
epoll_add_persist(e) ==
    /\ interest' = [interest EXCEPT ![e] = "persist"]
    /\ ready' = IF e \in level \cup hup THEN ready \cup {e} ELSE ready

\* epoll reports an event that is already there when it is registered
epoll_add(e) ==
    /\ interest' = [interest EXCEPT ![e] = IF e \in OneShots THEN "oneshot" ELSE "persist"]
    /\ ready' = IF e \in level \cup hup THEN ready \cup {e} ELSE ready

gevent_add(e) ==
    /\ MayChange
    /\ Free(e)
    /\ e \in mine
    /\ mine' = mine \ {e}
    /\ ev_array' = Append(ev_array, e)
    /\ epoll_add(e)
    /\ Armed(e)
    /\ UNCHANGED <<use, loop, level, hup, looper, upc, frees>>

epoll_del(e) ==
    /\ interest' = [interest EXCEPT ![e] = "none"]
    /\ ready' = ready \ {e}

\* Mutant: the event stays in ev_array.
gevent_del_keeps(e) ==
    /\ epoll_del(e)
    /\ mine' = mine \cup {e}
    /\ UNCHANGED ev_array

gevent_del(e) ==
    /\ epoll_del(e)
    /\ ev_array' = Erase(ev_array, e)
    /\ mine' = mine \cup {e}

UserDel(e) ==
    /\ MayChange
    /\ Free(e)
    /\ gevent_del(e)
    /\ UNCHANGED <<use, loop, level, hup, looper, upc, frees, credit>>

\* gevent_mod also saves an event that epoll does not know
gevent_mod(e) ==
    /\ MayChange
    /\ Free(e)
    /\ ev_array' = Append(Erase(ev_array, e), e)
    /\ mine' = mine \ {e}
    /\ \/ interest[e] # "none" /\ epoll_add(e)
       \/ interest[e] = "none" /\ UNCHANGED <<interest, ready>>
    /\ Armed(e)
    /\ UNCHANGED <<use, loop, level, hup, looper, upc, frees>>

\* gevent_destroy and gevent_timer_destroy of a deleted event, once the loop has
\* ended; closing the file of an event takes it from epoll
gevent_destroy(e) ==
    /\ upc = "idle" /\ lpc \in {"off", "exit"}
    /\ Free(e)
    /\ e \in mine
    /\ frees' = [frees EXCEPT ![e] = @ + 1]
    /\ UNCHANGED <<use, loop, ev_array, interest, level, hup, ready, looper, upc, mine, credit>>

-----------------------------------------------------------------------------
\* a file becomes readable or hangs up, a timer expires: an edge for epoll
Edge(e) ==
    ready' = IF interest[e] \in {"persist", "oneshot"} THEN ready \cup {e} ELSE ready

Arrival(e) ==
    /\ e \in use.events
    /\ level' = level \cup {e}
    /\ Edge(e)
    /\ UNCHANGED <<use, loop, ev_array, interest, hup, looper, upc, frees, mine, credit>>

Hangup(e) ==
    /\ e \in use.events \ hup
    /\ hup' = hup \cup {e}
    /\ Edge(e)
    /\ UNCHANGED <<use, loop, ev_array, interest, level, looper, upc, frees, mine, credit>>

\* a write to the inner eventfd
Notify == level' = level \cup {Inner} /\ Edge(Inner)

gevent_base_signal ==
    /\ upc = "idle"
    /\ Notify
    /\ UNCHANGED <<use, loop, ev_array, interest, hup, looper, upc, frees, mine, credit>>

-----------------------------------------------------------------------------
\* gevent_base_loop in its thread
gevent_base_loop_start ==
    /\ lpc = "off" /\ upc = "idle"
    /\ lpc' = "top"
    /\ UNCHANGED <<use, loop, ev_array, interest, level, hup, ready, batch, cur, upc, frees,
                   mine, credit>>

Top ==
    /\ lpc = "top"
    /\ lpc' = IF loop = 1 THEN "wait" ELSE "exit"
    /\ UNCHANGED <<use, loop, ev_array, interest, level, hup, ready, batch, cur, upc, frees,
                   mine, credit>>

\* epoll_wait looks again at the files on its ready list, reports the readable and
\* the hung up ones, and disarms the oneshots among them
epoll_wait ==
    /\ lpc = "wait"
    /\ ready # {}
    /\ batch' = ready \cap (level \cup hup)
    /\ ready' = {}
    /\ interest' = [e \in Events |-> IF e \in batch' /\ interest[e] = "oneshot"
                                     THEN "off" ELSE interest[e]]
    /\ lpc' = IF batch' = {} THEN "wait" ELSE "batch"
    /\ UNCHANGED <<use, loop, ev_array, level, hup, cur, upc, frees, mine, credit>>

\* a signal interrupts a wait that has nothing to report and the loop goes round
Interrupted ==
    /\ lpc = "wait"
    /\ ready \cap (level \cup hup) = {}
    /\ lpc' = "top"
    /\ UNCHANGED <<use, loop, ev_array, interest, level, hup, ready, batch, cur, upc, frees,
                   mine, credit>>

\* the next event of the batch; one that hung up is passed over
Dispatch ==
    /\ lpc = "batch"
    /\ \/ /\ batch = {}
          /\ lpc' = "top"
          /\ UNCHANGED <<batch, cur>>
       \/ \E e \in batch :
            /\ batch' = batch \ {e}
            /\ cur' = e
            /\ lpc' = IF e \in hup THEN "batch" ELSE "call"
    /\ UNCHANGED <<use, loop, ev_array, interest, level, hup, ready, upc, frees, mine, credit>>

\* Mutant: event_in and the handlers leave what made the file readable.
Callback_undrained ==
    /\ lpc = "call"
    /\ UNCHANGED mine
    /\ credit' = [e \in OneShots |-> IF e = cur THEN credit[e] - 1 ELSE credit[e]]
    /\ lpc' = "after"
    /\ UNCHANGED <<use, loop, ev_array, interest, level, hup, ready, batch, cur, upc, frees>>

\* ev_in, which reads all there is and may delete and free its own event (on_recv
\* of librtsp does), or ev_timer
Callback ==
    /\ lpc = "call"
    /\ credit' = [e \in OneShots |-> IF e = cur THEN credit[e] - 1 ELSE credit[e]]
    /\ level' = IF cur \in Fds \cup {Inner} THEN level \ {cur} ELSE level
    /\ lpc' = "after"
    /\ \/ UNCHANGED <<ev_array, interest, ready, frees, mine>>
       \/ /\ use.cb_frees /\ cur \in Fds
          /\ gevent_del(cur)
          /\ frees' = [frees EXCEPT ![cur] = @ + 1]
    /\ UNCHANGED <<use, loop, hup, batch, cur, upc>>

\* the tests of ev_timer, ev_out and ev_err in the event, and the reading of the
\* expirations of a timer, which swallows one that came during the callback
AfterCallback ==
    /\ lpc = "after"
    /\ level' = level \ ({cur} \cap (OneShots \cup Timers))
    /\ lpc' = "batch"
    /\ UNCHANGED <<use, loop, ev_array, interest, hup, ready, batch, cur, upc, frees, mine, credit>>

epoll_dispatch == epoll_wait \/ Dispatch \/ Callback \/ AfterCallback

-----------------------------------------------------------------------------
\* gevent_base_loop_break clears loop, then writes to the eventfd
Break ==
    /\ upc = "idle" /\ lpc # "off"
    /\ loop' = 0
    /\ upc' = "notify"
    /\ UNCHANGED <<use, ev_array, interest, level, hup, ready, looper, frees, mine, credit>>

\* Mutant: the loop is not woken.
BreakNotify_silent ==
    /\ upc = "notify"
    /\ upc' = "join"
    /\ UNCHANGED <<use, loop, ev_array, interest, level, hup, ready, looper, frees, mine, credit>>

BreakNotify ==
    /\ upc = "notify"
    /\ Notify
    /\ upc' = "join"
    /\ UNCHANGED <<use, loop, ev_array, interest, hup, looper, frees, mine, credit>>

gevent_base_loop_break == Break \/ BreakNotify

\* the join of gevent_base_loop_stop
Joined ==
    /\ upc = "join" /\ lpc = "exit"
    /\ upc' = "idle"
    /\ UNCHANGED <<use, loop, ev_array, interest, level, hup, ready, looper, frees, mine, credit>>

\* gevent_base_destroy of a base whose loop does not run
gevent_base_destroy ==
    /\ upc = "idle" /\ lpc \in {"off", "exit"}
    /\ upc' = "gone"
    /\ loop' = 0
    /\ interest' = [e \in Events |-> "none"] /\ ready' = {}
    /\ frees' = [e \in Events |-> frees[e] + (IF e = Inner THEN 1 ELSE 0)
                    + Cardinality({i \in DOMAIN Erase(ev_array, Inner) :
                                       Erase(ev_array, Inner)[i] = e})]
    /\ ev_array' = <<>>
    /\ UNCHANGED <<use, level, hup, looper, mine, credit>>

Gone == upc = "gone" /\ UNCHANGED vars

Next ==
    \/ \E e \in User : \/ gevent_add(e) \/ UserDel(e) \/ gevent_mod(e)
                       \/ gevent_destroy(e) \/ Arrival(e)
    \/ \E e \in Fds : Hangup(e)
    \/ gevent_base_signal \/ gevent_base_loop_start \/ Top \/ Interrupted
    \/ epoll_dispatch \/ gevent_base_loop_break \/ Joined \/ gevent_base_destroy
    \/ Gone

Spec == Init /\ [][Next]_vars

\* The loop thread goes on while it can, and a call that stops the loop goes on.
FairSpec ==
    /\ Spec
    /\ WF_vars(Top) /\ WF_vars(epoll_dispatch)
    /\ WF_vars(BreakNotify) /\ WF_vars(Joined)

-----------------------------------------------------------------------------
\* Types; a dispatched event is one of those epoll_wait returned.
TypeOK ==
    /\ loop \in {0, 1}
    /\ ev_array \in Seq(Events)
    /\ interest \in [Events -> {"none", "persist", "oneshot", "off"}]
    /\ level \subseteq Events /\ hup \subseteq Fds /\ ready \subseteq Events
    /\ batch \subseteq Events /\ cur \in Events
    /\ lpc \in {"off", "top", "wait", "batch", "call", "after", "exit"}
    /\ upc \in {"idle", "notify", "join", "gone"}
    /\ use \in Uses /\ mine \subseteq use.events /\ credit \in [OneShots -> -1 .. 2]
    /\ batch # {} => lpc \in {"batch", "call", "after"}

\* libgevent.h: an event that was added and not deleted is freed by
\* gevent_base_destroy, a deleted one by the user; whatever was added, changed
\* and deleted in which order, no event is freed twice and none the base owns is
\* left.
FreedOnce ==
    /\ \A e \in Events : frees[e] <= 1
    /\ upc # "gone" => \A e \in ToSet(ev_array) : frees[e] = 0
    /\ upc = "gone" => \A e \in use.events \cup {Inner} : e \in mine \/ frees[e] = 1

\* A TIMER_ONESHOT calls back at most once for every time it was added or changed,
\* although its timerfd goes on expiring and it may be armed again between
\* epoll_wait and its callback.
OneShotFiresOnce == \A e \in OneShots : credit[e] >= 0

\* libgevent.h leaves freeing a deleted event to the user: an event is not used by
\* the dispatcher once it is freed.
DispatchedLives == lpc \in {"call", "after"} => frees[cur] = 0

\* gevent_base_loop_stop returns, wherever the loop is when loop is cleared.
StopReturns == (upc = "notify") ~> (upc = "idle")

\* Input on a file that is watched and does not hang up is read by its callback,
\* or the event is taken away, or the loop ends: no edge is lost between
\* epoll_wait, the callbacks, gevent_mod and gevent_base_signal.
InputHandled ==
    \A e \in Fds \cup {Inner} :
        (e \in level /\ interest[e] = "persist" /\ lpc # "off")
            ~> (e \notin level \/ interest[e] = "none" \/ e \in hup \/ loop = 0)
=============================================================================
