-------------------------------- MODULE Ipc --------------------------------
(***************************************************************************)
(* libipc over POSIX message queues: a client that calls, a server that    *)
(* answers, and on both sides the threads mq_notify starts, which share    *)
(* one receive buffer.  The two sides are connected; the server has yet to *)
(* register its callback.                                                  *)
(***************************************************************************)
EXTENDS Integers, Sequences, FiniteSets

CONSTANTS NeedReturn, NoReturn,  \* func_ids with and without the return bit
          MaxMsg,                \* MQ_MAXMSG
          Threads,               \* bound: notification threads of a side at a time
          MaxCalls               \* bound: calls

ASSUME IpcAssumption ==
    /\ NeedReturn \cap NoReturn = {} /\ MaxMsg \in Nat \ {0} /\ IsFiniteSet(Threads)
    /\ MaxCalls \in Nat

Funcs == NeedReturn \cup NoReturn
Sides == {"client", "server"}
Other(s) == IF s = "client" THEN "server" ELSE "client"
Packets == [func : Funcs, kind : {"request", "reply"}, call : 1 .. MaxCalls]
None == [func |-> "none", kind |-> "none", call |-> 0]

VARIABLES mq,        \* mq_rd of each side
          notify,    \* whether mq_notify is armed on it
          recv_buf,  \* _mq_recv_buf
          recv_cb,   \* whether _mq_recv_cb is set
          pc, local, \* of each notification thread: its place, and what it has unpacked
          arg_buf,   \* _arg_buf of the server
          async,     \* async_cmd_list of the client
          resp_buf, sem,   \* of the client
          caller,    \* the calling thread: its place, func_id and number of the call
          result,    \* what each call that has returned gave: a packet, or "failed"
          handled,   \* how often the handler ran for each call
          alone      \* whether every call so far began, and every one that timed out
                     \* gave up, with no thread of either side at work

client == <<async, resp_buf, sem, caller, result, alone>>
queues == <<mq, notify, recv_buf, recv_cb>>
vars == <<queues, pc, local, arg_buf, client, handled>>

Init ==
    /\ mq = [s \in Sides |-> <<>>] /\ notify = [s \in Sides |-> TRUE]
    /\ recv_buf = [s \in Sides |-> None] /\ recv_cb = [s \in Sides |-> s = "client"]
    /\ pc = [s \in Sides |-> [t \in Threads |-> "none"]]
    /\ local = [s \in Sides |-> [t \in Threads |-> None]]
    /\ arg_buf = None /\ async = {} /\ resp_buf = None /\ sem = 0
    /\ caller = [at |-> "idle", func |-> "none", call |-> 0]
    /\ result = [c \in {} |-> None]
    /\ handled = [c \in 1 .. MaxCalls |-> 0] /\ alone = TRUE

-----------------------------------------------------------------------------
\* mq_send to side s, by a thread whose step makes pc moved: a message that arrives
\* on an empty queue starts a thread and disarms mq_notify
Send(s, m, moved) ==
    /\ Len(mq[s]) < MaxMsg
    /\ mq' = [mq EXCEPT ![s] = Append(@, m)]
    /\ IF notify[s] /\ mq[s] = <<>>
       THEN /\ notify' = [notify EXCEPT ![s] = FALSE]
            /\ \E t \in Threads :
                 /\ pc[s][t] = "none"
                 /\ pc' = [moved EXCEPT ![s][t] = "notify"]
       ELSE notify' = notify /\ pc' = moved

\* no notification thread of either side is at work
AtRest == \A s \in Sides, t \in Threads : pc[s][t] = "none"

Goto(s, t, at) == pc' = [pc EXCEPT ![s][t] = at]

\* ipc_create of the server, after the connection is made
register_recv_cb ==
    /\ ~recv_cb["server"]
    /\ recv_cb' = [recv_cb EXCEPT !["server"] = TRUE]
    /\ UNCHANGED <<mq, notify, recv_buf, pc, local, arg_buf, client, handled>>

\* ipc_call up to pack_msg
Call(f) ==
    /\ caller.at = "idle" /\ caller.call < MaxCalls
    /\ caller' = [at |-> "send", func |-> f, call |-> caller.call + 1]
    /\ alone' = (alone /\ AtRest)
    /\ UNCHANGED <<queues, pc, local, arg_buf, async, resp_buf, sem, result, handled>>

\* mq_send, which blocks while the queue is full
SendCall ==
    /\ caller.at = "send"
    /\ Send("server", [func |-> caller.func, kind |-> "request", call |-> caller.call], pc)
    /\ caller' = [caller EXCEPT !.at = IF caller.func \in NeedReturn THEN "push" ELSE "idle"]
    /\ UNCHANGED <<recv_buf, recv_cb, local, arg_buf, async, resp_buf, sem, result, handled,
                   alone>>

push_async_cmd ==
    /\ caller.at = "push"
    /\ async' = async \cup {caller.func}
    /\ caller' = [caller EXCEPT !.at = "wait"]
    /\ UNCHANGED <<queues, pc, local, arg_buf, resp_buf, sem, result, handled, alone>>

\* sem_timedwait that gets the semaphore
Waited ==
    /\ caller.at = "wait" /\ sem > 0
    /\ sem' = sem - 1
    /\ caller' = [caller EXCEPT !.at = "copy"]
    /\ UNCHANGED <<queues, pc, local, arg_buf, async, resp_buf, result, handled, alone>>

Return(r) ==
    /\ result' = [c \in DOMAIN result \cup {caller.call} |->
                     IF c = caller.call THEN r ELSE result[c]]
    /\ caller' = [caller EXCEPT !.at = "idle"]

\* Mutant: a timeout waits once more.
TimedOut_waits ==
    /\ caller.at = "wait" /\ sem = 0
    /\ UNCHANGED vars

\* Mutant: a timeout goes on to the memcpy.
TimedOut_copies ==
    /\ caller.at = "wait" /\ sem = 0
    /\ alone' = (alone /\ AtRest)
    /\ caller' = [caller EXCEPT !.at = "copy"]
    /\ UNCHANGED <<queues, pc, local, arg_buf, async, resp_buf, sem, result, handled>>


\* sem_timedwait that runs out; the func_id stays in async_cmd_list
TimedOut ==
    /\ caller.at = "wait" /\ sem = 0
    /\ alone' = (alone /\ AtRest)
    /\ Return([None EXCEPT !.kind = "failed"])
    /\ UNCHANGED <<queues, pc, local, arg_buf, async, resp_buf, sem, handled>>

\* the memcpy from resp_buf
Copied ==
    /\ caller.at = "copy"
    /\ Return(resp_buf)
    /\ UNCHANGED <<queues, pc, local, arg_buf, async, resp_buf, sem, handled, alone>>

-----------------------------------------------------------------------------
\* on_recv of thread t of side s: mq_notify fails when it is armed already
_mq_notify_update(s, t) ==
    /\ pc[s][t] = "notify"
    /\ notify' = [notify EXCEPT ![s] = TRUE]
    /\ Goto(s, t, IF notify[s] THEN "none" ELSE "recv")
    /\ UNCHANGED <<mq, recv_buf, recv_cb, local, arg_buf, client, handled>>

\* mq_receive does not block
_mq_recv(s, t) ==
    /\ pc[s][t] = "recv"
    /\ IF mq[s] = <<>> THEN Goto(s, t, "none") /\ UNCHANGED <<mq, recv_buf>>
       ELSE /\ recv_buf' = [recv_buf EXCEPT ![s] = Head(mq[s])]
            /\ mq' = [mq EXCEPT ![s] = Tail(@)]
            /\ Goto(s, t, "header")
    /\ UNCHANGED <<notify, recv_cb, local, arg_buf, client, handled>>

\* the callback, if there is one, up to the func_id that unpack_msg reads
UnpackHeader(s, t) ==
    /\ pc[s][t] = "header"
    /\ IF recv_cb[s]
       THEN /\ local' = [local EXCEPT ![s][t].func = recv_buf[s].func]
            /\ resp_buf' = IF s = "client" THEN None ELSE resp_buf
            /\ Goto(s, t, "payload")
       ELSE Goto(s, t, "none") /\ UNCHANGED <<local, resp_buf>>
    /\ UNCHANGED <<queues, arg_buf, async, sem, caller, result, handled, alone>>

\* the memcpy of unpack_msg: to the stack of process_msg, or to resp_buf
UnpackPayload(s, t) ==
    LET p == [recv_buf[s] EXCEPT !.func = local[s][t].func]
    IN  /\ pc[s][t] = "payload"
        /\ local' = [local EXCEPT ![s][t] = p]
        /\ resp_buf' = IF s = "client" THEN p ELSE resp_buf
        /\ Goto(s, t, IF s = "client" THEN "get" ELSE "handle")
        /\ UNCHANGED <<queues, arg_buf, async, sem, caller, result, handled, alone>>

\* process_msg: the handler fills _arg_buf when its func_id returns something
Handle(t) ==
    LET p == local["server"][t]
    IN  /\ pc["server"][t] = "handle"
        /\ handled' = [handled EXCEPT ![p.call] = @ + 1]
        /\ IF p.func \in NeedReturn
           THEN arg_buf' = [p EXCEPT !.kind = "reply"] /\ Goto("server", t, "pack")
           ELSE arg_buf' = arg_buf /\ Goto("server", t, "none")
        /\ UNCHANGED <<queues, local, client>>

\* pack_msg of the reply, into the receive buffer
pack_msg(t) ==
    /\ pc["server"][t] = "pack"
    /\ recv_buf' = [recv_buf EXCEPT !["server"] =
                       [arg_buf EXCEPT !.func = local["server"][t].func]]
    /\ Goto("server", t, "send")
    /\ UNCHANGED <<mq, notify, recv_cb, local, arg_buf, client, handled>>

Reply(t) ==
    /\ pc["server"][t] = "send"
    /\ Send("client", recv_buf["server"], [pc EXCEPT !["server"][t] = "none"])
    /\ UNCHANGED <<recv_buf, recv_cb, local, arg_buf, client, handled>>

\* dict_get and dict_del of the func_id
pop_async_cmd(t) ==
    LET f == local["client"][t].func
    IN  /\ pc["client"][t] \in {"get", "del"}
        /\ IF pc["client"][t] = "get"
           THEN async' = async /\ Goto("client", t, IF f \in async THEN "del" ELSE "none")
           ELSE async' = async \ {f} /\ Goto("client", t, "post")
        /\ UNCHANGED <<queues, local, arg_buf, resp_buf, sem, caller, result, handled, alone>>

\* Mutant: mq_notify is armed again after the callback.
Post_rearms(t) ==
    /\ pc["client"][t] = "post"
    /\ sem' = sem + 1
    /\ Goto("client", t, "notify")
    /\ UNCHANGED <<queues, local, arg_buf, async, resp_buf, caller, result, handled, alone>>

\* the end of on_return
Post(t) ==
    /\ pc["client"][t] = "post"
    /\ sem' = sem + 1
    /\ Goto("client", t, "none")
    /\ UNCHANGED <<queues, local, arg_buf, async, resp_buf, caller, result, handled, alone>>

\* the caller has made its calls
Done ==
    /\ caller.at = "idle" /\ caller.call = MaxCalls
    /\ recv_cb["server"] /\ AtRest
    /\ UNCHANGED vars

Receiving(s, t) ==
    \/ _mq_notify_update(s, t) \/ _mq_recv(s, t)
    \/ UnpackHeader(s, t) \/ UnpackPayload(s, t)
Serving(t) == Handle(t) \/ pack_msg(t) \/ Reply(t)
Returning(t) == pop_async_cmd(t) \/ Post(t)
Calling == SendCall \/ push_async_cmd \/ Waited \/ TimedOut \/ Copied

Next ==
    \/ register_recv_cb
    \/ \E f \in Funcs : Call(f)
    \/ SendCall \/ push_async_cmd \/ Waited \/ TimedOut \/ Copied
    \/ \E s \in Sides, t \in Threads : Receiving(s, t)
    \/ \E t \in Threads : Serving(t) \/ Returning(t)
    \/ Done

Spec == Init /\ [][Next]_vars

\* every thread that can take a step takes one; no call need ever be made
FairSpec ==
    /\ Spec
    /\ WF_vars(register_recv_cb) /\ WF_vars(Calling)
    /\ \A t \in Threads : /\ \A s \in Sides : WF_vars(Receiving(s, t))
                          /\ WF_vars(Serving(t)) /\ WF_vars(Returning(t))

-----------------------------------------------------------------------------

\* Types.
TypeOK ==
    /\ mq \in [Sides -> Seq(Packets)] /\ \A s \in Sides : Len(mq[s]) <= MaxMsg
    /\ recv_buf \in [Sides -> Packets \cup {None}] /\ arg_buf \in Packets \cup {None}
    /\ async \subseteq NeedReturn /\ sem \in 0 .. MaxCalls

\* Between them, re-arming mq_notify before receiving and receiving one message a
\* thread keep mq_notify free for the thread that is to arm it, and leave a message
\* for each thread that is to receive one: on_recv gives up on neither.
NotifiedReceives ==
    \A s \in Sides :
      LET at(l) == {t \in Threads : pc[s][t] = l}
      IN  /\ at("notify") # {} => ~notify[s] /\ Cardinality(at("notify")) = 1
          /\ Cardinality(at("notify") \cup at("recv")) <= Len(mq[s])

\* A call that does not fail returns the reply to itself, not one to an earlier call:
\* the check of pop_async_cmd against "msg received is not the response of cmd_id".
OwnReplyAlways ==
    \A c \in DOMAIN result :
      result[c].kind = "failed" \/ (result[c].kind = "reply" /\ result[c].call = c)

\* The same while calls come one at a time, whatever was dropped before the server
\* registered its callback or before push_async_cmd.
OwnReply == alone => OwnReplyAlways


\* The return indicator of a func_id says "1: need return": a call whose handler has
\* run to its end in time does not fail.
AnsweredReturns ==
    alone => \A c \in DOMAIN result : result[c].kind = "failed" => handled[c] = 0

\* "create thread to wait message": a message that is sent to the server is taken
\* from the queue.
EveryMessageReceived == mq["server"] # <<>> ~> mq["server"] = <<>>

\* ipc_call waits for "timeout = 2000;//msec" and no longer: every call returns.
CallAlwaysReturns == caller.at # "idle" ~> caller.at = "idle"

\* The same while calls come one at a time: none is left waiting, in mq_send or for
\* the semaphore.
CallReturns == caller.at # "idle" ~> (caller.at = "idle" \/ ~alone)
=============================================================================
