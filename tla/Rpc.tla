-------------------------------- MODULE Rpc --------------------------------
(***************************************************************************)
(* Remote calls over TCP (librpc/librpc.c and librpc/socket.c).            *)
(*                                                                         *)
(* A client has two threads: the one that calls rpc_client_create and      *)
(* rpc_call, and the dispatch thread of its event base.  Both read the     *)
(* same socket; rpc->state says which of them is meant to.  The server has *)
(* one thread that runs its event loop and hands requests to a pool of     *)
(* workers (module WorkQueue), which may run them in any order.            *)
(*                                                                         *)
(* Sockets are registered with EPOLLET: a socket is on the ready list once *)
(* however many messages came in, and each callback reads one message.     *)
(* thread_wait comes back after 2 seconds without a signal; it returns     *)
(* ETIMEDOUT then, which rpc_call, looking for -1, takes for success.      *)
(***************************************************************************)
EXTENDS Integers, FiniteSets, SequencesExt

CONSTANTS
  Clients,    \* addresses of clients: the uuid is made of the address
  Plans       \* what the clients do; see Plan

VARIABLES
  plan,       \* the plan this behaviour follows, chosen once
  cl,         \* cl[c]: the client c
  conn,       \* the connections ever made; a connection's index is its fd at
              \* the server, which never closes one
  backlog,    \* connections not accepted yet
  ready,      \* the server's epoll ready list; 0 is the listening socket
  batch,      \* what epoll_wait returned and is not handled yet
  sess,       \* every struct rpc_session ever made
  hash_session, hash_fd2session,
  tasks,      \* requests in the workers' queues
  got,        \* got[c]: what rpc_recv has returned to each rpc_call
  used        \* the server has used a session after it was freed

vars == <<plan, cl, conn, backlog, ready, batch, sess, hash_session,
          hash_fd2session, tasks, got, used>>

\* A plan: the calls a client makes ("call" returns a value, "post" is passed
\* on to another client and returns none), how often it comes and how often it
\* goes away.
Plan == [calls : [Clients -> Seq({"call", "post"})], comes : [Clients -> Nat],
         goes : [Clients -> Nat]]

Listen == 0

States == {"inited", "connected", "send_syn"}

-----------------------------------------------------------------------------
(* Sockets *)

\* A message is put on the connection to the server: an edge, unless the
\* socket is on the ready list already.
Raise(list, fd) == IF Contains(list, fd) THEN list ELSE Append(list, fd)

\* rpc_send of the server: sent to a client that is gone, a message comes back
\* as a reset, which is an event with EPOLLHUP.
SendDown(fd, msg) ==
  IF conn[fd].open
  THEN /\ conn' = [conn EXCEPT ![fd].down = Append(@, msg), ![fd].edge = TRUE]
       /\ ready' = ready
  ELSE /\ conn' = [conn EXCEPT ![fd].hup = TRUE]
       /\ ready' = IF conn[fd].accepted THEN Raise(ready, fd) ELSE ready

-----------------------------------------------------------------------------
(* The client's own thread *)

\* rpc_client_create, up to the wait for the server's first message.  A client
\* that comes back from the same port resets what is left of its connection.
Connect(c) ==
  /\ cl[c].pc = "off" /\ cl[c].runs < plan.comes[c]
  /\ conn' = Append([fd \in DOMAIN conn |->
                       [conn[fd] EXCEPT !.hup = @ \/ conn[fd].client = c]],
                    [client |-> c, open |-> TRUE, accepted |-> FALSE,
                     up |-> <<>>, down |-> <<>>, edge |-> FALSE, hup |-> FALSE])
  /\ backlog' = Append(backlog, Len(conn'))
  /\ ready' = Raise(IF cl[c].fd # 0 /\ conn[cl[c].fd].accepted
                    THEN Raise(ready, cl[c].fd) ELSE ready, Listen)
  /\ cl' = [cl EXCEPT ![c] =
              [@ EXCEPT !.pc = "created", !.state = "inited", !.dpc = "loop",
                        !.fd = Len(conn'), !.runs = @ + 1, !.late = FALSE,
                        !.stolen = FALSE]]
  /\ UNCHANGED <<plan, batch, sess, hash_session, hash_fd2session, tasks, got,
                 used>>

Client(c, new) ==
  /\ cl' = [cl EXCEPT ![c] = new]
  /\ UNCHANGED <<plan, conn, backlog, ready, batch, sess, hash_session,
                 hash_fd2session, tasks, got, used>>

InitWait(c) ==
  cl[c].pc = "created" /\ Client(c, [cl[c] EXCEPT !.pc = "initwait"])

\* The wait is over without a signal.  late: and without the first message.
InitTimeout(c) ==
  /\ cl[c].pc = "initwait"
  /\ Client(c, [cl[c] EXCEPT !.pc = "idle",
                             !.late = cl[c].state = "inited"
                                      /\ cl[c].dpc # "helloset"])

\* rpc_call, up to rpc_send.
Call(c) ==
  LET kind == plan.calls[c][cl[c].k + 1]
      fd == cl[c].fd
  IN  /\ cl[c].pc = "idle" /\ cl[c].k < Len(plan.calls[c])
      /\ conn' = [conn EXCEPT ![fd].up =
                    Append(@, [kind |-> kind, n |-> cl[c].k + 1, fd |-> fd])]
      /\ ready' = IF conn[fd].accepted THEN Raise(ready, fd) ELSE ready
      /\ cl' = [cl EXCEPT ![c].k = @ + 1,
                          ![c].pc = IF kind = "call" THEN "sent" ELSE "idle"]
      /\ UNCHANGED <<plan, backlog, batch, sess, hash_session, hash_fd2session,
                     tasks, got, used>>

SetSyn(c) ==
  /\ cl[c].pc = "sent"
  /\ Client(c, [cl[c] EXCEPT !.pc = "syn", !.state = "send_syn"])

Wait(c) == cl[c].pc = "syn" /\ Client(c, [cl[c] EXCEPT !.pc = "wait"])

WaitTimeoutFails(c) ==
  cl[c].pc = "wait" /\ Client(c, [cl[c] EXCEPT !.pc = "idle"])


WaitTimeout(c) == cl[c].pc = "wait" /\ Client(c, [cl[c] EXCEPT !.pc = "woken"])

Woken(c) ==
  /\ cl[c].pc = "woken"
  /\ Client(c, [cl[c] EXCEPT !.pc = "recv", !.state = "connected"])

\* rpc_recv blocks until there is a message: whichever it is, it is the result.
CallRecv(c) ==
  LET fd == cl[c].fd
  IN  /\ cl[c].pc = "recv" /\ conn[fd].down # <<>>
      /\ got' = [got EXCEPT ![c] = Append(@, [n |-> cl[c].k, odd |-> cl[c].late \/ cl[c].stolen,
                                              msg |-> Head(conn[fd].down)])]
      /\ conn' = [conn EXCEPT ![fd].down = Tail(@)]
      /\ cl' = [cl EXCEPT ![c].pc = "idle"]
      /\ UNCHANGED <<plan, backlog, ready, batch, sess, hash_session,
                     hash_fd2session, tasks, used>>

\* rpc_client_destroy between two calls, or the end of the process anywhere.
Gone(c) ==
  LET fd == cl[c].fd
  IN  /\ cl[c].pc # "off" /\ cl[c].runs <= plan.goes[c]
      /\ conn' = [conn EXCEPT ![fd].open = FALSE, ![fd].down = <<>>,
                              ![fd].edge = FALSE]
      /\ ready' = IF conn[fd].accepted THEN Raise(ready, fd) ELSE ready
      /\ cl' = [cl EXCEPT ![c].pc = "off", ![c].dpc = "loop"]
      /\ UNCHANGED <<plan, backlog, batch, sess, hash_session, hash_fd2session,
                     tasks, got, used>>

-----------------------------------------------------------------------------
(* The client's dispatch thread: on_connect_to_server *)

\* thread_signal wakes the thread if it waits, and is lost if it does not.
Signalled(pc) ==
  CASE pc = "initwait" -> "idle"
    [] pc = "wait" -> "woken"
    [] OTHER -> pc

\* epoll_wait returns the socket, with EPOLLIN if there still is something to read.
Dispatch(c) ==
  LET fd == cl[c].fd
  IN  /\ cl[c].pc # "off" /\ cl[c].dpc = "loop" /\ conn[fd].edge
      /\ conn' = [conn EXCEPT ![fd].edge = FALSE]
      /\ cl' = [cl EXCEPT ![c].dpc = IF conn[fd].down = <<>> THEN "loop" ELSE "event"]
      /\ UNCHANGED <<plan, backlog, ready, batch, sess, hash_session,
                     hash_fd2session, tasks, got, used>>

\* The callback looks at the state.
OnConnectToServer(c) ==
  /\ cl[c].dpc = "event"
  /\ Client(c, CASE cl[c].state = "inited" -> [cl[c] EXCEPT !.dpc = "hello"]
                 [] cl[c].state = "connected" -> [cl[c] EXCEPT !.dpc = "push"]
                 [] cl[c].state = "send_syn" ->
                      [cl[c] EXCEPT !.dpc = "loop", !.pc = Signalled(@)])

\* rpc_recv in the callback, blocking.  stolen: it took the answer of a call.
DispatchRecv(c) ==
  LET fd == cl[c].fd
      msg == Head(conn[fd].down)
  IN  /\ cl[c].dpc \in {"hello", "push"} /\ conn[fd].down # <<>>
      /\ conn' = [conn EXCEPT ![fd].down = Tail(@)]
      /\ cl' = [cl EXCEPT
                  ![c].stolen = @ \/ msg.kind = "reply",
                  ![c].pc = IF cl[c].dpc = "hello" THEN Signalled(@) ELSE @,
                  ![c].dpc = IF @ = "hello" THEN "helloset" ELSE "loop"]
      /\ UNCHANGED <<plan, backlog, ready, batch, sess, hash_session,
                     hash_fd2session, tasks, got, used>>

\* Both threads are in rpc_recv, which reads the header and then the rest.  One
\* takes the header and waits for the rest, which the other takes for a header
\* of the wrong size: its rpc_recv fails.
Torn(c) ==
  LET fd == cl[c].fd
  IN  /\ cl[c].dpc \in {"hello", "push"} /\ cl[c].pc = "recv"
      /\ conn[fd].down # <<>>
      /\ conn' = [conn EXCEPT ![fd].down = Tail(@)]
      /\ \/ cl' = [cl EXCEPT ![c].stolen = TRUE, ![c].dpc = "loop"]
         \/ cl' = [cl EXCEPT ![c].stolen = TRUE, ![c].pc = "idle"]
      /\ UNCHANGED <<plan, backlog, ready, batch, sess, hash_session,
                     hash_fd2session, tasks, got, used>>

HelloSet(c) ==
  /\ cl[c].dpc = "helloset"
  /\ Client(c, [cl[c] EXCEPT !.dpc = "loop", !.state = "connected"])

-----------------------------------------------------------------------------
(* The server *)


Event(fd) == [fd |-> fd, hup |-> fd # Listen /\ conn[fd].hup]

\* epoll_wait: the sockets in the order they became ready.
Collect ==
  /\ batch = <<>> /\ ready # <<>>
  /\ batch' = [i \in DOMAIN ready |-> Event(ready[i])]
  /\ ready' = <<>>
  /\ UNCHANGED <<plan, cl, conn, backlog, sess, hash_session, hash_fd2session,
                 tasks, got, used>>

\* on_connect_of_server: one connection per event.  Its messages so far count
\* as an edge when gevent_add registers it.  rpc_session_create says hello,
\* unless the address has a session already.
OnConnectOfServer ==
  LET fd == Head(backlog)
      c  == conn[fd].client
      old == hash_session[c]
      s  == IF old # 0 THEN old ELSE Len(sess) + 1
      hello == [kind |-> "hello", n |-> 0, fd |-> fd]
  IN  /\ batch # <<>> /\ Head(batch).fd = Listen
      /\ batch' = Tail(batch)
      /\ backlog' = Tail(backlog)
      /\ conn' = [conn EXCEPT
                    ![fd].accepted = TRUE,
                    ![fd].down = IF old = 0 /\ conn[fd].open
                                 THEN Append(@, hello) ELSE @,
                    ![fd].edge = @ \/ (old = 0 /\ conn[fd].open),
                    ![fd].hup = @ \/ (old = 0 /\ ~conn[fd].open)]
      /\ ready' = IF conn[fd].up # <<>> \/ ~conn[fd].open
                  THEN Raise(ready, fd) ELSE ready
      /\ sess' = IF old # 0
                 THEN sess ELSE Append(sess, [uuid |-> c, fd |-> fd, live |-> TRUE])
      /\ hash_session' = [hash_session EXCEPT ![c] = s]
      /\ hash_fd2session' = Append(hash_fd2session, [fd |-> fd, s |-> s])
      /\ UNCHANGED <<plan, cl, tasks, got, used>>

SessionOf(fd) ==
  hash_fd2session[SelectLastInSeq(hash_fd2session, LAMBDA e : e.fd = fd)].s


SetFd(session, fd) == [session EXCEPT !.fd = fd]

\* on_recv and on_message_from_client: one message per event, with a copy of
\* the session in the task; at the end of the stream rpc_session_destroy frees
\* the session and forgets its uuid, but not its fd.  epoll_dispatch calls
\* nothing for an event with EPOLLHUP.
OnRecv ==
  LET fd == Head(batch).fd
      s  == SessionOf(fd)
      ss == [sess EXCEPT ![s] = SetFd(@, fd)]
      found == hash_session[sess[s].uuid]
  IN  /\ batch # <<>> /\ fd # Listen /\ ~Head(batch).hup
      /\ conn[fd].up # <<>> \/ ~conn[fd].open
      /\ batch' = Tail(batch)
      /\ used' = (used \/ ~sess[s].live)
      /\ IF conn[fd].up # <<>>
         THEN /\ conn' = [conn EXCEPT ![fd].up = Tail(@)]
              /\ sess' = ss
              /\ tasks' = tasks \cup {[fd |-> ss[s].fd, msg |-> Head(conn[fd].up)]}
              /\ hash_session' = hash_session
         ELSE /\ sess' = IF found = 0 THEN ss ELSE [ss EXCEPT ![found].live = FALSE]
              /\ hash_session' = [hash_session EXCEPT ![sess[s].uuid] = 0]
              /\ UNCHANGED <<conn, tasks>>
      /\ UNCHANGED <<plan, cl, backlog, ready, hash_fd2session, got>>

OnHup ==
  /\ batch # <<>> /\ Head(batch).fd # Listen /\ Head(batch).hup
  /\ batch' = Tail(batch)
  /\ UNCHANGED <<plan, cl, conn, backlog, ready, sess, hash_session,
                 hash_fd2session, tasks, got, used>>

\* A worker runs a task.  The callback of a call answers it (process_wq); that
\* of a post passes it on to the session of another client, as the callback
\* on_peer_post_msg of the tests does.
ProcessWq ==
  \E t \in tasks :
    /\ tasks' = tasks \ {t}
    /\ \/ /\ t.msg.kind = "call"
          /\ SendDown(t.fd, [kind |-> "reply", n |-> t.msg.n, fd |-> t.msg.fd])
       \/ /\ t.msg.kind = "post"
          /\ \E c \in Clients \ {conn[t.msg.fd].client} :
               IF hash_session[c] = 0
               THEN UNCHANGED <<conn, ready>>
               ELSE SendDown(sess[hash_session[c]].fd,
                             [kind |-> "push", n |-> t.msg.n, fd |-> t.msg.fd])
    /\ UNCHANGED <<plan, cl, backlog, batch, sess, hash_session,
                   hash_fd2session, got, used>>

-----------------------------------------------------------------------------

Init ==
  /\ plan \in Plans
  /\ cl = [c \in Clients |->
             [pc |-> "off", state |-> "inited", dpc |-> "loop", fd |-> 0, k |-> 0,
              runs |-> 0, late |-> FALSE, stolen |-> FALSE]]
  /\ conn = <<>> /\ backlog = <<>> /\ ready = <<>> /\ batch = <<>>
  /\ sess = <<>> /\ hash_session = [c \in Clients |-> 0]
  /\ hash_fd2session = <<>> /\ tasks = {}
  /\ got = [c \in Clients |-> <<>>] /\ used = FALSE

ServerStep == Collect \/ OnConnectOfServer \/ OnRecv \/ OnHup

CallerStep(c) ==
  \/ InitWait(c) \/ InitTimeout(c) \/ SetSyn(c) \/ Wait(c) \/ WaitTimeout(c)
  \/ Woken(c) \/ CallRecv(c)

DispatchStep(c) ==
  \/ Dispatch(c) \/ OnConnectToServer(c) \/ DispatchRecv(c) \/ Torn(c)
  \/ HelloSet(c)

Next ==
  \/ \E c \in Clients : Connect(c) \/ Call(c) \/ Gone(c)
  \/ \E c \in Clients : CallerStep(c)
  \/ \E c \in Clients : DispatchStep(c)
  \/ ServerStep
  \/ ProcessWq

Spec == Init /\ [][Next]_vars

\* Every thread keeps running; whether a client connects, calls or goes away is
\* its own affair.
FairSpec ==
  /\ Spec
  /\ \A c \in Clients : WF_vars(CallerStep(c)) /\ WF_vars(DispatchStep(c))
  /\ WF_vars(ServerStep) /\ WF_vars(ProcessWq)
-----------------------------------------------------------------------------
(* Properties *)

InCall(c) == cl[c].pc \in {"sent", "syn", "wait", "woken", "recv"}

\* Types; a socket is at most once on the ready list.
TypeOK ==
  /\ plan \in Plan
  /\ \A c \in Clients :
       /\ cl[c].pc \in {"off", "created", "initwait", "idle"}
                       \cup {"sent", "syn", "wait", "woken", "recv"}
       /\ cl[c].state \in States
       /\ cl[c].dpc \in {"loop", "event", "hello", "helloset", "push"}
       /\ cl[c].fd \in 0..Len(conn)
  /\ hash_session \in [Clients -> 0..Len(sess)]
  /\ \A i \in DOMAIN ready : ready[i] \in 0..Len(conn)
  /\ IsInjective(ready)

\* A call returns the answer to its own request, though nothing in a message
\* is compared with the request: there is one call at a time, and whatever
\* waits on the socket is taken for its answer.  Three things break it and are
\* excluded here: a client that gave up waiting for the server's first
\* message, a dispatch thread that took part of an answer, and messages the
\* server passes on from other clients.
OwnReply ==
  \A c \in Clients : \A i \in DOMAIN got[c] :
    \/ got[c][i].odd
    \/ \E o \in Clients \ {c} : Contains(plan.calls[o], "post")
    \/ got[c][i].msg.kind = "reply" /\ got[c][i].msg.n = got[c][i].n



\* A call comes back once the server has accepted the connection, unless the
\* dispatch thread took the answer because it came before the state changed to
\* rpc_send_syn or after a wait that timed out.
CallReturns ==
  \A c \in Clients :
    (InCall(c) /\ conn[cl[c].fd].accepted /\ ~Contains(plan.calls[c], "post"))
      ~> (~InCall(c) \/ cl[c].stolen)

-----------------------------------------------------------------------------
(* Statements the code does not meet *)

\* A call returns the answer to its own request whatever else the server
\* sends.  rpc_call takes a message passed on from another client for it.
ReplyMatches ==
  \A c \in Clients : \A i \in DOMAIN got[c] :
    got[c][i].msg.kind = "reply" /\ got[c][i].msg.n = got[c][i].n

\* A call whose connection was accepted comes back.  When thread_wait times out
\* and the dispatch thread takes the answer, rpc_recv waits for another.
CallAnswered ==
  \A c \in Clients : (InCall(c) /\ conn[cl[c].fd].accepted) ~> ~InCall(c)

\* Every connection is accepted.  Two that come together are one edge, and
\* on_connect_of_server accepts one.
Accepted ==
  \A c \in Clients :
    cl[c].pc # "off" ~> (cl[c].pc = "off" \/ conn[cl[c].fd].accepted)

\* Every request that has arrived is read.  Two that come together are one
\* edge, and on_recv reads one.
RequestsRead ==
  \A fd \in 1..2 :
    (fd \in DOMAIN conn /\ conn[fd].accepted /\ conn[fd].up # <<>>)
      ~> (fd \in DOMAIN conn /\ conn[fd].up = <<>>)
=============================================================================
