------------------------------- MODULE MCRpc -------------------------------
(* Two clients of the model of librpc. *)
EXTENDS Rpc

Two(x, y) == "a" :> x @@ "b" :> y

\* Each of two clients makes a call.
TwoCallers == [calls |-> Two(<<"call">>, <<"call">>), comes |-> Two(1, 1),
               goes |-> Two(0, 0)]

\* One client, that goes away at any point and comes back from the same port.
ComesBack == [calls |-> Two(<<"call", "call">>, <<>>), comes |-> Two(2, 0),
              goes |-> Two(1, 0)]

\* The server passes a message of a on to b, which makes a call.
Posts == [calls |-> Two(<<"post">>, <<"call">>), comes |-> Two(1, 1),
          goes |-> Two(0, 0)]

\* Two calls in a row.
CallsAgain == [calls |-> Two(<<"call", "call">>, <<>>), comes |-> Two(1, 0),
               goes |-> Two(0, 0)]

\* A message that has no answer, and a call right behind it.
PostsFirst == [calls |-> Two(<<"post", "call">>, <<>>), comes |-> Two(1, 0),
               goes |-> Two(0, 0)]

MCClients == {"a", "b"}
MCPlans == {ComesBack, Posts, CallsAgain}
PostPlans == {Posts}
CallPlans == {CallsAgain}
TwoPlans == {TwoCallers}
PostsFirstPlans == {PostsFirst}
============================================================================
