------------------------------ MODULE MCGevent ------------------------------
(***************************************************************************)
(* Two events for the model of libgevent: a file and a one-shot timer, in  *)
(* both uses, or a file and a periodic timer.                              *)
(***************************************************************************)
EXTENDS Gevent

Created(events, cb) == [events |-> events, cb_frees |-> cb]

MCUses == { Created(Fds \cup OneShots, TRUE), Created(Fds \cup OneShots, FALSE),
            Created(Fds \cup Timers, FALSE) }
OneFile == { Created(Fds, TRUE) }
=============================================================================
