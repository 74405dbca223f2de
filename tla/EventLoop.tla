------------------------------ MODULE EventLoop ------------------------------
(***************************************************************************)
(* One call of wait_next_event (libsponge/util/eventloop.cc): the rules that *)
(* are interested before the poll are called back after it, in the order    *)
(* they were added, whatever the callbacks before them did.                 *)
(*                                                                          *)
(* Left out are three ways out of the call: a signal (EINTR), an error on a *)
(* descriptor (POLLERR, POLLNVAL: no descriptor here is closed or reset     *)
(* while it is polled), and the exception of the check for a busy loop,     *)
(* which only asks that a callback read or write its descriptor, and every  *)
(* callback of this program does, be it no bytes.  That a poll returns at   *)
(* once for a hangup of a rule nobody is interested in is not told apart    *)
(* from one that times out.                                                 *)
(***************************************************************************)
EXTENDS Integers, Sequences

CONSTANTS Rules,             \* in the order they were added
          Defunct(_, _),     \* rule, state: its descriptor is closed, or at EOF and to be read
          Interested(_, _),
          Ready(_, _),       \* poll() reports the direction the rule asks for
          HangUp(_, _),      \* poll() reports POLLHUP
          Callback(_, _),
          Cancel(_, _),
          Failed(_)          \* a callback has thrown

\* First a rule whose descriptor is done goes, and another says what it wants.
Enlist(acc, r) ==
    IF r \notin acc.rules THEN acc
    ELSE IF Defunct(r, acc.st) THEN [acc EXCEPT !.rules = @ \ {r}, !.st = Cancel(r, @)]
    ELSE IF Interested(r, acc.st) THEN [acc EXCEPT !.polled = @ \cup {r}] ELSE acc

SetUp(rules, st) ==
    LET after[n \in 0..Len(Rules)] ==
            IF n = 0 THEN [rules |-> rules, st |-> st, polled |-> {}]
            ELSE Enlist(after[n - 1], Rules[n])
    IN  after[Len(Rules)]

\* Then poll() tells which of them are ready, and whose descriptors hung up.
Poll(now) ==
    [rules |-> now.rules, st |-> now.st, polled |-> now.polled,
     ready |-> {r \in now.polled : Ready(r, now.st)},
     hungup |-> {r \in now.rules : HangUp(r, now.st)}]

\* Those that are ready are called back; one that only hung up is cancelled.
Serve(acc, r) ==
    IF r \notin acc.rules \/ Failed(acc.st) THEN acc
    ELSE IF r \in acc.ready THEN [acc EXCEPT !.st = Callback(r, @)]
    ELSE IF r \in acc.hungup \cap acc.polled
         THEN [acc EXCEPT !.rules = @ \ {r}, !.st = Cancel(r, @)]
    ELSE acc

Dispatch(now) ==
    LET after[n \in 0..Len(Rules)] == IF n = 0 THEN now ELSE Serve(after[n - 1], Rules[n])
    IN  after[Len(Rules)]

\* The rules and the state after the call, its result, and whether anybody was called.
Outcome(done) ==
    [rules |-> done.rules, st |-> done.st, served |-> done.ready # {},
     result |-> IF done.polled = {} THEN "Exit"
                ELSE IF done.ready \cup done.hungup = {} THEN "Timeout" ELSE "Success"]

wait_next_event(rules, st) == Outcome(Dispatch(Poll(SetUp(rules, st))))
=============================================================================
