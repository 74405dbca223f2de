------------------------------- MODULE MCChat -------------------------------
(***************************************************************************)
(* Small chats: three users and two descriptors, so that a descriptor is    *)
(* given to a second client.                                                *)
(***************************************************************************)
EXTENDS Chat, TLC

CONSTANTS u1, u2, u3

MCUsers == {u1, u2, u3}
MCSocks == {4, 5}

Do(command) == [do |-> command]
Tell(to) == [do |-> "message", to |-> to]

Idle == << >>
Play(first, second, third, failing) ==
    [scripts |-> (u1 :> first) @@ (u2 :> second) @@ (u3 :> third), faults |-> failing]

\* The concurrent test: several ask for the time and leave, waiting for it or not.
Concurrent ==
    Play(<< Do("connect"), Do("time"), Do("wait"), Do("list") >>,
         << Do("connect"), Do("wait"), Do("exit") >>, Idle, 0)

\* A message to somebody who leaves and comes back.
Return ==
    Play(<< Do("connect"), Do("wait"), Tell(2) >>,
         << Do("connect"), Do("wait"), Do("disconnect"), Do("connect") >>, Idle, 0)

\* A message to somebody who leaves, and a third user who takes his place.
Replace ==
    Play(<< Do("connect"), Do("wait"), Tell(2) >>,
         << Do("connect"), Do("wait"), Do("exit") >>,
         << Do("wait"), Do("wait"), Do("connect") >>, 0)

\* Commands out of place, a client id that is none, and no thread to be had.
Wrong ==
    Play(<< Do("list"), Do("connect"), Do("connect"), Tell(NotANumber), Do("name") >>,
         << Do("exit") >>, Idle, 1)

MCScenarios == {Concurrent, Return, Wrong}
MCReplace == {Replace}

=============================================================================
