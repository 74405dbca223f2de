------------------------------ MODULE ChatProofs ------------------------------
(***************************************************************************)
(* The table of the chat server has an entry exactly for the clients it      *)
(* serves, for any users, scripts, number of descriptors and failed threads. *)
(* The argument: a client's step and most of the server's leave what the     *)
(* table is about alone; RemoveClient erases while it still holds the        *)
(* descriptor, so nobody else can have it.                                   *)
(*                                                                         *)
(* What its clients are told: an id of their own and the replies to their   *)
(* requests, in order.  The argument: between two recv() a thread owes its   *)
(* client at most one reply, which is the last of its sends; the descriptor  *)
(* that it sends to is its own as long as it serves; and a client asks for   *)
(* an id once, before anything else, on each connection.                     *)
(***************************************************************************)
EXTENDS Chat, SequenceTheorems, FiniteSetTheorems, TLAPS

\* A sequence, of whatever it holds.
Listed(s) == s \in Seq({s[i] : i \in DOMAIN s})

ConnFields == {"user", "sock", "up", "handled", "down", "seen", "client_open", "server",
               "broken"}
WorkerFields == {"sends", "closing"}

Shapes ==
    /\ Listed(conns) /\ Listed(worker)
    /\ \A c \in DOMAIN conns :
        DOMAIN conns[c] = ConnFields /\ DOMAIN worker[c] = WorkerFields

\* Nobody takes a client off that was not admitted yet.
NewAreServed ==
    \A c \in DOMAIN conns : conns[c].server = "backlog" => ~worker[c].closing

Inv == TypeOK /\ EntryPerClient /\ Shapes /\ NewAreServed

----------------------------------------------------------------------------
(* Sequences of unknown elements.                                           *)

\* A sequence is a function on 1..Len.
LEMMA ListedDomain ==
    ASSUME NEW s, Listed(s)
    PROVE  Len(s) \in Nat /\ DOMAIN s = 1..Len(s) /\ s = [i \in DOMAIN s |-> s[i]]
  <1> DEFINE S == {s[i] : i \in DOMAIN s}
  <1>1. s \in Seq(S)
    BY DEF Listed
  <1> HIDE DEF S
  <1> QED
    BY <1>1

\* A function on the domain of a sequence is a sequence.
LEMMA ListedSame ==
    ASSUME NEW s, Listed(s), NEW t, t = [i \in DOMAIN s |-> t[i]]
    PROVE  Listed(t) /\ DOMAIN t = DOMAIN s
  <1>1. Len(s) \in Nat /\ DOMAIN s = 1..Len(s)
    BY ListedDomain
  <1>2. DOMAIN t = DOMAIN s
    OBVIOUS
  <1> DEFINE T == {t[i] : i \in DOMAIN t}
  <1>3. \A i \in 1..Len(s) : t[i] \in T
    BY <1>1, <1>2
  <1> HIDE DEF T
  <1>4. t \in [1..Len(s) -> T]
    BY <1>1, <1>2, <1>3
  <1>5. t \in Seq(T)
    BY <1>1, <1>4, SeqDef
  <1> QED
    BY <1>2, <1>5 DEF Listed, T

\* What Append adds, and that it stays a sequence.
LEMMA ListedAppend ==
    ASSUME NEW s, Listed(s), NEW e
    PROVE  LET t == Append(s, e)
           IN  /\ Listed(t)
               /\ Len(t) = Len(s) + 1
               /\ DOMAIN t = 1..(Len(s) + 1)
               /\ t[Len(s) + 1] = e
               /\ \A i \in DOMAIN s : t[i] = s[i]
  <1> DEFINE S == {s[i] : i \in DOMAIN s} \cup {e}
             t == Append(s, e)
             T == {t[i] : i \in DOMAIN t}
  <1>1. Len(s) \in Nat /\ DOMAIN s = 1..Len(s) /\ s = [i \in DOMAIN s |-> s[i]]
    BY ListedDomain
  <1>2. \A i \in 1..Len(s) : s[i] \in S
    BY <1>1
  <1>3. e \in S
    OBVIOUS
  <1> HIDE DEF S
  <1>4. s \in [1..Len(s) -> S]
    BY <1>1, <1>2
  <1>5. s \in Seq(S)
    BY <1>1, <1>4, SeqDef
  <1>6. /\ t \in Seq(S) /\ Len(t) = Len(s) + 1
        /\ t[Len(s) + 1] = e /\ \A i \in 1..Len(s) : t[i] = s[i]
    BY <1>3, <1>5, AppendProperties
  <1> HIDE DEF t
  <1>7. DOMAIN t = 1..(Len(s) + 1) /\ t = [i \in 1..(Len(s) + 1) |-> t[i]]
    <2> HIDE DEF T
    <2> QED BY <1>6
  <1>8. \A i \in 1..(Len(s) + 1) : t[i] \in T
    BY <1>7
  <1>9. t \in [1..(Len(s) + 1) -> T]
    <2> HIDE DEF T
    <2> QED BY <1>7, <1>8
  <1>10. t \in Seq(T)
    BY <1>1, <1>9, SeqDef
  <1>11. Listed(t)
    BY <1>10 DEF Listed, T
  <1> QED
    BY <1>1, <1>6, <1>7, <1>11 DEF t

----------------------------------------------------------------------------
(* The steps.                                                               *)

\* A step that leaves alone who holds which descriptor, who is taken off and which
\* descriptors have an entry.
Quiet ==
    /\ clients' \in [Socks -> Nat \cup {Absent}]
    /\ \A s \in Socks : clients'[s] = Absent <=> clients[s] = Absent
    /\ next_client_id' \in Nat \ {0}
    /\ conns' = [c \in DOMAIN conns |-> conns'[c]]
    /\ worker' = [c \in DOMAIN worker |-> worker'[c]]
    /\ \A c \in DOMAIN conns :
        /\ DOMAIN conns'[c] = ConnFields /\ DOMAIN worker'[c] = WorkerFields
        /\ conns'[c].server = conns[c].server /\ conns'[c].sock = conns[c].sock
        /\ worker'[c].closing = worker[c].closing

\* Such a step keeps the invariant.
LEMMA QuietStep == Inv /\ Quiet => Inv'
  <1> SUFFICES ASSUME Inv, Quiet PROVE Inv'
    OBVIOUS
  <1>1. DOMAIN conns' = DOMAIN conns /\ DOMAIN worker' = DOMAIN worker
    BY DEF Quiet
  <1>2. TypeOK'
    BY <1>1 DEF Inv, Quiet, TypeOK
  <1>3. Shapes'
    BY <1>1, ListedSame DEF Inv, Quiet, Shapes
  <1>4. NewAreServed'
    BY <1>1 DEF Inv, Quiet, NewAreServed
  <1>5. \A s \in Socks : Holders(s)' = Holders(s)
    BY <1>1 DEF Quiet, Holders
  <1>6. EntryPerClient'
    <2>1. \A s \in Socks : (\E c \in Holders(s)' : ~worker'[c].closing)
                              <=> (\E c \in Holders(s) : ~worker[c].closing)
      BY <1>1, <1>5 DEF Quiet, Holders
    <2>2. \A s \in Socks : (clients'[s] # Absent) <=> (\E c \in Holders(s)' : ~worker'[c].closing)
      BY <2>1 DEF Inv, Quiet, EntryPerClient
    <2>3. \A c, d \in DOMAIN conns' :
            conns'[c].server = "open" /\ conns'[d].server = "open" /\ conns'[c].sock = conns'[d].sock
                => c = d
      BY <1>1 DEF Inv, Quiet, EntryPerClient
    <2> QED
      BY <2>2, <2>3 DEF EntryPerClient
  <1> QED
    BY <1>2, <1>3, <1>4, <1>6 DEF Inv

\* The thread of a connection changes what that connection and its worker hold, not
\* who they are.
LEMMA ThreadIsQuiet ==
    ASSUME Inv, NEW c \in DOMAIN conns, NEW sends, NEW handled,
           clients' = clients, next_client_id' \in Nat \ {0},
           worker' = [worker EXCEPT ![c].sends = sends],
           conns' = [conns EXCEPT ![c].handled = handled]
    PROVE  Inv'
  <1>1. conns = [d \in DOMAIN conns |-> conns[d]] /\ worker = [d \in DOMAIN worker |-> worker[d]]
        /\ DOMAIN worker = DOMAIN conns
    BY ListedDomain DEF Inv, Shapes, TypeOK
  <1>2. \A d \in DOMAIN conns :
            DOMAIN conns[d] = ConnFields /\ DOMAIN worker[d] = WorkerFields
    BY DEF Inv, Shapes
  <1>3. \A d \in DOMAIN conns :
            /\ DOMAIN conns'[d] = ConnFields /\ DOMAIN worker'[d] = WorkerFields
            /\ conns'[d].server = conns[d].server /\ conns'[d].sock = conns[d].sock
            /\ worker'[d].closing = worker[d].closing
    BY <1>1, <1>2 DEF ConnFields, WorkerFields
  <1>4. conns' = [d \in DOMAIN conns |-> conns'[d]] /\ worker' = [d \in DOMAIN worker |-> worker'[d]]
    BY <1>1
  <1>5. \A s \in Socks : clients'[s] = Absent <=> clients[s] = Absent
    OBVIOUS
  <1>6. clients' \in [Socks -> Nat \cup {Absent}]
    BY DEF Inv, TypeOK
  <1>7. Quiet
    BY ONLY <1>3, <1>4, <1>5, <1>6, next_client_id' \in Nat \ {0} DEF Quiet
  <1> QED
    BY <1>7, QuietStep

\* A connection that is being served has an entry, so that clients[sock] makes none.
LEMMA ServedHasEntry ==
    ASSUME Inv, NEW c \in DOMAIN conns, Ready(c)
    PROVE  /\ conns[c].sock \in Socks
           /\ clients[conns[c].sock] # Absent
           /\ Touched(conns[c].sock) = clients
  BY DEF Inv, TypeOK, EntryPerClient, Holders, Ready, Serves, Touched

\* The requests that are only answered (server.cpp:129-194).
LEMMA AnswersKeepInv ==
    ASSUME Inv, NEW c \in DOMAIN conns
    PROVE  ((\E type \in {"TIME", "NAME", "LIST"} : HandleQuery(c, type)) \/ HandleMessage(c)) => Inv'
  <1>1. ASSUME NEW type, HandleQuery(c, type) PROVE Inv'
    <2>1. clients' = clients /\ next_client_id' = next_client_id
      BY <1>1, ServedHasEntry DEF HandleQuery, Asks
    <2>2. next_client_id' \in Nat \ {0}
      BY <2>1 DEF Inv, TypeOK
    <2>3. \E sends : Answer(c, sends)
      BY <1>1 DEF HandleQuery
    <2> QED
      BY <2>1, <2>2, <2>3, ThreadIsQuiet DEF Answer
  <1>2. ASSUME HandleMessage(c) PROVE Inv'
    <2>1. clients' = clients /\ next_client_id' = next_client_id
      BY <1>2, ServedHasEntry DEF HandleMessage, Asks
    <2>2. next_client_id' \in Nat \ {0}
      BY <2>1 DEF Inv, TypeOK
    <2>3. \E sends : Answer(c, sends)
      BY <1>2 DEF HandleMessage
    <2> QED
      BY <2>1, <2>2, <2>3, ThreadIsQuiet DEF Answer
  <1> QED
    BY <1>1, <1>2

\* CONNECT puts the next id in an entry that is there (server.cpp:121-128).
LEMMA ConnectKeepsInv ==
    ASSUME Inv, NEW c \in DOMAIN conns, HandleConnect(c)
    PROVE  Inv'
  <1>1. conns[c].sock \in Socks /\ clients[conns[c].sock] # Absent
    BY ServedHasEntry DEF HandleConnect, Asks
  <1>2. PICK sends : Answer(c, sends)
    BY DEF HandleConnect
  <1>3. conns = [d \in DOMAIN conns |-> conns[d]] /\ worker = [d \in DOMAIN worker |-> worker[d]]
        /\ DOMAIN worker = DOMAIN conns
    BY ListedDomain DEF Inv, Shapes, TypeOK
  <1>4. \A d \in DOMAIN conns :
            DOMAIN conns[d] = ConnFields /\ DOMAIN worker[d] = WorkerFields
    BY DEF Inv, Shapes
  <1>5. \A d \in DOMAIN conns :
            /\ DOMAIN conns'[d] = ConnFields /\ DOMAIN worker'[d] = WorkerFields
            /\ conns'[d].server = conns[d].server /\ conns'[d].sock = conns[d].sock
            /\ worker'[d].closing = worker[d].closing
    BY <1>2, <1>3, <1>4 DEF ConnFields, WorkerFields, Answer
  <1>6. clients' = [clients EXCEPT ![conns[c].sock] = next_client_id]
        /\ next_client_id' = next_client_id + 1
    BY DEF HandleConnect
  <1>7. /\ clients' \in [Socks -> Nat \cup {Absent}]
        /\ next_client_id' \in Nat \ {0}
        /\ \A s \in Socks : clients'[s] = Absent <=> clients[s] = Absent
    BY <1>1, <1>6 DEF Inv, TypeOK, Absent
  <1>8. conns' = [d \in DOMAIN conns |-> conns'[d]] /\ worker' = [d \in DOMAIN worker |-> worker'[d]]
    BY <1>2, <1>3 DEF Answer
  <1>9. Quiet
    BY ONLY <1>5, <1>7, <1>8 DEF Quiet
  <1> QED
    BY <1>9, QuietStep

\* A send changes what its receiver is sent, on whatever connection has the descriptor.
LEMMA SendKeepsInv ==
    ASSUME Inv, NEW c \in DOMAIN conns, SendNext(c)
    PROVE  Inv'
  <1>1. conns = [d \in DOMAIN conns |-> conns[d]] /\ worker = [d \in DOMAIN worker |-> worker[d]]
        /\ DOMAIN worker = DOMAIN conns
    BY ListedDomain DEF Inv, Shapes, TypeOK
  <1>2. \A d \in DOMAIN conns :
            DOMAIN conns[d] = ConnFields /\ DOMAIN worker[d] = WorkerFields
    BY DEF Inv, Shapes
  <1>3. /\ conns' = [d \in DOMAIN conns |-> conns'[d]]
        /\ \A d \in DOMAIN conns :
            /\ DOMAIN conns'[d] = ConnFields
            /\ conns'[d].server = conns[d].server /\ conns'[d].sock = conns[d].sock
    <2>1. PICK sock, packet : Deliver(sock, packet)
      BY DEF SendNext
    <2>2. CASE conns' = conns
      BY <1>1, <1>2, <2>2
    <2>3. ASSUME NEW h \in DOMAIN conns, NEW down, conns' = [conns EXCEPT ![h].down = down]
          PROVE  <1>3
      BY <1>1, <1>2, <2>3 DEF ConnFields
    <2>4. ASSUME NEW h \in DOMAIN conns, conns' = [conns EXCEPT ![h].broken = TRUE]
          PROVE  <1>3
      BY <1>1, <1>2, <2>4 DEF ConnFields
    <2> QED
      BY <2>1, <2>2, <2>3, <2>4 DEF Deliver, Holders
  <1>4. /\ worker' = [d \in DOMAIN worker |-> worker'[d]]
        /\ \A d \in DOMAIN conns :
            DOMAIN worker'[d] = WorkerFields /\ worker'[d].closing = worker[d].closing
    BY <1>1, <1>2 DEF SendNext, WorkerFields
  <1>5. clients' = clients /\ next_client_id' = next_client_id
    BY DEF SendNext
  <1>6. Quiet
    BY <1>1, <1>3, <1>4, <1>5 DEF Quiet, Inv, TypeOK
  <1> QED
    BY <1>6, QuietStep

\* RemoveClient erases the entry of a descriptor that only this connection has
\* (server.cpp:29-40).
LEMMA ForgetKeepsInv ==
    ASSUME Inv, NEW c \in DOMAIN conns, Ready(c), Forget(c)
    PROVE  Inv'
  <1>1. /\ conns[c].sock \in Socks /\ conns[c].server = "open"
        /\ worker = [d \in DOMAIN worker |-> worker[d]] /\ DOMAIN worker = DOMAIN conns
        /\ conns = [d \in DOMAIN conns |-> conns[d]]
    BY ServedHasEntry, ListedDomain DEF Inv, Shapes, TypeOK, Ready, Serves
  <1>2. \A d \in DOMAIN conns :
            DOMAIN conns[d] = ConnFields /\ DOMAIN worker[d] = WorkerFields
    BY DEF Inv, Shapes
  <1>3. /\ clients' = [clients EXCEPT ![conns[c].sock] = Absent]
        /\ worker' = [worker EXCEPT ![c].closing = TRUE]
        /\ next_client_id' = next_client_id /\ conns' = conns
    BY DEF Forget
  <1>4. /\ worker' = [d \in DOMAIN worker |-> worker'[d]]
        /\ \A d \in DOMAIN conns :
            /\ DOMAIN worker'[d] = WorkerFields
            /\ worker'[d].closing = (d = c \/ worker[d].closing)
    BY <1>1, <1>2, <1>3 DEF WorkerFields, Inv, TypeOK
  <1>5. TypeOK'
    BY <1>1, <1>3, <1>4 DEF Inv, TypeOK
  <1>6. Shapes'
    BY <1>1, <1>2, <1>3, <1>4, ListedSame DEF Inv, Shapes
  <1>7. NewAreServed'
    BY <1>1, <1>3, <1>4 DEF Inv, NewAreServed
  <1>8. EntryPerClient'
    <2>1. ASSUME NEW s \in Socks
          PROVE  (clients'[s] # Absent) <=> (\E d \in Holders(s)' : ~worker'[d].closing)
      <3>1. Holders(s)' = Holders(s) /\ Holders(s) \subseteq DOMAIN conns
        BY <1>3 DEF Holders
      <3>2. CASE s = conns[c].sock
        <4>1. clients'[s] = Absent
          BY <1>1, <1>3, <3>2 DEF Inv, TypeOK
        <4>2. \A d \in Holders(s) : d = c
          BY <1>1, <3>2 DEF Holders, Inv, EntryPerClient
        <4> QED
          BY <1>4, <3>1, <4>1, <4>2
      <3>3. CASE s # conns[c].sock
        <4>1. clients'[s] = clients[s]
          BY <1>1, <1>3, <3>3 DEF Inv, TypeOK
        <4>2. c \notin Holders(s)
          BY <3>3 DEF Holders
        <4> QED
          BY <1>4, <3>1, <4>1, <4>2 DEF Inv, EntryPerClient
      <3> QED
        BY <3>2, <3>3
    <2> QED
      BY <1>3, <2>1 DEF Inv, EntryPerClient
  <1> QED
    BY <1>5, <1>6, <1>7, <1>8 DEF Inv

\* The descriptor goes after the entry (server.cpp:40).
LEMMA CloseKeepsInv ==
    ASSUME Inv, NEW c \in DOMAIN conns, Close(c)
    PROVE  Inv'
  <1>1. /\ conns[c].server = "open" /\ worker[c].closing
        /\ conns' = [conns EXCEPT ![c].server = "closed"]
        /\ clients' = clients /\ next_client_id' = next_client_id /\ worker' = worker
    BY DEF Close, Serves
  <1>2. /\ conns = [d \in DOMAIN conns |-> conns[d]]
        /\ \A d \in DOMAIN conns :
            DOMAIN conns[d] = ConnFields /\ DOMAIN worker[d] = WorkerFields
    BY ListedDomain DEF Inv, Shapes
  <1>3. /\ conns' = [d \in DOMAIN conns |-> conns'[d]]
        /\ \A d \in DOMAIN conns :
            /\ DOMAIN conns'[d] = ConnFields
            /\ conns'[d].server = IF d = c THEN "closed" ELSE conns[d].server
            /\ conns'[d].sock = conns[d].sock
    BY <1>1, <1>2 DEF ConnFields
  <1>4. TypeOK'
    BY <1>1, <1>3 DEF Inv, TypeOK
  <1>5. Shapes'
    BY <1>1, <1>2, <1>3, ListedSame DEF Inv, Shapes
  <1>6. NewAreServed'
    BY <1>1, <1>3 DEF Inv, NewAreServed
  <1>7. EntryPerClient'
    <2>1. \A s \in Socks : Holders(s)' = Holders(s) \ {c}
      BY <1>3 DEF Holders
    <2> QED
      BY <1>1, <1>3, <2>1 DEF Inv, EntryPerClient
  <1> QED
    BY <1>4, <1>5, <1>6, <1>7 DEF Inv

\* accept() gives a descriptor that no connection has and the entry with it; when there
\* is no thread for it both go again (server.cpp:73-92).
LEMMA AcceptKeepsInv ==
    ASSUME Inv, NEW c \in DOMAIN conns, NEW created \in BOOLEAN, Accept(c, created)
    PROVE  Inv'
  <1> DEFINE now == IF created THEN "open" ELSE "closed"
  <1>1. PICK sock \in FreeSocks :
            /\ conns' = [conns EXCEPT ![c].server = now, ![c].sock = sock]
            /\ clients' = [clients EXCEPT ![sock] = IF created THEN 0 ELSE Absent]
    BY DEF Accept
  <1>2. /\ next_client_id' = next_client_id /\ worker' = worker
        /\ conns[c].server = "backlog" /\ ~worker[c].closing
    BY DEF Accept, Inv, NewAreServed
  <1>3. /\ conns = [d \in DOMAIN conns |-> conns[d]]
        /\ \A d \in DOMAIN conns :
            DOMAIN conns[d] = ConnFields /\ DOMAIN worker[d] = WorkerFields
    BY ListedDomain DEF Inv, Shapes
  <1>4. /\ conns' = [d \in DOMAIN conns |-> conns'[d]]
        /\ \A d \in DOMAIN conns :
            /\ DOMAIN conns'[d] = ConnFields
            /\ conns'[d].server = IF d = c THEN now ELSE conns[d].server
            /\ conns'[d].sock = IF d = c THEN sock ELSE conns[d].sock
    BY <1>1, <1>3 DEF ConnFields
  <1>5. sock \in Socks /\ Holders(sock) = {}
    BY DEF FreeSocks
  <1>6. TypeOK'
    BY <1>1, <1>2, <1>4, <1>5 DEF Inv, TypeOK
  <1>7. Shapes'
    BY <1>2, <1>3, <1>4, ListedSame DEF Inv, Shapes
  <1>8. NewAreServed'
    BY <1>2, <1>4 DEF Inv, NewAreServed
  <1>9. EntryPerClient'
    <2>1. \A d, e \in DOMAIN conns' :
            conns'[d].server = "open" /\ conns'[e].server = "open" /\ conns'[d].sock = conns'[e].sock
                => d = e
      BY <1>4, <1>5 DEF Holders, Inv, EntryPerClient
    <2>2. ASSUME NEW s \in Socks
          PROVE  (clients'[s] # Absent) <=> (\E d \in Holders(s)' : ~worker'[d].closing)
      <3>1. CASE s = sock
        <4>1. Holders(s)' = IF created THEN {c} ELSE {}
          BY <1>4, <1>5, <3>1 DEF Holders
        <4>2. clients'[s] = IF created THEN 0 ELSE Absent
          BY <1>1, <3>1 DEF Inv, TypeOK
        <4> QED
          BY <1>2, <4>1, <4>2 DEF Absent
      <3>2. CASE s # sock
        <4>1. Holders(s)' = Holders(s)
          BY <1>2, <1>4, <3>2 DEF Holders
        <4>2. clients'[s] = clients[s]
          BY <1>1, <3>2 DEF Inv, TypeOK
        <4> QED
          BY <1>2, <4>1, <4>2 DEF Inv, EntryPerClient
      <3> QED
        BY <3>1, <3>2
    <2> QED
      BY <2>1, <2>2 DEF EntryPerClient
  <1> QED
    BY <1>6, <1>7, <1>8, <1>9 DEF Inv

\* What a client does to the connections that are there.
LEMMA BecomeKeepsInv ==
    ASSUME Inv, NEW u, NEW client, NEW connections, Become(u, client, connections),
           connections = [c \in DOMAIN conns |-> connections[c]],
           \A c \in DOMAIN conns :
                /\ DOMAIN connections[c] = ConnFields
                /\ connections[c].server = conns[c].server
                /\ connections[c].sock = conns[c].sock,
           clients' = clients, next_client_id' = next_client_id, worker' = worker
    PROVE  Inv'
  <1>1. DOMAIN connections = DOMAIN conns
    OBVIOUS
  <1>2. /\ conns' = [c \in DOMAIN conns |-> conns'[c]]
        /\ \A c \in DOMAIN conns :
            /\ DOMAIN conns'[c] = ConnFields
            /\ conns'[c].server = conns[c].server
            /\ conns'[c].sock = conns[c].sock
    BY <1>1 DEF Become, ConnFields
  <1>3. worker' = [c \in DOMAIN worker |-> worker'[c]]
        /\ \A c \in DOMAIN conns : DOMAIN worker'[c] = WorkerFields
    BY ListedDomain DEF Inv, Shapes
  <1>4. Quiet
    BY <1>2, <1>3 DEF Quiet, Inv, TypeOK
  <1> QED
    BY <1>4, QuietStep

\* A new connection holds no descriptor until accept() (func.cpp:27-62).
LEMMA DialKeepsInv ==
    ASSUME Inv, NEW u, NEW client, Become(u, client, Append(conns, NewConn(u))),
           worker' = Append(worker, NewWorker),
           clients' = clients, next_client_id' = next_client_id
    PROVE  Inv'
  <1> DEFINE dialled == Append(conns, NewConn(u))
             n == Len(conns) + 1
  <1>1. /\ Listed(conns) /\ Listed(worker) /\ Len(conns) \in Nat
        /\ DOMAIN conns = 1..Len(conns) /\ DOMAIN worker = DOMAIN conns /\ Len(worker) \in Nat
        /\ DOMAIN worker = 1..Len(worker)
    BY ListedDomain DEF Inv, Shapes, TypeOK
  <1>2. Len(worker) = Len(conns)
    BY <1>1
  <1>3. /\ Listed(dialled) /\ DOMAIN dialled = 1..n /\ dialled[n] = NewConn(u)
        /\ \A c \in DOMAIN conns : dialled[c] = conns[c]
    BY <1>1, ListedAppend
  <1>4. /\ Listed(worker') /\ DOMAIN worker' = 1..n /\ worker'[n] = NewWorker
        /\ \A c \in DOMAIN conns : worker'[c] = worker[c]
    BY <1>1, <1>2, ListedAppend
  <1>5. /\ DOMAIN NewConn(u) = ConnFields /\ NewConn(u).server = "backlog"
        /\ DOMAIN NewWorker = WorkerFields /\ NewWorker.closing = FALSE
    BY DEF NewConn, NewWorker, ConnFields, WorkerFields
  <1>6. 1..n = DOMAIN conns \cup {n} /\ n \notin DOMAIN conns
    BY <1>1
  <1>7. conns' = [c \in 1..n |-> IF dialled[c].user = u
                                 THEN [dialled[c] EXCEPT !.client_open = @ /\ Keeps(client, c)]
                                 ELSE dialled[c]]
    BY <1>3 DEF Become
  <1> HIDE DEF dialled
  <1>8. \A c \in 1..n : DOMAIN dialled[c] = ConnFields
    BY <1>3, <1>5, <1>6 DEF Inv, Shapes
  <1>9. /\ conns' = [c \in 1..n |-> conns'[c]]
        /\ \A c \in 1..n :
            /\ DOMAIN conns'[c] = ConnFields
            /\ conns'[c].server = dialled[c].server
            /\ conns'[c].sock = dialled[c].sock
    BY <1>7, <1>8 DEF ConnFields
  <1>10. /\ DOMAIN conns' = DOMAIN conns \cup {n} /\ DOMAIN worker' = DOMAIN conns \cup {n}
         /\ conns'[n].server = "backlog" /\ worker'[n].closing = FALSE
         /\ \A c \in DOMAIN conns :
             /\ conns'[c].server = conns[c].server /\ conns'[c].sock = conns[c].sock
             /\ worker'[c] = worker[c]
    BY <1>3, <1>4, <1>5, <1>6, <1>9
  <1> HIDE DEF n
  <1>11. TypeOK'
    BY <1>10 DEF Inv, TypeOK
  <1>12. Shapes'
    <2>1. Listed(conns')
      BY <1>3, <1>9, ListedSame
    <2>2. \A c \in DOMAIN worker' : DOMAIN worker'[c] = WorkerFields
      BY <1>4, <1>5, <1>6, <1>10 DEF Inv, Shapes
    <2> QED
      BY <1>4, <1>6, <1>9, <1>10, <2>1, <2>2 DEF Shapes
  <1>13. NewAreServed'
    BY <1>10 DEF Inv, NewAreServed
  <1>14. EntryPerClient'
    <2>1. \A s \in Socks : Holders(s)' = Holders(s)
      BY <1>6, <1>10 DEF Holders
    <2>2. \A s \in Socks : \A c \in Holders(s) : worker'[c] = worker[c]
      BY <1>10 DEF Holders
    <2>3. \A c, d \in DOMAIN conns' :
            conns'[c].server = "open" /\ conns'[d].server = "open" /\ conns'[c].sock = conns'[d].sock
                => c = d
      BY <1>10 DEF Inv, EntryPerClient
    <2>4. \A s \in Socks : (clients'[s] # Absent) <=> (\E c \in Holders(s) : ~worker[c].closing)
      BY DEF Inv, EntryPerClient
    <2>5. \A s \in Socks : (clients'[s] # Absent) <=> (\E c \in Holders(s)' : ~worker'[c].closing)
      BY ONLY <2>1, <2>2, <2>4
    <2> QED
      BY ONLY <2>3, <2>5 DEF EntryPerClient
  <1> QED
    BY <1>11, <1>12, <1>13, <1>14 DEF Inv

\* The menu (client.cpp:36-69, func.cpp:27-124).
LEMMA MenuKeepsInv ==
    ASSUME Inv, NEW u, Command(u) \/ Send(u) \/ Drop(u) \/ Quit(u)
           \/ \E created \in BOOLEAN : StartThread(u, created)
    PROVE  Inv'
  <1>1. /\ conns = [d \in DOMAIN conns |-> conns[d]]
        /\ \A d \in DOMAIN conns : DOMAIN conns[d] = ConnFields
    BY ListedDomain DEF Inv, Shapes
  <1>2. ASSUME NEW client, Become(u, client, conns),
               clients' = clients, next_client_id' = next_client_id, worker' = worker
        PROVE  Inv'
    BY <1>1, <1>2, BecomeKeepsInv
  <1>3. CASE Command(u)
    <2>1. clients' = clients /\ next_client_id' = next_client_id
      BY <1>3 DEF Command
    <2>2. \/ \E client : Become(u, client, Append(conns, NewConn(u))) /\ worker' = Append(worker, NewWorker)
          \/ \E client : Become(u, client, conns) /\ worker' = worker
      BY <1>3 DEF Command
    <2> QED
      BY <1>2, <2>1, <2>2, DialKeepsInv
  <1>4. CASE Send(u)
    <2>1. clients' = clients /\ next_client_id' = next_client_id /\ worker' = worker
      BY <1>4 DEF Send, Does
    <2>2. CASE \E client : Become(u, client, conns)
      BY <1>2, <2>1, <2>2
    <2>3. ASSUME NEW client, NEW c, NEW up, Become(u, client, [conns EXCEPT ![c].up = up])
          PROVE  Inv'
      <3> DEFINE connections == [conns EXCEPT ![c].up = up]
      <3>1. /\ connections = [d \in DOMAIN conns |-> connections[d]]
            /\ \A d \in DOMAIN conns :
                /\ DOMAIN connections[d] = ConnFields
                /\ connections[d].server = conns[d].server
                /\ connections[d].sock = conns[d].sock
        BY <1>1 DEF ConnFields
      <3> QED
        BY <2>1, <2>3, <3>1, BecomeKeepsInv
    <2>4. ASSUME NEW client, NEW c, Become(u, client, [conns EXCEPT ![c].broken = TRUE])
          PROVE  Inv'
      <3> DEFINE connections == [conns EXCEPT ![c].broken = TRUE]
      <3>1. /\ connections = [d \in DOMAIN conns |-> connections[d]]
            /\ \A d \in DOMAIN conns :
                /\ DOMAIN connections[d] = ConnFields
                /\ connections[d].server = conns[d].server
                /\ connections[d].sock = conns[d].sock
        BY <1>1 DEF ConnFields
      <3> QED
        BY <2>1, <2>4, <3>1, BecomeKeepsInv
    <2> QED
      BY <1>4, <2>2, <2>3, <2>4 DEF Send
  <1>5. CASE Drop(u) \/ Quit(u) \/ \E created \in BOOLEAN : StartThread(u, created)
    <2>1. clients' = clients /\ next_client_id' = next_client_id /\ worker' = worker
      BY <1>5 DEF Drop, Quit, StartThread, Does
    <2>2. \E client : Become(u, client, conns)
      BY <1>5 DEF Drop, Quit, StartThread
    <2> QED
      BY <1>2, <2>1, <2>2
  <1> QED
    BY <1>3, <1>4, <1>5

\* A receiving thread (func.cpp:126-202).
LEMMA ThreadKeepsInv ==
    ASSUME Inv, NEW u, NEW t, ThreadStep(u, t)
    PROVE  Inv'
  <1>1. /\ conns = [d \in DOMAIN conns |-> conns[d]]
        /\ \A d \in DOMAIN conns : DOMAIN conns[d] = ConnFields
    BY ListedDomain DEF Inv, Shapes
  <1>2. clients' = clients /\ next_client_id' = next_client_id /\ worker' = worker
    BY DEF ThreadStep, CallRecv, GetPacket, GetEnd, TakeEnd, ThreadAt
  <1>3. CASE \E client : Become(u, client, conns)
    BY <1>1, <1>2, <1>3, BecomeKeepsInv
  <1>4. ASSUME NEW client, NEW c, NEW seen, Become(u, client, [conns EXCEPT ![c].seen = seen])
        PROVE  Inv'
    <2> DEFINE connections == [conns EXCEPT ![c].seen = seen]
    <2>1. /\ connections = [d \in DOMAIN conns |-> connections[d]]
          /\ \A d \in DOMAIN conns :
              /\ DOMAIN connections[d] = ConnFields
              /\ connections[d].server = conns[d].server
              /\ connections[d].sock = conns[d].sock
      BY <1>1 DEF ConnFields
    <2> QED
      BY <1>2, <1>4, <2>1, BecomeKeepsInv
  <1>5. CASE GetPacket(u, t)
    BY <1>4, <1>5 DEF GetPacket
  <1>6. CASE CallRecv(u, t) \/ GetEnd(u, t) \/ TakeEnd(u, t)
    BY <1>3, <1>6 DEF CallRecv, GetEnd, TakeEnd
  <1> QED
    BY <1>5, <1>6 DEF ThreadStep

----------------------------------------------------------------------------
(* The theorems.                                                            *)

\* Nobody is connected at first.
LEMMA InitInv == Init => Inv
  <1> SUFFICES ASSUME Init PROVE Inv
    OBVIOUS
  <1>1. conns = << >> /\ worker = << >> /\ clients = [s \in Socks |-> Absent] /\ next_client_id = 1
    BY DEF Init, ServerInit
  <1>2. DOMAIN conns = {} /\ DOMAIN worker = {}
    BY <1>1
  <1>3. Listed(conns) /\ Listed(worker)
    BY <1>1 DEF Listed
  <1> QED
    BY <1>1, <1>2, <1>3 DEF Inv, TypeOK, EntryPerClient, Holders, Shapes, NewAreServed

\* Every step of the server, of the users and of their threads keeps the invariant.
LEMMA NextKeepsInv == Inv /\ [Next]_vars => Inv'
  <1> SUFFICES ASSUME Inv, [Next]_vars PROVE Inv'
    OBVIOUS
  <1>1. ASSUME NEW c \in DOMAIN conns, Server(c) PROVE Inv'
    BY <1>1, ForgetKeepsInv, CloseKeepsInv, SendKeepsInv, ConnectKeepsInv, AnswersKeepInv
       DEF Server, Serve, RecvEnd, HandleDisconnect, Asks
  <1>2. ASSUME NEW c \in DOMAIN conns, NEW created \in BOOLEAN, Admit(c, created) PROVE Inv'
    BY <1>2, AcceptKeepsInv DEF Admit
  <1>3. ASSUME NEW u \in Users, Menu(u) \/ \E created \in BOOLEAN : Listen(u, created) PROVE Inv'
    BY <1>3, MenuKeepsInv DEF Menu, Listen
  <1>4. ASSUME NEW u \in Users, NEW t \in DOMAIN cli[u].threads, Receive(u, t) PROVE Inv'
    BY <1>4, ThreadKeepsInv DEF Receive
  <1>5. CASE UNCHANGED vars
    <2>1. UNCHANGED <<clients, next_client_id, worker, conns>>
      BY <1>5 DEF vars, serverVars
    <2> QED
      BY <2>1 DEF Inv, TypeOK, EntryPerClient, Holders, Shapes, NewAreServed, Listed
  <1> QED
    BY <1>1, <1>2, <1>3, <1>4, <1>5 DEF Next

\* The invariant holds for any users, scripts, descriptors and failing threads.
LEMMA InvHolds == Spec => []Inv
  BY InitInv, NextKeepsInv, PTL DEF Spec

\* The table, the next id and the connections keep their shapes (server.cpp:10-12, 43-93).
THEOREM ChatTypeCorrect == Spec => []TypeOK
  <1>1. Inv => TypeOK
    BY DEF Inv
  <1> QED
    BY <1>1, InvHolds, PTL

\* A descriptor has an entry exactly while a connection that nobody is taking off has
\* it open, and only one has (server.cpp:29-41, 73-92).
THEOREM EntriesAreClients == Spec => []EntryPerClient
  <1>1. Inv => EntryPerClient
    BY DEF Inv
  <1> QED
    BY <1>1, InvHolds, PTL

----------------------------------------------------------------------------
(* The invariant.                                                           *)

\* The positions of CONNECT among the requests of a connection x.
Asking(x) == {i \in DOMAIN x.up : x.up[i].type = "CONNECT"}

\* The ids that the client of x was told, and those that a queue q is about to tell.
ToldIds(x) == {x.down[i].id : i \in {j \in DOMAIN x.down : x.down[j].type = "CONNECT"}}
IdsIn(q) == {q[i].packet.id : i \in {j \in DOMAIN q : q[j].packet.type = "CONNECT"}}
IdsOf(x, w) == ToldIds(x) \cup IdsIn(w.sends)

\* The replies that x was sent, and the one that its thread w has yet to send.
Count(x, n) == Cardinality(Replies(x.down, n))
Due(w) == IF w.sends = << >> THEN 0 ELSE 1

\* A thread has messages of its client to others to send, and then a reply to it.
Outbox(x, w) ==
    /\ Listed(w.sends)
    /\ \A k \in DOMAIN w.sends :
        /\ w.sends[k].packet.type = "SIGNAL" <=> k < Len(w.sends)
        /\ k = Len(w.sends) => /\ w.sends[k].sock = x.sock
                               /\ w.sends[k].packet.type \in Calls(x.up[x.handled])

\* The replies sent and the one due are as many as the requests dealt with, and answer
\* them; a client that left may miss some, at the end.
Replied(x, w) ==
    /\ Count(x, Len(x.down)) + Due(w) =< x.handled
    /\ x.client_open => Count(x, Len(x.down)) + Due(w) = x.handled
    /\ \A i \in Replies(x.down, Len(x.down)) : x.down[i].type \in Calls(x.up[Count(x, i)])

\* A client asks for an id at most once on a connection, and is told none before.
AskedOnce(x, w) ==
    /\ \A i, j \in Asking(x) : i = j
    /\ (\A i \in Asking(x) : i > x.handled) => IdsOf(x, w) = {}

Session(x, w) ==
    /\ Listed(x.up) /\ Listed(x.down) /\ x.handled \in 0..Len(x.up)
    /\ x.server = "backlog" => x.down = << >> /\ w.sends = << >>
    /\ Outbox(x, w) /\ Replied(x, w) /\ AskedOnce(x, w)

Sessions == \A c \in DOMAIN conns : Session(conns[c], worker[c])

\* Ids are given out once, in order, and are in the table as long as the client is.
IdsGiven ==
    /\ \A c \in DOMAIN conns : IdsOf(conns[c], worker[c]) \subseteq 1..(next_client_id - 1)
    /\ \A c, d \in DOMAIN conns :
        c # d => IdsOf(conns[c], worker[c]) \cap IdsOf(conns[d], worker[d]) = {}
    /\ \A s \in Socks : \A c \in Holders(s) :
        clients[s] # Absent => IdsOf(conns[c], worker[c]) \subseteq {clients[s]}

ClientFields == {"script", "todo", "connected", "BaseSock", "threads", "running"}

\* A client x of u sends to its own connections, of cs, and CONNECT first of all.
Minds(u, x, cs) ==
    /\ DOMAIN x = ClientFields /\ Listed(x.todo)
    /\ \A i \in DOMAIN x.todo : x.todo[i].type = "CONNECT" => i = 1
    /\ x.BaseSock # 0 =>
        /\ x.BaseSock \in DOMAIN cs /\ cs[x.BaseSock].user = u
        /\ (\E i \in DOMAIN x.todo : x.todo[i].type = "CONNECT") => Asking(cs[x.BaseSock]) = {}

Menus ==
    /\ cli = [u \in Users |-> cli[u]]
    /\ \A u \in Users : Minds(u, cli[u], conns)

More == Sessions /\ IdsGiven /\ Menus

IInv == Inv /\ More
----------------------------------------------------------------------------
(* Sequences of unknown elements, and the replies among them.               *)

\* What is left of a queue.
LEMMA ListedTail ==
    ASSUME NEW s, Listed(s), s # << >>
    PROVE  LET t == Tail(s)
           IN  /\ Listed(t) /\ Len(s) \in Nat \ {0} /\ DOMAIN s = 1..Len(s)
               /\ Len(t) = Len(s) - 1 /\ DOMAIN t = 1..(Len(s) - 1)
               /\ Head(s) = s[1]
               /\ \A i \in DOMAIN t : t[i] = s[i + 1]
  <1> DEFINE S == {s[i] : i \in DOMAIN s}
             t == Tail(s)
             T == {t[i] : i \in DOMAIN t}
  <1> SUFFICES /\ Listed(t) /\ Len(s) \in Nat \ {0} /\ DOMAIN s = 1..Len(s)
               /\ Len(t) = Len(s) - 1 /\ DOMAIN t = 1..(Len(s) - 1)
               /\ Head(s) = s[1]
               /\ \A i \in DOMAIN t : t[i] = s[i + 1]
    OBVIOUS
  <1>1. s \in Seq(S)
    BY DEF Listed
  <1> HIDE DEF S
  <1>2. Len(s) \in Nat \ {0} /\ DOMAIN s = 1..Len(s) /\ Head(s) = s[1]
    BY <1>1
  <1>3. /\ t \in Seq(S) /\ Len(t) = Len(s) - 1
        /\ \A i \in 1..Len(t) : t[i] = s[i + 1]
    BY <1>1, HeadTailProperties
  <1> HIDE DEF t
  <1>4. DOMAIN t = 1..Len(t) /\ Len(t) \in Nat /\ t = [i \in 1..Len(t) |-> t[i]]
    <2> HIDE DEF T
    <2> QED BY <1>3
  <1>5. \A i \in 1..Len(t) : t[i] \in T
    BY <1>4
  <1>6. t \in Seq(T)
    <2> HIDE DEF T
    <2> QED BY <1>4, <1>5, SeqDef
  <1>7. Listed(t)
    BY <1>6 DEF Listed, T
  <1> HIDE DEF T
  <1> QED
    BY <1>2, <1>3, <1>4, <1>7

\* Queues of one and two elements.
LEMMA ListedShort ==
    ASSUME NEW a, NEW b
    PROVE  /\ Listed(<< >>) /\ Listed(<< a >>) /\ Listed(<< a, b >>)
           /\ Len(<< a >>) = 1 /\ DOMAIN << a >> = {1} /\ << a >>[1] = a
           /\ Len(<< a, b >>) = 2 /\ DOMAIN << a, b >> = {1, 2}
           /\ << a, b >>[1] = a /\ << a, b >>[2] = b
  <1>1. Listed(<< >>)
    BY DEF Listed
  <1>2. ASSUME NEW s, NEW S, s \in Seq(S) PROVE Listed(s)
    <2>1. Len(s) \in Nat /\ DOMAIN s = 1..Len(s) /\ s = [i \in 1..Len(s) |-> s[i]]
      BY <1>2
    <2> DEFINE T == {s[i] : i \in DOMAIN s}
    <2>2. \A i \in 1..Len(s) : s[i] \in T
      BY <2>1
    <2>3. s \in Seq(T)
      <3> HIDE DEF T
      <3> QED BY <2>1, <2>2, SeqDef
    <2> QED
      BY <2>3 DEF Listed, T
  <1>3. << a >> \in Seq({a}) /\ << a, b >> \in Seq({a, b})
    OBVIOUS
  <1>4. Len(<< a >>) = 1 /\ DOMAIN << a >> = {1} /\ << a >>[1] = a
    OBVIOUS
  <1>5. /\ Len(<< a, b >>) = 2 /\ DOMAIN << a, b >> = {1, 2}
        /\ << a, b >>[1] = a /\ << a, b >>[2] = b
    OBVIOUS
  <1> QED
    BY <1>1, <1>2, <1>3, <1>4, <1>5

\* A queue is empty when its length is zero.
LEMMA ListedEmpty ==
    ASSUME NEW s, Listed(s)
    PROVE  (s = << >> <=> Len(s) = 0) /\ (s = << >> => DOMAIN s = {})
  <1> DEFINE S == {s[i] : i \in DOMAIN s}
  <1>1. s \in Seq(S)
    BY DEF Listed
  <1> HIDE DEF S
  <1>2. s = << >> <=> Len(s) = 0
    BY <1>1
  <1>3. Len(s) = 0 => DOMAIN s = {}
    <2>1. DOMAIN s = 1..Len(s)
      BY <1>1
    <2>2. 1..0 = {}
      OBVIOUS
    <2> QED
      BY <2>1, <2>2
  <1> QED
    BY <1>2, <1>3

\* The replies among the first packets can be counted.
LEMMA RepliesFinite ==
    ASSUME NEW q, NEW n \in Nat
    PROVE  IsFiniteSet(Replies(q, n)) /\ Cardinality(Replies(q, n)) \in Nat
  <1>1. IsFiniteSet(1..n) /\ Replies(q, n) \subseteq 1..n
    BY FS_Interval DEF Replies
  <1> QED
    BY <1>1, FS_Subset, FS_CardinalityType

\* A packet more is a reply more, unless it is a message of another client.
LEMMA RepliesGrow ==
    ASSUME NEW q, Listed(q), NEW p
    PROVE  LET r == Append(q, p)
               n == Len(q)
           IN  /\ Len(r) = n + 1 /\ n \in Nat /\ Listed(r)
               /\ \A m \in 0..n : Replies(r, m) = Replies(q, m)
               /\ p.type = "SIGNAL" => Replies(r, n + 1) = Replies(q, n)
               /\ p.type # "SIGNAL" =>
                    /\ Replies(r, n + 1) = Replies(q, n) \cup {n + 1}
                    /\ Cardinality(Replies(r, n + 1)) = Cardinality(Replies(q, n)) + 1
  <1> DEFINE r == Append(q, p)
             n == Len(q)
  <1> SUFFICES /\ Len(r) = n + 1 /\ n \in Nat /\ Listed(r)
               /\ \A m \in 0..n : Replies(r, m) = Replies(q, m)
               /\ p.type = "SIGNAL" => Replies(r, n + 1) = Replies(q, n)
               /\ p.type # "SIGNAL" =>
                    /\ Replies(r, n + 1) = Replies(q, n) \cup {n + 1}
                    /\ Cardinality(Replies(r, n + 1)) = Cardinality(Replies(q, n)) + 1
    OBVIOUS
  <1>1. /\ Len(r) = n + 1 /\ n \in Nat /\ Listed(r) /\ r[n + 1] = p
        /\ \A i \in 1..n : r[i] = q[i]
    BY ListedAppend, ListedDomain
  <1> HIDE DEF r, n
  <1>2. \A m \in 0..n : Replies(r, m) = Replies(q, m)
    BY <1>1 DEF Replies
  <1>3. 1..(n + 1) = (1..n) \cup {n + 1}
    BY <1>1
  <1>4. p.type = "SIGNAL" => Replies(r, n + 1) = Replies(q, n)
    BY <1>1, <1>3 DEF Replies
  <1>5. ASSUME p.type # "SIGNAL"
        PROVE  /\ Replies(r, n + 1) = Replies(q, n) \cup {n + 1}
               /\ Cardinality(Replies(r, n + 1)) = Cardinality(Replies(q, n)) + 1
    <2>1. Replies(r, n + 1) = Replies(q, n) \cup {n + 1}
      BY <1>1, <1>3, <1>5 DEF Replies
    <2>2. n + 1 \notin Replies(q, n) /\ IsFiniteSet(Replies(q, n))
      BY <1>1, RepliesFinite DEF Replies
    <2> QED
      BY <2>1, <2>2, FS_AddElement
  <1> QED
    BY <1>1, <1>2, <1>4, <1>5

----------------------------------------------------------------------------
(* What a step does to one session.                                         *)

\* The reply at i answers a request that was dealt with.
LEMMA CountRange ==
    ASSUME NEW x, NEW w, Session(x, w)
    PROVE  /\ Len(x.down) \in Nat /\ Len(x.up) \in Nat /\ x.handled \in Nat
           /\ Count(x, Len(x.down)) \in Nat /\ Due(w) \in {0, 1}
           /\ \A i \in Replies(x.down, Len(x.down)) :
                i \in 1..Len(x.down) /\ Count(x, i) \in 1..x.handled
  <1>1. Len(x.down) \in Nat /\ Len(x.up) \in Nat /\ x.handled \in Nat
    BY ListedDomain DEF Session
  <1>2. Count(x, Len(x.down)) \in Nat /\ Due(w) \in {0, 1}
    BY <1>1, RepliesFinite DEF Count, Due
  <1>3. ASSUME NEW i \in Replies(x.down, Len(x.down))
        PROVE  i \in 1..Len(x.down) /\ Count(x, i) \in 1..x.handled
    <2>1. i \in 1..Len(x.down) /\ i \in Nat /\ i \in Replies(x.down, i)
      BY <1>1, <1>3 DEF Replies
    <2>2. Replies(x.down, i) \subseteq Replies(x.down, Len(x.down))
      BY <1>1, <2>1 DEF Replies
    <2>3. /\ IsFiniteSet(Replies(x.down, i)) /\ Count(x, i) \in Nat
          /\ IsFiniteSet(Replies(x.down, Len(x.down)))
      BY <1>1, <2>1, RepliesFinite DEF Count
    <2>4. Count(x, i) =< Count(x, Len(x.down))
      BY <2>2, <2>3, FS_Subset DEF Count
    <2>5. Count(x, i) # 0
      BY <2>1, <2>3, FS_EmptySet DEF Count
    <2>6. Count(x, Len(x.down)) =< x.handled
      BY <1>1, <1>2 DEF Session, Replied
    <2> QED
      BY <1>1, <1>2, <2>1, <2>3, <2>4, <2>5, <2>6
  <1> QED
    BY <1>1, <1>2, <1>3

\* Nothing was asked, dealt with, sent or made due.
LEMMA SessionRests ==
    ASSUME NEW x, NEW w, NEW y, NEW v, Session(x, w),
           y.up = x.up, y.handled = x.handled, y.down = x.down, v.sends = w.sends,
           y.sock = x.sock \/ w.sends = << >>,
           y.server = "backlog" => x.server = "backlog",
           y.client_open => x.client_open
    PROVE  Session(y, v) /\ IdsOf(y, v) = IdsOf(x, w) /\ Asking(y) = Asking(x)
  <1>1. IdsOf(y, v) = IdsOf(x, w) /\ Asking(y) = Asking(x)
    BY DEF IdsOf, ToldIds, Asking
  <1>2. Outbox(y, v)
    <2>1. w.sends = << >> => DOMAIN w.sends = {}
      OBVIOUS
    <2> QED
      BY <2>1 DEF Session, Outbox
  <1>3. Replied(y, v)
    BY DEF Session, Replied, Count, Due
  <1>4. AskedOnce(y, v)
    BY <1>1 DEF Session, AskedOnce
  <1> QED
    BY <1>1, <1>2, <1>3, <1>4 DEF Session

\* A request came, CONNECT at most as the first that asks for an id.
LEMMA SessionAsks ==
    ASSUME NEW x, NEW w, NEW y, NEW p, Session(x, w), p.type = "CONNECT" => Asking(x) = {},
           y.up = Append(x.up, p), y.handled = x.handled, y.down = x.down, y.sock = x.sock,
           y.server = x.server, y.client_open => x.client_open
    PROVE  Session(y, w) /\ IdsOf(y, w) = IdsOf(x, w)
           /\ (p.type # "CONNECT" => Asking(y) = Asking(x))
  <1> DEFINE n == Len(x.up)
  <1>1. /\ n \in Nat /\ Listed(y.up) /\ DOMAIN x.up = 1..n /\ DOMAIN y.up = 1..(n + 1)
        /\ Len(y.up) = n + 1 /\ y.up[n + 1] = p /\ \A i \in 1..n : y.up[i] = x.up[i]
    BY ListedDomain, ListedAppend DEF Session
  <1>2. IdsOf(y, w) = IdsOf(x, w)
    BY DEF IdsOf, ToldIds
  <1> HIDE DEF n
  <1>3. x.handled \in 0..n
    BY DEF Session, n
  <1>4. Outbox(y, w)
    <2>1. Listed(w.sends) /\ (w.sends # << >> => x.handled # 0)
      BY CountRange DEF Session, Outbox, Replied, Due
    <2>2. \A k \in DOMAIN w.sends : y.up[x.handled] = x.up[x.handled]
      BY <1>1, <1>3, <2>1
    <2> QED
      BY <2>1, <2>2 DEF Session, Outbox
  <1>5. Replied(y, w)
    <2>1. \A i \in Replies(x.down, Len(x.down)) : y.up[Count(x, i)] = x.up[Count(x, i)]
      BY <1>1, <1>3, CountRange
    <2> QED
      BY <2>1 DEF Session, Replied, Count
  <1>6. Asking(y) = IF p.type = "CONNECT" THEN Asking(x) \cup {n + 1} ELSE Asking(x)
    <2>1. 1..(n + 1) = (1..n) \cup {n + 1}
      BY <1>1
    <2> QED
      BY <1>1, <2>1 DEF Asking
  <1>7. AskedOnce(y, w)
    BY <1>1, <1>2, <1>3, <1>6 DEF Session, AskedOnce
  <1> QED
    BY <1>1, <1>2, <1>3, <1>4, <1>5, <1>6, <1>7 DEF Session

\* A message of another client came in between the replies.
LEMMA SessionHears ==
    ASSUME NEW x, NEW w, NEW y, NEW p, Session(x, w), p.type = "SIGNAL",
           y.up = x.up, y.handled = x.handled, y.down = Append(x.down, p), y.sock = x.sock,
           y.server = x.server, x.server # "backlog", y.client_open => x.client_open
    PROVE  Session(y, w) /\ IdsOf(y, w) = IdsOf(x, w)
  <1> DEFINE n == Len(x.down)
  <1> DEFINE r == Append(x.down, p)
  <1>0. Listed(x.down) /\ y.down = r
    BY DEF Session
  <1>1. /\ n \in Nat /\ Listed(r) /\ Len(r) = n + 1
        /\ \A m \in 0..n : Replies(r, m) = Replies(x.down, m)
        /\ Replies(r, n + 1) = Replies(x.down, n)
    BY ONLY <1>0, p.type = "SIGNAL", RepliesGrow
  <1>2. /\ DOMAIN x.down = 1..n /\ DOMAIN y.down = 1..(n + 1)
        /\ y.down[n + 1] = p /\ \A i \in 1..n : y.down[i] = x.down[i]
    BY ListedDomain, ListedAppend DEF Session
  <1> HIDE DEF n, r
  <1>3. IdsOf(y, w) = IdsOf(x, w)
    <2>1. 1..(n + 1) = (1..n) \cup {n + 1}
      BY <1>1
    <2>2. {j \in DOMAIN y.down : y.down[j].type = "CONNECT"} = {j \in DOMAIN x.down : x.down[j].type = "CONNECT"}
      BY <1>2, <2>1
    <2>3. ToldIds(y) = ToldIds(x)
      BY <1>1, <1>2, <2>1, <2>2 DEF ToldIds
    <2> QED
      BY <2>3 DEF IdsOf
  <1>4. \A i \in Replies(x.down, n) : i \in 1..n /\ Count(y, i) = Count(x, i) /\ y.down[i] = x.down[i]
    <2>1. \A i \in Replies(x.down, n) : i \in 1..n /\ i \in 0..n
      BY <1>1 DEF Replies
    <2> QED
      BY <1>0, <1>1, <1>2, <2>1 DEF Count
  <1>5. Count(y, Len(y.down)) = Count(x, n)
    BY <1>0, <1>1 DEF Count
  <1>6. Replied(y, w)
    BY <1>0, <1>1, <1>4, <1>5 DEF Session, Replied, n
  <1>7. Outbox(y, w) /\ AskedOnce(y, w)
    BY <1>3 DEF Session, Outbox, AskedOnce, Asking
  <1> QED
    BY <1>0, <1>1, <1>6, <1>7, <1>3 DEF Session

\* A request was dealt with: a reply of the kind that it calls for is due, after what
\* goes to others.
Owes(x, q, reply) ==
    /\ Listed(q) /\ q # << >> /\ q[Len(q)] = reply
    /\ \A k \in DOMAIN q : q[k].packet.type = "SIGNAL" <=> k < Len(q)
    /\ reply.sock = x.sock /\ reply.packet.type \in Calls(x.up[x.handled + 1])

Answered(x, w, y, v, reply) ==
    /\ w.sends = << >> /\ Owes(x, v.sends, reply)
    /\ x.handled < Len(x.up) /\ x.server # "backlog"
    /\ y.up = x.up /\ y.handled = x.handled + 1 /\ y.down = x.down /\ y.sock = x.sock
    /\ y.server = x.server
    /\ y.client_open => x.client_open

LEMMA SessionAnswers ==
    ASSUME NEW x, NEW w, NEW y, NEW v, NEW reply, Session(x, w), Answered(x, w, y, v, reply)
    PROVE  /\ Session(y, v)
           /\ reply.packet.type # "CONNECT" => IdsOf(y, v) = IdsOf(x, w)
           /\ reply.packet.type = "CONNECT" =>
                IdsOf(x, w) = {} /\ IdsOf(y, v) = {reply.packet.id}
  <1> USE DEF Answered
  <1> DEFINE q == v.sends
             h == x.handled + 1
             due == {j \in DOMAIN q : q[j].packet.type = "CONNECT"}
  <1>1. /\ Len(x.up) \in Nat /\ DOMAIN x.up = 1..Len(x.up) /\ h \in 1..Len(x.up)
        /\ Len(q) \in Nat \ {0} /\ DOMAIN q = 1..Len(q)
    BY CountRange, ListedDomain, ListedEmpty DEF Session, Owes
  <1>2. ToldIds(y) = ToldIds(x) /\ Asking(y) = Asking(x) /\ IdsOf(x, w) = ToldIds(x)
    BY DEF ToldIds, Asking, IdsOf, IdsIn
  <1>3. \A j \in DOMAIN q : q[j].packet.type = "CONNECT" => j = Len(q)
    BY <1>1 DEF Owes
  <1>4. reply.packet.type # "CONNECT" => IdsIn(q) = {}
    BY <1>1, <1>3 DEF IdsIn, Owes
  <1>5. reply.packet.type = "CONNECT" => IdsIn(q) = {reply.packet.id}
    <2> SUFFICES ASSUME reply.packet.type = "CONNECT" PROVE IdsIn(q) = {reply.packet.id}
      OBVIOUS
    <2>1. due = {Len(q)} /\ q[Len(q)] = reply
      BY <1>1, <1>3 DEF Owes
    <2> QED
      BY <2>1 DEF IdsIn
  <1>6. reply.packet.type = "CONNECT" => IdsOf(x, w) = {} /\ h \in Asking(x) /\ Asking(x) = {h}
    <2> SUFFICES ASSUME reply.packet.type = "CONNECT"
                 PROVE  IdsOf(x, w) = {} /\ h \in Asking(x) /\ Asking(x) = {h}
      OBVIOUS
    <2>1. x.up[h].type = "CONNECT"
      BY DEF Owes, Calls
    <2>2. h \in Asking(x)
      BY <1>1, <2>1 DEF Asking
    <2>3. Asking(x) = {h} /\ h > x.handled
      BY <2>2, CountRange DEF Session, AskedOnce
    <2> QED
      BY <2>2, <2>3 DEF Session, AskedOnce
  <1>7. IdsOf(y, v) = IdsOf(x, w) \cup IdsIn(q)
    BY <1>2 DEF IdsOf
  <1>8. AskedOnce(y, v)
    <2>1. CASE reply.packet.type = "CONNECT"
      BY <1>1, <1>2, <1>6, <2>1 DEF AskedOnce, Session
    <2>2. CASE reply.packet.type # "CONNECT"
      <3>1. IdsOf(y, v) = IdsOf(x, w)
        BY <1>4, <1>7, <2>2
      <3>2. (\A i \in Asking(x) : i > h) => (\A i \in Asking(x) : i > x.handled)
        BY CountRange DEF Asking, Session
      <3> QED
        BY <1>2, <3>1, <3>2 DEF AskedOnce, Session
    <2> QED
      BY <2>1, <2>2
  <1>9. Outbox(y, v)
    BY <1>1 DEF Outbox, Owes
  <1>10. Replied(y, v)
    <2>1. Due(w) = 0 /\ Due(v) = 1
      BY DEF Due, Owes
    <2> QED
      BY <1>1, <2>1, CountRange DEF Session, Replied, Count
  <1> QED
    BY <1>1, <1>4, <1>5, <1>6, <1>7, <1>8, <1>9, <1>10 DEF Session

\* The first send of a thread: a message for somebody, or else its last, the reply.
Sending(x, w, v) == Session(x, w) /\ w.sends # << >> /\ v.sends = Tail(w.sends)

LEMMA SessionSends ==
    ASSUME NEW x, NEW w, NEW v, Sending(x, w, v)
    PROVE  LET next == Head(w.sends)
           IN  /\ next.packet.type = "SIGNAL" =>
                    /\ Session(x, v) /\ IdsOf(x, v) = IdsOf(x, w)
                    /\ v.sends # << >>
               /\ next.packet.type # "SIGNAL" =>
                    /\ next = w.sends[1] /\ Len(w.sends) = 1 /\ v.sends = << >>
                    /\ Listed(v.sends)
                    /\ next.sock = x.sock /\ next.packet.type \in Calls(x.up[x.handled])
                    /\ IdsOf(x, w) = ToldIds(x) \cup
                         IF next.packet.type = "CONNECT" THEN {next.packet.id} ELSE {}
  <1> USE DEF Sending
  <1> DEFINE q == w.sends
             r == v.sends
             n == Len(q)
             next == Head(q)
  <1> SUFFICES /\ next.packet.type = "SIGNAL" =>
                    /\ Session(x, v) /\ IdsOf(x, v) = IdsOf(x, w)
                    /\ r # << >>
               /\ next.packet.type # "SIGNAL" =>
                    /\ next = q[1] /\ n = 1 /\ r = << >>
                    /\ Listed(r)
                    /\ next.sock = x.sock /\ next.packet.type \in Calls(x.up[x.handled])
                    /\ IdsOf(x, w) = ToldIds(x) \cup
                         IF next.packet.type = "CONNECT" THEN {next.packet.id} ELSE {}
    OBVIOUS
  <1>1. Listed(q) /\ q # << >>
    BY DEF Session, Outbox
  <1>2. /\ Listed(r) /\ n \in Nat \ {0} /\ DOMAIN q = 1..n
        /\ Len(r) = n - 1 /\ DOMAIN r = 1..(n - 1)
        /\ next = q[1] /\ \A i \in DOMAIN r : r[i] = q[i + 1]
    BY <1>1, ListedTail
  <1>3. r = << >> <=> n = 1
    <2>1. r = << >> <=> Len(r) = 0
      BY <1>2, ListedEmpty, Zenon
    <2> QED
      BY <1>2, <2>1
  <1>4. \A k \in 1..n : /\ q[k].packet.type = "SIGNAL" <=> k < n
                        /\ k = n => /\ q[k].sock = x.sock
                                    /\ q[k].packet.type \in Calls(x.up[x.handled])
    BY <1>2 DEF Session, Outbox
  <1> HIDE DEF q, r, n, next
  <1>5. ASSUME next.packet.type = "SIGNAL"
        PROVE  Session(x, v) /\ IdsOf(x, v) = IdsOf(x, w) /\ r # << >>
    <2>1. n > 1 /\ r # << >>
      BY <1>2, <1>3, <1>4, <1>5
    <2>2. Outbox(x, v)
      <3>1. \A k \in 1..(n - 1) : k + 1 \in 1..n /\ r[k] = q[k + 1]
        BY <1>2
      <3>2. \A k \in 1..(n - 1) : /\ r[k].packet.type = "SIGNAL" <=> k < n - 1
                                  /\ k = n - 1 => /\ r[k].sock = x.sock
                                                  /\ r[k].packet.type \in Calls(x.up[x.handled])
        BY <1>2, <1>4, <3>1
      <3> QED
        BY <1>2, <3>2 DEF Outbox, r
    <2>3. Due(v) = Due(w)
      BY <1>1, <2>1 DEF Due, q, r
    <2>4. IdsIn(r) = IdsIn(q)
      <3> DEFINE of(s) == {j \in DOMAIN s : s[j].packet.type = "CONNECT"}
      <3>1. \A j \in of(q) : j = n
        BY <1>2, <1>4
      <3>2. \A j \in of(r) : j = n - 1
        BY <1>2, <1>4
      <3>3. r[n - 1] = q[n] /\ n \in DOMAIN q /\ n - 1 \in DOMAIN r
        BY <1>2, <2>1
      <3>4. n \in of(q) <=> n - 1 \in of(r)
        BY <3>3
      <3>5. of(q) = (IF n \in of(q) THEN {n} ELSE {}) /\ of(r) = (IF n \in of(q) THEN {n - 1} ELSE {})
        BY <3>1, <3>2, <3>4
      <3>6. IdsIn(q) = {q[j].packet.id : j \in of(q)} /\ IdsIn(r) = {r[j].packet.id : j \in of(r)}
        BY DEF IdsIn
      <3> HIDE DEF of
      <3> QED
        BY <3>3, <3>5, <3>6
    <2>5. IdsOf(x, v) = IdsOf(x, w)
      BY <2>4 DEF IdsOf, q, r
    <2>6. AskedOnce(x, v) /\ Replied(x, v)
      BY <2>3, <2>5 DEF Session, AskedOnce, Replied
    <2>7. x.server # "backlog"
      BY <1>1 DEF Session, q
    <2> QED
      BY <2>1, <2>2, <2>5, <2>6, <2>7 DEF Session
  <1>6. ASSUME next.packet.type # "SIGNAL"
        PROVE  /\ next = q[1] /\ n = 1 /\ r = << >>
               /\ next.sock = x.sock /\ next.packet.type \in Calls(x.up[x.handled])
               /\ IdsOf(x, w) = ToldIds(x) \cup
                         IF next.packet.type = "CONNECT" THEN {next.packet.id} ELSE {}
    <2>1. n = 1
      BY <1>2, <1>4, <1>6
    <2>2. next = q[1] /\ r = << >> /\ next.sock = x.sock /\ next.packet.type \in Calls(x.up[x.handled])
      BY <1>2, <1>3, <1>4, <2>1
    <2>3. DOMAIN q = {1}
      BY <1>2, <2>1
    <2>4. IdsIn(q) = IF next.packet.type = "CONNECT" THEN {next.packet.id} ELSE {}
      BY <2>2, <2>3 DEF IdsIn
    <2> QED
      BY <2>1, <2>2, <2>4 DEF IdsOf, q
  <1> QED
    BY <1>2, <1>5, <1>6

\* The reply reached the client.
LEMMA SessionTold ==
    ASSUME NEW x, NEW w, NEW y, NEW v, NEW p, Session(x, w),
           w.sends # << >>, v.sends = Tail(w.sends),
           p = Head(w.sends).packet, p.type # "SIGNAL",
           y.up = x.up, y.handled = x.handled, y.down = Append(x.down, p), y.sock = x.sock,
           y.server = x.server, x.server # "backlog", x.client_open
    PROVE  Session(y, v) /\ IdsOf(y, v) = IdsOf(x, w)
  <1> DEFINE n == Len(x.down)
             r == Append(x.down, p)
  <1>1. Listed(x.down) /\ y.down = r
    BY DEF Session
  <1>2. /\ n \in Nat /\ Listed(r) /\ Len(r) = n + 1
        /\ \A m \in 0..n : Replies(r, m) = Replies(x.down, m)
        /\ Replies(r, n + 1) = Replies(x.down, n) \cup {n + 1}
        /\ Cardinality(Replies(r, n + 1)) = Cardinality(Replies(x.down, n)) + 1
    BY ONLY <1>1, p.type # "SIGNAL", RepliesGrow
  <1>3. /\ DOMAIN x.down = 1..n /\ DOMAIN r = 1..(n + 1)
        /\ r[n + 1] = p /\ \A i \in 1..n : r[i] = x.down[i]
    BY ONLY <1>1, ListedDomain, ListedAppend
  <1>4. /\ v.sends = << >> /\ Listed(v.sends) /\ p.type \in Calls(x.up[x.handled])
        /\ IdsOf(x, w) = ToldIds(x) \cup IF p.type = "CONNECT" THEN {p.id} ELSE {}
    <2>1. Sending(x, w, v)
      BY DEF Sending
    <2> QED
      BY <2>1, SessionSends
  <1>0. DOMAIN v.sends = {}
    BY <1>4, ListedEmpty
  <1> HIDE DEF n, r
  <1>5. IdsOf(y, v) = IdsOf(x, w)
    <2> DEFINE of(s) == {j \in DOMAIN s : s[j].type = "CONNECT"}
    <2>1. 1..(n + 1) = (1..n) \cup {n + 1}
      BY <1>2
    <2>2. of(r) = of(x.down) \cup IF p.type = "CONNECT" THEN {n + 1} ELSE {}
      BY <1>3, <2>1
    <2>3. \A j \in of(x.down) : r[j] = x.down[j]
      BY <1>3
    <2>4. ToldIds(y) = {r[j].id : j \in of(r)} /\ ToldIds(x) = {x.down[j].id : j \in of(x.down)}
      BY <1>1 DEF ToldIds
    <2> HIDE DEF of
    <2>5. ToldIds(y) = ToldIds(x) \cup IF p.type = "CONNECT" THEN {p.id} ELSE {}
      BY <1>3, <2>2, <2>3, <2>4
    <2>6. IdsIn(v.sends) = {}
      BY <1>0 DEF IdsIn
    <2> QED
      BY <1>4, <2>5, <2>6 DEF IdsOf
  <1>6. Count(x, n) \in Nat /\ x.handled \in Nat /\ Due(w) = 1 /\ Due(v) = 0
    BY <1>4, CountRange DEF Due, n
  <1>7. /\ Count(x, n) + 1 =< x.handled
        /\ Count(x, n) + 1 = x.handled
        /\ \A i \in Replies(x.down, n) : x.down[i].type \in Calls(x.up[Count(x, i)])
    BY <1>6 DEF Session, Replied, n
  <1>8. Count(y, Len(y.down)) = Count(x, n) + 1
    BY <1>1, <1>2 DEF Count
  <1>9. \A i \in Replies(r, n + 1) : r[i].type \in Calls(x.up[Count(y, i)])
    <2>1. ASSUME NEW i \in Replies(x.down, n)
          PROVE  r[i].type \in Calls(x.up[Count(y, i)])
      <3>1. i \in 1..n /\ i \in 0..n
        BY <1>2, <2>1 DEF Replies
      <3>2. Count(y, i) = Count(x, i) /\ r[i] = x.down[i]
        BY <1>1, <1>2, <1>3, <3>1 DEF Count
      <3> QED
        BY <1>7, <2>1, <3>2
    <2>2. r[n + 1].type \in Calls(x.up[Count(y, n + 1)])
      BY <1>1, <1>2, <1>3, <1>4, <1>7, <1>8
    <2> QED
      BY <1>2, <2>1, <2>2
  <1>10. Replied(y, v)
    <2>1. Count(y, Len(y.down)) + Due(v) = x.handled
      BY <1>6, <1>7, <1>8
    <2>2. \A i \in Replies(y.down, Len(y.down)) : y.down[i].type \in Calls(y.up[Count(y, i)])
      BY <1>1, <1>2, <1>9
    <2>3. y.handled = x.handled /\ x.handled =< x.handled
      BY <1>6
    <2> QED
      BY ONLY <2>1, <2>2, <2>3 DEF Replied
  <1>11. Outbox(y, v)
    BY <1>0, <1>4 DEF Outbox
  <1>12. AskedOnce(y, v)
    BY <1>5 DEF Session, AskedOnce, Asking
  <1> QED
    BY <1>1, <1>2, <1>5, <1>10, <1>11, <1>12 DEF Session

\* The reply was lost: the client has gone.
LEMMA SessionMissed ==
    ASSUME NEW x, NEW w, NEW y, NEW v, Session(x, w),
           w.sends # << >>, v.sends = Tail(w.sends), Head(w.sends).packet.type # "SIGNAL",
           y.up = x.up, y.handled = x.handled, y.down = x.down, y.sock = x.sock,
           y.server = x.server, x.server # "backlog", ~x.client_open, ~y.client_open
    PROVE  Session(y, v) /\ IdsOf(y, v) \subseteq IdsOf(x, w)
  <1>1. v.sends = << >> /\ Listed(v.sends)
    <2>1. Sending(x, w, v)
      BY DEF Sending
    <2> QED
      BY <2>1, SessionSends
  <1>2. DOMAIN v.sends = {}
    BY <1>1, ListedEmpty
  <1>3. IdsOf(y, v) \subseteq IdsOf(x, w)
    BY <1>2 DEF IdsOf, ToldIds, IdsIn
  <1>4. Outbox(y, v)
    BY <1>1, <1>2 DEF Outbox
  <1>5. Replied(y, v)
    <2>1. Due(w) = 1 /\ Due(v) = 0 /\ Count(x, Len(x.down)) \in Nat /\ x.handled \in Nat
      BY <1>1, CountRange DEF Due
    <2> QED
      BY <2>1 DEF Session, Replied, Count
  <1>6. AskedOnce(y, v)
    BY <1>3 DEF Session, AskedOnce, Asking
  <1> QED
    BY <1>3, <1>4, <1>5, <1>6 DEF Session

----------------------------------------------------------------------------
(* The server's steps.                                                      *)

\* What a connection carries.
Kept(x, y) ==
    /\ y.user = x.user /\ y.up = x.up /\ y.handled = x.handled /\ y.down = x.down
    /\ y.client_open = x.client_open

\* Connections and threads are records.
LEMMA Frames ==
    ASSUME Inv
    PROVE  /\ conns = [d \in DOMAIN conns |-> conns[d]]
           /\ worker = [d \in DOMAIN conns |-> worker[d]] /\ DOMAIN worker = DOMAIN conns
           /\ \A d \in DOMAIN conns :
                DOMAIN conns[d] = ConnFields /\ DOMAIN worker[d] = WorkerFields
           /\ clients \in [Socks -> Nat \cup {Absent}] /\ next_client_id \in Nat \ {0}
  BY ListedDomain DEF Inv, Shapes, TypeOK

\* Nobody was given an id, and nobody else is in the table.
LEMMA NoneGiven ==
    ASSUME More, DOMAIN conns' = DOMAIN conns, next_client_id' = next_client_id,
           \A c \in DOMAIN conns :
                /\ Session(conns'[c], worker'[c])
                /\ IdsOf(conns'[c], worker'[c]) \subseteq IdsOf(conns[c], worker[c]),
           \A s \in Socks : \A c \in Holders(s)' :
                \/ c \in Holders(s) /\ clients'[s] \in {clients[s], Absent}
                \/ c \in DOMAIN conns /\ IdsOf(conns[c], worker[c]) = {}
    PROVE  Sessions' /\ IdsGiven'
  <1>1. Sessions'
    BY DEF Sessions
  <1>2. \A c \in DOMAIN conns' : IdsOf(conns'[c], worker'[c]) \subseteq 1..(next_client_id' - 1)
    BY DEF More, IdsGiven
  <1>3. \A c, d \in DOMAIN conns' :
            c # d => IdsOf(conns'[c], worker'[c]) \cap IdsOf(conns'[d], worker'[d]) = {}
    BY DEF More, IdsGiven
  <1>4. ASSUME NEW s \in Socks, NEW c \in Holders(s)', clients'[s] # Absent
        PROVE  IdsOf(conns'[c], worker'[c]) \subseteq {clients'[s]}
    <2>1. CASE c \in Holders(s) /\ clients'[s] = clients[s]
      <3>1. c \in DOMAIN conns
        BY <2>1 DEF Holders
      <3> QED
        BY <1>4, <2>1, <3>1 DEF More, IdsGiven
    <2>2. CASE c \in DOMAIN conns /\ IdsOf(conns[c], worker[c]) = {}
      BY <2>2
    <2> QED
      BY <1>4, <2>1, <2>2
  <1> QED
    BY <1>1, <1>2, <1>3, <1>4 DEF IdsGiven

\* What the server does leaves the clients as they are.
LEMMA ServerKeepsMenus ==
    ASSUME Menus, cli' = cli, DOMAIN conns' = DOMAIN conns,
           \A c \in DOMAIN conns : conns'[c].user = conns[c].user /\ conns'[c].up = conns[c].up
    PROVE  Menus'
  <1>1. \A c \in DOMAIN conns : Asking(conns'[c]) = Asking(conns[c])
    BY DEF Asking
  <1>2. ASSUME NEW u \in Users PROVE Minds(u, cli[u], conns')
    BY <1>1 DEF Menus, Minds
  <1> QED
    BY <1>2 DEF Menus

\* accept(), close() and the erase: no packet is read or sent.
LEMMA AcceptKeeps ==
    ASSUME IInv, NEW c \in DOMAIN conns, NEW created \in BOOLEAN, Accept(c, created), cli' = cli
    PROVE  More'
  <1> DEFINE now == IF created THEN "open" ELSE "closed"
  <1>1. PICK sock \in FreeSocks :
            /\ conns' = [conns EXCEPT ![c].server = now, ![c].sock = sock]
            /\ clients' = [clients EXCEPT ![sock] = IF created THEN 0 ELSE Absent]
    BY DEF Accept
  <1>2. next_client_id' = next_client_id /\ worker' = worker /\ conns[c].server = "backlog"
    BY DEF Accept
  <1>3. /\ DOMAIN conns' = DOMAIN conns
        /\ \A d \in DOMAIN conns :
            /\ Kept(conns[d], conns'[d])
            /\ conns'[d].server = IF d = c THEN now ELSE conns[d].server
            /\ conns'[d].sock = IF d = c THEN sock ELSE conns[d].sock
    BY <1>1, Frames DEF IInv, ConnFields, Kept
  <1>4. \A d \in DOMAIN conns : Session(conns[d], worker[d])
    BY DEF IInv, More, Sessions
  <1>5. conns[c].down = << >> /\ worker[c].sends = << >>
    BY <1>2, <1>4 DEF Session
  <1>6. \A d \in DOMAIN conns :
            /\ Session(conns'[d], worker'[d])
            /\ IdsOf(conns'[d], worker'[d]) = IdsOf(conns[d], worker[d])
    <2> SUFFICES ASSUME NEW d \in DOMAIN conns
                 PROVE  /\ Session(conns'[d], worker'[d])
                        /\ IdsOf(conns'[d], worker'[d]) = IdsOf(conns[d], worker[d])
      OBVIOUS
    <2>1. /\ Kept(conns[d], conns'[d]) /\ worker'[d].sends = worker[d].sends
          /\ conns'[d].sock = conns[d].sock \/ worker[d].sends = << >>
          /\ conns'[d].server = "backlog" => conns[d].server = "backlog"
      BY <1>2, <1>3, <1>5
    <2> DEFINE x == conns[d]
               w == worker[d]
               y == conns'[d]
               v == worker'[d]
    <2>2. /\ Session(x, w) /\ y.up = x.up /\ y.handled = x.handled /\ y.down = x.down
          /\ v.sends = w.sends /\ y.client_open = x.client_open
          /\ y.sock = x.sock \/ w.sends = << >>
          /\ y.server = "backlog" => x.server = "backlog"
      BY <1>4, <2>1 DEF Kept
    <2> HIDE DEF x, w, y, v
    <2>3. Session(y, v) /\ IdsOf(y, v) = IdsOf(x, w)
      BY ONLY <2>2, SessionRests
    <2> QED
      BY <2>3 DEF x, w, y, v
  <1>7. IdsOf(conns[c], worker[c]) = {}
    <2>1. Listed(conns[c].down) /\ Listed(worker[c].sends)
      BY <1>4 DEF Session, Outbox
    <2> QED
      BY <1>5, <2>1, ListedEmpty DEF IdsOf, ToldIds, IdsIn
  <1>8. ASSUME NEW s \in Socks, NEW d \in Holders(s)'
        PROVE  \/ d \in Holders(s) /\ clients'[s] \in {clients[s], Absent}
               \/ d \in DOMAIN conns /\ IdsOf(conns[d], worker[d]) = {}
    <2>1. CASE d = c
      BY <1>7, <2>1
    <2>2. CASE d # c
      <3>1. d \in Holders(s)
        BY <1>3, <1>8, <2>2 DEF Holders
      <3>2. s # sock
        BY <3>1 DEF FreeSocks
      <3> QED
        BY <1>1, <3>1, <3>2, Frames DEF IInv
    <2> QED
      BY <2>1, <2>2
  <1>9. Sessions' /\ IdsGiven'
    BY <1>2, <1>3, <1>6, <1>8, NoneGiven DEF IInv
  <1>10. Menus'
    BY <1>3, ServerKeepsMenus DEF IInv, More, Kept
  <1> QED
    BY <1>9, <1>10 DEF More

LEMMA LeaveKeeps ==
    ASSUME IInv, NEW c \in DOMAIN conns, Forget(c) \/ Close(c), Serves(c), cli' = cli
    PROVE  More'
  <1>1. /\ DOMAIN conns' = DOMAIN conns /\ next_client_id' = next_client_id
        /\ \A d \in DOMAIN conns :
            /\ Kept(conns[d], conns'[d]) /\ conns'[d].sock = conns[d].sock
            /\ conns'[d].server \in {conns[d].server, "closed"}
            /\ worker'[d].sends = worker[d].sends
    BY Frames DEF IInv, Forget, Close, ConnFields, WorkerFields, Kept
  <1>2. \A d \in DOMAIN conns : Session(conns[d], worker[d])
    BY DEF IInv, More, Sessions
  <1>3. \A d \in DOMAIN conns :
            /\ Session(conns'[d], worker'[d])
            /\ IdsOf(conns'[d], worker'[d]) = IdsOf(conns[d], worker[d])
    <2> SUFFICES ASSUME NEW d \in DOMAIN conns
                 PROVE  /\ Session(conns'[d], worker'[d])
                        /\ IdsOf(conns'[d], worker'[d]) = IdsOf(conns[d], worker[d])
      OBVIOUS
    <2>1. /\ Kept(conns[d], conns'[d]) /\ worker'[d].sends = worker[d].sends
          /\ conns'[d].sock = conns[d].sock
          /\ conns'[d].server = "backlog" => conns[d].server = "backlog"
      BY <1>1
    <2> QED
      BY <1>2, <2>1, SessionRests DEF Kept
  <1>4. \A s \in Socks : Holders(s)' \subseteq Holders(s) /\ clients'[s] \in {clients[s], Absent}
    <2>1. \A s \in Socks : Holders(s)' \subseteq Holders(s)
      BY <1>1 DEF Holders
    <2>2. \A s \in Socks : clients'[s] \in {clients[s], Absent}
      BY Frames DEF IInv, Forget, Close
    <2> QED
      BY <2>1, <2>2
  <1>5. Sessions' /\ IdsGiven'
    BY <1>1, <1>3, <1>4, NoneGiven DEF IInv
  <1>6. Menus'
    BY <1>1, ServerKeepsMenus DEF IInv, More, Kept
  <1> QED
    BY <1>5, <1>6 DEF More

\* A request is dealt with: everybody else's session rests, and CONNECT gives the next id.
LEMMA AnswerKeeps ==
    ASSUME IInv, NEW c \in DOMAIN conns, Ready(c), conns[c].handled < Len(conns[c].up),
           NEW q, NEW reply, Answer(c, q), Owes(conns[c], q, reply), cli' = cli,
           \/ /\ reply.packet.type # "CONNECT"
              /\ clients' = clients /\ next_client_id' = next_client_id
           \/ /\ reply.packet.type = "CONNECT" /\ reply.packet.id = next_client_id
              /\ clients' = [clients EXCEPT ![conns[c].sock] = next_client_id]
              /\ next_client_id' = next_client_id + 1
    PROVE  More'
  <1> DEFINE x == conns[c]
             w == worker[c]
             y == conns'[c]
             v == worker'[c]
  <1>1. /\ DOMAIN conns' = DOMAIN conns /\ DOMAIN worker = DOMAIN conns
        /\ \A d \in DOMAIN conns : d # c => conns'[d] = conns[d] /\ worker'[d] = worker[d]
        /\ y = [x EXCEPT !.handled = @ + 1] /\ v = [w EXCEPT !.sends = q]
        /\ DOMAIN x = ConnFields /\ DOMAIN w = WorkerFields
    BY Frames DEF Answer, IInv
  <1>2. x.server = "open" /\ w.sends = << >> /\ x.handled < Len(x.up)
    BY DEF Ready, Serves
  <1>3. /\ \A d \in DOMAIN conns : Session(conns[d], worker[d])
        /\ Owes(x, q, reply)
    BY DEF IInv, More, Sessions
  <1>4. /\ \A d \in DOMAIN conns : d # c =>
                Session(conns'[d], worker'[d]) /\ IdsOf(conns'[d], worker'[d]) = IdsOf(conns[d], worker[d])
        /\ Session(x, w) /\ c \in DOMAIN conns
    BY <1>1, <1>3
  <1> HIDE DEF x, w, y, v
  <1>5. /\ y.up = x.up /\ y.handled = x.handled + 1 /\ y.down = x.down /\ y.sock = x.sock
        /\ y.server = x.server /\ y.client_open = x.client_open /\ y.user = x.user
        /\ v.sends = q /\ x.server # "backlog"
    BY <1>1, <1>2 DEF ConnFields, WorkerFields
  <1>6. /\ Session(y, v)
        /\ reply.packet.type # "CONNECT" => IdsOf(y, v) = IdsOf(x, w)
        /\ reply.packet.type = "CONNECT" => IdsOf(x, w) = {} /\ IdsOf(y, v) = {reply.packet.id}
    <2>1. Session(x, w) /\ Answered(x, w, y, v, reply)
      BY <1>2, <1>3, <1>4, <1>5 DEF Answered
    <2> QED
      BY ONLY <2>1, SessionAnswers
  <1>7. \A d \in DOMAIN conns : Session(conns'[d], worker'[d])
    BY <1>4, <1>6 DEF y, v
  <1>8. \A s \in Socks : Holders(s)' = Holders(s)
    <2>1. \A d \in DOMAIN conns : conns'[d].sock = conns[d].sock /\ conns'[d].server = conns[d].server
      BY <1>1, <1>5 DEF x, y
    <2> QED
      BY <1>1, <2>1 DEF Holders
  <1>9. Sessions' /\ IdsGiven'
    <2>1. CASE reply.packet.type # "CONNECT"
      <3>1. \A d \in DOMAIN conns : IdsOf(conns'[d], worker'[d]) \subseteq IdsOf(conns[d], worker[d])
        BY <1>4, <1>6, <2>1 DEF x, y, v, w
      <3> QED
        BY <1>1, <1>7, <1>8, <2>1, <3>1, NoneGiven DEF IInv
    <2>2. CASE reply.packet.type = "CONNECT"
      <3> DEFINE old(d) == IdsOf(conns[d], worker[d])
                 new(d) == IdsOf(conns'[d], worker'[d])
                 n == next_client_id
      <3>1. /\ clients' = [clients EXCEPT ![x.sock] = n] /\ next_client_id' = n + 1
            /\ reply.packet.id = n
        BY <2>2 DEF x
      <3>2. /\ new(c) = {n} /\ \A d \in DOMAIN conns : d # c => new(d) = old(d)
        BY <1>4, <1>6, <2>2, <3>1 DEF y, v
      <3>3. /\ n \in Nat \ {0}
            /\ \A d \in DOMAIN conns : old(d) \subseteq 1..(n - 1)
            /\ \A d, e \in DOMAIN conns : d # e => old(d) \cap old(e) = {}
            /\ \A s \in Socks : \A d \in Holders(s) : clients[s] # Absent => old(d) \subseteq {clients[s]}
        BY Frames DEF IInv, More, IdsGiven
      <3> HIDE DEF old, new, n
      <3>4. \A d \in DOMAIN conns : new(d) \subseteq 1..n
        BY <1>4, <3>2, <3>3
      <3>5. \A d, e \in DOMAIN conns : d # e => new(d) \cap new(e) = {}
        <4>1. \A d \in DOMAIN conns : n \notin old(d)
          BY <3>3
        <4> QED
          BY <3>2, <3>3, <4>1
      <3>6. ASSUME NEW s \in Socks, NEW d \in Holders(s), clients'[s] # Absent
            PROVE  new(d) \subseteq {clients'[s]}
        <4>1. d \in DOMAIN conns /\ conns[d].server = "open" /\ conns[d].sock = s
          BY <3>6 DEF Holders
        <4>2. CASE d = c
          <5>1. x.sock = s
            BY <4>1, <4>2 DEF x
          <5> QED
            BY <3>1, <3>2, <4>2, <5>1, Frames DEF IInv
        <4>3. CASE d # c
          <5>1. x.sock # s
            BY <1>2, <4>1, <4>3 DEF x, IInv, Inv, EntryPerClient
          <5>2. clients'[s] = clients[s]
            BY <3>1, <5>1, Frames DEF IInv
          <5> QED
            BY <3>2, <3>3, <3>6, <4>1, <4>3, <5>2
        <4> QED
          BY <4>2, <4>3
      <3>7. next_client_id' - 1 = n
        BY <3>1, <3>3
      <3>8. \A d \in DOMAIN conns' : new(d) \subseteq 1..(next_client_id' - 1)
        BY <1>1, <3>4, <3>7
      <3> QED
        BY <1>1, <1>7, <1>8, <3>5, <3>6, <3>8 DEF Sessions, IdsGiven, new
    <2> QED
      BY <2>1, <2>2
  <1>10. Menus'
    <2>1. \A d \in DOMAIN conns : conns'[d].user = conns[d].user /\ conns'[d].up = conns[d].up
      BY <1>1, <1>5 DEF x, y
    <2> QED
      BY <1>1, <2>1, ServerKeepsMenus DEF IInv, More
  <1> QED
    BY <1>9, <1>10 DEF More

\* The requests (server.cpp:110-194).
LEMMA HandlersKeep ==
    ASSUME IInv, NEW c \in DOMAIN conns, cli' = cli,
           \/ HandleConnect(c) \/ HandleMessage(c)
           \/ \E type \in {"TIME", "NAME", "LIST"} : HandleQuery(c, type)
    PROVE  More'
  <1> DEFINE r == conns[c].up[conns[c].handled + 1]
  <1>1. ASSUME NEW type, Asks(c, type)
        PROVE  Ready(c) /\ conns[c].handled < Len(conns[c].up) /\ r.type = type
    BY <1>1 DEF Asks, Request
  <1>2. ASSUME NEW packet, packet.type \in Calls(r), packet.type # "SIGNAL"
        PROVE  Owes(conns[c], << ToSelf(c, packet) >>, ToSelf(c, packet))
    <2> DEFINE e == ToSelf(c, packet)
               q == << e >>
    <2>1. e.sock = conns[c].sock /\ e.packet = packet
      BY DEF ToSelf
    <2> HIDE DEF e
    <2>2. Listed(q) /\ Len(q) = 1 /\ DOMAIN q = {1} /\ q[1] = e
      BY ListedShort
    <2> HIDE DEF q
    <2>3. q # << >>
      BY <2>2, ListedEmpty
    <2> QED
      BY <2>3, <1>2, <2>1, <2>2 DEF Owes, q, e
  <1>3. ASSUME NEW s, NEW packet, s.packet.type = "SIGNAL",
               packet.type \in Calls(r), packet.type # "SIGNAL"
        PROVE  Owes(conns[c], << s, ToSelf(c, packet) >>, ToSelf(c, packet))
    <2> DEFINE e == ToSelf(c, packet)
               q == << s, e >>
    <2>1. e.sock = conns[c].sock /\ e.packet = packet
      BY DEF ToSelf
    <2> HIDE DEF e
    <2>2. Listed(q) /\ Len(q) = 2 /\ DOMAIN q = {1, 2} /\ q[1] = s /\ q[2] = e
      BY ListedShort
    <2> HIDE DEF q
    <2>3. q # << >>
      BY <2>2, ListedEmpty
    <2>4. Owes(conns[c], q, e)
      BY <1>3, <2>1, <2>2, <2>3 DEF Owes
    <2> QED
      BY <2>4 DEF q, e
  <1>4. CASE HandleConnect(c)
    <2> DEFINE packet == [type |-> "CONNECT", id |-> next_client_id]
               e == ToSelf(c, packet)
    <2>1. /\ Ready(c) /\ conns[c].handled < Len(conns[c].up) /\ r.type = "CONNECT"
          /\ Answer(c, << e >>)
          /\ clients' = [clients EXCEPT ![conns[c].sock] = next_client_id]
          /\ next_client_id' = next_client_id + 1
      BY <1>1, <1>4 DEF HandleConnect
    <2>2. packet.type \in Calls(r) /\ packet.type # "SIGNAL"
      BY <2>1 DEF Calls
    <2>3. Owes(conns[c], << e >>, e)
      BY <1>2, <2>2
    <2>4. e.packet.type = "CONNECT" /\ e.packet.id = next_client_id
      BY DEF ToSelf
    <2> HIDE DEF packet, e
    <2> QED
      BY <2>1, <2>3, <2>4, AnswerKeeps
  <1>5. ASSUME NEW type \in {"TIME", "NAME", "LIST"}, HandleQuery(c, type) PROVE More'
    <2> DEFINE packet == IF type = "LIST"
                         THEN [type |-> type, ids |-> {clients[s] : s \in Socks} \ {Absent, 0}]
                         ELSE [type |-> type]
               e == ToSelf(c, packet)
    <2>1. /\ Ready(c) /\ conns[c].handled < Len(conns[c].up) /\ r.type = type
          /\ Answer(c, << e >>) /\ next_client_id' = next_client_id
          /\ clients' = Touched(conns[c].sock)
      BY <1>1, <1>5 DEF HandleQuery
    <2>2. clients' = clients
      BY <2>1, ServedHasEntry DEF IInv
    <2>3. packet.type = type
      OBVIOUS
    <2> HIDE DEF packet
    <2>4. packet.type \in Calls(r) /\ packet.type # "SIGNAL"
      BY <2>1, <2>3 DEF Calls
    <2>5. Owes(conns[c], << e >>, e)
      BY <1>2, <2>4
    <2>6. e.packet.type # "CONNECT"
      BY <2>3 DEF ToSelf
    <2> HIDE DEF e
    <2> QED
      BY <2>1, <2>2, <2>5, <2>6, AnswerKeeps
  <1>6. CASE HandleMessage(c)
    <2> DEFINE to == r.to
               found == {s \in Socks : clients[s] # Absent /\ clients[s] = to}
               signal == [sock |-> Least(found), packet |-> [type |-> "SIGNAL", to |-> to]]
               told == ToSelf(c, [type |-> "MESSAGE"])
               none == ToSelf(c, [type |-> "INVALID"])
    <2>1. /\ Ready(c) /\ conns[c].handled < Len(conns[c].up) /\ r.type = "MESSAGE"
          /\ Answer(c, IF found = {} THEN << none >> ELSE << signal, told >>)
          /\ next_client_id' = next_client_id /\ clients' = Touched(conns[c].sock)
      BY <1>1, <1>6 DEF HandleMessage, Request
    <2>2. clients' = clients
      BY <2>1, ServedHasEntry DEF IInv
    <2>3. signal.packet.type = "SIGNAL"
      OBVIOUS
    <2> HIDE DEF signal
    <2>4. Owes(conns[c], << none >>, none) /\ Owes(conns[c], << signal, told >>, told)
      BY <1>2, <1>3, <2>1, <2>3 DEF Calls
    <2>5. none.packet.type # "CONNECT" /\ told.packet.type # "CONNECT"
      BY DEF ToSelf
    <2> HIDE DEF found, none, told
    <2> QED
      BY <2>1, <2>2, <2>4, <2>5, AnswerKeeps
  <1> QED
    BY <1>4, <1>5, <1>6

\* One send: to somebody who has the descriptor, if anybody has (server.cpp:23-27).
LEMMA SendKeeps ==
    ASSUME IInv, NEW c \in DOMAIN conns, SendNext(c), cli' = cli
    PROVE  More'
  <1> DEFINE w == worker[c]
             v == worker'[c]
             next == Head(w.sends)
  <1>1. /\ DOMAIN worker = DOMAIN conns
        /\ \A d \in DOMAIN conns : d # c => worker'[d] = worker[d]
        /\ v.sends = Tail(w.sends) /\ w.sends # << >> /\ conns[c].server = "open"
        /\ clients' = clients /\ next_client_id' = next_client_id
        /\ Deliver(next.sock, next.packet)
    BY Frames DEF SendNext, Serves, IInv, WorkerFields
  <1>2. \A d \in DOMAIN conns : Session(conns[d], worker[d])
    BY DEF IInv, More, Sessions
  <1>3. /\ next.packet.type = "SIGNAL" =>
                Session(conns[c], v) /\ IdsOf(conns[c], v) = IdsOf(conns[c], w)
        /\ next.packet.type # "SIGNAL" =>
                next.sock = conns[c].sock /\ v.sends = << >> /\ Listed(v.sends)
    <2>1. Sending(conns[c], w, v)
      BY <1>1, <1>2 DEF Sending
    <2> HIDE DEF w, v
    <2> QED
      BY <2>1, SessionSends
  <1>4. \A h \in Holders(conns[c].sock) : h = c
    BY <1>1 DEF IInv, Inv, EntryPerClient, Holders
  <1>5. c \in Holders(conns[c].sock)
    BY <1>1 DEF Holders
  <1>6. ASSUME NEW d \in DOMAIN conns, d # c
        PROVE  Session(conns[d], worker'[d]) /\ IdsOf(conns[d], worker'[d]) = IdsOf(conns[d], worker[d])
    BY <1>1, <1>2, <1>6
  <1>7. CASE Holders(next.sock) = {} /\ conns' = conns
    <2>1. next.packet.type = "SIGNAL"
      BY <1>3, <1>5, <1>7
    <2>2. \A d \in DOMAIN conns :
              Session(conns'[d], worker'[d]) /\ IdsOf(conns'[d], worker'[d]) = IdsOf(conns[d], worker[d])
      BY <1>3, <1>6, <1>7, <2>1
    <2>3. Sessions' /\ IdsGiven'
      <3>1. \A s \in Socks : Holders(s)' = Holders(s)
        BY <1>7 DEF Holders
      <3> QED
        BY <1>1, <1>7, <2>2, <3>1, NoneGiven DEF IInv
    <2>4. Menus'
      BY <1>7, ServerKeepsMenus DEF IInv, More
    <2> QED
      BY <2>3, <2>4 DEF More
  <1>8. ASSUME NEW h \in Holders(next.sock),
               \/ /\ conns[h].client_open
                  /\ conns' = [conns EXCEPT ![h].down = Append(@, next.packet)]
               \/ ~conns[h].client_open /\ conns' = [conns EXCEPT ![h].broken = TRUE]
        PROVE  More'
    <2> DEFINE x == conns[h]
               y == conns'[h]
               t == worker'[h]
    <2>1. /\ h \in DOMAIN conns /\ DOMAIN conns' = DOMAIN conns /\ x.server = "open"
          /\ \A d \in DOMAIN conns : d # h => conns'[d] = conns[d]
          /\ y.user = x.user /\ y.up = x.up /\ y.handled = x.handled /\ y.sock = x.sock
          /\ y.server = x.server /\ y.client_open = x.client_open
          /\ y.down = IF x.client_open THEN Append(x.down, next.packet) ELSE x.down
      <3>1. h \in DOMAIN conns /\ x.server = "open" /\ DOMAIN x = ConnFields
            /\ conns = [d \in DOMAIN conns |-> conns[d]]
        BY Frames DEF IInv, Holders
      <3> HIDE DEF next
      <3>2. CASE x.client_open
        <4>1. conns' = [conns EXCEPT ![h].down = Append(@, next.packet)]
          BY <1>8, <3>2
        <4>2. y = [x EXCEPT !.down = Append(x.down, next.packet)]
          BY <3>1, <4>1
        <4>3. \A d \in DOMAIN conns : d # h => conns'[d] = conns[d]
          BY <3>1, <4>1
        <4>4. DOMAIN conns' = DOMAIN conns
          BY <3>1, <4>1
        <4> HIDE DEF x, y
        <4>5. /\ y.user = x.user /\ y.up = x.up /\ y.handled = x.handled /\ y.sock = x.sock
              /\ y.server = x.server /\ y.client_open = x.client_open
              /\ y.down = Append(x.down, next.packet)
          BY <3>1, <4>2 DEF ConnFields
        <4> QED
          BY <3>1, <3>2, <4>3, <4>4, <4>5
      <3>3. CASE ~x.client_open
        BY <1>8, <3>1, <3>3 DEF ConnFields
      <3> QED
        BY <3>2, <3>3
    <2>2. \A d \in DOMAIN conns :
              /\ Session(conns'[d], worker'[d])
              /\ IdsOf(conns'[d], worker'[d]) \subseteq IdsOf(conns[d], worker[d])
      <3>1. CASE next.packet.type = "SIGNAL"
        <4>1. \A d \in DOMAIN conns :
                  Session(conns[d], worker'[d]) /\ IdsOf(conns[d], worker'[d]) = IdsOf(conns[d], worker[d])
          BY <1>3, <1>6, <3>1
        <4>2. Session(x, t) /\ IdsOf(x, t) = IdsOf(conns[h], worker[h])
          BY <2>1, <4>1
        <4> HIDE DEF next, x, y, t
        <4>3. Session(y, t) /\ IdsOf(y, t) = IdsOf(x, t)
          <5>1. CASE x.client_open
            BY <2>1, <3>1, <4>2, <5>1, SessionHears
          <5>2. CASE ~x.client_open
            BY <2>1, <4>2, <5>2, SessionRests
          <5> QED
            BY <5>1, <5>2
        <4> QED
          BY <2>1, <4>1, <4>2, <4>3 DEF x, y, t
      <3>2. CASE next.packet.type # "SIGNAL"
        <4>1. h = c
          BY <1>3, <1>4, <3>2
        <4>2. Session(x, w) /\ v = t
          BY <1>2, <4>1
        <4> HIDE DEF x, y, t
        <4>3. Session(y, t) /\ IdsOf(y, t) \subseteq IdsOf(x, w)
          <5>1. CASE x.client_open
            <6> DEFINE p == next.packet
            <6>1. /\ w.sends # << >> /\ t.sends = Tail(w.sends) /\ p = Head(w.sends).packet
                  /\ p.type # "SIGNAL" /\ y.down = Append(x.down, p) /\ x.server # "backlog"
              BY <1>1, <2>1, <3>2, <4>2, <5>1
            <6> HIDE DEF p, w, v, next
            <6> QED
              BY <2>1, <4>2, <5>1, <6>1, SessionTold, SMTT(30)
          <5>2. CASE ~x.client_open
            <6>1. /\ w.sends # << >> /\ t.sends = Tail(w.sends)
                  /\ Head(w.sends).packet.type # "SIGNAL" /\ y.down = x.down
                  /\ x.server # "backlog" /\ ~y.client_open
              BY <1>1, <2>1, <3>2, <4>2, <5>2
            <6> HIDE DEF w, v, next
            <6> QED
              BY <2>1, <4>2, <5>2, <6>1, SessionMissed
          <5> QED
            BY <5>1, <5>2
        <4> QED
          BY <1>6, <2>1, <4>1, <4>3 DEF x, y, t
      <3> QED
        BY <3>1, <3>2
    <2>3. Sessions' /\ IdsGiven'
      <3>1. \A s \in Socks : Holders(s)' = Holders(s)
        BY <2>1 DEF Holders
      <3> QED
        BY <1>1, <2>1, <2>2, <3>1, NoneGiven DEF IInv
    <2>4. Menus'
      BY <2>1, ServerKeepsMenus DEF IInv, More
    <2> QED
      BY <2>3, <2>4 DEF More
  <1> QED
    BY <1>1, <1>7, <1>8 DEF Deliver

----------------------------------------------------------------------------
(* The clients' steps.                                                      *)

\* What a client does closes connections of its own, and nothing else besides what it
\* was to do.
LEMMA BecomeIs ==
    ASSUME NEW u, NEW client, NEW connections, Become(u, client, connections),
           \A c \in DOMAIN connections : DOMAIN connections[c] = ConnFields
    PROVE  /\ cli' = [cli EXCEPT ![u] = client] /\ DOMAIN conns' = DOMAIN connections
           /\ \A c \in DOMAIN connections :
                LET x == connections[c]
                    y == conns'[c]
                IN  /\ y.user = x.user /\ y.up = x.up /\ y.handled = x.handled
                    /\ y.down = x.down /\ y.sock = x.sock /\ y.server = x.server
                    /\ y.client_open => x.client_open
  BY DEF Become, ConnFields

\* A client's step keeps the sessions if what it did to them does.
LEMMA ClientKeeps ==
    ASSUME IInv, NEW u \in Users, NEW client, NEW connections, Become(u, client, connections),
           DOMAIN connections = DOMAIN conns, Minds(u, client, connections),
           \A c \in DOMAIN conns :
                LET x == conns[c]
                    y == connections[c]
                IN  /\ DOMAIN y = ConnFields /\ Session(y, worker[c])
                    /\ IdsOf(y, worker[c]) = IdsOf(x, worker[c])
                    /\ y.user = x.user /\ y.sock = x.sock /\ y.server = x.server
                    /\ x.user # u => Asking(y) = Asking(x),
           clients' = clients, next_client_id' = next_client_id, worker' = worker
    PROVE  More'
  <1>1. /\ cli' = [cli EXCEPT ![u] = client] /\ DOMAIN conns' = DOMAIN conns
        /\ \A c \in DOMAIN conns :
             LET x == connections[c]
                 y == conns'[c]
             IN  /\ y.user = x.user /\ y.up = x.up /\ y.handled = x.handled
                 /\ y.down = x.down /\ y.sock = x.sock /\ y.server = x.server
                 /\ y.client_open => x.client_open
    BY BecomeIs
  <1>2. ASSUME NEW c \in DOMAIN conns
        PROVE  /\ Session(conns'[c], worker'[c])
               /\ IdsOf(conns'[c], worker'[c]) = IdsOf(conns[c], worker[c])
               /\ Asking(conns'[c]) = Asking(connections[c])
    <2> DEFINE x == connections[c]
               y == conns'[c]
               w == worker[c]
    <2>1. /\ Session(x, w) /\ y.up = x.up /\ y.handled = x.handled /\ y.down = x.down
          /\ y.sock = x.sock \/ w.sends = << >>
          /\ y.server = "backlog" => x.server = "backlog"
          /\ y.client_open => x.client_open
      BY <1>1
    <2>2. Session(y, w) /\ IdsOf(y, w) = IdsOf(x, w) /\ Asking(y) = Asking(x)
      <3> HIDE DEF x, y, w
      <3> QED BY ONLY <2>1, SessionRests
    <2> QED
      BY <2>2
  <1>3. Sessions' /\ IdsGiven'
    <2>1. \A s \in Socks : Holders(s)' = Holders(s)
      BY <1>1 DEF Holders
    <2> QED
      BY <1>1, <1>2, <2>1, NoneGiven DEF IInv
  <1>4. Menus'
    <2>1. cli = [v \in Users |-> cli[v]] /\ \A v \in Users : Minds(v, cli[v], conns)
      BY DEF IInv, More, Menus
    <2>2. /\ cli' = [v \in Users |-> cli'[v]] /\ cli'[u] = client
          /\ \A v \in Users : v # u => cli'[v] = cli[v]
      BY <1>1, <2>1
    <2>3. Minds(u, client, conns')
      BY <1>1, <1>2 DEF Minds
    <2>4. ASSUME NEW v \in Users, v # u PROVE Minds(v, cli[v], conns')
      <3>1. Minds(v, cli[v], conns)
        BY <2>1
      <3>2. \A c \in DOMAIN conns : conns[c].user = v =>
                conns'[c].user = v /\ Asking(conns'[c]) = Asking(conns[c])
        BY <1>1, <1>2, <2>4
      <3> QED
        BY <1>1, <3>1, <3>2 DEF Minds
    <2> QED
      BY <2>2, <2>3, <2>4 DEF Menus
  <1> QED
    BY <1>3, <1>4 DEF More

\* Commands that do not ask for an id.
Tame(t) == Listed(t) /\ \A i \in DOMAIN t : t[i].type # "CONNECT"

\* A client that sends nothing: what it is to do goes on, or is told anew.
LEMMA ClientRests ==
    ASSUME IInv, NEW u \in Users, NEW client, NEW connections, Become(u, client, connections),
           DOMAIN client = ClientFields, Tame(client.todo) \/ client.todo = cli[u].todo,
           client.BaseSock \in {0, cli[u].BaseSock},
           DOMAIN connections = DOMAIN conns,
           \A c \in DOMAIN conns :
                /\ DOMAIN connections[c] = ConnFields /\ Kept(conns[c], connections[c])
                /\ connections[c].sock = conns[c].sock /\ connections[c].server = conns[c].server,
           clients' = clients, next_client_id' = next_client_id, worker' = worker
    PROVE  More'
  <1>1. ASSUME NEW c \in DOMAIN conns
        PROVE  LET x == conns[c]
                   y == connections[c]
               IN  /\ DOMAIN y = ConnFields /\ Session(y, worker[c])
                   /\ IdsOf(y, worker[c]) = IdsOf(x, worker[c])
                   /\ y.user = x.user /\ y.sock = x.sock /\ y.server = x.server
                   /\ Asking(y) = Asking(x)
    <2> DEFINE x == conns[c]
               y == connections[c]
               w == worker[c]
    <2>1. /\ Session(x, w) /\ y.up = x.up /\ y.handled = x.handled /\ y.down = x.down
          /\ y.sock = x.sock /\ y.server = x.server /\ y.client_open = x.client_open
          /\ y.user = x.user /\ DOMAIN y = ConnFields
      BY DEF IInv, More, Sessions, Kept
    <2>2. Session(y, w) /\ IdsOf(y, w) = IdsOf(x, w) /\ Asking(y) = Asking(x)
      <3> HIDE DEF x, y, w
      <3> QED BY ONLY <2>1, SessionRests
    <2> QED
      BY <2>1, <2>2
  <1>2. Minds(u, cli[u], conns)
    BY DEF IInv, More, Menus
  <1>3. Minds(u, client, connections)
    BY <1>1, <1>2 DEF Minds, Tame
  <1> QED
    BY <1>1, <1>3, ClientKeeps

\* What is left to do after the first thing.
LEMMA TailTame ==
    ASSUME NEW u, NEW x, NEW cs, Minds(u, x, cs), x.todo # << >>
    PROVE  Tame(Tail(x.todo)) /\ Head(x.todo) = x.todo[1] /\ 1 \in DOMAIN x.todo
  <1> DEFINE s == x.todo
             t == Tail(s)
  <1>1. Listed(s) /\ \A i \in DOMAIN s : s[i].type = "CONNECT" => i = 1
    BY DEF Minds
  <1>2. /\ Listed(t) /\ Len(s) \in Nat \ {0} /\ DOMAIN s = 1..Len(s)
        /\ DOMAIN t = 1..(Len(s) - 1) /\ Head(s) = s[1]
        /\ \A i \in DOMAIN t : t[i] = s[i + 1]
    BY <1>1, ListedTail
  <1> HIDE DEF s, t
  <1>3. \A i \in DOMAIN t : i + 1 \in DOMAIN s /\ i + 1 # 1
    BY <1>2
  <1>4. Tame(t) /\ Head(s) = s[1] /\ 1 \in DOMAIN s
    BY <1>1, <1>2, <1>3 DEF Tame
  <1> QED
    BY <1>4 DEF s, t

\* A queue of packets, none of which asks for an id.
LEMMA TameQueue ==
    ASSUME NEW S, NEW q \in Seq(S), \A e \in S : e.type # "CONNECT"
    PROVE  Tame(q)
  <1>1. Len(q) \in Nat /\ DOMAIN q = 1..Len(q) /\ q = [i \in 1..Len(q) |-> q[i]]
        /\ \A i \in 1..Len(q) : q[i] \in S
    OBVIOUS
  <1> DEFINE T == {q[i] : i \in DOMAIN q}
  <1>2. \A i \in 1..Len(q) : q[i] \in T
    BY <1>1
  <1>3. q \in Seq(T)
    <2> HIDE DEF T
    <2> QED BY <1>1, <1>2, SeqDef
  <1>4. Listed(q)
    BY <1>3 DEF Listed, T
  <1> QED
    BY <1>1, <1>4 DEF Tame

\* No command but connect asks for an id (client.cpp:36-69).
LEMMA StepsTame ==
    ASSUME NEW command, NEW connected
    PROVE  Tame(Steps(command, connected))
  <1> DEFINE S == {Packet(type) : type \in {"DISCONNECT", "drop", "quit", "TIME", "NAME", "LIST"}}
                  \cup {[type |-> "MESSAGE", to |-> command.to]}
  <1>1. \A e \in S : e.type # "CONNECT"
    BY DEF Packet
  <1>2. /\ Packet("DISCONNECT") \in S /\ Packet("drop") \in S /\ Packet("quit") \in S
        /\ Packet("TIME") \in S /\ Packet("NAME") \in S /\ Packet("LIST") \in S
        /\ [type |-> "MESSAGE", to |-> command.to] \in S
    OBVIOUS
  <1> HIDE DEF S
  <1>3. /\ << >> \in Seq(S) /\ << Packet("DISCONNECT"), Packet("drop") >> \in Seq(S)
        /\ << Packet("quit") >> \in Seq(S)
        /\ << Packet("NAME") >> \in Seq(S) /\ << Packet("LIST") >> \in Seq(S)
        /\ << [type |-> "MESSAGE", to |-> command.to] >> \in Seq(S)
    BY <1>2
  <1>4. (IF connected THEN << Packet("DISCONNECT"), Packet("drop") >> ELSE << >>) \o << Packet("quit") >>
            \in Seq(S)
    <2> DEFINE first == IF connected THEN << Packet("DISCONNECT"), Packet("drop") >> ELSE << >>
    <2>1. first \in Seq(S)
      BY <1>3
    <2> HIDE DEF first
    <2>2. first \o << Packet("quit") >> \in Seq(S)
      BY <1>3, <2>1, ConcatProperties
    <2> QED
      BY <2>2 DEF first
  <1>5. [i \in 1..TimeRequests |-> Packet("TIME")] \in Seq(S)
    <2>1. [i \in 1..TimeRequests |-> Packet("TIME")] \in [1..TimeRequests -> S]
      BY <1>2
    <2> QED
      BY <2>1, ClientAssumption, SeqDef
  <1>6. Steps(command, connected) \in Seq(S)
    BY <1>3, <1>4, <1>5 DEF Steps
  <1> QED
    BY <1>1, <1>6, TameQueue

\* A new connection: nothing was asked or told yet (func.cpp:27-62).
LEMMA SessionNew ==
    ASSUME NEW u
    PROVE  /\ Session(NewConn(u), NewWorker) /\ IdsOf(NewConn(u), NewWorker) = {}
           /\ Asking(NewConn(u)) = {}
  <1> DEFINE x == NewConn(u)
             w == NewWorker
  <1>1. /\ x.up = << >> /\ x.down = << >> /\ w.sends = << >> /\ x.handled = 0
        /\ x.server = "backlog" /\ Listed(<< >>)
    BY ListedShort DEF NewConn, NewWorker
  <1>2. /\ DOMAIN x.up = {} /\ DOMAIN x.down = {} /\ DOMAIN w.sends = {}
        /\ Len(x.up) = 0 /\ Len(x.down) = 0
    BY <1>1, ListedEmpty
  <1> HIDE DEF x, w
  <1>3. IdsOf(x, w) = {} /\ Asking(x) = {}
    BY <1>2 DEF IdsOf, ToldIds, IdsIn, Asking
  <1>4. Replies(x.down, Len(x.down)) = {}
    BY <1>2 DEF Replies
  <1>5. Count(x, Len(x.down)) = 0 /\ Due(w) = 0
    BY <1>1, <1>4, FS_EmptySet DEF Count, Due
  <1>6. Replied(x, w)
    BY <1>1, <1>4, <1>5 DEF Replied
  <1>7. Outbox(x, w) /\ AskedOnce(x, w)
    BY <1>1, <1>2, <1>3 DEF Outbox, AskedOnce
  <1>8. Session(x, w)
    BY <1>1, <1>2, <1>6, <1>7 DEF Session
  <1> QED
    BY <1>3, <1>8 DEF x, w

LEMMA DialKeeps ==
    ASSUME IInv, NEW u \in Users, NEW client,
           Become(u, client, Append(conns, NewConn(u))), worker' = Append(worker, NewWorker),
           DOMAIN client = ClientFields, client.BaseSock = Len(conns) + 1,
           client.todo = << Packet("CONNECT"), Packet("receive") >>,
           clients' = clients, next_client_id' = next_client_id
    PROVE  More'
  <1> DEFINE dialled == Append(conns, NewConn(u))
             n == Len(conns) + 1
  <1>1. /\ Listed(conns) /\ Listed(worker) /\ n - 1 \in Nat /\ Len(worker) = n - 1
        /\ DOMAIN conns = 1..(n - 1) /\ DOMAIN worker = DOMAIN conns
    <2>1. /\ Listed(conns) /\ Listed(worker) /\ Len(conns) \in Nat /\ DOMAIN conns = 1..Len(conns)
          /\ DOMAIN worker = DOMAIN conns /\ Len(worker) \in Nat /\ DOMAIN worker = 1..Len(worker)
      BY ListedDomain DEF IInv, Inv, Shapes, TypeOK
    <2> QED
      BY <2>1
  <1>2. /\ DOMAIN dialled = 1..n /\ dialled[n] = NewConn(u)
        /\ \A c \in DOMAIN conns : dialled[c] = conns[c]
    BY <1>1, ListedAppend
  <1>3. /\ worker'[n] = NewWorker /\ \A c \in DOMAIN conns : worker'[c] = worker[c]
    BY <1>1, ListedAppend
  <1>4. 1..n = DOMAIN conns \cup {n} /\ n \notin DOMAIN conns /\ n # 0
    BY <1>1
  <1>5. \A c \in 1..n : DOMAIN dialled[c] = ConnFields
    BY <1>2, <1>4, Frames DEF NewConn, ConnFields, IInv
  <1>6. Become(u, client, dialled) /\ client.BaseSock = n
    OBVIOUS
  <1> HIDE DEF dialled, n
  <1>7. /\ cli' = [cli EXCEPT ![u] = client] /\ DOMAIN conns' = 1..n
        /\ \A c \in 1..n :
             LET x == dialled[c]
                 y == conns'[c]
             IN  /\ y.user = x.user /\ y.up = x.up /\ y.handled = x.handled
                 /\ y.down = x.down /\ y.sock = x.sock /\ y.server = x.server
                 /\ y.client_open => x.client_open
    BY <1>2, <1>5, <1>6, BecomeIs
  <1>8. \A c \in 1..n : Session(dialled[c], worker'[c])
    BY <1>2, <1>3, <1>4, SessionNew, ZenonT(60) DEF IInv, More, Sessions
  <1>9. ASSUME NEW c \in 1..n
        PROVE  /\ Session(conns'[c], worker'[c])
               /\ IdsOf(conns'[c], worker'[c]) = IdsOf(dialled[c], worker'[c])
               /\ Asking(conns'[c]) = Asking(dialled[c])
    <2> DEFINE x == dialled[c]
               y == conns'[c]
               w == worker'[c]
    <2>1. /\ Session(x, w) /\ y.up = x.up /\ y.handled = x.handled /\ y.down = x.down
          /\ y.sock = x.sock \/ w.sends = << >>
          /\ y.server = "backlog" => x.server = "backlog"
          /\ y.client_open => x.client_open
      BY <1>7, <1>8
    <2>2. Session(y, w) /\ IdsOf(y, w) = IdsOf(x, w) /\ Asking(y) = Asking(x)
      <3> HIDE DEF x, y, w
      <3> QED BY ONLY <2>1, SessionRests
    <2> QED
      BY <2>2
  <1>10. /\ IdsOf(conns'[n], worker'[n]) = {} /\ Asking(conns'[n]) = {}
         /\ conns'[n].user = u /\ conns'[n].server = "backlog"
    <2>1. n \in 1..n /\ dialled[n] = NewConn(u) /\ worker'[n] = NewWorker
      BY <1>2, <1>3, <1>4
    <2>2. /\ IdsOf(conns'[n], worker'[n]) = IdsOf(dialled[n], worker'[n])
          /\ Asking(conns'[n]) = Asking(dialled[n])
      BY <1>9, <2>1
    <2>3. conns'[n].user = dialled[n].user /\ conns'[n].server = dialled[n].server
      BY <1>7, <2>1
    <2>4. NewConn(u).user = u /\ NewConn(u).server = "backlog"
      BY DEF NewConn
    <2> QED
      BY <2>1, <2>2, <2>3, <2>4, SessionNew
  <1>11. \A c \in DOMAIN conns :
            /\ IdsOf(conns'[c], worker'[c]) = IdsOf(conns[c], worker[c])
            /\ Asking(conns'[c]) = Asking(conns[c])
            /\ conns'[c].user = conns[c].user /\ conns'[c].sock = conns[c].sock
            /\ conns'[c].server = conns[c].server
    BY <1>2, <1>3, <1>4, <1>7, <1>9
  <1>12. DOMAIN conns' = DOMAIN conns \cup {n}
    BY <1>4, <1>7
  <1>13. Sessions'
    BY <1>7, <1>9 DEF Sessions
  <1>14. IdsGiven'
    <2>1. \A s \in Socks : Holders(s)' = Holders(s)
      BY <1>10, <1>11, <1>12 DEF Holders
    <2>2. \A c \in DOMAIN conns' : IdsOf(conns'[c], worker'[c]) \subseteq 1..(next_client_id' - 1)
      BY <1>10, <1>11, <1>12 DEF IInv, More, IdsGiven
    <2>3. \A c, d \in DOMAIN conns' :
              c # d => IdsOf(conns'[c], worker'[c]) \cap IdsOf(conns'[d], worker'[d]) = {}
      BY <1>10, <1>11, <1>12 DEF IInv, More, IdsGiven
    <2>4. \A s \in Socks : \A c \in Holders(s)' :
              clients'[s] # Absent => IdsOf(conns'[c], worker'[c]) \subseteq {clients'[s]}
      <3>1. \A s \in Socks : \A c \in Holders(s) : c \in DOMAIN conns
        BY DEF Holders
      <3> QED
        BY <1>11, <2>1, <3>1 DEF IInv, More, IdsGiven
    <2> QED
      BY <2>2, <2>3, <2>4 DEF IdsGiven
  <1>15. Menus'
    <2>1. cli = [v \in Users |-> cli[v]] /\ \A v \in Users : Minds(v, cli[v], conns)
      BY DEF IInv, More, Menus
    <2>2. /\ cli' = [v \in Users |-> cli'[v]] /\ cli'[u] = client
          /\ \A v \in Users : v # u => cli'[v] = cli[v]
      BY <1>7, <2>1
    <2>3. Minds(u, client, conns')
      <3>1. Listed(client.todo) /\ DOMAIN client.todo = {1, 2} /\ client.todo[2] = Packet("receive")
        <4> DEFINE a == Packet("CONNECT")
                   b == Packet("receive")
        <4>1. client.todo = << a, b >>
          OBVIOUS
        <4> HIDE DEF a, b
        <4>2. Listed(<< a, b >>) /\ DOMAIN << a, b >> = {1, 2} /\ << a, b >>[2] = b
          BY ListedShort
        <4> QED
          BY <4>1, <4>2 DEF b
      <3>2. \A i \in DOMAIN client.todo : client.todo[i].type = "CONNECT" => i = 1
        BY <3>1 DEF Packet
      <3> QED
        BY <1>6, <1>10, <1>12, <3>1, <3>2 DEF Minds
    <2>4. ASSUME NEW v \in Users PROVE Minds(v, cli[v], conns')
      <3>1. Minds(v, cli[v], conns)
        BY <2>1
      <3> QED
        BY <1>11, <1>12, <3>1 DEF Minds
    <2> QED
      BY <2>2, <2>3, <2>4 DEF Menus
  <1> QED
    BY <1>13, <1>14, <1>15 DEF More

\* The menu (client.cpp:36-69, func.cpp:27-124).
LEMMA MenuKeeps ==
    ASSUME IInv, NEW u \in Users, Command(u) \/ Send(u) \/ Drop(u) \/ Quit(u)
           \/ \E created \in BOOLEAN : StartThread(u, created)
    PROVE  More'
  <1> DEFINE me == cli[u]
  <1>1. /\ Minds(u, me, conns) /\ DOMAIN me = ClientFields
    BY DEF IInv, More, Menus, Minds
  <1>2. \A c \in DOMAIN conns :
            /\ DOMAIN conns[c] = ConnFields /\ Kept(conns[c], conns[c])
            /\ conns[c].sock = conns[c].sock /\ conns[c].server = conns[c].server
    BY Frames DEF IInv, Kept
  <1> HIDE DEF me
  <1>3. ASSUME NEW client, Become(u, client, conns),
               DOMAIN client = ClientFields, Tame(client.todo) \/ client.todo = me.todo,
               client.BaseSock \in {0, me.BaseSock},
               clients' = clients, next_client_id' = next_client_id, worker' = worker
        PROVE  More'
    BY <1>2, <1>3, ClientRests DEF me
  <1>4. ASSUME me.todo # << >>
        PROVE  /\ DOMAIN Rest(u) = ClientFields /\ Tame(Rest(u).todo)
               /\ Rest(u).BaseSock = me.BaseSock
    <2>1. Rest(u) = [me EXCEPT !.todo = Tail(me.todo)]
      BY DEF Rest, me
    <2> QED
      BY <1>1, <1>4, <2>1, TailTame DEF ClientFields
  <1>5. CASE Command(u)
    <2> DEFINE command == Head(me.script)
               rest == [me EXCEPT !.script = Tail(@)]
               dialling == [rest EXCEPT !.connected = TRUE, !.BaseSock = Len(conns) + 1,
                                        !.todo = << Packet("CONNECT"), Packet("receive") >>]
               told == [rest EXCEPT !.todo = Steps(command, me.connected)]
    <2>1. clients' = clients /\ next_client_id' = next_client_id
      BY <1>5 DEF Command
    <2>2. \/ Become(u, dialling, Append(conns, NewConn(u))) /\ worker' = Append(worker, NewWorker)
          \/ Become(u, told, conns) /\ worker' = worker
      BY <1>5 DEF Command, me
    <2>3. DOMAIN rest = ClientFields /\ rest.BaseSock = me.BaseSock
      BY <1>1 DEF ClientFields
    <2> HIDE DEF rest
    <2>4. /\ DOMAIN dialling = ClientFields /\ dialling.BaseSock = Len(conns) + 1
          /\ dialling.todo = << Packet("CONNECT"), Packet("receive") >>
      BY <2>3 DEF ClientFields
    <2>5. DOMAIN told = ClientFields /\ Tame(told.todo) /\ told.BaseSock = me.BaseSock
      BY <2>3, StepsTame DEF ClientFields
    <2> HIDE DEF dialling, told
    <2>6. CASE Become(u, dialling, Append(conns, NewConn(u))) /\ worker' = Append(worker, NewWorker)
      BY <2>1, <2>4, <2>6, DialKeeps
    <2>7. CASE Become(u, told, conns) /\ worker' = worker
      BY <1>3, <2>1, <2>5, <2>7
    <2> QED
      BY <2>2, <2>6, <2>7
  <1>6. CASE Send(u)
    <2> DEFINE c == me.BaseSock
               packet == Head(me.todo)
    <2>1. /\ clients' = clients /\ next_client_id' = next_client_id /\ worker' = worker
          /\ me.todo # << >>
      BY <1>6 DEF Send, Does, me
    <2>2. CASE Become(u, Rest(u), conns)
      BY <1>3, <1>4, <2>1, <2>2
    <2>3. CASE c # 0 /\ Become(u, Rest(u), [conns EXCEPT ![c].up = Append(@, packet)])
      <3> DEFINE connections == [conns EXCEPT ![c].up = Append(@, packet)]
                 x == conns[c]
                 y == connections[c]
      <3>1. /\ c \in DOMAIN conns /\ x.user = u
            /\ packet.type = "CONNECT" => Asking(x) = {}
        BY <1>1, <2>1, <2>3, TailTame DEF Minds
      <3>2. Session(x, worker[c])
        BY <3>1 DEF IInv, More, Sessions
      <3>3. /\ DOMAIN connections = DOMAIN conns
            /\ \A d \in DOMAIN conns : d # c => connections[d] = conns[d]
            /\ y = [x EXCEPT !.up = Append(x.up, packet)]
        BY <3>1, Frames DEF IInv
      <3>4. Become(u, Rest(u), connections)
        BY <2>3
      <3> HIDE DEF connections, x, y, packet
      <3>5. /\ y.up = Append(x.up, packet) /\ y.handled = x.handled /\ y.down = x.down
            /\ y.sock = x.sock /\ y.server = x.server /\ y.client_open = x.client_open
            /\ y.user = x.user /\ DOMAIN y = ConnFields
        BY <1>2, <3>1, <3>3 DEF ConnFields, x
      <3>6. Session(y, worker[c]) /\ IdsOf(y, worker[c]) = IdsOf(x, worker[c])
        BY <3>1, <3>2, <3>5, SessionAsks
      <3>7. \A d \in DOMAIN conns :
                LET s == conns[d]
                    t == connections[d]
                IN  /\ DOMAIN t = ConnFields /\ Session(t, worker[d])
                    /\ IdsOf(t, worker[d]) = IdsOf(s, worker[d])
                    /\ t.user = s.user /\ t.sock = s.sock /\ t.server = s.server
                    /\ s.user # u => Asking(t) = Asking(s)
        <4>1. \A d \in DOMAIN conns : Session(conns[d], worker[d])
          BY DEF IInv, More, Sessions
        <4> QED
          BY <1>2, <3>1, <3>3, <3>5, <3>6, <4>1 DEF x, y
      <3>8. Minds(u, Rest(u), connections)
        BY <1>1, <1>4, <2>1, <3>1, <3>3, <3>5 DEF Minds, Tame, x, y
      <3> QED
        BY <2>1, <3>3, <3>4, <3>7, <3>8, ClientKeeps
    <2>4. ASSUME NEW survives, c # 0,
                 Become(u, [Rest(u) EXCEPT !.running = survives], [conns EXCEPT ![c].broken = TRUE])
          PROVE  More'
      <3> DEFINE client == [Rest(u) EXCEPT !.running = survives]
                 connections == [conns EXCEPT ![c].broken = TRUE]
      <3>1. DOMAIN client = ClientFields /\ Tame(client.todo) /\ client.BaseSock = me.BaseSock
        BY <1>4, <2>1 DEF ClientFields
      <3>2. /\ DOMAIN connections = DOMAIN conns
            /\ \A d \in DOMAIN conns :
                /\ DOMAIN connections[d] = ConnFields /\ Kept(conns[d], connections[d])
                /\ connections[d].sock = conns[d].sock /\ connections[d].server = conns[d].server
        BY <1>2, Frames DEF IInv, ConnFields, Kept
      <3>3. Become(u, client, connections)
        BY <2>4
      <3> HIDE DEF client, connections
      <3> QED
        BY <2>1, <3>1, <3>2, <3>3, ClientRests DEF me
    <2> QED
      BY <1>6, <2>2, <2>3, <2>4 DEF Send, me
  <1>7. CASE Drop(u) \/ Quit(u) \/ \E created \in BOOLEAN : StartThread(u, created)
    <2>1. /\ clients' = clients /\ next_client_id' = next_client_id /\ worker' = worker
          /\ me.todo # << >>
      BY <1>7 DEF Drop, Quit, StartThread, Does, me
    <2>2. PICK client : /\ Become(u, client, conns)
                        /\ \/ client = [Rest(u) EXCEPT !.connected = FALSE, !.BaseSock = 0]
                           \/ client = [Rest(u) EXCEPT !.running = FALSE]
                           \/ \E threads : client = [Rest(u) EXCEPT !.threads = threads]
      BY <1>7 DEF Drop, Quit, StartThread
    <2>3. DOMAIN client = ClientFields /\ Tame(client.todo) /\ client.BaseSock \in {0, me.BaseSock}
      BY <1>4, <2>1, <2>2 DEF ClientFields
    <2> QED
      BY <1>3, <2>1, <2>2, <2>3
  <1> QED
    BY <1>5, <1>6, <1>7

\* A receiving thread sends nothing (func.cpp:126-202).
LEMMA ThreadKeeps ==
    ASSUME IInv, NEW u \in Users, NEW t, ThreadStep(u, t)
    PROVE  More'
  <1> DEFINE me == cli[u]
  <1>1. clients' = clients /\ next_client_id' = next_client_id /\ worker' = worker
    BY DEF ThreadStep, CallRecv, GetPacket, GetEnd, TakeEnd, ThreadAt
  <1>2. DOMAIN me = ClientFields
    BY DEF IInv, More, Menus, Minds
  <1>3. \A at, in : LET moved == MoveTo(u, t, at, in)
                    IN  /\ DOMAIN moved = ClientFields /\ moved.todo = me.todo
                        /\ moved.BaseSock = me.BaseSock
    BY <1>2 DEF MoveTo, ClientFields
  <1>4. PICK client : /\ \/ Become(u, client, conns)
                         \/ \E c, seen : Become(u, client, [conns EXCEPT ![c].seen = seen])
                      /\ \/ \E at, in : client = MoveTo(u, t, at, in)
                         \/ \E at, in :
                                client = [MoveTo(u, t, at, in) EXCEPT !.connected = FALSE, !.BaseSock = 0]
    BY DEF ThreadStep, CallRecv, GetPacket, GetEnd, TakeEnd
  <1>5. DOMAIN client = ClientFields /\ client.todo = me.todo /\ client.BaseSock \in {0, me.BaseSock}
    <2>1. PICK at, in : \/ client = MoveTo(u, t, at, in)
                        \/ client = [MoveTo(u, t, at, in) EXCEPT !.connected = FALSE, !.BaseSock = 0]
      BY <1>4
    <2> DEFINE moved == MoveTo(u, t, at, in)
    <2>2. DOMAIN moved = ClientFields /\ moved.todo = me.todo /\ moved.BaseSock = me.BaseSock
      BY <1>3
    <2>3. client = moved \/ client = [moved EXCEPT !.connected = FALSE, !.BaseSock = 0]
      BY <2>1
    <2> HIDE DEF moved, me
    <2> QED
      BY <2>2, <2>3 DEF ClientFields
  <1>6. PICK connections :
            /\ Become(u, client, connections) /\ DOMAIN connections = DOMAIN conns
            /\ \A c \in DOMAIN conns :
                /\ DOMAIN connections[c] = ConnFields /\ Kept(conns[c], connections[c])
                /\ connections[c].sock = conns[c].sock /\ connections[c].server = conns[c].server
    <2>1. CASE Become(u, client, conns)
      BY <2>1, Frames DEF IInv, Kept
    <2>2. ASSUME NEW c, NEW seen, Become(u, client, [conns EXCEPT ![c].seen = seen])
          PROVE  \E connections :
                    /\ Become(u, client, connections) /\ DOMAIN connections = DOMAIN conns
                    /\ \A d \in DOMAIN conns :
                        /\ DOMAIN connections[d] = ConnFields /\ Kept(conns[d], connections[d])
                        /\ connections[d].sock = conns[d].sock
                        /\ connections[d].server = conns[d].server
      BY <2>2, Frames DEF IInv, Kept, ConnFields
    <2> QED
      BY <1>4, <2>1, <2>2
  <1> QED
    BY <1>1, <1>5, <1>6, ClientRests

----------------------------------------------------------------------------
(* The theorems.                                                            *)

\* Nobody is connected at first, and no client does anything.
LEMMA InitGood == Init => IInv
  <1> SUFFICES ASSUME Init PROVE IInv
    OBVIOUS
  <1>1. /\ conns = << >> /\ DOMAIN conns = {}
        /\ \E scripts : cli = [u \in Users |-> NewClient(scripts[u])]
    BY DEF Init, ServerInit
  <1>2. Sessions /\ IdsGiven
    BY <1>1 DEF Sessions, IdsGiven, Holders
  <1>3. Menus
    <2>1. PICK scripts : cli = [u \in Users |-> NewClient(scripts[u])]
      BY <1>1
    <2>2. ASSUME NEW script PROVE /\ DOMAIN NewClient(script) = ClientFields
                                  /\ NewClient(script).todo = << >> /\ NewClient(script).BaseSock = 0
      BY DEF NewClient, ClientFields
    <2>3. Listed(<< >>) /\ DOMAIN << >> = {}
      BY ListedShort, ListedEmpty
    <2>4. \A u \in Users : Minds(u, cli[u], conns)
      BY <2>1, <2>2, <2>3 DEF Minds
    <2> QED
      BY <2>1, <2>4 DEF Menus
  <1> QED
    BY <1>2, <1>3, InitInv DEF IInv, More

\* Every step keeps what the clients are told.
LEMMA StepGood == IInv /\ [Next]_vars => IInv'
  <1> SUFFICES ASSUME IInv, [Next]_vars PROVE IInv'
    OBVIOUS
  <1>1. Inv'
    BY NextKeepsInv DEF IInv
  <1>2. ASSUME NEW c \in DOMAIN conns, Server(c) PROVE More'
    BY <1>2, LeaveKeeps, SendKeeps, HandlersKeep
       DEF Server, Serve, RecvEnd, HandleDisconnect, Close, Asks, Ready
  <1>3. ASSUME NEW c \in DOMAIN conns, NEW created \in BOOLEAN, Admit(c, created) PROVE More'
    BY <1>3, AcceptKeeps DEF Admit
  <1>4. ASSUME NEW u \in Users, Menu(u) \/ \E created \in BOOLEAN : Listen(u, created) PROVE More'
    BY <1>4, MenuKeeps DEF Menu, Listen
  <1>5. ASSUME NEW u \in Users, NEW t \in DOMAIN cli[u].threads, Receive(u, t) PROVE More'
    BY <1>5, ThreadKeeps DEF Receive
  <1>6. ASSUME UNCHANGED vars PROVE More'
    <2>1. UNCHANGED <<clients, next_client_id, worker, conns>> /\ UNCHANGED cli
      BY <1>6 DEF vars, serverVars
    <2>2. Sessions' /\ IdsGiven'
      BY <2>1 DEF IInv, More, Sessions, IdsGiven, Holders
    <2>3. Menus'
      BY <2>1 DEF IInv, More, Menus
    <2> QED
      BY <2>2, <2>3 DEF More
  <1>7. More'
    <2>1. CASE Next
      <3>1. CASE \E c \in DOMAIN conns : Server(c) \/ \E created \in BOOLEAN : Admit(c, created)
        BY <1>2, <1>3, <3>1
      <3>2. ASSUME NEW u \in Users,
                   \/ Menu(u) \/ \E created \in BOOLEAN : Listen(u, created)
                   \/ \E t \in DOMAIN cli[u].threads : Receive(u, t)
            PROVE  More'
        BY <1>4, <1>5, <3>2
      <3> QED
        BY <2>1, <3>1, <3>2 DEF Next
    <2> QED
      BY <1>6, <2>1
  <1> QED
    BY <1>1, <1>7 DEF IInv

\* The inductive invariant holds for any users, scripts, descriptors and failing threads.
LEMMA IInvHolds == Spec => []IInv
  BY InitGood, StepGood, PTL DEF Spec

\* Ids are never given twice, and a client in the table is there under the id that it was
\* told, however the server's threads interleave (server.cpp:121-128).
THEOREM IdsHold == Spec => []IdsAreOwn
  <1>1. IInv => IdsAreOwn
    <2> SUFFICES ASSUME IInv PROVE IdsAreOwn
      OBVIOUS
    <2>1. \A c \in DOMAIN conns : Told(c) \subseteq IdsOf(conns[c], worker[c])
      BY DEF Told, IdsOf, ToldIds
    <2>2. \A c, d \in DOMAIN conns : c # d => Told(c) \cap Told(d) = {}
      BY <2>1 DEF IInv, More, IdsGiven
    <2>3. \A s \in Socks : \A c \in Holders(s) : clients[s] # Absent => Told(c) \subseteq {clients[s]}
      <3>1. \A s \in Socks : \A c \in Holders(s) : c \in DOMAIN conns
        BY DEF Holders
      <3> QED
        BY <2>1, <3>1 DEF IInv, More, IdsGiven
    <2> QED
      BY <2>2, <2>3 DEF IdsAreOwn
  <1> QED
    BY <1>1, IInvHolds, PTL

\* A client is sent the replies that its requests call for, in their order, with none left
\* out, whatever other clients send it in between (server.cpp:110-205).
THEOREM RepliesHold == Spec => []RepliesInOrder
  <1>1. IInv => RepliesInOrder
    <2> SUFFICES ASSUME IInv, NEW c \in DOMAIN conns
                 PROVE  /\ Count(conns[c], Len(conns[c].down)) =< conns[c].handled
                        /\ \A i \in Replies(conns[c].down, Len(conns[c].down)) :
                              conns[c].down[i].type \in Calls(conns[c].up[Count(conns[c], i)])
                        /\ (conns[c].client_open /\ worker[c].sends = << >>) =>
                              Count(conns[c], Len(conns[c].down)) = conns[c].handled
      BY DEF RepliesInOrder, Count
    <2>1. Session(conns[c], worker[c])
      BY DEF IInv, More, Sessions
    <2> QED
      BY <2>1, CountRange DEF Session, Replied, Due
  <1> QED
    BY <1>1, IInvHolds, PTL
=============================================================================
