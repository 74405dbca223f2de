--------------------------- MODULE DatagramService ---------------------------
(***************************************************************************)
(* What a network of hosts and one router promises: a datagram may be lost, *)
(* but it arrives only at the host its destination belongs to, at most      *)
(* once, and only if its time to live lets it pass the router.  One whose   *)
(* addresses, time to live or segment a wire altered may arrive anywhere,   *)
(* but still once, and as nobody else's segment.                            *)
(***************************************************************************)
EXTENDS Naturals, Sequences, SequencesExt

CONSTANTS Hosts,
          ReceiverOf        \* destination address -> the host that receives it

VARIABLES posted,           \* the datagrams sent
          altered,          \* the numbers of those that were altered on the way
          arrived           \* host -> the datagrams it received, in order

Init == posted = {} /\ altered = {} /\ arrived = [h \in Hosts |-> << >>]

Post ==
    /\ \E dgram \in posted' : /\ \A other \in posted : other.id # dgram.id
                              /\ posted' = posted \cup {dgram}
    /\ UNCHANGED <<altered, arrived>>

Alter ==
    /\ \E dgram \in posted : altered' = altered \cup {dgram.id}
    /\ UNCHANGED <<posted, arrived>>

HasArrived(dgram) == \E h \in Hosts : \E d \in Range(arrived[h]) : d.id = dgram.id

Routed(dgram) == [dgram EXCEPT !.ttl = @ - 1]

Arrive ==
    /\ \E dgram \in posted :
        /\ dgram.ttl > 1
        /\ ~HasArrived(dgram)
        /\ dgram.dst \in DOMAIN ReceiverOf
        /\ arrived' = [arrived EXCEPT ![ReceiverOf[dgram.dst]] = Append(@, Routed(dgram))]
    /\ UNCHANGED <<posted, altered>>

\* What can become of a datagram: the segment's checksum fails or is the one it was sent with.
AlteredFrom(d, dgram) ==
    /\ d = [dgram EXCEPT !.src = d.src, !.dst = d.dst, !.ttl = d.ttl, !.cksum = d.cksum]
    /\ d.cksum \in {dgram.cksum, << >>}

ArriveAltered ==
    /\ \E dgram \in posted, h \in Hosts : \E d \in Range(arrived'[h]) :
        /\ dgram.id \in altered /\ AlteredFrom(d, dgram)
        /\ ~HasArrived(dgram)
        /\ arrived' = [arrived EXCEPT ![h] = Append(@, d)]
    /\ UNCHANGED <<posted, altered>>

Spec == Init /\ [][Post \/ Alter \/ Arrive \/ ArriveAltered]_<<posted, altered, arrived>>
=============================================================================
