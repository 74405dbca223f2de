------------------------------ MODULE MCSender ------------------------------
(* SenderSpec and the counts of WrappingSpec in one run.  Neither knows of the     *)
(* other, so one moves only while the other is where it began; the sender moves   *)
(* beside one of the ISNs the counts may have.                                    *)
EXTENDS SenderSpec, WrappingSpec

MCInit == Init /\ CountsInit

MCNext ==
    \/ Next /\ CountsInit /\ isn = ISN /\ UNCHANGED counts
    \/ CountsNext /\ Init /\ UNCHANGED vars

MCSpec == MCInit /\ [][MCNext]_<<vars, counts>>
=============================================================================
