----------------------------- MODULE StreamPair -----------------------------
(***************************************************************************)
(* The pair of connected stream sockets between the owner of a              *)
(* TCPSpongeSocket and its TCP thread, used through FileDescriptor          *)
(* (libsponge/util/file_descriptor.cc): p[e] holds what end e may still     *)
(* read and whether either end has shut this direction down.                *)
(***************************************************************************)
EXTENDS ByteStream

CONSTANT PipeCapacity   \* bytes the kernel holds for each direction

ASSUME PipeAssumption == PipeCapacity \in Nat \ {0}

Other(e) == IF e = "owner" THEN "tcp" ELSE "owner"

NewPair == [e \in {"owner", "tcp"} |-> [bytes |-> << >>, shut |-> FALSE]]

\* What poll() says of end e.
Readable(p, e) == p[e].bytes # << >> \/ p[e].shut
Writable(p, e) == Len(p[Other(e)].bytes) < PipeCapacity
HungUp(p, e) == \A f \in {"owner", "tcp"} : p[f].shut

\* read(limit): the bytes; none, with a limit that is not zero, is the end of the file.
ReadData(p, e, limit) == SubSeq(p[e].bytes, 1, Lesser(limit, Len(p[e].bytes)))
AfterRead(p, e, limit) ==
    [p EXCEPT ![e].bytes = SubSeq(@, Lesser(limit, Len(@)) + 1, Len(@))]
ReadsEof(p, e, limit) == limit > 0 /\ p[e].bytes = << >>

\* write(data, false): as many bytes as there is room for.  Writing bytes to a direction
\* that is shut down raises SIGPIPE; writing none does nothing.
WriteSize(p, e, data) == Lesser(Len(data), PipeCapacity - Len(p[Other(e)].bytes))
AfterWrite(p, e, data) ==
    [p EXCEPT ![Other(e)].bytes = @ \o SubSeq(data, 1, WriteSize(p, e, data))]
WriteFails(p, e, data) == data # << >> /\ p[Other(e)].shut

ShutWrite(p, e) == [p EXCEPT ![Other(e)].shut = TRUE]
ShutBoth(p) == [e \in DOMAIN p |-> [p[e] EXCEPT !.shut = TRUE]]
=============================================================================
