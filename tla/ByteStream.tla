----------------------------- MODULE ByteStream -----------------------------
(***************************************************************************)
(* The in-memory byte stream of libsponge/byte_stream.cc, as operators on a *)
(* record: an operator named for a method maps the record before a call to  *)
(* the record after it.  A byte is any value; a string is a sequence.       *)
(***************************************************************************)
EXTENDS Integers, Sequences

Lesser(a, b) == IF a < b THEN a ELSE b
Greater(a, b) == IF a > b THEN a ELSE b

NewStream(capacity) ==
    [buffer        |-> << >>,
     capacity      |-> capacity,
     input_ended   |-> FALSE,
     error         |-> FALSE,
     bytes_written |-> 0,
     bytes_read    |-> 0]

\* The n bytes of a stream from index on, where the byte at an index is that number.
Excerpt(index, len) == [k \in 1..len |-> index + k - 1]

remaining_capacity(s) == s.capacity - Len(s.buffer)

eof(s) == s.input_ended /\ s.buffer = << >>

\* How many of n offered bytes a write takes: none after the end or an error.
Accepted(s, n) ==
    IF s.input_ended \/ s.error THEN 0 ELSE Lesser(n, remaining_capacity(s))

write(s, data) ==
    LET n == Accepted(s, Len(data))
    IN  [s EXCEPT !.buffer = @ \o SubSeq(data, 1, n),
                  !.bytes_written = @ + n]

peek_output(s, len) == SubSeq(s.buffer, 1, Lesser(len, Len(s.buffer)))

pop_output(s, len) ==
    LET n == Lesser(len, Len(s.buffer))
    IN  [s EXCEPT !.buffer = SubSeq(@, n + 1, Len(@)),
                  !.bytes_read = @ + n]

end_input(s) == [s EXCEPT !.input_ended = TRUE]

set_error(s) == [s EXCEPT !.error = TRUE]
=============================================================================
