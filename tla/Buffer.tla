------------------------------- MODULE Buffer -------------------------------
(***************************************************************************)
(* The linked buffers of libroar/buffer.c, as operators.  A buffer is its  *)
(* memory (data), the offset of user_data in it and user_len; a chain is   *)
(* the sequence of buffers that next links, the empty chain is NULL.       *)
(***************************************************************************)
EXTENDS Integers, Sequences

\* roar_buffer_new_data(), filled by the caller.
roar_buffer_new(content) ==
    [data |-> content, offset |-> 0, user_len |-> Len(content)]

\* What user_data points to.
UserData(b) == SubSeq(b.data, b.offset + 1, b.offset + b.user_len)

\* All that is to be had from a chain, in order.
Content(chain) ==
    LET upto[k \in 0 .. Len(chain)] ==
            IF k = 0 THEN <<>> ELSE upto[k - 1] \o UserData(chain[k])
    IN  upto[Len(chain)]

\* Of memory that is large enough only the length is changed.
roar_buffer_set_len(b, len) == [b EXCEPT !.user_len = len]

roar_buffer_set_offset(b, off) ==
    [b EXCEPT !.user_len = @ - off, !.offset = @ + off]

\* The walk to the last buffer and its next pointer.
roar_buffer_add(chain, b) == Append(chain, b)

\* Mutant of ShiftOne: a buffer that is used up is kept.
ShiftOne_KeepsUsed(r, b) ==
    IF r.todo = 0 THEN [r EXCEPT !.rest = Append(@, b)]
    ELSE IF b.user_len >= r.todo
         THEN [data |-> r.data \o SubSeq(UserData(b), 1, r.todo), todo |-> 0,
               rest |-> Append(r.rest, roar_buffer_set_offset(b, r.todo))]
         ELSE [r EXCEPT !.data = @ \o UserData(b), !.todo = @ - b.user_len]

\* Mutant of ShiftOne: the copy does not go on to the next buffer.
ShiftOne_First(r, b) ==
    IF r.todo = 0 THEN [r EXCEPT !.rest = Append(@, b)]
    ELSE IF b.user_len > r.todo
         THEN [data |-> r.data \o SubSeq(UserData(b), 1, r.todo), todo |-> 0,
               rest |-> Append(r.rest, roar_buffer_set_offset(b, r.todo))]
         ELSE [r EXCEPT !.data = @ \o UserData(b), !.todo = 0]

(***************************************************************************)
(* One round of the loop of roar_buffer_shift_out(): r is the data copied  *)
(* so far, what is still to be had (todo) and the chain behind the cursor. *)
(***************************************************************************)
ShiftOne(r, b) ==
    IF r.todo = 0 THEN [r EXCEPT !.rest = Append(@, b)]
    ELSE IF b.user_len > r.todo
         THEN [data |-> r.data \o SubSeq(UserData(b), 1, r.todo), todo |-> 0,
               rest |-> Append(r.rest, roar_buffer_set_offset(b, r.todo))]
         ELSE [r EXCEPT !.data = @ \o UserData(b), !.todo = @ - b.user_len]

\* Mutant of roar_buffer_shift_out: the copy ends one unit early.
roar_buffer_shift_out_Early(chain, len) ==
    LET upto[k \in 0 .. Len(chain)] ==
            IF k = 0 THEN [data |-> <<>>, todo |-> len - 1, rest |-> <<>>]
            ELSE ShiftOne(upto[k - 1], chain[k])
    IN  upto[Len(chain)]

\* roar_buffer_shift_out() on a chain that is not empty.
roar_buffer_shift_out(chain, len) ==
    LET upto[k \in 0 .. Len(chain)] ==
            IF k = 0 THEN [data |-> <<>>, todo |-> len, rest |-> <<>>]
            ELSE ShiftOne(upto[k - 1], chain[k])
    IN  upto[Len(chain)]
=============================================================================
