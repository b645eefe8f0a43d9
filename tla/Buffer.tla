-------------------------------- MODULE Buffer --------------------------------
(***************************************************************************)
(* The I/O buffer of buffer.c: an array with a read and a write pointer,   *)
(* which are offsets from `data' here; `limit' is Size and never changes.  *)
(*                                                                         *)
(* The actions are the operations of buffer.c as pop3filter calls them,    *)
(* and the two ways in which pop3_client_nio.c moves the pointers itself.  *)
(***************************************************************************)
EXTENDS Naturals, Sequences

CONSTANTS
  Octets,  \* the values of a byte
  Size     \* limit - data

ASSUME SizeAssumption == Size \in Nat \ {0}
ASSUME OctetsAssumption == Octets # {}

VARIABLES
  data,    \* the array; a byte that was never written is arbitrary
  read,    \* read - data
  write    \* write - data

bufferVars == <<data, read, write>>

Array == [0..(Size - 1) -> Octets]

\* The bytes of d between the offsets r and w, and those between the pointers, as
\* the queue they stand for.
Window(d, r, w) == [i \in 1..(w - r) |-> d[r + i - 1]]
Content == Window(data, read, write)

------------------------------------------------------------------------------
(* The operations that only look at the pointers.                          *)

\* The count buffer_write_ptr stores.
room == Size - write
buffer_can_write == room > 0

\* The count buffer_read_ptr stores.
pending == write - read
buffer_can_read == pending > 0

------------------------------------------------------------------------------
(* buffer_init, on an array of unknown contents.                           *)
buffer_init == data \in Array /\ read = 0 /\ write = 0

buffer_reset == read' = 0 /\ write' = 0 /\ UNCHANGED data

\* (slip) memmove copies one byte less
compacted_short(r) ==
  [i \in 0..(Size - 1) |-> IF i + 1 < write - r THEN data[r + i] ELSE data[i]]

\* The array after memmove(data, data + r, write - r).
compacted(r) == [i \in 0..(Size - 1) |-> IF i < write - r THEN data[r + i] ELSE data[i]]

\* buffer_compact once the read pointer is r: an empty buffer restarts at the
\* first byte without a copy, others are moved there.
compact_at(r) ==
  IF r = 0 THEN read' = 0 /\ UNCHANGED <<data, write>>
  ELSE IF r = write THEN read' = 0 /\ write' = 0 /\ UNCHANGED data
  ELSE data' = compacted(r) /\ read' = 0 /\ write' = write - r

buffer_compact == compact_at(read)

\* The array after the bytes of s were stored from the write pointer on.
received(s) ==
  [i \in 0..(Size - 1) |->
     IF i >= write /\ i < write + Len(s) THEN s[i - write + 1] ELSE data[i]]

\* recv(2) or read(2) into buffer_write_ptr of at most `room' bytes, and
\* buffer_write_adv of as many.
fill(s) ==
  /\ Len(s) <= room
  /\ data' = received(s)
  /\ write' = write + Len(s)
  /\ UNCHANGED read

\* command_cread: n bytes are received and the write pointer is then moved back,
\* so that it stays after the first `kept' of them, those of the command.
fill_and_rewind(s, kept) ==
  /\ Len(s) <= room
  /\ data' = received(s)
  /\ write' = write + kept
  /\ UNCHANGED read

\* (slip) the pointer is advanced by more than is pending
read_limit_of_room == room

\* What send(2) may have taken: at most what buffer_read_ptr offered.
read_limit == pending

\* buffer_read_adv: an empty buffer compacts itself.
buffer_read_adv(n) ==
  /\ n <= read_limit
  /\ IF read + n = write THEN compact_at(read + n)
     ELSE read' = read + n /\ UNCHANGED <<data, write>>

\* command_swrite adds to the read pointer itself: no compaction.
raw_read_adv(n) == n <= read_limit /\ read' = read + n /\ UNCHANGED <<data, write>>

\* buffer_read takes one byte if there is one.
buffer_read == buffer_can_read /\ buffer_read_adv(1)

\* buffer_write drops the byte if there is no room.
buffer_write(c) == buffer_can_write /\ fill(<<c>>)

Chunks == UNION {[1..n -> Octets] : n \in 1..Size}

BufferNext ==
  \/ buffer_reset
  \/ buffer_compact
  \/ \E s \in Chunks : fill(s)
  \/ \E s \in Chunks : \E kept \in 1..Len(s) : fill_and_rewind(s, kept)
  \/ \E n \in 0..Size : buffer_read_adv(n)
  \/ \E n \in 0..Size : raw_read_adv(n)
  \/ buffer_read
  \/ \E c \in Octets : buffer_write(c)

BufferSpec == buffer_init /\ [][BufferNext]_bufferVars

------------------------------------------------------------------------------
(* Properties.                                                             *)

TypeOK == data \in Array /\ read \in 0..Size /\ write \in 0..Size

\* The invariant buffer.h states, "R <= W <= limit": the one the asserts of
\* buffer_write_ptr, buffer_read_ptr and the two advances test.
PointersOrdered == 0 <= read /\ read <= write /\ write <= Size

Abstract == INSTANCE ByteQueue WITH Bytes <- Octets, q <- Content

\* The buffer is a queue: no operation loses, duplicates, reorders or overwrites
\* a byte that is still to be read, compaction included.
IsQueue == Abstract!Spec
==============================================================================
