---------------------------- MODULE JacksRbPort -----------------------------
(***************************************************************************)
(* The audio path of corelib/JacksRbPort.c: one JACK ring buffer per port, *)
(* which the process callback fills and the script empties.  A ring is     *)
(* modelled by the number of bytes in it.  rb_size is one number with      *)
(* three uses in the code: samples of room in the ring, bytes of framebuf, *)
(* and (in JacksRbClient) elements of the event queue.                     *)
(***************************************************************************)
EXTENDS Integers

CONSTANTS SampleSize,   \* jacks_sample_size, in bytes
          RbSize        \* rb_size

\* jack_ringbuffer_create rounds the size up to a power of two, at least 2
\* (external).
RingSize(sz) == CHOOSE s \in {2^k : k \in 1..30} :
                   s >= sz /\ (s = 2 \/ s < 2 * sz)

\* A JACK ring keeps one byte free to tell full from empty (external).
Capacity == RingSize(SampleSize * RbSize) - 1

\* Bytes JacksRbPort_new allocates for framebuf.
FramebufSize == RbSize

\* jack_ringbuffer_write stores what there is room for (external).
Stored(fill, cnt) == IF cnt <= Capacity - fill THEN cnt ELSE Capacity - fill

\* Mutant: a short write is not noticed.
WriteUnchecked(fill, nframes) ==
    [rc |-> 0, rb |-> fill + Stored(fill, SampleSize * nframes)]

\* JacksRbPort_write_to_ringbuffer: a short write is an overrun, but what fits
\* of it stays in the ring.
WriteToRingbuffer(fill, nframes) ==
    LET write_size == SampleSize * nframes
        written == Stored(fill, write_size)
    IN  [rc |-> IF written < write_size THEN -1 ELSE 0, rb |-> fill + written]

\* JacksRbPort_read_from_ringbuffer: the length it returns is in bytes.
ReadFromRingbuffer(fill) ==
    LET blen == IF fill < RbSize THEN fill ELSE RbSize
    IN  [len |-> blen, rb |-> fill - blen]
=============================================================================
