----------------------------- MODULE RxCtrState -----------------------------
(***************************************************************************)
(* The reception state of one message counter (transport/dedup.rs): the    *)
(* largest counter seen and a bitmap of the MSG_RX_STATE_BITMAP_LEN        *)
(* counters just below it.  The bitmap is the set of its one bits; bit b   *)
(* stands for the counter max_ctr - 1 - b.                                 *)
(*                                                                         *)
(* Counters are unsigned, 2 * HALF values wide (u32 in the code).  The     *)
(* code compares them through a signed subtraction, which wraps in a       *)
(* release build.                                                          *)
(***************************************************************************)
EXTENDS Integers

CONSTANTS MSG_RX_STATE_BITMAP_LEN,   \* 16
          HALF                       \* 2^31

ASSUME BitmapAssumption == MSG_RX_STATE_BITMAP_LEN \in Nat \ {0}

ASSUME HalfAssumption == HALF \in Nat /\ HALF > MSG_RX_STATE_BITMAP_LEN

Ctr == 0..(2 * HALF - 1)

Bit == 0..(MSG_RX_STATE_BITMAP_LEN - 1)

RxState == [max_ctr : Ctr, ctr_bitmap : SUBSET Bit]

\* The state a counter starts from, and restarts from: every counter of the
\* window is taken as already received.
new(c) == [max_ctr |-> c, ctr_bitmap |-> Bit]

\* (msg_ctr as i32) - (max_ctr as i32), wrapping.
idiff(c, max) ==
  LET d == c - max
  IN  IF d >= HALF THEN d - 2 * HALF ELSE IF d < -HALF THEN d + 2 * HALF ELSE d

\* ctr_bitmap <<= n
Shifted(bits, n) == {b \in Bit : b - n \in bits}

\* The message lies in the window below max_ctr, at this bit.
InBitmap(rx, c) == idiff(c, rx.max_ctr) \in -MSG_RX_STATE_BITMAP_LEN..-1

Index(rx, c) == -idiff(c, rx.max_ctr) - 1

\* A bug: the previous largest counter is not marked when the window moves up.
Ahead_unmarked(rx, c) ==
  LET udiff == c - rx.max_ctr
  IN  [max_ctr    |-> c,
       ctr_bitmap |-> IF udiff < MSG_RX_STATE_BITMAP_LEN
                        THEN Shifted(rx.ctr_bitmap, udiff) ELSE Bit]

\* A bug: the window moves up without the bitmap being shifted.
Ahead_unshifted(rx, c) ==
  LET udiff == c - rx.max_ctr
  IN  [max_ctr    |-> c,
       ctr_bitmap |-> IF udiff < MSG_RX_STATE_BITMAP_LEN
                        THEN rx.ctr_bitmap \cup {udiff - 1} ELSE Bit]

\* The window moves up to c.  A jump past the whole window marks all of it.
Ahead(rx, c) ==
  LET udiff == c - rx.max_ctr
  IN  [max_ctr    |-> c,
       ctr_bitmap |-> IF udiff < MSG_RX_STATE_BITMAP_LEN
                        THEN Shifted(rx.ctr_bitmap, udiff) \cup {udiff - 1}
                        ELSE Bit]

\* What post_recv answers: TRUE when the message is not a duplicate.
accepts(rx, c, is_encrypted) ==
  /\ c # rx.max_ctr
  /\ IF InBitmap(rx, c) THEN Index(rx, c) \notin rx.ctr_bitmap
                        ELSE c > rx.max_ctr \/ ~is_encrypted

\* The state post_recv leaves behind.
post_recv(rx, c, is_encrypted) ==
  IF ~accepts(rx, c, is_encrypted) THEN rx
  ELSE IF InBitmap(rx, c) THEN [rx EXCEPT !.ctr_bitmap = @ \cup {Index(rx, c)}]
  ELSE IF c > rx.max_ctr THEN Ahead(rx, c)
  ELSE new(c)
=============================================================================
