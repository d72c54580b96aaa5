----------------------------- MODULE MCRingBuffer -----------------------------
(* Model values for RingBuffer: messages whose bytes look like lengths. *)
EXTENDS RingBuffer

MCMessage == {<<2>>, <<1, 0>>}

===============================================================================
