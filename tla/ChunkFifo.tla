------------------------------ MODULE ChunkFifo ------------------------------
(***************************************************************************)
(* What a varchunk ring promises its two users: chunks come out once, in   *)
(* the order in which they went in, with the size and the payload they     *)
(* went in with.  Module Varchunk implements this specification.           *)
(***************************************************************************)
EXTENDS Sequences

CONSTANTS Chunk,    \* the chunks a producer may write
          NoChunk   \* "nothing has been read yet"

VARIABLES queue,    \* chunks published and not yet released by the consumer
          got       \* the chunk the consumer released last

vars == <<queue, got>>

Init == queue = <<>> /\ got = NoChunk

Write(c) ==
  /\ queue' = Append(queue, c)
  /\ UNCHANGED got

Read ==
  /\ queue # <<>>
  /\ got' = Head(queue)
  /\ queue' = Tail(queue)

Next == Read \/ \E c \in Chunk : Write(c)

Spec == Init /\ [][Next]_vars
=============================================================================
