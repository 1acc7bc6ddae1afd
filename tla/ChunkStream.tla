---------------------------- MODULE ChunkStream -----------------------------
(***************************************************************************)
(* What a receiving window promises, without slots, locks or waiting: a    *)
(* file arrives in chunks, each accepted at most once, at most Slots       *)
(* chunks ahead of what has been delivered; it is delivered in order, byte *)
(* for byte from the accepted bodies; after the close nothing is accepted. *)
(***************************************************************************)
EXTENDS Integers

CONSTANTS Bodies, ChunkSize, TotalSize, Slots, NoCRC, NoByte

VARIABLES
  have,     \* per chunk: the accepted body, or NoCRC
  pos,      \* bytes delivered
  sink,     \* the delivered bytes
  closed

svars == <<have, pos, sink, closed>>

Last == (TotalSize - 1) \div ChunkSize

(* The end of chunk c in the file. *)
End(c) == IF c = Last THEN TotalSize ELSE (c + 1) * ChunkSize

At == pos \div ChunkSize

SInit ==
  /\ have = [c \in 0 .. Last |-> NoCRC]
  /\ pos = 0
  /\ sink = [p \in 0 .. TotalSize - 1 |-> NoByte]
  /\ closed = FALSE

Accept(c, v) ==
  /\ ~closed
  /\ have[c] = NoCRC
  /\ c \in At .. At + Slots - 1
  /\ have' = [have EXCEPT ![c] = v]
  /\ UNCHANGED <<pos, sink, closed>>

(* A delivery under way when the stream is closed may still complete. *)
Deliver(k) ==
  /\ pos < TotalSize
  /\ have[At] # NoCRC
  /\ pos + k <= End(At)
  /\ pos' = pos + k
  /\ sink' = [p \in 0 .. TotalSize - 1 |->
                IF p \in pos .. pos + k - 1 THEN [pos |-> p, of |-> have[At]] ELSE sink[p]]
  /\ UNCHANGED <<have, closed>>

Close ==
  /\ closed' = TRUE
  /\ UNCHANGED <<have, pos, sink>>

SNext ==
  \/ \E c \in 0 .. Last, v \in Bodies : Accept(c, v)
  \/ \E k \in 1 .. ChunkSize : Deliver(k)
  \/ Close

SSpec == SInit /\ [][SNext]_svars
=============================================================================
