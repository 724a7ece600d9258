------------------------------ MODULE ByteSink ------------------------------
(***************************************************************************)
(* What the output buffer promises its callers, with the write() loop      *)
(* hidden: bytes are put into a record of Capacity bytes, and the record   *)
(* goes to the stream as a whole.  The two ways a stream can be spoiled are *)
(* explicit: Tear, a flush that failed half way and keeps its record to be *)
(* sent again from its start, and CutShort, a flush the other end stopped  *)
(* accepting, whose remaining bytes are forgotten.                         *)
(***************************************************************************)
EXTENDS Integers

CONSTANT Capacity    \* bytes in a record

VARIABLES
  buffered,    \* bytes of the current record that are taken
  delivered,   \* bytes the stream received from flushes that have ended
  stream       \* "torn" once a flush ended short of a whole record

sinkVars == <<buffered, delivered, stream>>

\* The type of the state.
SinkTypeOK == /\ buffered \in 0..Capacity
              /\ delivered \in Nat
              /\ stream \in {"whole", "torn"}

SinkInit == buffered = 0 /\ delivered = 0 /\ stream = "whole"

\* A caller takes room that is left.
Put == /\ buffered' \in (buffered + 1)..Capacity
       /\ UNCHANGED <<delivered, stream>>

\* A caller gives back some of what it did not need.
TakeBack == /\ buffered' \in 0..(buffered - 1)
            /\ UNCHANGED <<delivered, stream>>

\* The record is sent whole: what was not taken goes out as zeros.
Drain == /\ buffered > 0
         /\ delivered' = delivered + Capacity
         /\ buffered' = 0
         /\ UNCHANGED stream

\* What an attempt that ends early may have sent.
PartSent == delivered' \in delivered..(delivered + Capacity - 1)

\* A flush fails on its way; nothing the callers put in is given up.
Tear == /\ buffered > 0
        /\ PartSent
        /\ stream' = "torn"
        /\ UNCHANGED buffered

\* The stream accepts no more; the rest of the record is given up.
CutShort == /\ buffered > 0
            /\ PartSent
            /\ stream' = "torn"
            /\ buffered' = 0

\* The record is discarded unsent.
Discard == /\ buffered' = 0
           /\ UNCHANGED <<delivered, stream>>

SinkNext ==
  \/ Put \/ TakeBack
  \/ Drain \/ Tear \/ CutShort
  \/ Discard

SinkSpec == SinkInit /\ [][SinkNext]_sinkVars
=============================================================================
