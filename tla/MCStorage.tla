------------------------------ MODULE MCStorage -----------------------------
(***************************************************************************)
(* Instances of CircularBuffer, NVStorage and RTCStorage for TLC: where    *)
(* Lilu and its plugins keep data.  They share no variable, so they need   *)
(* not be interleaved: a behaviour is one of one of them.                  *)
(***************************************************************************)
EXTENDS CircularBuffer, NVStorage, RTCStorage

VARIABLE subject   \* the module that is at work

CONSTANT a

ClockBytes == 0..2

\* Within a bank, across the banks, over the checksum, too long, not guarded.
ClockRequests ==
  { [op |-> o, off |-> f, bytes |-> <<1, 2>>, crc |-> o = "write", introff |-> TRUE,
     guarded |-> TRUE] : o \in {"read", "write"}, f \in {0, 2, 3, 7} } \cup
  { [op |-> "write", off |-> 3, bytes |-> <<1, 2>>, crc |-> FALSE, introff |-> FALSE,
     guarded |-> TRUE],
    [op |-> "write", off |-> 7, bytes |-> <<1, 2>>, crc |-> TRUE, introff |-> TRUE,
     guarded |-> FALSE] }

\* What is not at work starts in one state only; the clock has one memory.
MCInit ==
  /\ memory = [i \in 0..7 |-> i % 3]
  /\ Init /\ NVInit /\ RTCInit
  /\ subject \in {"buffer", "nvram", "clock"}
  /\ subject # "buffer" => \A i \in Places : storage[i] = a
  /\ subject # "clock" => interrupts

MCNext ==
  \/ subject = "buffer" /\ Next /\ UNCHANGED <<nvVars, rtcVars, subject>>
  \/ subject = "nvram" /\ NVNext /\ UNCHANGED <<vars, rtcVars, subject>>
  \/ subject = "clock" /\ RTCNext /\ UNCHANGED <<vars, nvVars, subject>>

\* The fairness of CircularBuffer.
MCSpec ==
  /\ MCInit
  /\ [][MCNext]_<<vars, nvVars, rtcVars, subject>>
  /\ subject = "buffer" => \A t \in Threads : SF_vars(Lock(t)) /\ WF_vars(Inside(t))
=============================================================================
