---------------------------- MODULE BoundedQueue ----------------------------
(***************************************************************************)
(* What CircularBuffer promises to several threads: a first-in first-out   *)
(* queue of at most Size elements, whose operations take effect at one     *)
(* moment between call and return, and are refused only if at that moment  *)
(* the queue is full or empty.                                             *)
(***************************************************************************)
EXTENDS Naturals, Sequences

CONSTANTS Threads, Values, Size, Pending, Done, Refused

VARIABLES
  queue,    \* the elements, the oldest first
  request,  \* of each thread: the element it pushes, or Pending for a pop
  answer    \* of each thread: Pending, Refused, Done for a push or the element popped

vars == <<queue, request, answer>>

Init ==
  /\ queue = <<>>
  /\ request = [t \in Threads |-> Pending]
  /\ answer = [t \in Threads |-> Refused]

Begin(t, r) ==
  /\ answer[t] # Pending
  /\ request' = [request EXCEPT ![t] = r]
  /\ answer' = [answer EXCEPT ![t] = Pending]
  /\ UNCHANGED queue

Finish(t, a) == answer[t] = Pending /\ answer' = [answer EXCEPT ![t] = a] /\ UNCHANGED request

Push(t) ==
  /\ request[t] # Pending
  /\ Len(queue) < Size
  /\ queue' = Append(queue, request[t])
  /\ Finish(t, Done)

Pop(t) ==
  /\ request[t] = Pending
  /\ queue # <<>>
  /\ queue' = Tail(queue)
  /\ Finish(t, Head(queue))

Refuse(t) ==
  /\ IF request[t] = Pending THEN queue = <<>> ELSE Len(queue) = Size
  /\ Finish(t, Refused)
  /\ UNCHANGED queue

Next == \E t \in Threads :
  \/ \E r \in Values \cup {Pending} : Begin(t, r)
  \/ Push(t) \/ Pop(t) \/ Refuse(t)

Spec == Init /\ [][Next]_vars
=============================================================================
