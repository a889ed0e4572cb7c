--------------------------- MODULE CircularBuffer ---------------------------
(***************************************************************************)
(* CircularBuffer: a ring of Size places, read at indexr and written at    *)
(* indexw, used by several threads under one lock.  The lock is recursive: *)
(* push and pop hold it while isFull and isEmpty take it again, which for  *)
(* the owner is no step of its own.                                        *)
(***************************************************************************)
EXTENDS Naturals, Sequences

CONSTANTS
  Threads,
  Values,     \* the elements
  Size,       \* the capacity; it may be 0
  NoThread,   \* the lock is free
  Pending,    \* a call that is not answered; also the request of a pop
  Done,       \* the answer of a push
  Refused     \* full or empty

ASSUME SizeAssumption == Size \in Nat
ASSUME ConstantsAssumption ==
  /\ NoThread \notin Threads
  /\ Pending \notin Values /\ Done \notin Values /\ Refused \notin Values
  /\ Pending # Done /\ Pending # Refused /\ Done # Refused

VARIABLES
  storage, indexr, indexw, count,
  lock,       \* the thread that holds the lock
  pc,         \* of each thread: where in push or pop it is
  request,    \* of each thread: the element it pushes, or Pending for a pop
  answer      \* of each thread: the answer of its last call

vars == <<storage, indexr, indexw, count, lock, pc, request, answer>>

Places == IF Size = 0 THEN {} ELSE 0 .. (Size - 1)

\* The memory of Buffer::create is not initialised; any contents will do.
Init ==
  /\ storage \in [Places -> Values]
  /\ indexr = 0 /\ indexw = 0 /\ count = 0
  /\ lock = NoThread
  /\ pc = [t \in Threads |-> "idle"]
  /\ request = [t \in Threads |-> Pending]
  /\ answer = [t \in Threads |-> Refused]

-----------------------------------------------------------------------------
IsPop(t) == request[t] = Pending

IsFull == count = Size /\ indexr = indexw

IsEmpty == count = 0 /\ indexr = indexw

Begin(t, r) ==
  /\ pc[t] = "idle"
  /\ pc' = [pc EXCEPT ![t] = "lock"]
  /\ request' = [request EXCEPT ![t] = r]
  /\ answer' = [answer EXCEPT ![t] = Pending]
  /\ UNCHANGED <<storage, indexr, indexw, count, lock>>

\* Mutant of Lock: the lock does not exclude the other threads.
Lock_Shared(t) ==
  /\ pc[t] = "lock"
  /\ lock' = t
  /\ pc' = [pc EXCEPT ![t] = "test"]
  /\ UNCHANGED <<storage, indexr, indexw, count, request, answer>>

Lock(t) ==
  /\ pc[t] = "lock" /\ lock = NoThread
  /\ lock' = t
  /\ pc' = [pc EXCEPT ![t] = "test"]
  /\ UNCHANGED <<storage, indexr, indexw, count, request, answer>>

\* Mutant of Refuse: the thread waits for a change while it holds the lock.
Refuse_Spins(t) ==
  /\ pc[t] = "test"
  /\ IF IsPop(t) THEN IsEmpty ELSE IsFull
  /\ UNCHANGED vars

\* The early return of a push to a full, or a pop from an empty buffer.
Refuse(t) ==
  /\ pc[t] = "test"
  /\ IF IsPop(t) THEN IsEmpty ELSE IsFull
  /\ answer' = [answer EXCEPT ![t] = Refused]
  /\ pc' = [pc EXCEPT ![t] = "unlock"]
  /\ UNCHANGED <<storage, indexr, indexw, count, request, lock>>

\* storage[indexw] = element
Store(t) ==
  /\ pc[t] = "test" /\ ~IsPop(t) /\ ~IsFull
  /\ storage' = [storage EXCEPT ![indexw] = request[t]]
  /\ pc' = [pc EXCEPT ![t] = "advance"]
  /\ UNCHANGED <<indexr, indexw, count, request, answer, lock>>

AdvanceWrite(t) ==
  /\ pc[t] = "advance"
  /\ indexw' = (indexw + 1) % Size
  /\ count' = count + 1
  /\ answer' = [answer EXCEPT ![t] = Done]
  /\ pc' = [pc EXCEPT ![t] = "unlock"]
  /\ UNCHANGED <<storage, indexr, request, lock>>

\* element = storage[indexr], and the index and the count
Fetch(t) ==
  /\ pc[t] = "test" /\ IsPop(t) /\ ~IsEmpty
  /\ answer' = [answer EXCEPT ![t] = storage[indexr]]
  /\ indexr' = (indexr + 1) % Size
  /\ count' = count - 1
  /\ pc' = [pc EXCEPT ![t] = "unlock"]
  /\ UNCHANGED <<storage, indexw, request, lock>>

Unlock(t) ==
  /\ pc[t] = "unlock"
  /\ lock' = NoThread
  /\ pc' = [pc EXCEPT ![t] = "idle"]
  /\ UNCHANGED <<storage, indexr, indexw, count, request, answer>>

Inside(t) == Refuse(t) \/ Store(t) \/ AdvanceWrite(t) \/ Fetch(t) \/ Unlock(t)

Next == \E t \in Threads :
  (\E r \in Values \cup {Pending} : Begin(t, r)) \/ Lock(t) \/ Inside(t)

Spec == Init /\ [][Next]_vars

\* The owner of the lock runs on, and the kernel's lock does not starve a waiter
\* for ever.
FairSpec == Spec /\ \A t \in Threads : SF_vars(Lock(t)) /\ WF_vars(Inside(t))

-----------------------------------------------------------------------------
TypeOK ==
  /\ storage \in [Places -> Values]
  /\ indexr \in Nat /\ indexw \in Nat /\ count \in Nat
  /\ Size > 0 => indexr < Size /\ indexw < Size
  /\ count <= Size
  /\ lock \in Threads \cup {NoThread}
  /\ pc \in [Threads -> {"idle", "lock", "test", "advance", "unlock"}]
  /\ request \in [Threads -> Values \cup {Pending}]
  /\ answer \in [Threads -> Values \cup {Pending, Done, Refused}]

\* The elements in the order they will be popped.
Contents == [i \in 1 .. count |-> storage[(indexr + i - 1) % Size]]

Queue == INSTANCE BoundedQueue WITH queue <- Contents

\* push and pop of several threads, each of several steps, behave as operations
\* of a bounded first-in first-out queue that happen at one moment.
Implements == Queue!Spec

\* Every call returns: each way out of push and pop releases the lock.
CallsReturn == \A t \in Threads : pc[t] = "lock" ~> pc[t] = "idle"
=============================================================================
