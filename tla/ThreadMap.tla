----------------------------- MODULE ThreadMap ------------------------------
(***************************************************************************)
(* What ThreadLocal promises ("Thread specific container of T values"): a  *)
(* map from threads to values.  A step belongs to one thread; it may leave *)
(* that thread's value alone, replace it by the value the thread asked to  *)
(* store, or erase it, and it concerns no other thread.                    *)
(***************************************************************************)
CONSTANTS Threads, NoValue

VARIABLES
  map,          \* the value of each thread
  wanted,       \* the value each thread asks to store
  client        \* whatever else a thread is doing

Init == map = [t \in Threads |-> NoValue]

Step(t) ==
  /\ map'[t] \in {map[t], wanted[t], NoValue}
  /\ \A u \in Threads \ {t} :
       map'[u] = map[u] /\ wanted'[u] = wanted[u] /\ client'[u] = client[u]

Next == \E t \in Threads : Step(t)

Spec == Init /\ [][Next]_<<map, wanted, client>>
=============================================================================
