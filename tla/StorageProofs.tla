----------------------------- MODULE StorageProofs ----------------------------
(***************************************************************************)
(* Theorems about where Lilu and its plugins keep data.  CircularBuffer    *)
(* implements BoundedQueue for every set of threads and every capacity.    *)
(* In NVStorage, for any keys, data and options, reading undoes what       *)
(* writing did, and a checksum and the required options protect the reader.*)
(* In RTCStorage, for banks of any size, a transfer that no other CPU came *)
(* into moved the bytes that were asked for.                               *)
(***************************************************************************)
EXTENDS CircularBuffer, NVStorage, RTCStorage, SequenceTheorems, TLAPS

-----------------------------------------------------------------------------
(* CircularBuffer *)

\* Going round the ring at most once.
LEMMA RoundOnce ==
  ASSUME NEW n \in Nat, n > 0, NEW x \in Nat, x < 2 * n
  PROVE  x % n = IF x < n THEN x ELSE x - n
  BY SMT

-----------------------------------------------------------------------------
Holds(t) == pc[t] \in {"test", "advance", "unlock"}

Counters ==
  /\ indexr \in Nat /\ indexw \in Nat /\ count \in Nat
  /\ Size > 0 => indexr < Size /\ indexw < Size
  /\ count <= Size

ThreadTypes ==
  /\ lock \in Threads \cup {NoThread}
  /\ pc \in [Threads -> {"idle", "lock", "test", "advance", "unlock"}]
  /\ request \in [Threads -> Values \cup {Pending}]
  /\ answer \in [Threads -> Values \cup {Pending, Done, Refused}]

\* The places between the two indices are the elements.
RingFilled ==
  IF Size = 0 THEN indexr = 0 /\ indexw = 0
  ELSE indexw = IF indexr + count < Size THEN indexr + count ELSE indexr + count - Size

\* Only the owner of the lock is inside push or pop.
Exclusive == \A t \in Threads : Holds(t) => lock = t

\* A call is unanswered until its effect.
Unanswered == \A t \in Threads : answer[t] = Pending <=> pc[t] \in {"lock", "test", "advance"}

\* Between its two steps a push has its element in the place to be counted next.
Parked == \A t \in Threads : pc[t] = "advance" =>
  request[t] \in Values /\ count < Size /\ storage[indexw] = request[t]

BufferInv ==
  /\ storage \in [Places -> Values]
  /\ Counters /\ ThreadTypes /\ RingFilled /\ Exclusive /\ Unanswered /\ Parked

-----------------------------------------------------------------------------
LEMMA InitHolds == Init => BufferInv
  BY SizeAssumption, ConstantsAssumption
  DEF Init, BufferInv, Counters, ThreadTypes, RingFilled, Exclusive, Unanswered, Parked, Holds,
      Places

LEMMA BeginKeeps ==
  ASSUME BufferInv, NEW t \in Threads, NEW r \in Values \cup {Pending}, Begin(t, r)
  PROVE  BufferInv'
  <1> USE ConstantsAssumption DEF BufferInv, Begin
  <1>1. (storage \in [Places -> Values])' /\ Counters' /\ RingFilled'
    BY DEF Counters, RingFilled
  <1>2. ThreadTypes'
    BY DEF ThreadTypes
  <1>3. Exclusive'
    BY DEF Exclusive, Holds, ThreadTypes
  <1>4. Unanswered'
    BY DEF Unanswered, ThreadTypes
  <1>5. Parked'
    BY DEF Parked, ThreadTypes
  <1> QED BY <1>1, <1>2, <1>3, <1>4, <1>5

LEMMA LockKeeps ==
  ASSUME BufferInv, NEW t \in Threads, Lock(t)
  PROVE  BufferInv'
  <1> USE ConstantsAssumption DEF BufferInv, Lock
  <1>1. (storage \in [Places -> Values])' /\ Counters' /\ RingFilled'
    BY DEF Counters, RingFilled
  <1>2. ThreadTypes'
    BY DEF ThreadTypes
  <1>3. Exclusive'
    BY DEF Exclusive, Holds, ThreadTypes
  <1>4. Unanswered'
    BY DEF Unanswered, ThreadTypes
  <1>5. Parked'
    BY DEF Parked, ThreadTypes
  <1> QED BY <1>1, <1>2, <1>3, <1>4, <1>5

LEMMA RefuseKeeps ==
  ASSUME BufferInv, NEW t \in Threads, Refuse(t)
  PROVE  BufferInv'
  <1> USE ConstantsAssumption DEF BufferInv, Refuse
  <1>1. (storage \in [Places -> Values])' /\ Counters' /\ RingFilled'
    BY DEF Counters, RingFilled
  <1>2. ThreadTypes'
    BY DEF ThreadTypes
  <1>3. Exclusive'
    BY DEF Exclusive, Holds, ThreadTypes
  <1>4. Unanswered'
    BY DEF Unanswered, ThreadTypes
  <1>5. Parked'
    BY DEF Parked, ThreadTypes
  <1> QED BY <1>1, <1>2, <1>3, <1>4, <1>5

LEMMA UnlockKeeps ==
  ASSUME BufferInv, NEW t \in Threads, Unlock(t)
  PROVE  BufferInv'
  <1> USE ConstantsAssumption DEF BufferInv, Unlock
  <1>1. (storage \in [Places -> Values])' /\ Counters' /\ RingFilled'
    BY DEF Counters, RingFilled
  <1>2. ThreadTypes'
    BY DEF ThreadTypes
  <1>3. Exclusive'
    BY DEF Exclusive, Holds, ThreadTypes
  <1>4. Unanswered'
    BY DEF Unanswered, ThreadTypes
  <1>5. Parked'
    BY DEF Parked, ThreadTypes
  <1> QED BY <1>1, <1>2, <1>3, <1>4, <1>5

LEMMA StoreKeeps ==
  ASSUME BufferInv, NEW t \in Threads, Store(t)
  PROVE  BufferInv'
  <1> USE SizeAssumption, ConstantsAssumption DEF BufferInv, Store
  <1>1. Counters' /\ RingFilled'
    BY DEF Counters, RingFilled
  <1>2. count < Size
    BY DEF Counters, RingFilled, IsFull
  <1>3. indexw \in Places
    BY <1>2 DEF Counters, Places
  <1>4. request[t] \in Values
    BY DEF IsPop, ThreadTypes
  <1>5. (storage \in [Places -> Values])'
    BY <1>4
  <1>6. ThreadTypes'
    BY DEF ThreadTypes
  <1>7. Exclusive'
    BY DEF Exclusive, Holds, ThreadTypes
  <1>8. Unanswered'
    BY DEF Unanswered, ThreadTypes
  <1>9. Parked'
    BY <1>2, <1>3, <1>4 DEF Parked, Exclusive, Holds, ThreadTypes
  <1> QED BY <1>1, <1>5, <1>6, <1>7, <1>8, <1>9

LEMMA AdvanceWriteKeeps ==
  ASSUME BufferInv, NEW t \in Threads, AdvanceWrite(t)
  PROVE  BufferInv'
  <1> USE SizeAssumption, ConstantsAssumption DEF BufferInv, AdvanceWrite
  <1>1. count < Size
    BY DEF Parked
  <1>2. indexw' = IF indexw + 1 < Size THEN indexw + 1 ELSE 0
    BY <1>1, RoundOnce DEF Counters
  <1>3. Counters'
    BY <1>1, <1>2 DEF Counters
  <1>4. RingFilled'
    BY <1>1, <1>2 DEF Counters, RingFilled
  <1>5. ThreadTypes' /\ (storage \in [Places -> Values])'
    BY DEF ThreadTypes
  <1>6. Exclusive'
    BY DEF Exclusive, Holds, ThreadTypes
  <1>7. Unanswered'
    BY DEF Unanswered, ThreadTypes
  <1>8. Parked'
    BY DEF Parked, Exclusive, Holds, ThreadTypes
  <1> QED BY <1>3, <1>4, <1>5, <1>6, <1>7, <1>8

LEMMA FetchKeeps ==
  ASSUME BufferInv, NEW t \in Threads, Fetch(t)
  PROVE  BufferInv'
  <1> USE SizeAssumption, ConstantsAssumption DEF BufferInv, Fetch
  <1>1. count > 0 /\ Size > 0
    BY DEF Counters, RingFilled, IsEmpty
  <1>2. indexr' = IF indexr + 1 < Size THEN indexr + 1 ELSE 0
    BY <1>1, RoundOnce DEF Counters
  <1>3. Counters'
    BY <1>1, <1>2 DEF Counters
  <1>4. RingFilled'
    <2>1. CASE indexr + 1 < Size
      BY <1>1, <1>2, <2>1 DEF Counters, RingFilled
    <2>2. CASE indexr + 1 = Size
      BY <1>1, <1>2, <2>2 DEF Counters, RingFilled
    <2> QED BY <1>1, <2>1, <2>2 DEF Counters
  <1>5. storage[indexr] \in Values
    BY <1>1 DEF Counters, Places
  <1>6. ThreadTypes' /\ (storage \in [Places -> Values])'
    BY <1>5 DEF ThreadTypes
  <1>7. Exclusive'
    BY DEF Exclusive, Holds, ThreadTypes
  <1>8. Unanswered'
    BY <1>5 DEF Unanswered, ThreadTypes
  <1>9. Parked'
    BY DEF Parked, Exclusive, Holds, ThreadTypes
  <1> QED BY <1>3, <1>4, <1>6, <1>7, <1>8, <1>9

\* BufferInv holds in every state of every behaviour.
LEMMA BufferInductive == Spec => []BufferInv
  <1>1. BufferInv /\ [Next]_vars => BufferInv'
    <2> SUFFICES ASSUME BufferInv, [Next]_vars
                 PROVE  BufferInv'
      OBVIOUS
    <2>1. CASE Next
      <3>1. PICK t \in Threads :
              (\E r \in Values \cup {Pending} : Begin(t, r)) \/ Lock(t) \/ Inside(t)
        BY <2>1 DEF Next
      <3>2. CASE \E r \in Values \cup {Pending} : Begin(t, r)
        BY <3>2, BeginKeeps
      <3>3. CASE Lock(t)
        BY <3>3, LockKeeps
      <3>4. CASE Inside(t)
        BY <3>4, RefuseKeeps, StoreKeeps, AdvanceWriteKeeps, FetchKeeps, UnlockKeeps DEF Inside
      <3> QED BY <3>1, <3>2, <3>3, <3>4
    <2>2. CASE UNCHANGED vars
      BY <2>2 DEF vars, BufferInv, Counters, ThreadTypes, RingFilled, Exclusive, Unanswered,
                  Parked, Holds
    <2> QED BY <2>1, <2>2
  <1> QED BY <1>1, InitHolds, PTL DEF Spec

\* The indices and the count of push and pop stay within the buffer, for every
\* capacity and any number of threads.
THEOREM BufferTypes == Spec => []TypeOK
  <1>1. BufferInv => TypeOK
    BY DEF BufferInv, TypeOK, Counters, ThreadTypes
  <1> QED BY <1>1, BufferInductive, PTL

-----------------------------------------------------------------------------
\* The place of the i-th element when reading starts at r.
Place(r, i) == IF r + i - 1 < Size THEN r + i - 1 ELSE r + i - 1 - Size

LEMMA RingUnrolled ==
  ASSUME NEW st, NEW r \in Nat, NEW n \in Nat, n <= Size, r < Size
  PROVE  /\ \A i \in 1 .. n : Place(r, i) \in Places
         /\ [i \in 1 .. n |-> st[(r + i - 1) % Size]] = [i \in 1 .. n |-> st[Place(r, i)]]
  <1> USE SizeAssumption
  <1>1. ASSUME NEW i \in 1 .. n
        PROVE  (r + i - 1) % Size = Place(r, i) /\ Place(r, i) \in Places
    BY <1>1, RoundOnce DEF Place, Places
  <1> QED BY <1>1

LEMMA ContentsAre ==
  ASSUME BufferInv
  PROVE  /\ Contents = [i \in 1 .. count |-> storage[Place(indexr, i)]]
         /\ \A i \in 1 .. count : Place(indexr, i) \in Places
         /\ Contents \in Seq(Values) /\ Len(Contents) = count
  <1> USE SizeAssumption DEF BufferInv, Counters
  <1>1. \A i \in 1 .. count : Place(indexr, i) \in Places
    BY RingUnrolled
  <1>2. Contents = [i \in 1 .. count |-> storage[Place(indexr, i)]]
    <2>1. CASE Size > 0
      BY <2>1, RingUnrolled DEF Contents
    <2>2. CASE Size = 0
      BY <2>2 DEF Contents
    <2> QED BY <2>1, <2>2
  <1>3. \A i \in 1 .. count : storage[Place(indexr, i)] \in Values
    BY <1>1
  <1>4. Contents \in Seq(Values) /\ Len(Contents) = count
    BY <1>2, <1>3
  <1> QED BY <1>1, <1>2, <1>4

\* Counting the stored element appends it.
LEMMA PushAppends ==
  ASSUME BufferInv, NEW t \in Threads, AdvanceWrite(t)
  PROVE  /\ Len(Contents) < Size /\ request[t] \in Values
         /\ Contents' = Append(Contents, request[t])
  <1> USE SizeAssumption
  <1>1. count < Size /\ request[t] \in Values /\ storage[indexw] = request[t]
    BY DEF BufferInv, Parked, AdvanceWrite
  <1>2. BufferInv'
    BY AdvanceWriteKeeps
  <1>3. count' = count + 1 /\ indexr' = indexr /\ storage' = storage
    BY DEF AdvanceWrite
  <1>4. Place(indexr, count + 1) = indexw
    BY <1>1 DEF BufferInv, Counters, RingFilled, Place
  <1>5. Contents' = [i \in 1 .. count + 1 |-> storage[Place(indexr, i)]]
    <2>1. Contents' = [i \in 1 .. count' |-> storage'[Place(indexr', i)]]
      BY <1>1, <1>2, RingUnrolled DEF Contents, BufferInv, Counters
    <2> QED BY <2>1, <1>3
  <1>6. Contents = [i \in 1 .. count |-> storage[Place(indexr, i)]] /\ Len(Contents) = count
        /\ Contents \in Seq(Values)
    BY ContentsAre
  <1>7. Append(Contents, request[t]) = [i \in 1 .. count + 1 |-> storage[Place(indexr, i)]]
    BY <1>1, <1>4, <1>6 DEF BufferInv, Counters
  <1> QED BY <1>1, <1>5, <1>6, <1>7

\* Moving indexr removes the element it was at.
LEMMA PopRemoves ==
  ASSUME BufferInv, NEW t \in Threads, Fetch(t)
  PROVE  Contents # <<>> /\ Contents' = Tail(Contents) /\ storage[indexr] = Head(Contents)
  <1> USE SizeAssumption
  <1>1. count > 0 /\ count \in Nat /\ indexr \in Nat /\ indexr < Size /\ count <= Size
    BY DEF BufferInv, Counters, RingFilled, IsEmpty, Fetch
  <1>2. BufferInv'
    BY FetchKeeps
  <1>3. count' = count - 1 /\ storage' = storage
        /\ indexr' = IF indexr + 1 < Size THEN indexr + 1 ELSE 0
    BY <1>1, RoundOnce DEF Fetch
  <1>4. Contents = [i \in 1 .. count |-> storage[Place(indexr, i)]] /\ Len(Contents) = count
        /\ Contents \in Seq(Values)
    BY ContentsAre
  <1>5. ASSUME NEW i \in 1 .. count - 1
        PROVE  Place(indexr', i) = Place(indexr, i + 1)
    BY <1>1, <1>3, <1>5 DEF Place
  <1>6. Contents' = [i \in 1 .. count - 1 |-> storage[Place(indexr, i + 1)]]
    <2>1. Contents' = [i \in 1 .. count' |-> storage'[Place(indexr', i)]]
      BY <1>1, <1>2, RingUnrolled DEF Contents, BufferInv, Counters
    <2> QED BY <2>1, <1>3, <1>5
  <1>7. Tail(Contents) = [i \in 1 .. count - 1 |-> storage[Place(indexr, i + 1)]]
    BY <1>1, <1>4
  <1>8. Place(indexr, 1) = indexr
    BY <1>1 DEF Place
  <1>9. Contents # <<>> /\ Head(Contents) = storage[indexr]
    BY <1>1, <1>4, <1>8
  <1> QED BY <1>6, <1>7, <1>9

-----------------------------------------------------------------------------
LEMMA QuietContents ==
  ASSUME storage' = storage, indexr' = indexr, count' = count
  PROVE  Contents' = Contents
  BY DEF Contents

\* Storing the element touches no place that is counted.
LEMMA StoreHidden ==
  ASSUME BufferInv, NEW t \in Threads, Store(t)
  PROVE  Contents' = Contents
  <1> USE SizeAssumption
  <1>1. count < Size /\ count \in Nat /\ indexr \in Nat /\ indexr < Size
    BY DEF BufferInv, Counters, RingFilled, IsFull, Store
  <1>2. \A i \in 1 .. count : Place(indexr, i) # indexw
    BY <1>1 DEF BufferInv, RingFilled, Place
  <1>3. Contents = [i \in 1 .. count |-> storage[Place(indexr, i)]]
    BY ContentsAre
  <1>4. Contents' = [i \in 1 .. count |-> storage'[Place(indexr, i)]]
    <2>1. count' = count /\ indexr' = indexr
      BY DEF Store
    <2>2. Contents' = [i \in 1 .. count |-> storage'[(indexr + i - 1) % Size]]
      BY <2>1 DEF Contents
    <2>3. [i \in 1 .. count |-> storage'[(indexr + i - 1) % Size]]
            = [i \in 1 .. count |-> storage'[Place(indexr, i)]]
      <3>1. \A i \in 1 .. count : (indexr + i - 1) % Size = Place(indexr, i)
        BY <1>1, RoundOnce DEF Place
      <3> QED BY <3>1
    <2> QED BY <2>2, <2>3
  <1>5. \A i \in 1 .. count : storage'[Place(indexr, i)] = storage[Place(indexr, i)]
    BY <1>2, ContentsAre DEF Store, BufferInv
  <1> QED BY <1>3, <1>4, <1>5

\* A refused call finds the buffer full, or empty, as its request requires.
LEMMA RefusalDue ==
  ASSUME BufferInv, NEW t \in Threads, Refuse(t)
  PROVE  IF request[t] = Pending THEN Contents = <<>> ELSE Len(Contents) = Size
  BY ContentsAre, SizeAssumption DEF Refuse, IsPop, IsEmpty, IsFull, BufferInv, Counters

\* push and pop of any number of threads, on a buffer of any capacity, are the
\* operations of a bounded first-in first-out queue: each step under the lock is
\* a step of BoundedQueue or leaves its state alone.
THEOREM BufferIsQueue == Spec => Implements
  <1>1. Init => Queue!Init
    BY DEF Init, Queue!Init, Contents
  <1>2. BufferInv /\ [Next]_vars => [Queue!Next]_(Queue!vars)
    <2> SUFFICES ASSUME BufferInv, [Next]_vars
                 PROVE  [Queue!Next]_(Queue!vars)
      OBVIOUS
    <2>1. CASE Next
      <3>1. PICK t \in Threads :
              (\E r \in Values \cup {Pending} : Begin(t, r)) \/ Lock(t) \/ Inside(t)
        BY <2>1 DEF Next
      <3>a. pc[t] \in {"lock", "test", "advance"} => answer[t] = Pending
        BY DEF BufferInv, Unanswered
      <3>2. CASE \E r \in Values \cup {Pending} : Begin(t, r)
        <4>1. PICK r \in Values \cup {Pending} : Begin(t, r)
          BY <3>2
        <4>2. answer[t] # Pending
          BY <4>1 DEF Begin, BufferInv, Unanswered
        <4>3. Contents' = Contents
          BY <4>1, QuietContents DEF Begin
        <4>4. Queue!Begin(t, r)
          BY <4>1, <4>2, <4>3 DEF Begin, Queue!Begin
        <4> QED BY <4>4 DEF Queue!Next
      <3>3. CASE Lock(t) \/ Unlock(t)
        BY <3>3, QuietContents DEF Lock, Unlock, Queue!vars
      <3>4. CASE Refuse(t)
        <4>1. Contents' = Contents
          BY <3>4, QuietContents DEF Refuse
        <4>2. Queue!Refuse(t)
          BY <3>4, <3>a, <4>1, RefusalDue DEF Refuse, Queue!Refuse, Queue!Finish
        <4> QED BY <4>2 DEF Queue!Next
      <3>5. CASE Store(t)
        BY <3>5, StoreHidden DEF Store, Queue!vars
      <3>6. CASE AdvanceWrite(t)
        <4>1. Queue!Push(t)
          BY <3>6, <3>a, PushAppends, ConstantsAssumption
          DEF AdvanceWrite, Queue!Push, Queue!Finish
        <4> QED BY <4>1 DEF Queue!Next
      <3>7. CASE Fetch(t)
        <4>1. Queue!Pop(t)
          BY <3>7, <3>a, PopRemoves DEF Fetch, IsPop, Queue!Pop, Queue!Finish
        <4> QED BY <4>1 DEF Queue!Next
      <3> QED BY <3>1, <3>2, <3>3, <3>4, <3>5, <3>6, <3>7 DEF Inside
    <2>2. CASE UNCHANGED vars
      BY <2>2, QuietContents DEF vars, Queue!vars
    <2> QED BY <2>1, <2>2
  <1> QED BY <1>1, <1>2, BufferInductive, PTL DEF Spec, Implements, Queue!Spec

-----------------------------------------------------------------------------
(* NVStorage *)

\* What a successful write of a framed value leaves under the header.
Layered(d, o, e) ==
  [layers |-> IF "compressed" \in o
              THEN IF "encrypted" \in o THEN <<"compressed", "encrypted">> ELSE <<"compressed">>
              ELSE IF "encrypted" \in o THEN <<"encrypted">> ELSE <<>>,
   key |-> IF "encrypted" \in o THEN e ELSE NoKey,
   datum |-> d]

\* Layered values are contents, whichever conversions were asked for.
LEMMA LayeredType ==
  ASSUME NEW d \in Data, NEW o \in SUBSET Options, NEW e \in KeyArgs
  PROVE  Layered(d, o, e) \in Bodies
<1>1. CASE "compressed" \in o /\ "encrypted" \in o
  BY <1>1 DEF Layered, Bodies, KeyArgs
<1>2. CASE "compressed" \in o /\ "encrypted" \notin o
  BY <1>2 DEF Layered, Bodies, KeyArgs
<1>3. CASE "compressed" \notin o /\ "encrypted" \in o
  BY <1>3 DEF Layered, Bodies, KeyArgs
<1>4. CASE "compressed" \notin o /\ "encrypted" \notin o
  BY <1>4 DEF Layered, Bodies, KeyArgs
<1> QED
  BY <1>1, <1>2, <1>3, <1>4

\* NVStorage::write makes a header and the layers, or nothing.
LEMMA FrameForm ==
  ASSUME NEW d \in Data, NEW o \in SUBSET Options, NEW e \in KeyArgs,
         Frame(d, o, e) # Null
  PROVE  /\ Frame(d, o, e) = [framed |-> TRUE, opts |-> o \ {"sensitive"},
                              body |-> Layered(d, o, e), damaged |-> FALSE]
         /\ "compressed" \in o => Compression
         /\ "encrypted" \in o => e # NoKey
<1> DEFINE x == IF "compressed" \in o THEN Compress(Plain(d)) ELSE Plain(d)
           y == IF "encrypted" \in o /\ x # Null THEN Encrypt(x, e) ELSE x
<1>1. y # Null /\ Frame(d, o, e) = [framed |-> TRUE, opts |-> o \ {"sensitive"},
                                    body |-> y, damaged |-> FALSE]
  BY DEF Frame
<1>2. x # Null
  BY <1>1
<1>3. "compressed" \in o => Compression
  BY <1>2 DEF Compress
<1>4. "encrypted" \in o => e # NoKey
  BY <1>1, <1>2 DEF Encrypt
<1>5. x = IF "compressed" \in o
          THEN [layers |-> <<"compressed">>, key |-> NoKey, datum |-> d] ELSE Plain(d)
  <2>1. Append(<<>>, "compressed") = <<"compressed">>
    OBVIOUS
  <2> QED
    BY <1>3, <2>1 DEF Compress, Plain
<1> HIDE DEF x, y
<1>6. y = Layered(d, o, e)
  <2>1. CASE "encrypted" \notin o
    <3>1. y = x
      BY <2>1 DEF y
    <3>2. CASE "compressed" \in o
      BY <1>5, <2>1, <3>1, <3>2 DEF Layered
    <3>3. CASE "compressed" \notin o
      BY <1>5, <2>1, <3>1, <3>3 DEF Layered, Plain
    <3> QED
      BY <3>2, <3>3
  <2>2. CASE "encrypted" \in o
    <3>1. Append(<<"compressed">>, "encrypted") = <<"compressed", "encrypted">>
      <4> DEFINE s == Append(<<"compressed">>, "encrypted")
                 u == <<"compressed", "encrypted">>
      <4>1. s \in Seq({"compressed", "encrypted"}) /\ u \in Seq({"compressed", "encrypted"})
        OBVIOUS
      <4>2. Len(s) = 2 /\ Len(u) = 2
        OBVIOUS
      <4>3. s[1] = u[1] /\ s[2] = u[2]
        OBVIOUS
      <4>4. \A i \in 1..Len(s) : s[i] = u[i]
        BY <4>2, <4>3
      <4> QED
        BY <4>1, <4>2, <4>4, SeqEqual
    <3>2. Append(<<>>, "encrypted") = <<"encrypted">>
      OBVIOUS
    <3>3. y = [x EXCEPT !.layers = Append(@, "encrypted"), !.key = e]
      BY <1>2, <1>4, <2>2 DEF Encrypt, y
    <3>4. CASE "compressed" \in o
      BY <1>5, <2>2, <3>1, <3>3, <3>4 DEF Layered
    <3>5. CASE "compressed" \notin o
      BY <1>5, <2>2, <3>2, <3>3, <3>5 DEF Layered, Plain
    <3> QED
      BY <3>4, <3>5
  <2> QED
    BY <2>1, <2>2
<1> QED
  BY <1>1, <1>3, <1>4, <1>6

\* The layers come off in the order in which they were put on.
LEMMA Peeling ==
  /\ Last(<<"compressed">>) = "compressed" /\ Front(<<"compressed">>) = <<>>
  /\ Last(<<"encrypted">>) = "encrypted" /\ Front(<<"encrypted">>) = <<>>
  /\ Last(<<"compressed", "encrypted">>) = "encrypted"
  /\ Front(<<"compressed", "encrypted">>) = <<"compressed">>
<1>1. Last(<<"compressed">>) = "compressed" /\ Last(<<"encrypted">>) = "encrypted"
      /\ Last(<<"compressed", "encrypted">>) = "encrypted"
  BY DEF Last
<1>2. Front(<<"compressed">>) = <<>> /\ Front(<<"encrypted">>) = <<>>
  BY DEF Front
<1>3. Front(<<"compressed", "encrypted">>) = <<"compressed">>
  <2> DEFINE u == <<"compressed", "encrypted">>
             f == Front(u)
  <2>1. f = SubSeq(u, 1, 1)
    BY DEF Front
  <2>2. f \in Seq({"compressed", "encrypted"}) /\ Len(f) = 1 /\ f[1] = "compressed"
    BY <2>1
  <2>3. <<"compressed">> \in Seq({"compressed", "encrypted"}) /\ Len(<<"compressed">>) = 1
        /\ <<"compressed">>[1] = "compressed"
    OBVIOUS
  <2>4. Len(f) = Len(<<"compressed">>) /\ \A i \in 1..Len(f) : f[i] = <<"compressed">>[i]
    BY <2>2, <2>3
  <2> QED
    BY <2>2, <2>3, <2>4, SeqEqual
<1> QED
  BY <1>1, <1>2, <1>3

\* NVStorage::read undoes what NVStorage::write did, for a reader with the writer's
\* key whose options are among the writer's.
LEMMA RoundTrip ==
  ASSUME NEW d \in Data, NEW w \in SUBSET Options, NEW e \in KeyArgs,
         Frame(d, w, e) # Null,
         NEW o \in SUBSET Options, o \subseteq w \ {"sensitive"},
         NEW k \in KeyArgs, "encrypted" \in w => k = e
  PROVE  Unframe(Frame(d, w, e), o, k) = {Plain(d)}
<1> DEFINE v == Frame(d, w, e)
           xs == IF "encrypted" \in v.opts THEN Decrypt(v.body, k) ELSE {v.body}
           inner == [layers |-> IF "compressed" \in w THEN <<"compressed">> ELSE <<>>,
                     key |-> NoKey, datum |-> d]
<1>1. /\ v = [framed |-> TRUE, opts |-> w \ {"sensitive"}, body |-> Layered(d, w, e),
              damaged |-> FALSE]
      /\ "compressed" \in w => Compression
      /\ "encrypted" \in w => e # NoKey
  BY FrameForm
<1>2. Accepts(v, o)
  BY <1>1 DEF Accepts
<1>3. d # Garbage /\ d # Null
  BY TermsAssumption
<1> HIDE DEF v
<1>4. xs = {inner}
  <2>1. CASE "encrypted" \in w
    <3>1. xs = Decrypt(Layered(d, w, e), e) /\ e # NoKey
      BY <1>1, <2>1
    <3>2. CASE "compressed" \in w
      <4>1. Layered(d, w, e) = [layers |-> <<"compressed", "encrypted">>, key |-> e, datum |-> d]
        BY <2>1, <3>2 DEF Layered
      <4>2. <<"compressed", "encrypted">> # <<>>
        OBVIOUS
      <4>3. Decrypt(Layered(d, w, e), e) = {Undone(Layered(d, w, e))}
        BY <3>1, <4>1, <4>2, <1>3, Peeling DEF Decrypt
      <4>4. Undone(Layered(d, w, e))
              = [layers |-> <<"compressed">>, key |-> NoKey, datum |-> d]
        BY <4>1, Peeling DEF Undone
      <4> QED
        BY <3>1, <3>2, <4>3, <4>4
    <3>3. CASE "compressed" \notin w
      <4>1. Layered(d, w, e) = [layers |-> <<"encrypted">>, key |-> e, datum |-> d]
        BY <2>1, <3>3 DEF Layered
      <4>2. <<"encrypted">> # <<>>
        OBVIOUS
      <4>3. Decrypt(Layered(d, w, e), e) = {Undone(Layered(d, w, e))}
        BY <3>1, <4>1, <4>2, <1>3, Peeling DEF Decrypt
      <4>4. Undone(Layered(d, w, e))
              = [layers |-> <<>>, key |-> NoKey, datum |-> d]
        BY <4>1, Peeling DEF Undone
      <4> QED
        BY <3>1, <3>3, <4>3, <4>4
    <3> QED
      BY <3>2, <3>3
  <2>2. CASE "encrypted" \notin w
    BY <1>1, <2>2 DEF Layered
  <2> QED
    BY <2>1, <2>2
<1> HIDE DEF xs
<1>5. CASE "compressed" \in w
  <2>1. inner # Null
    <3>1. inner \in Bodies
      BY <1>5 DEF Bodies, KeyArgs
    <3> QED
      BY <3>1, TermsAssumption
  <2>2. <<"compressed">> # <<>>
    OBVIOUS
  <2>3. Decompress(inner) = {[inner EXCEPT !.layers = Front(@)]}
    BY <1>1, <1>3, <1>5, <2>2, Peeling DEF Decompress
  <2>4. [inner EXCEPT !.layers = Front(@)] = Plain(d)
    BY <1>5, Peeling DEF Plain
  <2>5. "compressed" \in v.opts
    BY <1>1, <1>5
  <2>6. Unframe(v, o, k) = UNION {IF x = Null THEN {Null} ELSE Decompress(x) : x \in xs}
    BY <1>2, <2>5 DEF Unframe, xs
  <2> HIDE DEF inner
  <2>7. {IF x = Null THEN {Null} ELSE Decompress(x) : x \in xs} = {{Plain(d)}}
    BY <1>4, <2>1, <2>3, <2>4
  <2> QED
    BY <2>6, <2>7 DEF v
<1>6. CASE "compressed" \notin w
  <2>1. "compressed" \notin v.opts
    BY <1>1, <1>6
  <2>2. inner = Plain(d)
    BY <1>6 DEF Plain
  <2>3. Unframe(v, o, k) = xs
    BY <1>2, <2>1 DEF Unframe, xs
  <2> QED
    BY <1>4, <2>2, <2>3 DEF v
<1> QED
  BY <1>5, <1>6

-----------------------------------------------------------------------------

\* What a write leaves in the variable.
Made(w) == IF "raw" \in w.opts THEN Unframed(w.datum) ELSE Frame(w.datum, w.opts, w.key)

VariablesOK ==
  /\ nvram \in [Keys -> Stored \cup {Null}]
  /\ written \in [Keys -> Written \cup {Null}]

\* A variable that was not damaged or wiped holds what its last writer asked for.
AsWritten ==
  \A k \in Keys :
    /\ nvram[k] = Null <=> written[k] = Null
    /\ nvram[k] # Null /\ nvram[k].damaged = FALSE => nvram[k] = Made(written[k])

Answered == ReadBack /\ ChecksumGuards /\ RequirementsKept

NVInv == VariablesOK /\ AsWritten /\ Answered

\* Initially there are no variables and nothing was asked.
LEMMA InitNV == NVInit => NVInv
<1> SUFFICES ASSUME NVInit PROVE NVInv
  OBVIOUS
<1>1. VariablesOK /\ AsWritten
  BY DEF NVInit, VariablesOK, AsWritten
<1>2. Answered
  BY DEF NVInit, Answered, ReadBack, ChecksumGuards, RequirementsKept, IsRead, NoCall
<1> QED
  BY <1>1, <1>2 DEF NVInv

\* A write that succeeds stores a value, and never the absence of one.
LEMMA MadeStored ==
  ASSUME NEW d \in Data, NEW o \in SUBSET Options, NEW e \in KeyArgs,
         NEW v, v = IF "raw" \in o THEN Unframed(d) ELSE Frame(d, o, e), v # Null
  PROVE  v \in Stored
<1>1. CASE "raw" \in o
  <2>1. Plain(d) \in Bodies
    BY DEF Plain, Bodies, KeyArgs
  <2> QED
    BY <1>1, <2>1 DEF Unframed, Stored
<1>2. CASE "raw" \notin o
  <2>1. v = [framed |-> TRUE, opts |-> o \ {"sensitive"}, body |-> Layered(d, o, e),
             damaged |-> FALSE]
    BY <1>2, FrameForm
  <2>2. Layered(d, o, e) \in Bodies
    BY LayeredType
  <2>3. o \ {"sensitive"} \in SUBSET Options
    OBVIOUS
  <2>4. \A q \in SUBSET Options, body \in Bodies :
          [framed |-> TRUE, opts |-> q, body |-> body, damaged |-> FALSE] \in Stored
    BY DEF Stored
  <2> QED
    BY <2>1, <2>2, <2>3, <2>4, Zenon
<1> QED
  BY <1>1, <1>2

\* A write replaces a variable by what was asked for, or leaves it as it is.
LEMMA StepWrite ==
  ASSUME NVInv, NEW k \in Keys, NEW d \in Data, NEW o \in SUBSET Options,
         NEW e \in KeyArgs, NEW short \in BOOLEAN, Write(k, d, o, e, short)
  PROVE  NVInv'
<1> DEFINE v == IF short THEN Null ELSE IF "raw" \in o THEN Unframed(d) ELSE Frame(d, o, e)
           w == [datum |-> d, opts |-> o, key |-> e]
<1>1. /\ nvram' = IF v = Null THEN nvram ELSE [nvram EXCEPT ![k] = v]
      /\ written' = IF v = Null THEN written ELSE [written EXCEPT ![k] = w]
  BY DEF Write
<1>2. w \in Written /\ w # Null
  BY TermsAssumption DEF Written
<1>3. v # Null => v \in Stored /\ v = Made(w)
  BY MadeStored DEF Made
<1> HIDE DEF v, w
<1>4. VariablesOK'
  BY <1>1, <1>2, <1>3 DEF NVInv, VariablesOK
<1>5. AsWritten'
  BY <1>1, <1>2, <1>3 DEF NVInv, VariablesOK, AsWritten, Made, Unframed, Frame
<1>6. Answered'
  BY DEF Write, NoCall, Answered, ReadBack, ChecksumGuards, RequirementsKept, IsRead
<1> QED
  BY <1>4, <1>5, <1>6 DEF NVInv

\* A plain datum is answered as it is.
LEMMA PlainAnswer ==
  ASSUME NEW d \in Data
  PROVE  Answer(Plain(d)) = d
<1>1. Plain(d) \in Bodies
  BY DEF Plain, Bodies, KeyArgs
<1>2. Plain(d) # Null
  BY <1>1, TermsAssumption
<1> QED
  BY <1>2 DEF Answer, Plain

\* A framed value that is as it was written is returned to whoever may read it.
LEMMA Genuine ==
  ASSUME NEW w \in Written, "raw" \notin w.opts,
         NEW v, v = Made(w), v # Null,
         NEW o \in SUBSET Options, "raw" \notin o, NEW e \in KeyArgs,
         o \subseteq v.opts, "encrypted" \in w.opts => e = w.key
  PROVE  Found(v, o, e) = {w.datum}
<1>1. w.datum \in Data /\ w.opts \in SUBSET Options /\ w.key \in KeyArgs
  BY DEF Written
<1>2. v = Frame(w.datum, w.opts, w.key)
  BY DEF Made
<1>3. v.framed = TRUE /\ v.opts = w.opts \ {"sensitive"}
  BY <1>1, <1>2, FrameForm
<1>4. Unframe(v, o, e) = {Plain(w.datum)}
  BY <1>1, <1>2, <1>3, RoundTrip
<1>5. Found(v, o, e) = {Answer(x) : x \in Unframe(v, o, e)}
  BY <1>3 DEF Found
<1> QED
  BY <1>1, <1>4, <1>5, PlainAnswer

\* What a value that was read tells about the one that was written.
LEMMA StepRead ==
  ASSUME NVInv, NEW k \in Keys, NEW o \in SUBSET Options,
         NEW e \in KeyArgs, NEW short \in BOOLEAN, Read(k, o, e, short)
  PROVE  NVInv'
<1> DEFINE v == nvram[k]
           w == written[k]
<1>1. PICK a \in IF short THEN {Null} ELSE Found(v, o, e) :
        last' = [op |-> "read", asked |-> o, key |-> e, wrote |-> w, short |-> short,
                 damaged |-> v # Null /\ v.damaged, answer |-> a]
  BY DEF Read
<1>2. VariablesOK' /\ AsWritten'
  <2>1. nvram' = nvram /\ written' = written
    BY DEF Read
  <2> QED
    BY <2>1 DEF NVInv, VariablesOK, AsWritten
<1>3. ASSUME w # Null
      PROVE  /\ w \in Written /\ v \in Stored /\ v # Null
             /\ v.damaged = FALSE => v = Made(w)
  BY <1>3 DEF NVInv, VariablesOK, AsWritten
<1> HIDE DEF v, w
<1>4. ASSUME ~Accepts(v, o), "raw" \notin o PROVE a = Null
  <2>1. Found(v, o, e) = {Null} \/ Found(v, o, e) = {Answer(x) : x \in Unframe(v, o, e)}
    BY <1>4 DEF Found
  <2>2. Unframe(v, o, e) = {Null}
    BY <1>4 DEF Unframe
  <2>3. Answer(Null) = Null
    BY DEF Answer
  <2> QED
    BY <1>1, <2>1, <2>2, <2>3
<1>5. ASSUME w # Null, "raw" \in w.opts, v.damaged = FALSE
      PROVE  v = Unframed(w.datum) /\ v.framed = FALSE
  <2>1. v = Unframed(w.datum)
    BY <1>3, <1>5 DEF Made
  <2> QED
    BY <2>1 DEF Unframed
<1>6. ASSUME w # Null, "raw" \notin w.opts, v.damaged = FALSE
      PROVE  v.framed = TRUE /\ v.opts = w.opts \ {"sensitive"}
  <2>1. v = Frame(w.datum, w.opts, w.key) /\ v # Null
    BY <1>3, <1>6 DEF Made
  <2>2. w.datum \in Data /\ w.opts \in SUBSET Options /\ w.key \in KeyArgs
    BY <1>3, <1>6 DEF Written
  <2> QED
    BY <2>1, <2>2, FrameForm
<1>7. ASSUME w # Null, "raw" \notin w.opts, v.damaged = FALSE, short = FALSE,
             "raw" \notin o, o \subseteq v.opts, "encrypted" \in w.opts => e = w.key
      PROVE  a = w.datum
  <2>1. Found(v, o, e) = {w.datum}
    BY <1>3, <1>7, Genuine
  <2> QED
    BY <1>1, <1>7, <2>1
<1>8. last'.asked = o /\ last'.key = e /\ last'.wrote = w /\ last'.short = short
      /\ last'.answer = a
  BY <1>1
<1>9. last'.damaged = (v # Null /\ v.damaged)
  BY <1>1
<1>10. w # Null /\ ~last'.damaged => v.damaged = FALSE
  BY <1>3, <1>9 DEF Stored
<1>11. ReadBack'
  <2> SUFFICES ASSUME w # Null, ~last'.damaged, short = FALSE
      PROVE  IF "raw" \in w.opts THEN "raw" \in o => a = w.datum
             ELSE o \subseteq w.opts \ {"sensitive"} /\ ("encrypted" \in w.opts => e = w.key)
                    => a = w.datum
    BY <1>8 DEF ReadBack, IsRead
  <2>1. CASE "raw" \in w.opts /\ "raw" \in o
    <3>1. v = Unframed(w.datum) /\ v.framed = FALSE /\ v # Null
      BY <1>3, <1>5, <1>10, <2>1
    <3>2. Found(v, o, e) = {Answer(Plain(w.datum))}
      BY <2>1, <3>1 DEF Found, Unframed
    <3>3. w.datum \in Data
      BY <1>3 DEF Written
    <3> QED
      BY <1>1, <2>1, <3>2, <3>3, PlainAnswer DEF v, w
  <2>2. CASE /\ "raw" \notin w.opts /\ o \subseteq w.opts \ {"sensitive"}
             /\ ("encrypted" \in w.opts => e = w.key)
    BY <1>6, <1>7, <1>10, <2>2
  <2> QED
    BY <2>1, <2>2
<1>12. ChecksumGuards'
  <2> SUFFICES ASSUME w # Null, "checksum" \in o, "raw" \notin o, w.key = e
      PROVE  a \in {w.datum, Null}
    BY <1>8 DEF ChecksumGuards, IsRead
  <2>1. CASE short = TRUE
    BY <1>1, <2>1
  <2>2. CASE short = FALSE /\ ~Accepts(v, o)
    BY <1>4, <2>2
  <2>3. CASE short = FALSE /\ Accepts(v, o)
    <3>1. v.framed /\ o \subseteq v.opts /\ ~v.damaged
      BY <2>3 DEF Accepts
    <3>2. v.damaged = FALSE
      BY <1>3, <3>1 DEF Stored
    <3>3. "raw" \notin w.opts
      BY <1>5, <3>1, <3>2
    <3> QED
      BY <1>7, <2>3, <3>1, <3>2, <3>3
  <2> QED
    BY <2>1, <2>2, <2>3
<1>13. RequirementsKept'
  <2> SUFFICES ASSUME w # Null, ~last'.damaged, a # Null, "raw" \notin o
      PROVE  "raw" \notin w.opts /\ o \subseteq w.opts
    BY <1>8 DEF RequirementsKept, IsRead
  <2>1. v.framed /\ o \subseteq v.opts
    BY <1>4 DEF Accepts
  <2>2. "raw" \notin w.opts
    BY <1>5, <1>10, <2>1
  <2> QED
    BY <1>6, <1>10, <2>1, <2>2
<1> QED
  BY <1>2, <1>11, <1>12, <1>13 DEF NVInv, Answered

\* Wiping, removing and damaging a variable keep the invariant: a value that is
\* not the writer's any more is marked.
LEMMA StepVariable ==
  ASSUME NVInv, NEW k \in Keys,
         Wipe(k) \/ RemoveKey(k) \/ \E o \in SUBSET HeaderOptions : Damage(k, o)
  PROVE  NVInv'
<1>1. last' = last
  BY DEF Wipe, RemoveKey, Damage
<1>2. Answered'
  BY <1>1 DEF NVInv, Answered, ReadBack, ChecksumGuards, RequirementsKept, IsRead
<1>3. CASE Wipe(k)
  <2> DEFINE z == [Unframed(Garbage) EXCEPT !.damaged = TRUE]
  <2>1. Plain(Garbage) \in Bodies
    BY DEF Plain, Bodies, KeyArgs
  <2>2. z \in Stored /\ z.damaged = TRUE
    BY <2>1 DEF Unframed, Stored
  <2>3. z # Null
    BY <2>2, TermsAssumption
  <2>4. nvram' = [nvram EXCEPT ![k] = z] /\ nvram[k] # Null /\ written' = written
    BY <1>3 DEF Wipe
  <2> HIDE DEF z
  <2>5. VariablesOK' /\ AsWritten'
    BY <2>2, <2>3, <2>4 DEF NVInv, VariablesOK, AsWritten, Made, Unframed, Frame
  <2> QED
    BY <1>2, <2>5 DEF NVInv
<1>4. CASE RemoveKey(k)
  <2>1. VariablesOK' /\ AsWritten'
    BY <1>4 DEF RemoveKey, NVInv, VariablesOK, AsWritten, Made, Unframed, Frame
  <2> QED
    BY <1>2, <2>1 DEF NVInv
<1>5. ASSUME NEW o \in SUBSET HeaderOptions, Damage(k, o) PROVE NVInv'
  <2> DEFINE z == [nvram[k] EXCEPT !.opts = o, !.body.datum = Garbage, !.damaged = TRUE]
  <2>1. nvram[k] \in Stored
    BY <1>5 DEF Damage, NVInv, VariablesOK
  <2>2. o \in SUBSET Options
    BY DEF HeaderOptions
  <2>3. z \in Stored /\ z.damaged = TRUE
    BY <2>1, <2>2 DEF Stored, Bodies
  <2>4. z # Null
    BY <2>3, TermsAssumption
  <2>5. nvram' = [nvram EXCEPT ![k] = z] /\ nvram[k] # Null /\ written' = written
    BY <1>5 DEF Damage, NVInv, VariablesOK
  <2> HIDE DEF z
  <2>6. VariablesOK' /\ AsWritten'
    BY <2>3, <2>4, <2>5 DEF NVInv, VariablesOK, AsWritten, Made, Unframed, Frame
  <2> QED
    BY <1>2, <2>6 DEF NVInv
<1> QED
  BY <1>3, <1>4, <1>5

\* Every call and every answer keeps the invariant.
LEMMA StepNV == NVInv /\ [NVNext]_nvVars => NVInv'
<1> SUFFICES ASSUME NVInv, [NVNext]_nvVars PROVE NVInv'
  OBVIOUS
<1>1. CASE UNCHANGED nvVars
  BY <1>1 DEF nvVars, NVInv, VariablesOK, AsWritten, Made, Unframed, Frame, Answered, ReadBack,
              ChecksumGuards, RequirementsKept, IsRead
<1>2. CASE Return
  BY <1>2 DEF Return, NVInv, VariablesOK, AsWritten, Made, Unframed, Frame, Answered, ReadBack,
              ChecksumGuards, RequirementsKept, IsRead, NoCall
<1>3. CASE Call
  BY <1>3, StepWrite, StepRead, StepVariable DEF Call
<1> QED
  BY <1>1, <1>2, <1>3 DEF NVNext

\* The invariant holds in every reachable state, for all keys, data and encryption keys.
THEOREM NVInductive == NVSpec => []NVInv
  BY InitNV, StepNV, PTL DEF NVSpec

\* NVStorage::read returns what NVStorage::write stored, whichever conversions were
\* asked for.
THEOREM StoredIsReadBack == NVSpec => []ReadBack
<1>1. NVInv => ReadBack
  BY DEF NVInv, Answered
<1> QED
  BY <1>1, NVInductive, PTL

\* A reader that requires a checksum never gets damaged contents.
THEOREM ChecksumIsGuard == NVSpec => []ChecksumGuards
<1>1. NVInv => ChecksumGuards
  BY DEF NVInv, Answered
<1> QED
  BY <1>1, NVInductive, PTL

\* A reader never gets an intact value that lacks an option it requires.
THEOREM RequirementsAreKept == NVSpec => []RequirementsKept
<1>1. NVInv => RequirementsKept
  BY DEF NVInv, Answered
<1> QED
  BY <1>1, NVInductive, PTL

-----------------------------------------------------------------------------
(* RTCStorage *)

\* Bank and index of an address name it.
LEMMA BankAndIndex ==
  ASSUME NEW to \in Addresses
  PROVE  to \div Bank \in {0, 1} /\ (to \div Bank) * Bank + (to % Bank) = to
<1>1. Bank \in Nat /\ Bank > 0 /\ to \in Nat /\ to < 2 * Bank
  BY ClockAssumption DEF Addresses
<1> DEFINE d == to \div Bank
           e == to % Bank
<1>2. to < Bank => d = 0 /\ e = to
  BY <1>1, SMT
<1>3. to >= Bank => d = 1 /\ e = to - Bank
  BY <1>1, SMT
<1> HIDE DEF d, e
<1>4. d \in {0, 1} /\ d * Bank + e = to
  <2>1. CASE to < Bank
    BY <1>1, <1>2, <2>1
  <2>2. CASE to >= Bank
    <3>1. d = 1 /\ e = to - Bank
      BY <1>3, <2>2
    <3>2. 1 * Bank + (to - Bank) = to
      BY <1>1
    <3> QED
      BY <3>1, <3>2
  <2> QED
    BY <1>1, <2>1, <2>2
<1> QED
  BY <1>4 DEF d, e

LEMMA AddressIn ==
  ASSUME NEW r \in Request, NEW i \in Nat \ {0}
  PROVE  Address(r, i) \in Addresses
<1>1. Bank \in Nat /\ 2 * Bank > 0 /\ 2 * Bank \in Nat
  BY ClockAssumption
<1>2. r.off + i - 1 \in Nat
  BY <1>1 DEF Request, Addresses
<1> DEFINE b == 2 * Bank
           x == r.off + i - 1
<1> HIDE DEF b, x
<1>3. b \in Nat /\ b > 0 /\ x \in Nat
  BY <1>1, <1>2 DEF b, x
<1>4. x % b \in 0..(b - 1)
  BY <1>3
<1> QED
  BY <1>4 DEF Address, Addresses, b, x

\* The bytes that are hashed are bytes of the clock.
LEMMA HashedIs ==
  /\ HashedSeq \in Seq(Addresses)
  /\ Len(HashedSeq) \in Nat /\ DOMAIN HashedSeq = 1..Len(HashedSeq)
  /\ \A i \in 1..Len(HashedSeq) : HashedSeq[i] \in Addresses
<1> DEFINE h == 2 * Bank - Hashed - 2
<1>1. h \in Nat
  BY ClockAssumption
<1>2. \A i \in 1..h : (IF Hashed + i <= Sum1 THEN Hashed + i - 1 ELSE Hashed + i + 1) \in Addresses
  BY ClockAssumption DEF Addresses
<1>3. HashedSeq = [i \in 1..h |-> IF Hashed + i <= Sum1 THEN Hashed + i - 1 ELSE Hashed + i + 1]
  BY DEF HashedSeq
<1> HIDE DEF h
<1>4. HashedSeq \in [1..h -> Addresses]
  BY <1>2, <1>3
<1>5. HashedSeq \in Seq(Addresses)
  BY <1>1, <1>4
<1>6. Len(HashedSeq) = h
  BY <1>1, <1>4, <1>5
<1> QED
  BY <1>1, <1>4, <1>5, <1>6

Summed(r) == r.op = "write" /\ r.crc

\* What is accessed, one by one.
LEMMA AccessesAre ==
  ASSUME NEW r \in Request
  PROVE  LET n == Len(r.bytes)
             h == Len(HashedSeq)
         IN  /\ Len(Accesses(r)) = IF Summed(r) THEN n + h + 2 ELSE n
             /\ \A i \in 1..n : Accesses(r)[i] = [op |-> r.op, to |-> Address(r, i)]
             /\ Summed(r) =>
                  /\ \A i \in 1..h : Accesses(r)[n + i] = [op |-> "hash", to |-> HashedSeq[i]]
                  /\ Accesses(r)[n + h + 1] = [op |-> "sum", to |-> Sum1]
                  /\ Accesses(r)[n + h + 2] = [op |-> "sum", to |-> Sum2]
<1> DEFINE n == Len(r.bytes)
           h == Len(HashedSeq)
           A == [op : {"read", "write", "hash", "sum"}, to : Nat]
           own == [i \in DOMAIN r.bytes |-> [op |-> r.op, to |-> Address(r, i)]]
           hash == [i \in DOMAIN HashedSeq |-> [op |-> "hash", to |-> HashedSeq[i]]]
           sums == <<[op |-> "sum", to |-> Sum1], [op |-> "sum", to |-> Sum2]>>
<1>1. r.bytes \in Seq(Bytes) /\ n \in Nat /\ DOMAIN r.bytes = 1..n /\ r.op \in {"read", "write"}
  BY DEF Request
<1>2. own \in [1..n -> A]
  <2>1. \A i \in 1..n : Address(r, i) \in Nat
    BY <1>1, AddressIn DEF Addresses
  <2> QED
    BY <1>1, <2>1
<1>3. hash \in [1..h -> A] /\ h \in Nat
  BY HashedIs DEF Addresses
<1>4. sums \in Seq(A) /\ Len(sums) = 2
  BY ClockAssumption
<1>5. /\ \A i \in 1..n : own[i] = [op |-> r.op, to |-> Address(r, i)]
      /\ \A i \in 1..h : hash[i] = [op |-> "hash", to |-> HashedSeq[i]]
      /\ sums[1] = [op |-> "sum", to |-> Sum1] /\ sums[2] = [op |-> "sum", to |-> Sum2]
  BY <1>1, HashedIs
<1>6. Accesses(r) = IF Summed(r) THEN own \o hash \o sums ELSE own
  BY DEF Accesses, Summed
<1> HIDE DEF A, own, hash, sums, n, h
<1>7. own \in Seq(A) /\ Len(own) = n /\ hash \in Seq(A) /\ Len(hash) = h
  BY <1>1, <1>2, <1>3
<1> DEFINE both == own \o hash
<1>8. both \in Seq(A) /\ Len(both) = n + h
      /\ (\A i \in 1..n : both[i] = own[i]) /\ (\A i \in 1..h : both[n + i] = hash[i])
  <2>1. Len(both) = Len(own) + Len(hash)
        /\ \A i \in 1..(Len(own) + Len(hash)) :
             both[i] = IF i <= Len(own) THEN own[i] ELSE hash[i - Len(own)]
    BY <1>7, ConcatProperties
  <2>2. both \in Seq(A)
    BY <1>7
  <2> HIDE DEF both
  <2>3. \A i \in 1..n : both[i] = own[i]
    BY <1>1, <1>3, <1>7, <2>1
  <2>4. ASSUME NEW i \in 1..h PROVE both[n + i] = hash[i]
    <3>1. n + i \in 1..(n + h) /\ ~(n + i <= n) /\ (n + i) - n = i
      BY <1>1, <1>3
    <3> QED
      BY <1>7, <2>1, <3>1
  <2> QED
    BY <1>7, <2>1, <2>2, <2>3, <2>4
<1> HIDE DEF both
<1> DEFINE all == both \o sums
<1>9. /\ Len(all) = n + h + 2
      /\ (\A i \in 1..(n + h) : all[i] = both[i])
      /\ all[n + h + 1] = sums[1] /\ all[n + h + 2] = sums[2]
  <2>1. n + h + 2 \in Nat /\ Len(sums) \in Nat
    BY <1>1, <1>3, <1>4
  <2>2. Len(all) = Len(both) + Len(sums)
        /\ \A i \in 1..(Len(both) + Len(sums)) :
             all[i] = IF i <= Len(both) THEN both[i] ELSE sums[i - Len(both)]
    BY <1>4, <1>8, ConcatProperties
  <2> HIDE DEF all
  <2>3. Len(all) = n + h + 2
        /\ \A i \in 1..(n + h + 2) : all[i] = IF i <= n + h THEN both[i] ELSE sums[i - (n + h)]
    BY <1>1, <1>3, <1>4, <1>8, <2>2
  <2>4. \A i \in 1..(n + h) : all[i] = both[i]
    BY <1>1, <1>3, <2>3
  <2>5. ASSUME NEW i \in 1..2, NEW k \in Nat, k = n + h + i PROVE all[k] = sums[i]
    <3>1. k \in 1..(n + h + 2) /\ ~(k <= n + h) /\ k - (n + h) = i
      BY <1>1, <1>3, <2>5
    <3> QED
      BY <2>3, <3>1
  <2>6. n + h + 1 \in Nat /\ n + h + 2 \in Nat
    BY <1>1, <1>3
  <2>7. all[n + h + 1] = sums[1] /\ all[n + h + 2] = sums[2]
    BY <2>5, <2>6
  <2> QED
    BY <2>3, <2>4, <2>7
<1>10. Summed(r) => Accesses(r) = all
  BY <1>6 DEF both
<1> HIDE DEF all
<1>11. CASE ~Summed(r)
  BY <1>5, <1>6, <1>7, <1>11 DEF n
<1>12. CASE Summed(r)
  <2>1. ASSUME NEW i \in 1..n PROVE all[i] = own[i]
    <3>1. i \in 1..(n + h)
      BY <1>1, <1>3
    <3> QED
      BY <1>8, <1>9, <3>1
  <2>2. ASSUME NEW i \in 1..h PROVE all[n + i] = hash[i]
    <3>1. n + i \in 1..(n + h)
      BY <1>1, <1>3
    <3> QED
      BY <1>8, <1>9, <3>1
  <2> QED
    BY <1>5, <1>9, <1>10, <1>12, <2>1, <2>2 DEF n, h
<1> QED
  BY <1>11, <1>12

\* A memory with one byte replaced.
Put(m, x, v) == [m EXCEPT ![x] = v]

\* One more byte.
LEMMA OverlaidNext ==
  ASSUME NEW m, NEW r \in Request, NEW k \in Nat
  PROVE  Overlaid(m, r, k + 1) = Put(Overlaid(m, r, k), Address(r, k + 1), r.bytes[k + 1])
<1> DEFINE I(n, a) == {j \in 1..n : Address(r, j) = a}
           top(n, a) == CHOOSE j \in I(n, a) : \A q \in I(n, a) : q <= j
<1>1. ASSUME NEW a \in DOMAIN m, a = Address(r, k + 1) PROVE I(k + 1, a) # {} /\ top(k + 1, a) = k + 1
  <2>1. k + 1 \in I(k + 1, a) /\ \A q \in I(k + 1, a) : q <= k + 1
    BY <1>1
  <2>2. \A j \in I(k + 1, a) : (\A q \in I(k + 1, a) : q <= j) => j = k + 1
    BY <2>1
  <2> HIDE DEF I
  <2> QED
    BY <2>1, <2>2
<1>2. ASSUME NEW a \in DOMAIN m, a # Address(r, k + 1) PROVE I(k + 1, a) = I(k, a)
  BY <1>2
<1>3. \A n : Overlaid(m, r, n) = [a \in DOMAIN m |-> IF I(n, a) = {} THEN m[a] ELSE r.bytes[top(n, a)]]
  BY DEF Overlaid
<1>4. ASSUME NEW a \in DOMAIN m, a # Address(r, k + 1) PROVE top(k + 1, a) = top(k, a)
  <2>1. I(k + 1, a) = I(k, a)
    BY <1>2, <1>4
  <2> HIDE DEF I
  <2> QED
    BY <2>1
<1> HIDE DEF top, I
<1> QED
  BY <1>1, <1>2, <1>3, <1>4 DEF Put

\* No byte yet.
LEMMA OverlaidFirst ==
  ASSUME NEW m, m = [a \in Addresses |-> m[a]], NEW r
  PROVE  Overlaid(m, r, 0) = m
<1>1. DOMAIN m = Addresses
  OBVIOUS
<1>2. \A a : {k \in 1..0 : Address(r, k) = a} = {}
  OBVIOUS
<1>3. Overlaid(m, r, 0) = [a \in DOMAIN m |-> m[a]]
  BY <1>2 DEF Overlaid
<1> QED
  BY <1>1, <1>3

-----------------------------------------------------------------------------
\* The checksum of what a write makes of memory b.
SumOf(r, b) ==
  LET m == Overlaid(b, r, Len(r.bytes)) IN [i \in DOMAIN HashedSeq |-> m[HashedSeq[i]]]

\* The memory after k accesses of r, which found b.
MemoryAfter(r, b, k) ==
  LET n == Len(r.bytes)
      h == Len(HashedSeq)
      m == Overlaid(b, r, n)
      high == [m EXCEPT ![Sum1] = <<"high", SumOf(r, b)>>]
  IN  CASE r.op = "read" -> b
        [] r.op = "write" /\ k <= n -> Overlaid(b, r, k)
        [] r.op = "write" /\ n < k /\ k <= n + h -> m
        [] r.op = "write" /\ k = n + h + 1 -> high
        [] OTHER -> [high EXCEPT ![Sum2] = <<"low", SumOf(r, b)>>]

\* What was read by then.
GotAfter(r, b, k) ==
  LET n == Len(r.bytes)
      h == Len(HashedSeq)
      m == Overlaid(b, r, n)
  IN  CASE r.op = "read" -> [i \in 1..k |-> b[Address(r, i)]]
        [] r.op = "write" /\ k <= n -> <<>>
        [] r.op = "write" /\ n < k /\ k <= n + h -> [i \in 1..(k - n) |-> m[HashedSeq[i]]]
        [] OTHER -> SumOf(r, b)

\* One access: the byte that it is for is read or written.
LEMMA OneAccess ==
  ASSUME NEW r \in Request, NEW b, b = [a \in Addresses |-> b[a]],
         NEW k \in Nat, k < Len(Accesses(r))
  PROVE  LET w == Accesses(r)[k + 1]
             m == MemoryAfter(r, b, k)
             g == GotAfter(r, b, k)
             half == <<IF w.to = Sum1 THEN "high" ELSE "low", g>>
         IN  /\ w.to \in Addresses
             /\ MemoryAfter(r, b, k + 1) =
                  CASE w.op = "write" -> Put(m, w.to, r.bytes[k + 1])
                    [] w.op = "sum" -> Put(m, w.to, half)
                    [] OTHER -> m
             /\ GotAfter(r, b, k + 1) =
                  IF w.op \in {"write", "sum"} THEN g ELSE Append(g, m[w.to])
<1> DEFINE n == Len(r.bytes)
           h == Len(HashedSeq)
           m == Overlaid(b, r, n)
           w == Accesses(r)[k + 1]
           g == GotAfter(r, b, k)
<1>1. n \in Nat /\ h \in Nat /\ r.op \in {"read", "write"} /\ DOMAIN HashedSeq = 1..h
  BY HashedIs DEF Request
<1>2. /\ Len(Accesses(r)) = IF Summed(r) THEN n + h + 2 ELSE n
      /\ \A i \in 1..n : Accesses(r)[i] = [op |-> r.op, to |-> Address(r, i)]
      /\ Summed(r) =>
           /\ \A i \in 1..h : Accesses(r)[n + i] = [op |-> "hash", to |-> HashedSeq[i]]
           /\ Accesses(r)[n + h + 1] = [op |-> "sum", to |-> Sum1]
           /\ Accesses(r)[n + h + 2] = [op |-> "sum", to |-> Sum2]
  BY AccessesAre
<1>3. Sum1 \in Addresses /\ Sum2 \in Addresses /\ Sum1 # Sum2
  BY ClockAssumption DEF Addresses
<1>4. CASE k < n
  <2>1. k + 1 \in 1..n /\ k <= n /\ k + 1 <= n /\ k + 1 \in Nat \ {0}
    BY <1>1, <1>4
  <2>2. w = [op |-> r.op, to |-> Address(r, k + 1)] /\ w.to \in Addresses
    BY <1>2, <2>1, AddressIn
  <2>3. CASE r.op = "read"
    <3>1. MemoryAfter(r, b, k) = b /\ MemoryAfter(r, b, k + 1) = b
      BY <2>3 DEF MemoryAfter
    <3> DEFINE f(i) == b[Address(r, i)]
    <3>2. GotAfter(r, b, k) = [i \in 1..k |-> f(i)] /\ GotAfter(r, b, k + 1) = [i \in 1..(k + 1) |-> f(i)]
      BY <2>3 DEF GotAfter
    <3>3. f(k + 1) = b[w.to]
      BY <2>2
    <3> HIDE DEF f
    <3>4. [i \in 1..(k + 1) |-> f(i)] = Append([i \in 1..k |-> f(i)], f(k + 1))
      OBVIOUS
    <3> QED
      BY <2>2, <2>3, <3>1, <3>2, <3>3, <3>4
  <2>4. CASE r.op = "write"
    <3>1. MemoryAfter(r, b, k) = Overlaid(b, r, k) /\ MemoryAfter(r, b, k + 1) = Overlaid(b, r, k + 1)
      BY <2>1, <2>4 DEF MemoryAfter
    <3>2. GotAfter(r, b, k) = <<>> /\ GotAfter(r, b, k + 1) = <<>>
      BY <2>1, <2>4 DEF GotAfter
    <3>3. Overlaid(b, r, k + 1) = Put(Overlaid(b, r, k), Address(r, k + 1), r.bytes[k + 1])
      BY OverlaidNext
    <3>4. w.op = "write" /\ w.to = Address(r, k + 1)
      BY <2>2, <2>4
    <3> QED
      BY <2>2, <3>1, <3>2, <3>3, <3>4, Zenon
  <2> QED
    BY <1>1, <2>3, <2>4
<1>5. CASE k >= n
  <2>1. Summed(r) /\ r.op = "write" /\ k < n + h + 2
    BY <1>1, <1>2, <1>5 DEF Summed
  <2>2. CASE k < n + h
    <3> DEFINE j == k - n
               f(i) == m[HashedSeq[i]]
    <3>1. j \in Nat /\ j + 1 \in 1..h /\ n + (j + 1) = k + 1
      BY <1>1, <1>5, <2>2, SMTT(30)
    <3>2. Accesses(r)[n + (j + 1)] = [op |-> "hash", to |-> HashedSeq[j + 1]]
      BY <1>2, <2>1, <3>1
    <3>3. w = [op |-> "hash", to |-> HashedSeq[j + 1]] /\ w.to \in Addresses
      BY <3>1, <3>2, HashedIs
    <3>4. MemoryAfter(r, b, k) = m /\ MemoryAfter(r, b, k + 1) = m
      <4>1. k = n => MemoryAfter(r, b, k) = m
        BY <1>1, <2>1 DEF MemoryAfter
      <4>2. k > n => MemoryAfter(r, b, k) = m
        BY <1>1, <2>1, <2>2 DEF MemoryAfter
      <4>3. MemoryAfter(r, b, k + 1) = m
        BY <1>1, <1>5, <2>1, <2>2 DEF MemoryAfter
      <4> QED
        BY <1>1, <1>5, <4>1, <4>2, <4>3
    <3>5. GotAfter(r, b, k) = [i \in 1..j |-> f(i)]
      <4>1. CASE k = n
        <5>1. GotAfter(r, b, k) = <<>>
          BY <1>1, <2>1, <4>1 DEF GotAfter
        <5>2. j = 0
          BY <1>1, <4>1
        <5> QED
          BY <5>1, <5>2
      <4>2. CASE k > n
        <5>1. ~(k <= n) /\ k <= n + h
          BY <1>1, <2>2, <4>2
        <5>2. GotAfter(r, b, k) = [i \in 1..(k - n) |-> m[HashedSeq[i]]]
          BY <2>1, <4>2, <5>1 DEF GotAfter
        <5> QED
          BY <5>2
      <4> QED
        BY <1>1, <1>5, <4>1, <4>2
    <3>6. GotAfter(r, b, k + 1) = [i \in 1..(j + 1) |-> f(i)]
      <4>1. (k + 1) - n = j + 1 /\ n < k + 1 /\ k + 1 <= n + h /\ ~(k + 1 <= n)
        BY <1>1, <1>5, <2>2
      <4> QED
        BY <2>1, <4>1 DEF GotAfter
    <3>7. f(j + 1) = m[w.to]
      BY <3>3
    <3> HIDE DEF f, j
    <3>8. [i \in 1..(j + 1) |-> f(i)] = Append([i \in 1..j |-> f(i)], f(j + 1))
      BY <3>1
    <3>9. GotAfter(r, b, k + 1) = Append(g, m[w.to])
      BY <3>5, <3>6, <3>7, <3>8
    <3> QED
      BY <3>3, <3>4, <3>9
  <2>3. SumOf(r, b) = [i \in 1..h |-> m[HashedSeq[i]]]
    BY <1>1 DEF SumOf
  <2>4. CASE k = n + h
    <3>1. k + 1 = n + h + 1 /\ n <= k /\ k <= n + h /\ ~(k + 1 <= n) /\ ~(k + 1 <= n + h)
      BY <1>1, <2>4
    <3>2. w = [op |-> "sum", to |-> Sum1]
      BY <1>2, <2>1, <3>1
    <3>3. MemoryAfter(r, b, k) = m
      <4>1. h = 0 => MemoryAfter(r, b, k) = m
        BY <1>1, <2>1, <2>4 DEF MemoryAfter
      <4>2. h > 0 => MemoryAfter(r, b, k) = m
        BY <1>1, <2>1, <2>4 DEF MemoryAfter
      <4> QED
        BY <1>1, <4>1, <4>2
    <3>4. GotAfter(r, b, k) = SumOf(r, b)
      <4>1. CASE h = 0
        <5>1. GotAfter(r, b, k) = <<>>
          BY <1>1, <2>1, <2>4, <4>1 DEF GotAfter
        <5>2. [i \in 1..0 |-> m[HashedSeq[i]]] = <<>>
          OBVIOUS
        <5> QED
          BY <2>3, <4>1, <5>1, <5>2
      <4>2. CASE h > 0
        <5>1. k - n = h /\ ~(k <= n)
          BY <1>1, <2>4, <4>2
        <5> QED
          BY <1>1, <2>1, <2>3, <2>4, <4>2, <5>1 DEF GotAfter
      <4> QED
        BY <1>1, <4>1, <4>2
    <3>5. MemoryAfter(r, b, k + 1) = Put(m, Sum1, <<"high", SumOf(r, b)>>)
      BY <1>1, <2>1, <3>1 DEF MemoryAfter, Put
    <3>6. GotAfter(r, b, k + 1) = SumOf(r, b)
      BY <1>1, <2>1, <3>1 DEF GotAfter
    <3> QED
      BY <1>3, <3>2, <3>3, <3>4, <3>5, <3>6
  <2>5. CASE k = n + h + 1
    <3>1. k + 1 = n + h + 2 /\ ~(k <= n) /\ ~(k <= n + h) /\ ~(k + 1 <= n) /\ ~(k + 1 <= n + h)
          /\ k + 1 # n + h + 1
      BY <1>1, <2>5
    <3>2. w = [op |-> "sum", to |-> Sum2]
      BY <1>2, <2>1, <3>1
    <3>3. MemoryAfter(r, b, k) = Put(m, Sum1, <<"high", SumOf(r, b)>>)
      BY <1>1, <2>1, <2>5, <3>1 DEF MemoryAfter, Put
    <3>4. GotAfter(r, b, k) = SumOf(r, b) /\ GotAfter(r, b, k + 1) = SumOf(r, b)
      BY <1>1, <2>1, <3>1 DEF GotAfter
    <3>5. MemoryAfter(r, b, k + 1) =
            Put(Put(m, Sum1, <<"high", SumOf(r, b)>>), Sum2, <<"low", SumOf(r, b)>>)
      BY <1>1, <2>1, <3>1 DEF MemoryAfter, Put
    <3> QED
      BY <1>3, <3>2, <3>3, <3>4, <3>5
  <2>6. k < n + h \/ k = n + h \/ k = n + h + 1
    BY <1>1, <2>1
  <2> QED
    BY <2>2, <2>4, <2>5, <2>6, Zenon
<1> QED
  BY <1>1, <1>4, <1>5
-----------------------------------------------------------------------------
\* The states a transfer goes through.
RTCTypes ==
  /\ stage \in {"idle", "select", "data"}
  /\ asked \in Request \cup {NoRequest}
  /\ stage # "idle" => asked \in Request
  /\ interrupts \in BOOLEAN /\ intrsOn \in BOOLEAN
  /\ memory = [x \in Addresses |-> memory[x]]
  /\ index = [bank \in {0, 1} |-> index[bank]]

\* A transfer that nothing can come into, up to the access it is at.
TransferUpTo ==
  LET all == Len(Accesses(asked))
  IN  /\ before[1] = [x \in Addresses |-> before[1][x]]
      /\ at \in Nat /\ at <= all
      /\ memory = MemoryAfter(asked, before[1], at)
      /\ got = GotAfter(asked, before[1], at)
      /\ stage = "idle" => at = all /\ interrupts = before[2]
      /\ stage # "idle" => ~interrupts /\ intrsOn = before[2]
      /\ stage = "data" => at < all /\ index[Access.to \div Bank] = Access.to % Bank

RTCInv == RTCTypes /\ (asked # NoRequest /\ asked.introff /\ ~met => TransferUpTo)

LEMMA RTCStarts == RTCInit => RTCInv
<1> SUFFICES ASSUME RTCInit PROVE RTCInv
  OBVIOUS
<1> QED
  BY DEF RTCInit, RTCInv, RTCTypes

\* The ports of a request were used by no one else.
LEMMA BeginTransferKeeps ==
  ASSUME RTCInv, NEW r \in Requests, BeginTransfer(r)
  PROVE  RTCInv'
<1>1. r \in Request /\ asked' = r /\ stage' = "select" /\ at' = 0 /\ got' = <<>>
  BY TransfersAssumption DEF BeginTransfer
<1>2. /\ before' = <<memory, interrupts>> /\ intrsOn' = (r.introff /\ interrupts)
      /\ interrupts' = (interrupts /\ ~r.introff) /\ memory' = memory /\ index' = index
  BY DEF BeginTransfer
<1>3. RTCTypes
  BY DEF RTCInv
<1>4. RTCTypes'
  BY <1>1, <1>2, <1>3 DEF RTCTypes
<1>5. ASSUME r.introff PROVE TransferUpTo'
  <2>1. before'[1] = memory /\ before'[2] = interrupts
    BY <1>2
  <2>2. memory = [x \in Addresses |-> memory[x]]
    BY <1>3 DEF RTCTypes
  <2>3. Overlaid(memory, r, 0) = memory
    BY <2>2, OverlaidFirst
  <2>4. Len(r.bytes) \in Nat /\ r.op \in {"read", "write"}
    BY <1>1 DEF Request
  <2>5. MemoryAfter(r, memory, 0) = memory
    BY <2>3, <2>4 DEF MemoryAfter
  <2>6. GotAfter(r, memory, 0) = <<>>
    <3>1. [i \in 1..0 |-> memory[Address(r, i)]] = <<>>
      OBVIOUS
    <3> QED
      BY <2>4, <3>1 DEF GotAfter
  <2>7. Len(Accesses(r)) \in Nat
    <3>1. Len(HashedSeq) \in Nat
      BY HashedIs
    <3>2. Len(Accesses(r)) \in {Len(r.bytes) + Len(HashedSeq) + 2, Len(r.bytes)}
      BY <1>1, AccessesAre
    <3> QED
      BY <2>4, <3>1, <3>2
  <2>8. ~interrupts' /\ intrsOn' = interrupts
    BY <1>2, <1>3, <1>5 DEF RTCTypes
  <2> QED
    BY <1>1, <1>2, <2>1, <2>2, <2>5, <2>6, <2>7, <2>8 DEF TransferUpTo
<1> QED
  BY <1>1, <1>4, <1>5 DEF RTCInv

LEMMA SelectKeeps ==
  ASSUME RTCInv, Select
  PROVE  RTCInv'
<1>1. /\ stage = "select" /\ at < Len(Accesses(asked)) /\ stage' = "data"
      /\ index' = [index EXCEPT ![Access.to \div Bank] = Access.to % Bank]
      /\ UNCHANGED <<memory, interrupts, asked, at, got, intrsOn, before, met>>
  BY DEF Select
<1>2. RTCTypes'
  <2>1. index' = [bank \in {0, 1} |-> index'[bank]]
    BY <1>1 DEF RTCInv, RTCTypes
  <2> QED
    BY <1>1, <2>1 DEF RTCInv, RTCTypes
<1>3. ASSUME asked.introff, ~met PROVE TransferUpTo'
  <2>1. asked \in Request /\ asked # NoRequest
    BY <1>1 DEF RTCInv, RTCTypes, Request, NoRequest
  <2>2. TransferUpTo
    BY <1>3, <2>1 DEF RTCInv
  <2>3. Access.to \in Addresses
    <3>1. at \in Nat /\ before[1] = [x \in Addresses |-> before[1][x]]
      BY <2>2 DEF TransferUpTo
    <3> QED
      BY <1>1, <2>1, <3>1, OneAccess DEF Access
  <2>4. Access.to \div Bank \in {0, 1}
    BY <2>3, BankAndIndex
  <2>5. index'[Access.to \div Bank] = Access.to % Bank
    BY <1>1, <2>4 DEF RTCInv, RTCTypes
  <2>6. Access' = Access
    BY <1>1 DEF Access
  <2> QED
    BY <1>1, <2>2, <2>5, <2>6 DEF TransferUpTo
<1>4. (asked # NoRequest /\ asked.introff /\ ~met => TransferUpTo)'
  BY <1>1, <1>3
<1> QED
  BY <1>2, <1>4 DEF RTCInv

LEMMA MoveKeeps ==
  ASSUME RTCInv, MoveByte
  PROVE  RTCInv'
<1>1. /\ stage = "data" /\ stage' = "select" /\ at' = at + 1
      /\ UNCHANGED <<index, interrupts, asked, intrsOn, before, met>>
  BY DEF MoveByte
<1>2. /\ memory' = CASE Access.op = "write" -> [memory EXCEPT ![Selected] = asked.bytes[at + 1]]
                     [] Access.op = "sum" -> [memory EXCEPT ![Selected] = Half(Access)]
                     [] OTHER -> memory
      /\ got' = IF Access.op \in {"write", "sum"} THEN got ELSE Append(got, memory[Selected])
  BY DEF MoveByte
<1>3. RTCTypes'
  <2>1. memory' = [x \in Addresses |-> memory'[x]]
    BY <1>2 DEF RTCInv, RTCTypes
  <2> QED
    BY <1>1, <2>1 DEF RTCInv, RTCTypes
<1>4. ASSUME asked.introff, ~met PROVE TransferUpTo'
  <2>1. asked \in Request /\ asked # NoRequest
    BY <1>1 DEF RTCInv, RTCTypes, Request, NoRequest
  <2>2. TransferUpTo
    BY <1>4, <2>1 DEF RTCInv
  <2> DEFINE b == before[1]
             w == Access
  <2>3. /\ at \in Nat /\ at < Len(Accesses(asked)) /\ b = [x \in Addresses |-> b[x]]
        /\ memory = MemoryAfter(asked, b, at) /\ got = GotAfter(asked, b, at)
        /\ index[w.to \div Bank] = w.to % Bank
    BY <1>1, <2>2 DEF TransferUpTo
  <2>4. /\ w.to \in Addresses
        /\ MemoryAfter(asked, b, at + 1) =
             CASE w.op = "write" -> Put(memory, w.to, asked.bytes[at + 1])
               [] w.op = "sum" -> Put(memory, w.to, Half(w))
               [] OTHER -> memory
        /\ GotAfter(asked, b, at + 1) =
             IF w.op \in {"write", "sum"} THEN got ELSE Append(got, memory[w.to])
    BY <2>1, <2>3, OneAccess DEF Access, Half
  <2>5. Selected = w.to
    BY <2>3, <2>4, BankAndIndex DEF Selected
  <2>6. memory' = MemoryAfter(asked, b, at + 1) /\ got' = GotAfter(asked, b, at + 1)
    BY <1>2, <2>4, <2>5 DEF Put
  <2>7. at + 1 \in Nat /\ at + 1 <= Len(Accesses(asked))
    <3>1. Len(HashedSeq) \in Nat /\ Len(asked.bytes) \in Nat
      BY <2>1, HashedIs DEF Request
    <3>2. Len(Accesses(asked)) \in {Len(asked.bytes) + Len(HashedSeq) + 2, Len(asked.bytes)}
      BY <2>1, AccessesAre
    <3> QED
      BY <2>3, <3>1, <3>2
  <2> QED
    BY <1>1, <2>2, <2>6, <2>7 DEF TransferUpTo
<1>5. (asked # NoRequest /\ asked.introff /\ ~met => TransferUpTo)'
  BY <1>1, <1>4
<1> QED
  BY <1>3, <1>5 DEF RTCInv

\* All other steps.
LEMMA ClockKeeps ==
  ASSUME RTCInv, [RTCNext]_rtcVars
  PROVE  RTCInv'
<1>1. ASSUME UNCHANGED <<memory, index, interrupts, asked, stage, at, got, intrsOn, before, met>>
      PROVE RTCInv'
  BY <1>1 DEF RTCInv, RTCTypes, TransferUpTo, Access
<1>2. ASSUME NEW r \in Requests, Declined(r) PROVE RTCInv'
  BY <1>1, <1>2 DEF Declined
<1>3. CASE End
  <2>1. /\ stage = "select" /\ at = Len(Accesses(asked)) /\ stage' = "idle"
        /\ interrupts' = (interrupts \/ intrsOn)
        /\ UNCHANGED <<memory, index, asked, at, got, intrsOn, before, met>>
    BY <1>3 DEF End
  <2>2. RTCTypes
    BY DEF RTCInv
  <2>3. interrupts' \in BOOLEAN
    BY <2>1, <2>2 DEF RTCTypes
  <2>4. ASSUME asked # NoRequest, asked.introff, ~met PROVE TransferUpTo'
    <3>1. TransferUpTo
      BY <2>4 DEF RTCInv
    <3>2. ~interrupts /\ intrsOn = before[2]
      BY <2>1, <3>1 DEF TransferUpTo
    <3>3. interrupts' = before'[2]
      BY <2>1, <2>2, <3>2 DEF RTCTypes
    <3> QED
      BY <2>1, <3>1, <3>3 DEF TransferUpTo
  <2> QED
    BY <2>1, <2>2, <2>3, <2>4 DEF RTCInv, RTCTypes
<1>4. CASE Interrupt \/ Elsewhere
  <2>1. /\ index' = [index EXCEPT ![0] = 0] /\ met' \in {met, met \/ stage = "data"}
        /\ Interrupt => interrupts /\ met' = met
        /\ Elsewhere => met' = (met \/ stage = "data")
        /\ UNCHANGED <<memory, interrupts, asked, stage, at, got, intrsOn, before>>
    BY <1>4 DEF Interrupt, Elsewhere, transfer
  <2>2. RTCTypes'
    <3>1. index' = [bank \in {0, 1} |-> index'[bank]]
      BY <2>1 DEF RTCInv, RTCTypes
    <3> QED
      BY <2>1, <3>1 DEF RTCInv, RTCTypes
  <2>3. ASSUME asked # NoRequest, asked.introff, ~met' PROVE TransferUpTo'
    <3>1. TransferUpTo /\ ~met
      BY <2>1, <2>3 DEF RTCInv
    <3>2. stage # "data"
      BY <1>4, <2>1, <2>3, <3>1 DEF TransferUpTo
    <3> QED
      BY <2>1, <3>1, <3>2 DEF TransferUpTo
  <2> QED
    BY <2>1, <2>2, <2>3 DEF RTCInv
<1>5. CASE UNCHANGED rtcVars
  BY <1>1, <1>5 DEF rtcVars, transfer
<1> QED
  BY <1>2, <1>3, <1>4, <1>5, BeginTransferKeeps, SelectKeeps, MoveKeeps DEF RTCNext

LEMMA RTCInvExact == RTCInv => TransferExact
<1> SUFFICES ASSUME RTCInv, stage = "idle", asked # NoRequest, asked.introff, ~met
             PROVE  TransferExact
  BY DEF TransferExact
<1> DEFINE b == before[1]
           n == Len(asked.bytes)
           m == Overlaid(b, asked, n)
<1>1. TransferUpTo /\ asked \in Request
  BY DEF RTCInv, RTCTypes
<1>2. /\ interrupts = before[2]
      /\ memory = MemoryAfter(asked, b, Len(Accesses(asked)))
      /\ got = GotAfter(asked, b, Len(Accesses(asked)))
  BY <1>1 DEF TransferUpTo
<1>3. n \in Nat /\ DOMAIN asked.bytes = 1..n /\ Len(HashedSeq) \in Nat
  BY <1>1, HashedIs DEF Request
<1>4. Len(Accesses(asked)) = IF Summed(asked) THEN n + Len(HashedSeq) + 2 ELSE n
  BY <1>1, AccessesAre
<1>5. CASE asked.op = "read"
  <2>1. Len(Accesses(asked)) = n
    BY <1>4, <1>5 DEF Summed
  <2>2. memory = b /\ got = [i \in 1..n |-> b[Address(asked, i)]]
    BY <1>2, <1>5, <2>1 DEF MemoryAfter, GotAfter
  <2> QED
    BY <1>2, <1>3, <1>5, <2>2 DEF TransferExact
<1>6. CASE asked.op = "write"
  <2>1. CASE asked.crc
    <3>1. Len(Accesses(asked)) = n + Len(HashedSeq) + 2
      BY <1>4, <1>6, <2>1 DEF Summed
    <3>2. memory = [[m EXCEPT ![Sum1] = <<"high", SumOf(asked, b)>>]
                     EXCEPT ![Sum2] = <<"low", SumOf(asked, b)>>]
      BY <1>2, <1>3, <1>6, <3>1 DEF MemoryAfter
    <3>3. SumOf(asked, b) = [i \in DOMAIN HashedSeq |-> m[HashedSeq[i]]]
      BY DEF SumOf
    <3> QED
      BY <1>2, <1>6, <2>1, <3>2, <3>3 DEF TransferExact
  <2>2. CASE ~asked.crc
    <3>1. Len(Accesses(asked)) = n
      BY <1>4, <2>2 DEF Summed
    <3>2. memory = m
      BY <1>2, <1>3, <1>6, <3>1 DEF MemoryAfter
    <3> QED
      BY <1>2, <1>6, <2>2, <3>2 DEF TransferExact
  <2> QED
    BY <2>1, <2>2
<1> QED
  BY <1>1, <1>5, <1>6 DEF Request

\* RTCStorage::readDirect and writeDirect with interrupts off: unless another CPU
\* uses the ports between the two accesses to a byte, they move what was asked for,
\* update the checksum to what is stored, and leave interrupts as they were.
THEOREM TransfersAreExact == RTCSpec => []TransferExact
<1>1. RTCInv /\ [RTCNext]_rtcVars => RTCInv'
  BY ClockKeeps
<1> QED
  BY <1>1, RTCStarts, RTCInvExact, PTL DEF RTCSpec
==============================================================================
