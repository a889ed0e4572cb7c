------------------------------ MODULE RTCStorage ----------------------------
(***************************************************************************)
(* RTCStorage's direct access to the memory of the real-time clock:        *)
(* readDirect and writeDirect go through an index port and a data port,    *)
(* one pair for each of two banks, and writeDirect can bring the checksum  *)
(* of AppleRTC up to date.  The ports belong to the whole machine: the     *)
(* kernel reads the clock with them, from interrupts of the same CPU and   *)
(* from other CPUs.                                                        *)
(*                                                                         *)
(* The two bytes of the checksum are the halves of what is hashed.         *)
(***************************************************************************)
EXTENDS Integers, Sequences

CONSTANTS
  Bank,          \* RTC_BANK_SIZE
  Hashed,        \* APPLERTC_HASHED_ADDR
  Sum1, Sum2,    \* APPLERTC_CHECKSUM_ADDR1, APPLERTC_CHECKSUM_ADDR2
  Bytes,         \* values of other bytes
  Requests,      \* requests made, see Request
  MaxRequests    \* bound on their number

\* The checksum is two neighbours among the bytes that are hashed.
ASSUME ClockAssumption ==
  /\ Bank \in Nat \ {0} /\ Hashed \in Nat /\ Sum1 \in Nat
  /\ Hashed <= Sum1 /\ Sum2 = Sum1 + 1 /\ Sum2 < 2 * Bank

Addresses == 0..(2 * Bank - 1)

\* off: the first address.  bytes: those to write, or as many as are read.
\* guarded: the compatibility function, which tests the size, is called.
Request == [op : {"read", "write"}, off : Addresses, bytes : Seq(Bytes), crc : BOOLEAN,
            introff : BOOLEAN, guarded : BOOLEAN]

ASSUME TransfersAssumption == Requests \subseteq Request

VARIABLES
  memory,       \* bytes of the clock
  index,        \* what was written to each index port
  interrupts,   \* EFLAGS.IF of the CPU that transfers
  asked,        \* the request being served, or the last one
  stage,        \* "idle", "select" a byte, or move its "data"
  at,           \* accesses that were made
  got,          \* bytes that were read
  intrsOn,      \* interrupts have to be turned on again
  served,       \* number of requests
  before,       \* memory and interrupt flag at the time of the request
  met           \* the ports were used elsewhere between the two accesses to a byte

transfer == <<asked, stage, at, got, intrsOn, served, before>>
rtcVars == <<memory, index, interrupts, transfer, met>>

NoRequest == [op |-> "none"]

RTCInit ==
  /\ memory \in [Addresses -> Bytes]
  /\ index = [bank \in {0, 1} |-> 0]
  /\ interrupts \in BOOLEAN
  /\ asked = NoRequest /\ stage = "idle" /\ at = 0 /\ got = <<>> /\ intrsOn = FALSE
  /\ served = 0 /\ before = <<memory, interrupts>> /\ met = FALSE

-----------------------------------------------------------------------------
\* The addresses whose bytes are hashed; the checksum itself counts as zero.
HashedSeq ==
  [i \in 1..(2 * Bank - Hashed - 2) |->
     IF Hashed + i <= Sum1 THEN Hashed + i - 1 ELSE Hashed + i + 1]

\* The address of the i-th byte, an uint8_t.
Address(r, i) == (r.off + i - 1) % (2 * Bank)

\* All bytes that are accessed, in their order.
Accesses(r) ==
  LET own == [i \in DOMAIN r.bytes |-> [op |-> r.op, to |-> Address(r, i)]]
      hash == [i \in DOMAIN HashedSeq |-> [op |-> "hash", to |-> HashedSeq[i]]]
      sums == <<[op |-> "sum", to |-> Sum1], [op |-> "sum", to |-> Sum2]>>
  IN  IF r.op = "write" /\ r.crc THEN own \o hash \o sums ELSE own

Access == Accesses(asked)[at + 1]

\* The request is too long, or there is no clock.
Declined(r) ==
  /\ stage = "idle" /\ served < MaxRequests /\ r.guarded
  /\ served' = served + 1
  /\ UNCHANGED <<memory, index, interrupts, asked, stage, at, got, intrsOn, before, met>>

\* Mutant of BeginTransfer: interrupts stay as they are.
BeginTransfer_Interruptible(r) ==
  /\ stage = "idle" /\ served < MaxRequests
  /\ r.guarded => Len(r.bytes) <= 2 * Bank - r.off
  /\ asked' = r /\ stage' = "select" /\ at' = 0 /\ got' = <<>>
  /\ before' = <<memory, interrupts>> /\ met' = FALSE
  /\ served' = served + 1
  /\ intrsOn' = FALSE
  /\ UNCHANGED <<memory, index, interrupts>>

\* setInterrupts(false) answers whether interrupts were on.
BeginTransfer(r) ==
  /\ stage = "idle" /\ served < MaxRequests
  /\ r.guarded => Len(r.bytes) <= 2 * Bank - r.off
  /\ asked' = r /\ stage' = "select" /\ at' = 0 /\ got' = <<>>
  /\ before' = <<memory, interrupts>> /\ met' = FALSE
  /\ served' = served + 1
  /\ intrsOn' = (r.introff /\ interrupts)
  /\ interrupts' = (interrupts /\ ~r.introff)
  /\ UNCHANGED <<memory, index>>

\* Only the seven lower bits of the address go to the index port.
Select ==
  /\ stage = "select" /\ at < Len(Accesses(asked))
  /\ index' = [index EXCEPT ![Access.to \div Bank] = Access.to % Bank]
  /\ stage' = "data"
  /\ UNCHANGED <<memory, interrupts, asked, at, got, intrsOn, served, before, met>>

\* The byte behind the data port, which is the one that was selected last.
Selected == LET bank == Access.to \div Bank IN bank * Bank + index[bank]

Half(a) == <<IF a.to = Sum1 THEN "high" ELSE "low", got>>

MoveByte ==
  /\ stage = "data"
  /\ CASE Access.op = "write" ->
            memory' = [memory EXCEPT ![Selected] = asked.bytes[at + 1]] /\ UNCHANGED got
       [] Access.op = "sum" ->
            memory' = [memory EXCEPT ![Selected] = Half(Access)] /\ UNCHANGED got
       [] OTHER ->
            got' = Append(got, memory[Selected]) /\ UNCHANGED memory
  /\ at' = at + 1 /\ stage' = "select"
  /\ UNCHANGED <<index, interrupts, asked, intrsOn, served, before, met>>

End ==
  /\ stage = "select" /\ at = Len(Accesses(asked))
  /\ interrupts' = (interrupts \/ intrsOn)
  /\ stage' = "idle"
  /\ UNCHANGED <<memory, index, asked, at, got, intrsOn, served, before, met>>

-----------------------------------------------------------------------------
\* The clock, in the first bank, is read by an interrupt of the CPU.
Interrupt ==
  /\ interrupts
  /\ index' = [index EXCEPT ![0] = 0]
  /\ UNCHANGED <<memory, interrupts, transfer, met>>

\* It is read by another CPU.
Elsewhere ==
  /\ index' = [index EXCEPT ![0] = 0]
  /\ met' = (met \/ stage = "data")
  /\ UNCHANGED <<memory, interrupts, transfer>>

RTCNext ==
  \/ \E r \in Requests : Declined(r) \/ BeginTransfer(r)
  \/ Select \/ MoveByte \/ End
  \/ Interrupt \/ Elsewhere

RTCSpec == RTCInit /\ [][RTCNext]_rtcVars

-----------------------------------------------------------------------------
(* Properties.                                                             *)

\* What the first n bytes of r make of memory m, without the checksum.  (A long
\* request comes to an address again.)
Overlaid(m, r, n) ==
  [a \in DOMAIN m |->
     LET i == {k \in 1..n : Address(r, k) = a}
     IN  IF i = {} THEN m[a] ELSE r.bytes[CHOOSE k \in i : \A q \in i : q <= k]]

\* A transfer with interrupts off that no other CPU came into has moved the bytes
\* that were asked for and no others, across the banks too; the checksum, if it
\* was to be updated, is that of what is stored now; and interrupts are as before.
TransferExact ==
  stage = "idle" /\ asked # NoRequest /\ asked.introff /\ ~met =>
    /\ interrupts = before[2]
    /\ asked.op = "read" =>
         /\ memory = before[1]
         /\ got = [i \in DOMAIN asked.bytes |-> memory[Address(asked, i)]]
    /\ asked.op = "write" =>
         LET m == Overlaid(before[1], asked, Len(asked.bytes))
             sum == [i \in DOMAIN HashedSeq |-> m[HashedSeq[i]]]
         IN  memory = IF asked.crc
                      THEN [m EXCEPT ![Sum1] = <<"high", sum>>, ![Sum2] = <<"low", sum>>] ELSE m
=============================================================================
