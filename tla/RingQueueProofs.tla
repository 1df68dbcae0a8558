---------------------------- MODULE RingQueueProofs ----------------------------
(***************************************************************************)
(* Proofs about RingQueue.tla for every number of slots N and every set of *)
(* items: the ring's invariants, and that it implements BoundedFifo.       *)
(***************************************************************************)
EXTENDS RingQueue, SequenceTheorems, TLAPS

--------------------------------------------------------------------------------
(* Arithmetic of the slot index. *)

(* Every integer is a multiple of n and a rest below n... *)
LEMMA Decompose ==
  ASSUME NEW n \in Nat \ {0}, NEW a \in Int
  PROVE  \E q \in Int, r \in 0 .. n - 1 : a = n * q + r /\ a % n = r
<1>1. a = n * (a \div n) + (a % n) /\ a \div n \in Int /\ a % n \in 0 .. n - 1
  OBVIOUS
<1> QED
  BY <1>1

(* ...and of no other rest. *)
LEMMA Remainder ==
  ASSUME NEW n \in Nat \ {0}, NEW a \in Int, NEW q \in Int,
         NEW r \in 0 .. n - 1, a = n * q + r
  PROVE  a % n = r
OBVIOUS

(* The index an int can hold is the number of a slot. *)
LEMMA IndexInSlots == ASSUME NEW p \in Nat PROVE Index(p) \in Slots
BY NAssumption DEF Index, Slots

(* Adding N stores to an index brings it back to the same slot. *)
LEMMA IndexPeriod ==
  ASSUME NEW p \in Nat
  PROVE  Index(p + N) = Index(p)
<1>0. p \in Int /\ N \in Nat \ {0}
  BY NAssumption
<1>1. PICK q \in Int, r \in 0 .. N - 1 : p = N * q + r /\ p % N = r
  BY <1>0, Decompose, Zenon
<1>2. p + N = N * (q + 1) + r
  BY <1>1, NAssumption
<1>3. (p + N) % N = r
  <2>1. p + N \in Int /\ q + 1 \in Int
    BY NAssumption
  <2> QED
    BY <1>2, <2>1, Remainder, NAssumption
<1> QED
  BY <1>1, <1>3 DEF Index

(* The slot push computes as (write_ + 1) % N is the slot of the next store. *)
LEMMA NextIndexIsIndex ==
  ASSUME NEW p \in Nat
  PROVE  NextIndex(p) = Index(p + 1)
<1>0. p \in Int /\ N \in Nat \ {0}
  BY NAssumption
<1>1. PICK q \in Int, r \in 0 .. N - 1 : p = N * q + r /\ p % N = r
  BY <1>0, Decompose, Zenon
<1>2. r + 1 \in Int
  BY NAssumption
<1>3. PICK u \in Int, s \in 0 .. N - 1 : r + 1 = N * u + s /\ (r + 1) % N = s
  BY <1>0, <1>2, Decompose, Zenon
<1>4. p + 1 = N * (q + u) + s
  BY <1>1, <1>3, NAssumption
<1>5. (p + 1) % N = s
  <2>1. p + 1 \in Int /\ q + u \in Int
    BY NAssumption
  <2> QED
    BY <1>4, <2>1, Remainder, NAssumption
<1> QED
  BY <1>1, <1>3, <1>5 DEF Index, NextIndex

(* Fewer than N stores apart, two positions are different slots. *)
LEMMA IndexDistinct ==
  ASSUME NEW a \in Nat, NEW b \in Nat, a < b, b - a < N
  PROVE  Index(a) # Index(b)
<1> DEFINE q == a \div N
           t == b \div N
<1> SUFFICES ASSUME Index(a) = Index(b) PROVE FALSE
  OBVIOUS
<1>1. /\ a = N * q + (a % N) /\ q \in Int /\ a % N \in 0 .. N - 1
      /\ b = N * t + (b % N) /\ t \in Int /\ b % N \in 0 .. N - 1
  BY NAssumption
<1> HIDE DEF q, t
<1>2. N * (t - q) = b - a
  BY <1>1, NAssumption DEF Index
<1>3. CASE t - q >= 1
  BY <1>1, <1>2, <1>3, NAssumption
<1>4. CASE t = q
  BY <1>1, <1>4 DEF Index
<1>5. CASE q - t >= 1
  <2>1. N * (q - t) = a - b
    BY <1>1, NAssumption DEF Index
  <2> QED
    BY <1>1, <1>5, <2>1, NAssumption
<1> QED
  BY <1>1, <1>3, <1>4, <1>5

(* The full test, whatever release it sees, never lets the last slot be used. *)
LEMMA RoomIsRoom ==
  ASSUME NEW p \in Nat, write_ \in Nat, p <= write_, write_ - p <= N - 1,
         ~LooksFull(p)
  PROVE  write_ - p < N - 1
<1> SUFFICES ASSUME write_ = p + N - 1 PROVE FALSE
  BY NAssumption
<1>1. NextIndex(write_) = Index(p + N)
  BY NextIndexIsIndex, NAssumption
<1> QED
  BY <1>1, IndexPeriod DEF LooksFull
--------------------------------------------------------------------------------
(* The ring starts empty, with both indices and both views at zero. *)
LEMMA Initially == Init => IInv
<1> SUFFICES ASSUME Init PROVE IInv
  OBVIOUS
<1> USE DEF Init
<1>1. TypeOK
  BY DEF TypeOK
<1> QED
  BY <1>1, NAssumption DEF IInv

(* No step of push or pop breaks the invariant. *)
LEMMA InductiveStep == IInv /\ [Next]_vars => IInv'
<1> SUFFICES ASSUME IInv, [Next]_vars PROVE IInv'
  OBVIOUS
<1> USE NAssumption
<1>0. /\ TypeOK
      /\ write_ \in Nat /\ read_ \in Nat /\ pview \in Nat /\ cview \in Nat
      /\ pview <= read_ /\ read_ <= cview /\ cview <= write_
      /\ write_ - pview <= N - 1
  BY DEF IInv, TypeOK
<1>1. CASE PushFull
  <2>1. pview' \in Nat /\ pview <= pview' /\ pview' <= read_
    BY <1>0, <1>1 DEF PushFull
  <2>2. TypeOK'
    BY <1>0, <1>1, <2>1 DEF PushFull, TypeOK, consumerVars
  <2>3. \A k \in read_' .. write_' - 1 : buf_'[Index(k)] \in Item
    BY <1>1 DEF PushFull, IInv, Index
  <2> QED
    BY <1>0, <1>1, <2>1, <2>2, <2>3 DEF PushFull, IInv, consumerVars, Index
<1>2. CASE \E x \in Item : PushRoom(x)
  <2> PICK x \in Item : PushRoom(x)
    BY <1>2
  <2> PICK p \in pview .. read_ : ~LooksFull(p) /\ pview' = p
    BY DEF PushRoom
  <2>1. p \in Nat /\ pview <= p /\ p <= read_ /\ p <= write_
    BY <1>0
  <2>2. write_ - p < N - 1
    BY <1>0, <2>1, RoomIsRoom
  <2>3. TypeOK'
    BY <1>0, <2>1 DEF PushRoom, TypeOK, consumerVars
  <2>4. \A k \in read_' .. write_' - 1 : buf_'[Index(k)] \in Item
    BY DEF PushRoom, IInv, Index
  <2> QED
    BY <1>0, <2>1, <2>2, <2>3, <2>4 DEF PushRoom, IInv, consumerVars, Index
<1>3. CASE PushCopy
  <2>1. Index(write_) \in Slots /\ item \in Item
    BY <1>0, <1>3, IndexInSlots DEF PushCopy, IInv
  <2>2. TypeOK'
    BY <1>0, <1>3, <2>1 DEF PushCopy, TypeOK, consumerVars
  <2>3. buf_'[Index(write_)] = item
    BY <1>0, <1>3, <2>1 DEF PushCopy, TypeOK
  <2>4. \A k \in read_ .. write_ - 1 : buf_'[Index(k)] = buf_[Index(k)]
    <3> SUFFICES ASSUME NEW k \in read_ .. write_ - 1
                 PROVE  buf_'[Index(k)] = buf_[Index(k)]
      OBVIOUS
    <3>1. k \in Nat /\ k < write_ /\ write_ - k < N
      BY <1>0
    <3>2. Index(k) # Index(write_) /\ Index(k) \in Slots
      BY <1>0, <3>1, IndexDistinct, IndexInSlots
    <3> QED
      BY <1>0, <1>3, <3>2 DEF PushCopy, TypeOK
  <2>5. cpc = "release" => buf_'[Index(read_)] = buf_[Index(read_)]
    BY <1>0, <2>4 DEF IInv
  <2>6. \A k \in read_' .. write_' - 1 : buf_'[Index(k)] \in Item
    BY <1>3, <2>4 DEF PushCopy, IInv, Index
  <2> QED
    BY <1>0, <1>3, <2>1, <2>2, <2>3, <2>5, <2>6
       DEF PushCopy, IInv, consumerVars, Index
<1>4. CASE PushPublish
  <2>1. TypeOK'
    BY <1>0, <1>4 DEF PushPublish, TypeOK, consumerVars
  <2>2. buf_[Index(write_)] \in Item /\ write_ - pview < N - 1
    BY <1>4 DEF PushPublish, IInv
  <2>3. \A k \in read_' .. write_' - 1 : buf_'[Index(k)] \in Item
    <3>1. read_' = read_ /\ write_' - 1 = write_ /\ buf_' = buf_
      BY <1>0, <1>4 DEF PushPublish
    <3>2. \A k \in read_ .. write_ : k = write_ \/ k \in read_ .. write_ - 1
      BY <1>0
    <3> QED
      BY <2>2, <3>1, <3>2 DEF IInv
  <2> QED
    BY <1>0, <1>4, <2>1, <2>2, <2>3 DEF PushPublish, IInv, consumerVars, Index
<1>5. CASE PopEmpty
  <2>1. cview' \in Nat /\ cview <= cview' /\ cview' <= write_
    BY <1>0, <1>5 DEF PopEmpty
  <2>2. TypeOK'
    BY <1>0, <1>5, <2>1 DEF PopEmpty, TypeOK, producerVars
  <2>3. \A k \in read_' .. write_' - 1 : buf_'[Index(k)] \in Item
    BY <1>5 DEF PopEmpty, IInv, Index
  <2> QED
    BY <1>0, <1>5, <2>1, <2>2, <2>3 DEF PopEmpty, IInv, producerVars, Index
<1>6. CASE PopReady
  <2> PICK p \in cview .. write_ : ~LooksEmpty(p) /\ cview' = p
    BY <1>6 DEF PopReady
  <2>1. p \in Nat /\ cview <= p /\ p <= write_ /\ read_ < p
    BY <1>0 DEF LooksEmpty
  <2>2. TypeOK'
    BY <1>0, <1>6, <2>1 DEF PopReady, TypeOK, producerVars
  <2>3. \A k \in read_' .. write_' - 1 : buf_'[Index(k)] \in Item
    BY <1>6 DEF PopReady, IInv, Index
  <2> QED
    BY <1>0, <1>6, <2>1, <2>2, <2>3 DEF PopReady, IInv, producerVars, Index
<1>7. CASE PopCopy
  <2>1. read_ < cview /\ Readable = {buf_[Index(read_)]}
    BY <1>7 DEF PopCopy, IInv, Readable
  <2>2. out' = buf_[Index(read_)]
    BY <1>7, <2>1 DEF PopCopy
  <2>3. out' \in Item
    BY <1>0, <2>1, <2>2 DEF IInv
  <2>4. TypeOK'
    BY <1>0, <1>7, <2>3 DEF PopCopy, TypeOK, producerVars
  <2>5. \A k \in read_' .. write_' - 1 : buf_'[Index(k)] \in Item
    BY <1>7 DEF PopCopy, IInv, Index
  <2> QED
    BY <1>0, <1>7, <2>1, <2>2, <2>4, <2>5 DEF PopCopy, IInv, producerVars, Index
<1>8. CASE PopRelease
  <2>1. read_ < cview
    BY <1>8 DEF PopRelease, IInv
  <2>2. TypeOK'
    BY <1>0, <1>8 DEF PopRelease, TypeOK, producerVars
  <2>3. \A k \in read_' .. write_' - 1 : buf_'[Index(k)] \in Item
    <3>1. read_' = read_ + 1 /\ write_' = write_ /\ buf_' = buf_
      BY <1>8 DEF PopRelease
    <3>2. read_ + 1 .. write_ - 1 \subseteq read_ .. write_ - 1
      BY <1>0
    <3> QED
      BY <3>1, <3>2 DEF IInv
  <2> QED
    BY <1>0, <1>8, <2>1, <2>2, <2>3 DEF PopRelease, IInv, producerVars, Index
<1>9. CASE UNCHANGED vars
  <2>1. TypeOK'
    BY <1>0, <1>9 DEF vars, TypeOK
  <2>2. \A k \in read_' .. write_' - 1 : buf_'[Index(k)] \in Item
    BY <1>9 DEF vars, IInv, Index
  <2> QED
    BY <1>0, <1>9, <2>1, <2>2 DEF vars, IInv, Index
<1> QED
  BY <1>1, <1>2, <1>3, <1>4, <1>5, <1>6, <1>7, <1>8, <1>9
     DEF Next, Producer, Consumer
--------------------------------------------------------------------------------
(* IInv holds in every reachable state. *)
THEOREM Invariance == Spec => []IInv
<1> QED
  BY Initially, InductiveStep, PTL DEF Spec

(* Every index and slot stays in its range. *)
THEOREM TypeCorrect == Spec => []TypeOK
<1>1. IInv => TypeOK
  BY DEF IInv
<1> QED
  BY <1>1, Invariance, PTL

(* The ring never holds more than N - 1 items, and read_ never passes write_. *)
THEOREM Capacity == Spec => []NeverOverfull
<1>1. IInv => NeverOverfull
  BY NAssumption DEF IInv, TypeOK, NeverOverfull
<1> QED
  BY <1>1, Invariance, PTL

(* No slot is accessed by both threads at once, nor before the other thread's
   release store to the index that frees or fills it was seen. *)
THEOREM NoDataRace == Spec => []RaceFree
<1>1. IInv => RaceFree
  <2> SUFFICES ASSUME IInv PROVE RaceFree
    OBVIOUS
  <2>1. /\ write_ \in Nat /\ read_ \in Nat /\ pview \in Nat /\ cview \in Nat
        /\ pview <= read_ /\ read_ <= cview /\ cview <= write_
    BY DEF IInv, TypeOK
  <2>2. ppc = "copy" => write_ - pview < N
    BY <2>1, NAssumption DEF IInv
  <2>3. cpc = "copy" => read_ < cview
    BY DEF IInv
  <2>4. ASSUME ppc = "copy", cpc = "copy" PROVE Index(write_) # Index(read_)
    <3>1. read_ < write_ /\ write_ - read_ < N
      BY <2>1, <2>2, <2>3, <2>4, NAssumption
    <3> QED
      BY <2>1, <3>1, IndexDistinct
  <2> QED
    BY <2>2, <2>3, <2>4 DEF RaceFree
<1> QED
  BY <1>1, Invariance, PTL
--------------------------------------------------------------------------------
(* Refinement of BoundedFifo. *)

(* Between its two indices the ring holds a sequence of items. *)
LEMMA ContentsIsSeq ==
  ASSUME IInv
  PROVE  /\ Contents \in Seq(Item)
         /\ Len(Contents) = write_ - read_
         /\ write_ - read_ \in 0 .. N - 1
         /\ \A i \in 1 .. write_ - read_ : Contents[i] = buf_[Index(read_ + i - 1)]
<1>1. write_ \in Nat /\ read_ \in Nat /\ write_ - read_ \in 0 .. N - 1
  BY NAssumption DEF IInv, TypeOK
<1>2. \A i \in 1 .. write_ - read_ : buf_[Index(read_ + i - 1)] \in Item
  <2> SUFFICES ASSUME NEW i \in 1 .. write_ - read_
               PROVE  buf_[Index(read_ + i - 1)] \in Item
    OBVIOUS
  <2>1. read_ + i - 1 \in read_ .. write_ - 1
    BY <1>1
  <2> QED
    BY <2>1 DEF IInv
<1>3. Contents \in [1 .. write_ - read_ -> Item]
  BY <1>2 DEF Contents
<1>4. Contents \in Seq(Item) /\ Len(Contents) = write_ - read_
  BY <1>1, <1>3
<1> QED
  BY <1>1, <1>4 DEF Contents

(* Two states with the same indices and, between them, the same slots have the
   same contents. *)
LEMMA ContentsUnchanged ==
  ASSUME IInv, IInv', write_' = write_, read_' = read_,
         \A k \in read_ .. write_ - 1 : buf_'[Index(k)] = buf_[Index(k)]
  PROVE  Contents' = Contents
<1>1. write_ \in Nat /\ read_ \in Nat
  BY DEF IInv, TypeOK
<1>2. \A i \in 1 .. write_ - read_ : read_ + i - 1 \in read_ .. write_ - 1
  BY <1>1
<1> QED
  BY <1>2 DEF Contents, Index

(* The store to write_ is the push. *)
LEMMA PublishIsPush ==
  ASSUME IInv, IInv', PushPublish
  PROVE  Fifo!Push(item) /\ item \in Item
<1>1. /\ write_ \in Nat /\ read_ \in Nat /\ pview \in Nat
      /\ pview <= read_ /\ read_ <= write_
      /\ write_ - pview < N - 1 /\ item \in Item /\ buf_[Index(write_)] = item
  BY DEF IInv, TypeOK, PushPublish
<1>2. write_' = write_ + 1 /\ read_' = read_ /\ buf_' = buf_ /\ taken' = taken
  BY DEF PushPublish, consumerVars
<1>3. Len(Contents) < N - 1
  BY <1>1, ContentsIsSeq, NAssumption
<1> DEFINE a == Append(Contents, item)
           m == write_ - read_
<1>4. /\ a \in Seq(Item) /\ Len(a) = m + 1 /\ m \in Nat
      /\ \A i \in 1 .. m : a[i] = Contents[i]
      /\ a[m + 1] = item
  BY <1>1, ContentsIsSeq, AppendProperties
<1>5. Contents' = [i \in 1 .. m + 1 |-> buf_[Index(read_ + i - 1)]]
  BY <1>1, <1>2 DEF Contents, Index
<1>6. \A i \in 1 .. m + 1 : a[i] = buf_[Index(read_ + i - 1)]
  <2> SUFFICES ASSUME NEW i \in 1 .. m + 1
               PROVE  a[i] = buf_[Index(read_ + i - 1)]
    OBVIOUS
  <2>1. CASE i \in 1 .. m
    BY <1>4, <2>1, ContentsIsSeq
  <2>2. CASE i = m + 1
    <3>1. a[i] = buf_[Index(write_)]
      BY <1>1, <1>4, <2>2
    <3>2. read_ + i - 1 = write_
      BY <1>1, <2>2
    <3> QED
      BY <3>1, <3>2
  <2> QED
    BY <1>4, <2>1, <2>2
<1>7. Contents' = a
  <2>1. a \in [1 .. m + 1 -> Item]
    BY <1>4, LenProperties
  <2> HIDE DEF a, m
  <2> QED
    BY <1>5, <1>6, <2>1
<1> QED
  BY <1>1, <1>2, <1>3, <1>7 DEF Fifo!Push

(* The store to read_ is the pop. *)
LEMMA ReleaseIsPop == ASSUME IInv, IInv', PopRelease PROVE Fifo!Pop
<1>1. /\ write_ \in Nat /\ read_ \in Nat /\ cview \in Nat
      /\ read_ < cview /\ cview <= write_ /\ out = buf_[Index(read_)]
  BY DEF IInv, TypeOK, PopRelease
<1>2. write_' = write_ /\ read_' = read_ + 1 /\ buf_' = buf_ /\ taken' = out
  BY DEF PopRelease
<1> DEFINE m == write_ - read_
<1>3. m \in Nat /\ m >= 1 /\ write_' - read_' = m - 1
  BY <1>1, <1>2
<1>4. /\ Contents \in Seq(Item) /\ Len(Contents) = m
      /\ \A i \in 1 .. m : Contents[i] = buf_[Index(read_ + i - 1)]
  BY ContentsIsSeq
<1>5. Contents # <<>> /\ Head(Contents) = out
  BY <1>1, <1>3, <1>4
<1>6. /\ Tail(Contents) \in Seq(Item) /\ Len(Tail(Contents)) = m - 1
      /\ \A i \in 1 .. m - 1 : Tail(Contents)[i] = Contents[i + 1]
  BY <1>4, <1>5, HeadTailProperties
<1>7. /\ Contents' \in Seq(Item) /\ Len(Contents') = m - 1
      /\ \A i \in 1 .. m - 1 : Contents'[i] = buf_[Index(read_ + 1 + i - 1)]
  <2>1. Contents' = [i \in 1 .. m - 1 |-> buf_[Index(read_ + 1 + i - 1)]]
    BY <1>2, <1>3 DEF Contents, Index
  <2>2. \A i \in 1 .. m - 1 : buf_[Index(read_ + 1 + i - 1)] \in Item
    <3> SUFFICES ASSUME NEW i \in 1 .. m - 1
                 PROVE  buf_[Index(read_ + 1 + i - 1)] \in Item
      OBVIOUS
    <3>1. read_ + 1 + i - 1 \in read_ .. write_ - 1
      BY <1>1, <1>3
    <3> QED
      BY <3>1 DEF IInv
  <2>3. Contents' \in [1 .. m - 1 -> Item]
    BY <2>1, <2>2
  <2> HIDE DEF m
  <2> QED
    BY <1>3, <2>1, <2>3
<1>8. \A i \in 1 .. m - 1 : Contents'[i] = Tail(Contents)[i]
  <2> SUFFICES ASSUME NEW i \in 1 .. m - 1
               PROVE  Contents'[i] = Tail(Contents)[i]
    OBVIOUS
  <2>1. i + 1 \in 1 .. m /\ read_ + 1 + i - 1 = read_ + (i + 1) - 1
    BY <1>1, <1>3
  <2> QED
    BY <1>4, <1>6, <1>7, <2>1
<1>9. Contents' = Tail(Contents)
  BY <1>6, <1>7, <1>8, SeqEqual
<1> QED
  BY <1>2, <1>5, <1>9 DEF Fifo!Pop

(* Every step of the ring is a push, a pop or a stutter of the FIFO. *)
LEMMA StepSimulation ==
  IInv /\ IInv' /\ [Next]_vars => [Fifo!Next]_(Fifo!fifoVars)
<1> SUFFICES ASSUME IInv, IInv', [Next]_vars
             PROVE  [Fifo!Next]_(Fifo!fifoVars)
  OBVIOUS
<1>0. write_ \in Nat /\ read_ \in Nat
  BY DEF IInv, TypeOK
<1>1. CASE PushPublish
  BY <1>1, PublishIsPush DEF Fifo!Next
<1>2. CASE PopRelease
  BY <1>2, ReleaseIsPop DEF Fifo!Next
<1>3. CASE PushCopy
  <2>1. \A k \in read_ .. write_ - 1 : buf_'[Index(k)] = buf_[Index(k)]
    <3> SUFFICES ASSUME NEW k \in read_ .. write_ - 1
                 PROVE  buf_'[Index(k)] = buf_[Index(k)]
      OBVIOUS
    <3>1. k \in Nat /\ k < write_ /\ write_ - k < N
      BY <1>0, <1>3, NAssumption DEF IInv, TypeOK, PushCopy
    <3>2. Index(k) # Index(write_) /\ Index(k) \in Slots
      BY <1>0, <3>1, IndexDistinct, IndexInSlots
    <3> QED
      BY <1>3, <3>2 DEF PushCopy, IInv, TypeOK
  <2>2. write_' = write_ /\ read_' = read_ /\ taken' = taken
    BY <1>3 DEF PushCopy, consumerVars
  <2> QED
    BY <2>1, <2>2, ContentsUnchanged DEF Fifo!fifoVars
<1>4. CASE UNCHANGED <<buf_, write_, read_, taken>>
  <2>1. Contents' = Contents
    BY <1>4, ContentsUnchanged
  <2> QED
    BY <1>4, <2>1 DEF Fifo!fifoVars
<1> QED
  BY <1>1, <1>2, <1>3, <1>4
     DEF Next, Producer, Consumer, PushFull, PushRoom, PopEmpty, PopReady,
         PopCopy, vars, producerVars, consumerVars

(* The lock-free ring implements the bounded FIFO its users rely on. *)
THEOREM Refinement == Spec => FifoSpec
<1>1. Init => Fifo!Init
  <2> SUFFICES ASSUME Init PROVE Fifo!Init
    OBVIOUS
  <2>1. Contents = [i \in 1 .. 0 |-> buf_[Index(0 + i - 1)]]
    BY DEF Init, Contents
  <2>2. Contents = <<>>
    BY <2>1
  <2> QED
    BY <2>2 DEF Init, Fifo!Init
<1> QED
  BY <1>1, StepSimulation, Invariance, PTL DEF Spec, FifoSpec, Fifo!Spec
================================================================================
