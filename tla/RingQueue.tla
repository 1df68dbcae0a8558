------------------------------- MODULE RingQueue -------------------------------
(***************************************************************************)
(* RingQueue<T, N> of include/common.h: the lock-free single-producer      *)
(* single-consumer ring that carries RawFrame from capture_thread to       *)
(* inference_thread and InferResult from there to alarm_thread.            *)
(*                                                                         *)
(* The two threads run on a weakly ordered CPU, so an atomic index is      *)
(* modelled by its modification order.  write_ and read_ count the stores  *)
(* made to the index so far; the int the index holds after p stores is     *)
(* Index(p).  An acquire load of the other thread's index returns the int  *)
(* of some position not older than the one this thread saw last (pview,    *)
(* cview): it may be stale, but a release store at or before the position  *)
(* loaded makes the slot accesses that precede it visible.  A slot read    *)
(* that no such store orders is a data race, and returns anything.         *)
(***************************************************************************)
EXTENDS Integers, Sequences

CONSTANTS Item,      \* the values of T
          N,         \* the number of slots
          Blank,     \* a slot nothing was written to, and taken before a pop
          MaxPush    \* bound: the number of items accepted in a behaviour

ASSUME NAssumption == N \in Nat \ {0}
ASSUME BlankAssumption == Blank \notin Item

VARIABLES buf_,      \* the slots
          write_,    \* stores to the write index: items published
          read_,     \* stores to the read index: items released
          ppc,       \* where the pushing thread is
          item,      \* the argument of the push in progress
          pview,     \* the newest store to read_ the pushing thread has seen
          cpc,       \* where the popping thread is
          cview,     \* the newest store to write_ the popping thread has seen
          out,       \* the copy made by the pop in progress
          taken      \* the item returned by the latest successful pop

producerVars == <<ppc, item, pview>>
consumerVars == <<cpc, cview, out, taken>>
vars == <<buf_, write_, read_, ppc, item, pview, cpc, cview, out, taken>>

Slots == 0 .. N - 1

\* The int held by an index after its p-th store.
Index(p) == p % N

\* The slot after the one at position p.
NextIndex(p) == (Index(p) + 1) % N

\* Mutation: the indices are left uninitialised.
InitGarbage == /\ buf_ = [s \in Slots |-> Blank]
               /\ write_ = 0 /\ read_ \in -1 .. 0
               /\ ppc = "idle" /\ item = Blank /\ pview = read_
               /\ cpc = "idle" /\ cview = 0 /\ out = Blank
               /\ taken = Blank

Init == /\ buf_ = [s \in Slots |-> Blank]
        /\ write_ = 0 /\ read_ = 0
        /\ ppc = "idle" /\ item = Blank /\ pview = 0
        /\ cpc = "idle" /\ cview = 0 /\ out = Blank
        /\ taken = Blank
--------------------------------------------------------------------------------
(* bool push(const T& item) *)

\* Mutation: push does not test for room.
LooksFullNever(p) == FALSE

\* The full test: the load of read_ sees position p.
LooksFull(p) == NextIndex(write_) = Index(p)

\* push returns false: the item is dropped by the caller.
PushFull ==
  /\ ppc = "idle"
  /\ \E p \in pview .. read_ : LooksFull(p) /\ pview' = p
  /\ UNCHANGED <<buf_, write_, read_, ppc, item, consumerVars>>

\* push found room and goes on to the slot.
PushRoom(x) ==
  /\ ppc = "idle" /\ write_ < MaxPush
  /\ \E p \in pview .. read_ : ~LooksFull(p) /\ pview' = p
  /\ ppc' = "copy" /\ item' = x
  /\ UNCHANGED <<buf_, write_, read_, consumerVars>>

\* Mutation: the item goes to the slot of next, not to the one published.
PushCopyToNext ==
  /\ ppc = "copy"
  /\ buf_' = [buf_ EXCEPT ![NextIndex(write_)] = item]
  /\ ppc' = "publish"
  /\ UNCHANGED <<write_, read_, item, pview, consumerVars>>

PushCopy ==
  /\ ppc = "copy"
  /\ buf_' = [buf_ EXCEPT ![Index(write_)] = item]
  /\ ppc' = "publish"
  /\ UNCHANGED <<write_, read_, item, pview, consumerVars>>

PushPublish ==
  /\ ppc = "publish"
  /\ write_' = write_ + 1
  /\ ppc' = "idle"
  /\ UNCHANGED <<buf_, read_, item, pview, consumerVars>>
--------------------------------------------------------------------------------
(* bool pop(T& item) *)

\* Mutations: pop does not test for an item; pop leaves the last item behind.
LooksEmptyNever(p) == FALSE
LooksEmptyEarly(p) == Index(p) \in {Index(read_), NextIndex(read_)}

LooksEmpty(p) == Index(read_) = Index(p)

PopEmpty ==
  /\ cpc = "idle"
  /\ \E p \in cview .. write_ : LooksEmpty(p) /\ cview' = p
  /\ UNCHANGED <<buf_, write_, read_, cpc, out, taken, producerVars>>

PopReady ==
  /\ cpc = "idle"
  /\ \E p \in cview .. write_ : ~LooksEmpty(p) /\ cview' = p
  /\ cpc' = "copy"
  /\ UNCHANGED <<buf_, write_, read_, out, taken, producerVars>>

\* What a read of the slot at the read index may return.
Readable == IF read_ < cview THEN {buf_[Index(read_)]} ELSE Item

PopCopy ==
  /\ cpc = "copy"
  /\ out' \in Readable
  /\ cpc' = "release"
  /\ UNCHANGED <<buf_, write_, read_, cview, taken, producerVars>>

PopRelease ==
  /\ cpc = "release"
  /\ read_' = read_ + 1
  /\ taken' = out
  /\ cpc' = "idle"
  /\ UNCHANGED <<buf_, write_, cview, out, producerVars>>
--------------------------------------------------------------------------------
Producer == PushFull \/ (\E x \in Item : PushRoom(x)) \/ PushCopy \/ PushPublish
Consumer == PopEmpty \/ PopReady \/ PopCopy \/ PopRelease

Next == Producer \/ Consumer

(***************************************************************************)
(* inference_thread and alarm_thread call pop in a loop, a thread inside a *)
(* call keeps running, and a store becomes visible to the other core in    *)
(* finite time: PopReady is not ignored for ever.  Nothing obliges the     *)
(* producer to start another push.                                         *)
(***************************************************************************)
Fairness == /\ WF_vars(PopReady) /\ WF_vars(PopCopy) /\ WF_vars(PopRelease)
            /\ WF_vars(PushCopy) /\ WF_vars(PushPublish)

Spec == Init /\ [][Next]_vars
FairSpec == Spec /\ Fairness
--------------------------------------------------------------------------------
(* Type invariant: every index and slot stays in its range. *)
TypeOK ==
  /\ buf_ \in [Slots -> Item \cup {Blank}]
  /\ write_ \in Nat /\ read_ \in Nat
  /\ ppc \in {"idle", "copy", "publish"} /\ item \in Item \cup {Blank}
  /\ pview \in Nat
  /\ cpc \in {"idle", "copy", "release"} /\ cview \in Nat
  /\ out \in Item \cup {Blank} /\ taken \in Item \cup {Blank}

(* The indices never cross and one slot always stays unused: of the N slots
   declared (4 in both queues) at most N - 1 hold an item. *)
NeverOverfull == write_ - read_ \in 0 .. N - 1

(* Race freedom of the slots under acquire/release: a push writes a slot only
   after it has seen the release of the slot's previous item, and a pop reads a
   slot only after it has seen the publication of the item in it. *)
RaceFree ==
  /\ ppc = "copy" => write_ - pview < N
  /\ cpc = "copy" => read_ < cview
  /\ ppc = "copy" /\ cpc = "copy" => Index(write_) # Index(read_)

(* The strengthening that makes the two above inductive: each thread's view
   lags the other's index in the safe direction, and a thread past its test
   holds what the test established until it stores its index. *)
IInv ==
  /\ TypeOK
  /\ pview <= read_ /\ read_ <= cview /\ cview <= write_
  /\ write_ - pview <= N - 1
  /\ ppc # "idle" => write_ - pview < N - 1 /\ item \in Item
  /\ ppc = "publish" => buf_[Index(write_)] = item
  /\ cpc # "idle" => read_ < cview
  /\ cpc = "release" => out = buf_[Index(read_)]
  /\ \A k \in read_ .. write_ - 1 : buf_[Index(k)] \in Item

(* The items between the two indices, oldest first. *)
Contents == [i \in 1 .. write_ - read_ |-> buf_[Index(read_ + i - 1)]]

Fifo == INSTANCE BoundedFifo
          WITH queue <- Contents, Capacity <- N - 1, NoItem <- Blank

(* The ring implements a bounded FIFO: a push takes effect at the store to
   write_, a pop at the store to read_, and what pop returns is the oldest item
   accepted and not yet returned - nothing lost, repeated, reordered or torn. *)
FifoSpec == Fifo!Spec

(* Every item push accepted is handed to the consumer, as long as the consumer
   keeps polling: no interleaving of the index loads hides an item for ever. *)
AcceptedIsTaken == \A i \in 1 .. MaxPush : write_ >= i ~> read_ >= i
================================================================================
