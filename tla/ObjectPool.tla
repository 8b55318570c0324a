--------------------------- MODULE ObjectPool ---------------------------
(***************************************************************************)
(* The pool of order objects (src/src/utils/object_pool.h): a free list    *)
(* under a spinlock, used by every thread that makes or drops orders.  An  *)
(* object is acquired by one thread and, being passed on as a shared_ptr,  *)
(* may be recycled by another: `owned' is what is outside the pool, and    *)
(* whichever thread drops the last reference calls recycle.                *)
(*                                                                         *)
(* A definition named Mutant_X is X with one plausible bug; it is not part *)
(* of the model.  The properties are tested by putting it in X's place.    *)
(***************************************************************************)
EXTENDS Integers, Sequences, FiniteSets, SequencesExt

CONSTANTS
    Thread,
    BlockSize,    \* objects per block (100000 in the code)
    MaxBlocks,    \* bound: no acquire begins once this many blocks are used up
    None          \* no object

ASSUME BlockSizeAssumption == BlockSize \in Nat \ {0}
ASSUME MaxBlocksAssumption == MaxBlocks \in Nat \ {0}
ASSUME NoneAssumption      == None \notin Nat   \* the objects are numbered

VARIABLES
    lock,         \* lock_: is it set?
    blocks,       \* how many blocks there are
    free_list,
    pc,           \* where each thread is
    obj,          \* the object a thread takes out of or puts into the list
    owned         \* the objects handed out

poolVars == <<lock, blocks, free_list, pc, obj, owned>>

(* The objects of block b, in the order allocate_block pushes them. *)
Block(b) == [i \in 1..BlockSize |-> (b - 1) * BlockSize + i]

PoolInit ==
    /\ lock = FALSE
    /\ blocks = 1
    /\ free_list = Block(1)
    /\ pc = [t \in Thread |-> "idle"]
    /\ obj = [t \in Thread |-> None]
    /\ owned = {}

----------------------------------------------------------------------------
(* A thread calls acquire, or drops the last reference to an object. *)
BeginAcquire(t) ==
    /\ pc[t] = "idle"
    /\ pc' = [pc EXCEPT ![t] = "acquire"]
    /\ UNCHANGED <<lock, blocks, free_list, obj, owned>>

BeginRecycle(t, x) ==
    /\ pc[t] = "idle"
    /\ x \in owned
    /\ owned' = owned \ {x}
    /\ obj' = [obj EXCEPT ![t] = x]
    /\ pc' = [pc EXCEPT ![t] = "recycle"]
    /\ UNCHANGED <<lock, blocks, free_list>>

(* The result of test_and_set is not looked at. *)
Mutant_AcquireLock(t) ==
    /\ pc[t] \in {"acquire", "recycle"}
    /\ lock' = TRUE
    /\ pc' = [pc EXCEPT ![t] = IF pc[t] = "acquire" THEN "back" ELSE "push"]
    /\ UNCHANGED <<blocks, free_list, obj, owned>>

(* acquire_lock: the thread spins until test_and_set finds it clear. *)
AcquireLock(t) ==
    /\ pc[t] \in {"acquire", "recycle"}
    /\ ~lock
    /\ lock' = TRUE
    /\ pc' = [pc EXCEPT ![t] = IF pc[t] = "acquire" THEN "back" ELSE "push"]
    /\ UNCHANGED <<blocks, free_list, obj, owned>>

(* allocate_block, when the list is empty. *)
AllocateBlock(t) ==
    /\ pc[t] = "back"
    /\ free_list = <<>>
    /\ blocks < MaxBlocks
    /\ blocks' = blocks + 1
    /\ free_list' = Block(blocks + 1)
    /\ UNCHANGED <<lock, pc, obj, owned>>

(* new T[BlockSize], or a push_back, throws while the lock is set.         *)
(* Nothing catches it, here or in the functions the threads run, so        *)
(* std::terminate ends the process, every thread where it is.  Were it     *)
(* caught anywhere, the others would spin on lock_ for ever.               *)
AllocationThrows(t) ==
    /\ pc[t] = "back"
    /\ free_list = <<>>
    /\ pc' = [u \in Thread |-> "ended"]
    /\ UNCHANGED <<lock, blocks, free_list, obj, owned>>

Ended == (\A t \in Thread : pc[t] = "ended") /\ UNCHANGED poolVars

(* T* obj = free_list_.back() *)
ReadBack(t) ==
    /\ pc[t] = "back"
    /\ free_list # <<>>
    /\ obj' = [obj EXCEPT ![t] = Last(free_list)]
    /\ pc' = [pc EXCEPT ![t] = "pop"]
    /\ UNCHANGED <<lock, blocks, free_list, owned>>

(* free_list_.pop_back() *)
PopBack(t) ==
    /\ pc[t] = "pop"
    /\ free_list # <<>>
    /\ free_list' = Front(free_list)
    /\ pc' = [pc EXCEPT ![t] = "got"]
    /\ UNCHANGED <<lock, blocks, obj, owned>>

(* recycle: free_list_.push_back(ptr) *)
PushBack(t) ==
    /\ pc[t] = "push"
    /\ free_list' = Append(free_list, obj[t])
    /\ obj' = [obj EXCEPT ![t] = None]
    /\ pc' = [pc EXCEPT ![t] = "put"]
    /\ UNCHANGED <<lock, blocks, owned>>

(* recycle returns with the lock set. *)
Mutant_ReleaseLock(t) ==
    /\ pc[t] \in {"got", "put"}
    /\ lock' = (pc[t] = "put")
    /\ owned' = IF pc[t] = "got" THEN owned \union {obj[t]} ELSE owned
    /\ obj' = [obj EXCEPT ![t] = None]
    /\ pc' = [pc EXCEPT ![t] = "idle"]
    /\ UNCHANGED <<blocks, free_list>>

(* release_lock; acquire then returns the object. *)
ReleaseLock(t) ==
    /\ pc[t] \in {"got", "put"}
    /\ lock' = FALSE
    /\ owned' = IF pc[t] = "got" THEN owned \union {obj[t]} ELSE owned
    /\ obj' = [obj EXCEPT ![t] = None]
    /\ pc' = [pc EXCEPT ![t] = "idle"]
    /\ UNCHANGED <<blocks, free_list>>

(* What a thread does while it holds the lock. *)
Critical(t) ==
    \/ AllocateBlock(t) \/ AllocationThrows(t)
    \/ ReadBack(t) \/ PopBack(t) \/ PushBack(t) \/ ReleaseLock(t)

(* The bound: acquires in progress never need more than MaxBlocks blocks. *)
RoomToAcquire ==
    Cardinality(owned) + Cardinality({t \in Thread : pc[t] # "idle"})
        < BlockSize * MaxBlocks

PoolNext ==
    \/ \E t \in Thread :
          \/ RoomToAcquire /\ BeginAcquire(t)
          \/ \E x \in owned : BeginRecycle(t, x)
          \/ AcquireLock(t)
          \/ Critical(t)
    \/ Ended

PoolSpec == PoolInit /\ [][PoolNext]_poolVars

(* A thread that holds the lock runs on.  No thread is promised the lock:  *)
(* a spinlock is not fair.                                                 *)
PoolFairSpec ==
    /\ PoolSpec
    /\ \A t \in Thread : WF_poolVars(Critical(t))
    /\ WF_poolVars(\E t \in Thread : AcquireLock(t))

----------------------------------------------------------------------------
(* The places object x is in: slots of the free list, the hands of a       *)
(* thread inside acquire or recycle, or outside the pool.                  *)
Places(x) ==
    {<<"free", i>> : i \in {j \in DOMAIN free_list : free_list[j] = x}}
    \union {<<"hand", t>> : t \in {u \in Thread : pc[u] # "pop" /\ obj[u] = x}}
    \union {<<"owned", y>> : y \in owned \intersect {x}}

(* Every object of every block is in exactly one place: two acquires never *)
(* return the same object, a recycled object is not still in use, and none *)
(* is lost, whatever threads acquire, recycle and allocate at once.        *)
InOnePlace ==
    \A x \in 1..(blocks * BlockSize) : Cardinality(Places(x)) = 1

(* Whenever a thread spins on the lock, some thread gets on: an acquire or *)
(* recycle completes, or an allocation fails and the process ends.  No     *)
(* thread is left spinning on a lock nobody will clear.                    *)
Spinning == \E t \in Thread : pc[t] \in {"acquire", "recycle"}

PoolProgress ==
    Spinning ~> (\E t \in Thread : pc[t] \in {"got", "put", "ended"})
============================================================================
