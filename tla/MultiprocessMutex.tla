------------------------- MODULE MultiprocessMutex -------------------------
(***************************************************************************)
(* multiprocess_mutex: one object per process over one lock file.  A robust *)
(* pthread mutex excludes the threads of a process, a record lock on the   *)
(* file excludes the processes.  The record lock belongs to the process:    *)
(* taking it twice succeeds, and it goes with the process.                  *)
(*                                                                         *)
(* m_counter is updated after the pthread mutex is released, by unlock and *)
(* by a lock that failed: a data race, modelled by a load and a store.      *)
(***************************************************************************)
EXTENDS Integers

CONSTANTS
  Processes,
  Threads,
  ProcessOf,    \* the process of each thread
  Nobody,
  Recursive,    \* m_recursive
  Calls,        \* what the program calls: "lock", "try_lock", "timed_lock"
  ThreadsEnd,   \* whether threads may end without unlocking
  MaxHeld,      \* bound on nested locks of one thread
  CounterRange, \* 2 ^ the width of std::size_t
  Boot,         \* the seconds of the clock when the program starts
  LastNano,     \* the largest tv_nsec
  MaxTicks      \* bound on the seconds that pass

ASSUME MutexAssumption ==
  /\ ProcessOf \in [Threads -> Processes]
  /\ Nobody \notin Threads \union Processes
  /\ Recursive \in BOOLEAN
  /\ Calls \subseteq {"lock", "try_lock", "timed_lock"}
  /\ ThreadsEnd \in BOOLEAN
  /\ CounterRange \in Nat \ {0}
  /\ {MaxHeld, Boot, LastNano, MaxTicks} \subseteq Nat

VARIABLES
  mutex,    \* m_mutex of each process
  counter,  \* m_counter of each process
  l_type,   \* m_flock.l_type of each process
  flock,    \* the process that has the record lock on the file
  thread,   \* where each thread is
  now       \* CLOCK_REALTIME

vars == <<mutex, counter, l_type, flock, thread, now>>

Mutex == [owner : Threads \union {Nobody}, depth : Nat, dead : BOOLEAN]

Thread == [pc : {"idle", "mutex", "stuck", "file", "undo", "count", "counted",
                 "retry", "unlock", "uncount", "uncounted"},
           call : {"lock", "try_lock", "timed_lock"},
           until : Nat,       \* the seconds of the deadline of a timed_lock
           failed : BOOLEAN,  \* err is set
           seen : Nat,        \* m_counter as loaded
           held : Nat]        \* locks granted and not given back

TypeOK ==
  /\ mutex \in [Processes -> Mutex]
  /\ counter \in [Processes -> 0..(CounterRange - 1)]
  /\ l_type \in [Processes -> {"F_WRLCK", "F_UNLCK"}]
  /\ flock \in Processes \union {Nobody}
  /\ thread \in [Threads -> Thread]
  /\ now \in Nat

FreeMutex == [owner |-> Nobody, depth |-> 0, dead |-> FALSE]

Idle == [pc |-> "idle", call |-> "lock", until |-> 0, failed |-> FALSE, seen |-> 0,
         held |-> 0]

Init ==
  /\ mutex = [p \in Processes |-> FreeMutex]
  /\ counter = [p \in Processes |-> 0]
  /\ l_type = [p \in Processes |-> "F_WRLCK"]
  /\ flock = Nobody
  /\ thread = [t \in Threads |-> Idle]
  /\ now = Boot

-----------------------------------------------------------------------------
At(t, pc) == thread[t].pc = pc

MutexOf(t) == mutex[ProcessOf[t]]

CounterOf(t) == counter[ProcessOf[t]]

Go(t, pc) == thread' = [thread EXCEPT ![t].pc = pc]

\* the call has not got the lock
Fail(t, pc) == thread' = [thread EXCEPT ![t].pc = pc, ![t].failed = TRUE]

\* the call returns without the lock, or with it
Refuse(t) == thread' = [thread EXCEPT ![t] = [Idle EXCEPT !.held = thread[t].held]]

Accept(t) == thread' = [thread EXCEPT ![t] = [Idle EXCEPT !.held = thread[t].held + 1]]

Return(t) == IF thread[t].failed THEN Refuse(t) ELSE Accept(t)

\* t gets the mutex, once more if it has it
Granted(t, n) ==
  mutex' = [mutex EXCEPT ![ProcessOf[t]] =
    [owner |-> t, depth |-> MutexOf(t).depth + n, dead |-> FALSE]]

\* mutant: forgets that the mutex may be locked more than once
UnlockedAtOnce(m) == FreeMutex

\* pthread_mutex_unlock by its owner
Unlocked(m) == IF m.depth = 1 THEN FreeMutex ELSE [m EXCEPT !.depth = m.depth - 1]

\* mutant: F_RDLCK, which processes share
Shareable(p) == TRUE

\* fcntl(F_SETLK) succeeds: nobody else has a lock on the file
Lockable(p) == flock \in {p, Nobody}

\* mutant: drops the lock of any process
DroppedForAll(p) == Nobody

\* the kernel drops the locks of p
Dropped(p) == IF flock = p THEN Nobody ELSE flock

-----------------------------------------------------------------------------
\* A thread calls lock, try_lock or timed_lock, the latter with a deadline in the
\* present second or in the past.  One that holds a mutex that is not recursive
\* does not: that is undefined for a standard mutex.
Call(t, c) ==
  /\ At(t, "idle")
  /\ c \in Calls
  /\ thread[t].held < IF Recursive THEN MaxHeld ELSE 1
  /\ \E s \in IF c = "timed_lock" THEN 0..now ELSE {0} :
       thread' = [thread EXCEPT ![t].pc = "mutex", ![t].call = c, ![t].until = s]
  /\ UNCHANGED <<mutex, counter, l_type, flock, now>>

\* the mutex is free, or recursive and owned by t
LockMutex(t) ==
  /\ At(t, "mutex")
  /\ ~MutexOf(t).dead
  /\ MutexOf(t).owner \in {Nobody} \union (IF Recursive THEN {t} ELSE {})
  /\ Granted(t, 1)
  /\ Go(t, IF thread[t].call = "timed_lock" THEN "retry" ELSE "file")
  /\ UNCHANGED <<counter, l_type, flock, now>>

\* mutant: try_lock waits
TimedMutexBusy(t) ==
  /\ At(t, "mutex")
  /\ thread[t].call = "timed_lock"
  /\ MutexOf(t).owner # Nobody
  /\ Recursive => MutexOf(t).owner # t
  /\ Refuse(t)
  /\ UNCHANGED <<mutex, counter, l_type, flock, now>>

\* pthread_mutex_trylock returns EBUSY, pthread_mutex_timedlock ETIMEDOUT
MutexBusy(t) ==
  /\ At(t, "mutex")
  /\ thread[t].call # "lock"
  /\ MutexOf(t).owner # Nobody
  /\ Recursive => MutexOf(t).owner # t
  /\ Refuse(t)
  /\ UNCHANGED <<mutex, counter, l_type, flock, now>>

\* EOWNERDEAD: the caller has the mutex now.  lock and try_lock make it
\* consistent and then lock it a second time; timed_lock gives up.
OwnerDead(t) ==
  /\ At(t, "mutex")
  /\ MutexOf(t).dead
  /\ LET twice == Recursive /\ thread[t].call # "timed_lock"
     IN  /\ Granted(t, IF twice THEN 2 ELSE 1)
         /\ \/ twice /\ Go(t, "file")
            \/ ~twice /\ thread[t].call # "lock" /\ Refuse(t)
            \/ ~twice /\ thread[t].call = "lock" /\ Go(t, "stuck")
  /\ UNCHANGED <<counter, l_type, flock, now>>

\* lock_impl and try_lock_impl behind the mutex
LockFile(t) ==
  LET p == ProcessOf[t] IN
  /\ At(t, "file")
  /\ \/ /\ counter[p] # 0
        /\ Go(t, "count")
        /\ UNCHANGED <<l_type, flock>>
     \/ /\ counter[p] = 0
        /\ Lockable(p)
        /\ l_type' = [l_type EXCEPT ![p] = "F_WRLCK"]
        /\ flock' = p
        /\ Go(t, "count")
     \/ /\ counter[p] = 0
        /\ ~Lockable(p)
        /\ l_type' = [l_type EXCEPT ![p] = "F_WRLCK"]
        /\ Fail(t, "undo")
        /\ UNCHANGED flock
  /\ UNCHANGED <<mutex, counter, now>>

\* a call that did not get the file gives the mutex back
Undo(t) ==
  /\ At(t, "undo")
  /\ mutex' = [mutex EXCEPT ![ProcessOf[t]] = Unlocked(@)]
  /\ IF thread[t].call = "timed_lock" THEN Refuse(t) ELSE Go(t, "count")
  /\ UNCHANGED <<counter, l_type, flock, now>>

-----------------------------------------------------------------------------
(* The loop of timed_lock.                                                  *)

\* fcntl sets whatever l_type the last call of the process left: after an unlock
\* that is F_UNLCK, which succeeds and locks nothing.
TimedFile(t) ==
  LET p == ProcessOf[t] IN
  /\ At(t, "retry")
  /\ l_type[p] = "F_UNLCK" \/ Lockable(p)
  /\ flock' = IF l_type[p] = "F_UNLCK" THEN Dropped(p) ELSE p
  /\ Go(t, IF thread[t].failed THEN "undo" ELSE "count")
  /\ UNCHANGED <<mutex, counter, l_type, now>>

\* The file is locked.  nanosleep, whose tv_sec was never set, may fail; err then
\* stays set while the loop goes on.
Sleep(t) ==
  /\ At(t, "retry")
  /\ l_type[ProcessOf[t]] = "F_WRLCK" /\ ~Lockable(ProcessOf[t])
  /\ \E e \in {thread[t].failed, TRUE} :
       thread' = [thread EXCEPT ![t].failed = e]
  /\ UNCHANGED <<mutex, counter, l_type, flock, now>>

\* the nanoseconds of the clock are compared with the seconds of the deadline
GiveUp(t) ==
  /\ At(t, "retry")
  /\ now > thread[t].until
  /\ \E nano \in 0..LastNano : nano > thread[t].until
  /\ Fail(t, "undo")
  /\ UNCHANGED <<mutex, counter, l_type, flock, now>>

-----------------------------------------------------------------------------
\* m_counter++, also after an error, when the mutex is not ours any more
Count(t) ==
  /\ At(t, "count")
  /\ IF Recursive
     THEN thread' = [thread EXCEPT ![t].pc = "counted", ![t].seen = CounterOf(t)]
     ELSE Return(t)
  /\ UNCHANGED <<mutex, counter, l_type, flock, now>>

Counted(t) ==
  /\ At(t, "counted")
  /\ counter' = [counter EXCEPT ![ProcessOf[t]] = (thread[t].seen + 1) % CounterRange]
  /\ Return(t)
  /\ UNCHANGED <<mutex, l_type, flock, now>>

\* mutant: leaves the file to the destructor
UnlockKeepsFile(t) ==
  /\ At(t, "idle")
  /\ thread[t].held > 0
  /\ thread' = [thread EXCEPT ![t].pc = "unlock", ![t].held = @ - 1]
  /\ UNCHANGED <<mutex, counter, l_type, flock, now>>

\* unlock_impl gives the file back when m_counter is 0, before it is decremented
Unlock(t) ==
  LET p == ProcessOf[t] IN
  /\ At(t, "idle")
  /\ thread[t].held > 0
  /\ thread' = [thread EXCEPT ![t].pc = "unlock", ![t].held = @ - 1]
  /\ IF counter[p] = 0
     THEN /\ l_type' = [l_type EXCEPT ![p] = "F_UNLCK"]
          /\ flock' = Dropped(p)
     ELSE UNCHANGED <<l_type, flock>>
  /\ UNCHANGED <<mutex, counter, now>>

UnlockMutex(t) ==
  /\ At(t, "unlock")
  /\ mutex' = [mutex EXCEPT ![ProcessOf[t]] = Unlocked(@)]
  /\ Go(t, IF Recursive THEN "uncount" ELSE "idle")
  /\ UNCHANGED <<counter, l_type, flock, now>>

\* m_counter--, when the mutex is already free
Uncount(t) ==
  /\ At(t, "uncount")
  /\ thread' = [thread EXCEPT ![t].pc = "uncounted", ![t].seen = CounterOf(t)]
  /\ UNCHANGED <<mutex, counter, l_type, flock, now>>

Uncounted(t) ==
  /\ At(t, "uncounted")
  /\ counter' = [counter EXCEPT ![ProcessOf[t]] =
                   (thread[t].seen + CounterRange - 1) % CounterRange]
  /\ Refuse(t)
  /\ UNCHANGED <<mutex, l_type, flock, now>>

-----------------------------------------------------------------------------
\* A thread ends without unlocking; another takes its place.
ThreadEnds(t) ==
  /\ ThreadsEnd
  /\ At(t, "idle")
  /\ MutexOf(t).owner = t
  /\ mutex' = [mutex EXCEPT ![ProcessOf[t]] = [FreeMutex EXCEPT !.dead = TRUE]]
  /\ thread' = [thread EXCEPT ![t] = Idle]
  /\ UNCHANGED <<counter, l_type, flock, now>>

\* A process ends, at any point, and is started again.
Restart(p) ==
  /\ mutex' = [mutex EXCEPT ![p] = FreeMutex]
  /\ counter' = [counter EXCEPT ![p] = 0]
  /\ l_type' = [l_type EXCEPT ![p] = "F_WRLCK"]
  /\ flock' = Dropped(p)
  /\ thread' = [t \in Threads |-> IF ProcessOf[t] = p THEN Idle ELSE thread[t]]
  /\ UNCHANGED now

Tick ==
  /\ now < Boot + MaxTicks
  /\ now' = now + 1
  /\ UNCHANGED <<mutex, counter, l_type, flock, thread>>

\* a step of a call that has begun
Step(t) ==
  \/ LockMutex(t) \/ MutexBusy(t) \/ OwnerDead(t) \/ LockFile(t) \/ Undo(t)
  \/ TimedFile(t) \/ Sleep(t) \/ GiveUp(t)
  \/ Count(t) \/ Counted(t)
  \/ UnlockMutex(t) \/ Uncount(t) \/ Uncounted(t)

Next ==
  \/ \E t \in Threads : Step(t) \/ Unlock(t) \/ ThreadEnds(t)
                        \/ \E c \in Calls : Call(t, c)
  \/ \E p \in Processes : Restart(p)
  \/ Tick

Spec == Init /\ [][Next]_vars

\* Threads are scheduled and time passes.  Nobody has to give a lock back.
FairSpec == Spec /\ WF_vars(Tick) /\ \A t \in Threads : WF_vars(Step(t))

-----------------------------------------------------------------------------
Holding(t) == thread[t].held > 0

\* The threads of one process exclude each other, whatever becomes of the file
\* lock and of threads that end.
ExclusiveInProcess ==
  \A t, u \in Threads :
    Holding(t) /\ Holding(u) /\ ProcessOf[t] = ProcessOf[u] => t = u

\* Whoever holds the mutex, its process has the file: the lock that the other
\* processes see.
HolderHasFile == \A t \in Threads : Holding(t) => flock = ProcessOf[t]

\* A process has the file only while its mutex is taken, or abandoned: unlock,
\* and every error path, gives the file back before the mutex.
FileUnderMutex ==
  \A p \in Processes : flock = p => mutex[p].owner # Nobody \/ mutex[p].dead

Lock == INSTANCE ExclusiveLock WITH
  holder <- IF \E t \in Threads : Holding(t)
            THEN CHOOSE t \in Threads : Holding(t) ELSE Nobody

\* Processes and threads share one lock.
ImplementsLock == Lock!Spec

\* Under FairSpec try_lock returns, whoever has the mutex or the file.
TryReturns ==
  \A t \in Threads :
    ~At(t, "idle") /\ thread[t].call = "try_lock" ~> At(t, "idle")

-----------------------------------------------------------------------------
(* Claims of lock.hpp and lock.cpp.                                         *)

\* lock.hpp:12: exclusive access to a system wide resource.  Of all threads of all
\* processes, one holds the mutex.
Exclusive == \A t, u \in Threads : Holding(t) /\ Holding(u) => t = u

\* lock.hpp:108: lock() blocks if the mutex is not available; it does not fail.
LockWaits == \A t \in Threads : thread[t].call = "lock" => ~thread[t].failed

\* lock.hpp:112-115, 159: under FairSpec a call that is past the pthread mutex
\* returns; it waits neither for the caller itself nor beyond its timeout.
OwnerReturns ==
  \A t \in Threads :
    MutexOf(t).owner = t /\ ~At(t, "idle") ~> At(t, "idle")

\* lock.cpp:319-320: unlock never decrements an m_counter that is 0 already.
CounterAboveZero == \A t \in Threads : At(t, "uncounted") => thread[t].seen # 0
=============================================================================
