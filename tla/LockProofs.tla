----------------------------- MODULE LockProofs -----------------------------
(***************************************************************************)
(* For any processes and threads.  The threads of a process exclude each   *)
(* other with every kind of mutex and call; all threads do when the mutex   *)
(* is not recursive and timed_lock is not used.                             *)
(***************************************************************************)
EXTENDS MultiprocessMutex, TLAPS

USE MutexAssumption

Pcs == {"idle", "mutex", "stuck", "file", "undo", "count", "counted",
        "retry", "unlock", "uncount", "uncounted"}

-----------------------------------------------------------------------------
(* What one step does to the records.                                       *)

LEMMA ThreadChange ==
  ASSUME thread \in [Threads -> Thread], NEW t \in Threads, NEW r \in Thread,
         thread' = [thread EXCEPT ![t] = r]
  PROVE  /\ thread' \in [Threads -> Thread]
         /\ thread'[t] = r
         /\ \A u \in Threads \ {t} : thread'[u] = thread[u]
OBVIOUS

\* the records that Refuse and Accept write
LEMMA IdleRecords ==
  ASSUME NEW n \in Nat
  PROVE  /\ Idle \in Thread /\ Idle.held = 0 /\ Idle.pc = "idle"
         /\ [Idle EXCEPT !.held = n] \in Thread
         /\ [Idle EXCEPT !.held = n].pc = "idle"
         /\ [Idle EXCEPT !.held = n].failed = FALSE
         /\ [Idle EXCEPT !.held = n].call = "lock"
         /\ [Idle EXCEPT !.held = n].held = n
<1>1. Idle \in Thread /\ Idle.held = 0 /\ Idle.pc = "idle"
  BY DEF Thread, Idle
<1>2. Idle.failed = FALSE /\ Idle.call = "lock"
  BY DEF Idle
<1> QED
  BY <1>1, <1>2 DEF Thread

LEMMA Going ==
  ASSUME thread \in [Threads -> Thread], NEW t \in Threads, NEW pc \in Pcs,
         Go(t, pc)
  PROVE  /\ thread' \in [Threads -> Thread]
         /\ thread'[t].pc = pc /\ thread'[t].failed = thread[t].failed
         /\ thread'[t].call = thread[t].call
         /\ thread'[t].held = thread[t].held
         /\ \A u \in Threads \ {t} : thread'[u] = thread[u]
<1> DEFINE r == [thread[t] EXCEPT !.pc = pc]
<1>1. thread[t] \in Thread
  OBVIOUS
<1>2. /\ r \in Thread /\ r.pc = pc /\ r.failed = thread[t].failed
      /\ r.call = thread[t].call /\ r.held = thread[t].held
  BY <1>1 DEF Thread, Pcs
<1>3. thread' = [thread EXCEPT ![t] = r]
  BY DEF Go
<1> HIDE DEF r
<1> QED
  BY <1>2, <1>3, ThreadChange

LEMMA Failing ==
  ASSUME thread \in [Threads -> Thread], NEW t \in Threads, NEW pc \in Pcs,
         Fail(t, pc)
  PROVE  /\ thread' \in [Threads -> Thread]
         /\ thread'[t].pc = pc /\ thread'[t].failed = TRUE
         /\ thread'[t].call = thread[t].call
         /\ thread'[t].held = thread[t].held
         /\ \A u \in Threads \ {t} : thread'[u] = thread[u]
<1> DEFINE r == [thread[t] EXCEPT !.pc = pc, !.failed = TRUE]
<1>1. thread[t] \in Thread
  OBVIOUS
<1>2. /\ r \in Thread /\ r.pc = pc /\ r.failed = TRUE
      /\ r.call = thread[t].call /\ r.held = thread[t].held
  BY <1>1 DEF Thread, Pcs
<1>3. thread' = [thread EXCEPT ![t] = r]
  BY DEF Fail
<1> HIDE DEF r
<1> QED
  BY <1>2, <1>3, ThreadChange

LEMMA Ending ==
  ASSUME thread \in [Threads -> Thread], NEW t \in Threads, NEW n \in Nat,
         thread' = [thread EXCEPT ![t] = [Idle EXCEPT !.held = n]]
  PROVE  /\ thread' \in [Threads -> Thread]
         /\ thread'[t].pc = "idle" /\ thread'[t].failed = FALSE
         /\ thread'[t].call = "lock"
         /\ thread'[t].held = n
         /\ \A u \in Threads \ {t} : thread'[u] = thread[u]
<1> DEFINE r == [Idle EXCEPT !.held = n]
<1>1. /\ r \in Thread /\ r.pc = "idle" /\ r.failed = FALSE
      /\ r.call = "lock" /\ r.held = n
  BY IdleRecords
<1>2. thread' = [thread EXCEPT ![t] = r]
  OBVIOUS
<1> HIDE DEF r
<1> QED
  BY <1>1, <1>2, ThreadChange

LEMMA Refusing ==
  ASSUME thread \in [Threads -> Thread], NEW t \in Threads, Refuse(t)
  PROVE  /\ thread' \in [Threads -> Thread]
         /\ thread'[t].pc = "idle" /\ thread'[t].failed = FALSE
         /\ thread'[t].call = "lock"
         /\ thread'[t].held = thread[t].held
         /\ \A u \in Threads \ {t} : thread'[u] = thread[u]
<1>1. thread[t].held \in Nat
  BY DEF Thread
<1> QED
  BY <1>1, Ending DEF Refuse

LEMMA Accepting ==
  ASSUME thread \in [Threads -> Thread], NEW t \in Threads, Accept(t)
  PROVE  /\ thread' \in [Threads -> Thread]
         /\ thread'[t].pc = "idle" /\ thread'[t].failed = FALSE
         /\ thread'[t].call = "lock"
         /\ thread'[t].held = thread[t].held + 1
         /\ \A u \in Threads \ {t} : thread'[u] = thread[u]
<1>1. thread[t].held + 1 \in Nat
  BY DEF Thread
<1> QED
  BY <1>1, Ending DEF Accept

-----------------------------------------------------------------------------
(* Every call pairs its pthread calls.  Uses(t) counts the times t must own *)
(* the mutex of its process: for the locks it holds, and for its call.      *)
Uses(t) ==
  thread[t].held +
    IF \/ thread[t].pc \in {"retry", "file", "undo", "unlock"}
       \/ thread[t].pc \in {"count", "counted"} /\ ~thread[t].failed
    THEN 1 ELSE 0

OwnerInv(t) ==
  /\ Uses(t) > 0 => MutexOf(t).owner = t /\ MutexOf(t).depth >= Uses(t)
  /\ At(t, "undo") => thread[t].failed

MutexInv ==
  /\ \A t \in Threads : OwnerInv(t)
  /\ \A p \in Processes : mutex[p].dead => mutex[p].owner = Nobody

Inv == TypeOK /\ MutexInv

\* The frame of a step of t: the other threads stay where they are, and none of
\* them has a use for a mutex that changes.
LEMMA OtherThreads ==
  ASSUME Inv, TypeOK', NEW t \in Threads,
         \A u \in Threads \ {t} : thread'[u] = thread[u],
         \/ mutex' = mutex
         \/ /\ \E m \in Mutex : mutex' = [mutex EXCEPT ![ProcessOf[t]] = m]
            /\ MutexOf(t).owner \in {t, Nobody},
         OwnerInv(t)',
         MutexOf(t)'.dead => MutexOf(t)'.owner = Nobody
  PROVE  Inv'
<1>1. ASSUME NEW u \in Threads, u # t PROVE OwnerInv(u)'
  <2>1. thread'[u] = thread[u]
    BY <1>1
  <2>2. Uses(u)' = Uses(u) /\ At(u, "undo")' = At(u, "undo")
    BY <2>1 DEF Uses, At
  <2>3. CASE mutex'[ProcessOf[u]] = mutex[ProcessOf[u]]
    BY <2>1, <2>2, <2>3 DEF Inv, MutexInv, OwnerInv, MutexOf
  <2>4. CASE mutex'[ProcessOf[u]] # mutex[ProcessOf[u]]
    <3>1. ProcessOf[u] = ProcessOf[t] /\ MutexOf(t).owner \in {t, Nobody}
      BY <2>4 DEF Inv, TypeOK
    <3>2. ~(Uses(u) > 0)
      BY <1>1, <3>1 DEF Inv, MutexInv, OwnerInv, MutexOf
    <3> QED
      BY <2>1, <2>2, <3>2 DEF Inv, MutexInv, OwnerInv
  <2> QED
    BY <2>3, <2>4
<1>2. ASSUME NEW p \in Processes PROVE mutex'[p].dead => mutex'[p].owner = Nobody
  BY DEF Inv, TypeOK, MutexInv, MutexOf
<1> QED
  BY <1>1, <1>2 DEF Inv, MutexInv

\* t takes its free or own mutex n times
LEMMA Granting ==
  ASSUME TypeOK, NEW t \in Threads, NEW n \in Nat, Granted(t, n),
         MutexOf(t).owner \in {t, Nobody}
  PROVE  /\ mutex' \in [Processes -> Mutex]
         /\ MutexOf(t)'.owner = t /\ ~MutexOf(t)'.dead
         /\ MutexOf(t)'.depth = MutexOf(t).depth + n
         /\ \E m \in Mutex : mutex' = [mutex EXCEPT ![ProcessOf[t]] = m]
<1> DEFINE m == [owner |-> t, depth |-> MutexOf(t).depth + n, dead |-> FALSE]
<1>1. MutexOf(t) \in Mutex /\ ProcessOf[t] \in Processes
  BY DEF TypeOK, MutexOf
<1>2. MutexOf(t).depth + n \in Nat
  BY <1>1 DEF Mutex
<1>3. m \in Mutex
  BY <1>2 DEF Mutex
<1>4. mutex' = [mutex EXCEPT ![ProcessOf[t]] = m]
  BY DEF Granted
<1>5. m.owner = t /\ ~m.dead /\ m.depth = MutexOf(t).depth + n
  OBVIOUS
<1> HIDE DEF m
<1> QED
  BY <1>1, <1>3, <1>4, <1>5 DEF TypeOK, MutexOf

\* t gives its mutex back once
LEMMA Unlocking ==
  ASSUME TypeOK, NEW t \in Threads, MutexOf(t).owner = t, MutexOf(t).depth >= 1,
         ~MutexOf(t).dead,
         mutex' = [mutex EXCEPT ![ProcessOf[t]] = Unlocked(@)]
  PROVE  /\ mutex' \in [Processes -> Mutex]
         /\ ~MutexOf(t)'.dead
         /\ MutexOf(t).depth > 1 =>
              MutexOf(t)'.owner = t /\ MutexOf(t)'.depth = MutexOf(t).depth - 1
         /\ \E m \in Mutex : mutex' = [mutex EXCEPT ![ProcessOf[t]] = m]
<1> DEFINE m == Unlocked(MutexOf(t))
<1>1. MutexOf(t) \in Mutex /\ ProcessOf[t] \in Processes
  BY DEF TypeOK, MutexOf
<1>2. MutexOf(t).depth \in Nat /\ MutexOf(t).depth - 1 \in Nat
  BY <1>1 DEF Mutex
<1>3. m \in Mutex /\ ~m.dead
  BY <1>1, <1>2 DEF Unlocked, FreeMutex, Mutex
<1>4. MutexOf(t).depth > 1 => m.owner = t /\ m.depth = MutexOf(t).depth - 1
  BY <1>1, <1>2 DEF Unlocked, Mutex
<1>5. mutex' = [mutex EXCEPT ![ProcessOf[t]] = m]
  BY DEF MutexOf
<1> HIDE DEF m
<1>6. mutex' \in [Processes -> Mutex] /\ MutexOf(t)' = m
  BY <1>1, <1>3, <1>5 DEF TypeOK, MutexOf
<1> QED
  BY <1>3, <1>4, <1>5, <1>6

\* the mutex of a thread with a use for it
LEMMA Owning ==
  ASSUME Inv, NEW t \in Threads, Uses(t) > 0
  PROVE  /\ MutexOf(t).owner = t /\ ~MutexOf(t).dead
         /\ MutexOf(t).depth >= Uses(t)
<1>1. MutexOf(t).owner = t /\ MutexOf(t).depth >= Uses(t)
  BY DEF Inv, MutexInv, OwnerInv
<1> QED
  BY <1>1 DEF Inv, TypeOK, MutexInv, MutexOf

LEMMA ThreadType ==
  ASSUME TypeOK, NEW t \in Threads
  PROVE  /\ thread \in [Threads -> Thread] /\ thread[t] \in Thread
         /\ thread[t].held \in Nat /\ thread[t].seen \in Nat
         /\ thread[t].failed \in BOOLEAN
         /\ thread[t].pc \in Pcs
         /\ thread[t].call \in {"lock", "try_lock", "timed_lock"}
         /\ MutexOf(t) \in Mutex /\ MutexOf(t).depth \in Nat
         /\ ProcessOf[t] \in Processes
         /\ CounterOf(t) \in Nat
         /\ Uses(t) \in Nat
<1>1. thread \in [Threads -> Thread] /\ thread[t] \in Thread
  BY DEF TypeOK
<1>2. /\ thread[t].held \in Nat /\ thread[t].seen \in Nat
      /\ thread[t].failed \in BOOLEAN
      /\ thread[t].pc \in Pcs
      /\ thread[t].call \in {"lock", "try_lock", "timed_lock"}
  BY <1>1 DEF Thread, Pcs
<1>3. ProcessOf[t] \in Processes /\ MutexOf(t) \in Mutex
  BY DEF TypeOK, MutexOf
<1>4. MutexOf(t).depth \in Nat
  BY <1>3 DEF Mutex
<1>5. CounterOf(t) \in Nat
  BY <1>3 DEF TypeOK, CounterOf
<1> QED
  BY <1>1, <1>2, <1>3, <1>4, <1>5 DEF Uses

-----------------------------------------------------------------------------
(* One lemma per action.                                                    *)

LEMMA InitInv == ASSUME Init PROVE Inv
<1>1. Idle \in Thread /\ Idle.held = 0 /\ Idle.pc = "idle"
  BY IdleRecords
<1>2. FreeMutex \in Mutex /\ FreeMutex.owner = Nobody
  BY DEF FreeMutex, Mutex
<1>3. TypeOK
  <2>1. /\ 0 \in 0..(CounterRange - 1)
        /\ Boot \in Nat
    OBVIOUS
  <2> QED
    BY <1>1, <1>2, <2>1 DEF Init, TypeOK
<1>4. ASSUME NEW t \in Threads PROVE OwnerInv(t)
  BY <1>1 DEF Init, OwnerInv, Uses, At
<1>5. ASSUME NEW p \in Processes PROVE mutex[p].owner = Nobody
  BY <1>2 DEF Init
<1> QED
  BY <1>3, <1>4, <1>5 DEF Inv, MutexInv

LEMMA SameMutex ==
  ASSUME Inv, NEW t \in Threads, mutex' = mutex,
         counter' \in [Processes -> 0..(CounterRange - 1)],
         l_type' \in [Processes -> {"F_WRLCK", "F_UNLCK"}],
         flock' \in Processes \union {Nobody}, now' = now,
         thread' \in [Threads -> Thread],
         \A u \in Threads \ {t} : thread'[u] = thread[u],
         Uses(t)' <= Uses(t),
         At(t, "undo")' => thread[t].failed'
  PROVE  Inv'
<1>1. TypeOK /\ TypeOK'
  BY DEF Inv, TypeOK
<1>2. Uses(t) \in Nat /\ MutexOf(t).depth \in Nat
  BY <1>1, ThreadType
<1>3. thread'[t] \in Thread
  BY <1>1 DEF TypeOK
<1>4. thread'[t].held \in Nat
  BY <1>3 DEF Thread
<1>5. Uses(t)' \in Nat
  BY <1>4 DEF Uses
<1>6. MutexOf(t)' = MutexOf(t)
  BY DEF MutexOf
<1>7. OwnerInv(t)'
  BY <1>2, <1>5, <1>6 DEF Inv, MutexInv, OwnerInv
<1>8. MutexOf(t)'.dead => MutexOf(t)'.owner = Nobody
  BY <1>1, <1>6, ThreadType DEF Inv, MutexInv, MutexOf
<1> QED
  BY <1>1, <1>7, <1>8, OtherThreads

LEMMA CallInv ==
  ASSUME Inv, NEW t \in Threads, NEW c \in Calls, Call(t, c)
  PROVE  Inv'
<1>1. TypeOK
  BY DEF Inv
<1>2. PICK s \in Nat :
        thread' = [thread EXCEPT ![t].pc = "mutex", ![t].call = c, ![t].until = s]
  <2>1. 0..now \subseteq Nat /\ {0} \subseteq Nat
    BY <1>1 DEF TypeOK
  <2>2. (IF c = "timed_lock" THEN 0..now ELSE {0}) \subseteq Nat
    BY <2>1
  <2> QED
    BY <2>2 DEF Call
<1> DEFINE r == [thread[t] EXCEPT !.pc = "mutex", !.call = c, !.until = s]
<1>3. r \in Thread /\ r.pc = "mutex" /\ r.held = thread[t].held
  BY <1>1, <1>2, ThreadType DEF Thread
<1>4. thread' = [thread EXCEPT ![t] = r]
  BY <1>2
<1> HIDE DEF r
<1>5. /\ thread' \in [Threads -> Thread]
      /\ thread'[t] = r
      /\ \A u \in Threads \ {t} : thread'[u] = thread[u]
  BY <1>1, <1>3, <1>4, ThreadChange DEF TypeOK
<1>6. Uses(t)' <= Uses(t) /\ ~At(t, "undo")'
  BY <1>1, <1>3, <1>5, ThreadType DEF Uses, At, Call
<1> QED
  BY <1>1, <1>5, <1>6, SameMutex DEF Call, TypeOK

LEMMA LockMutexInv ==
  ASSUME Inv, NEW t \in Threads, LockMutex(t)
  PROVE  Inv'
<1> DEFINE pc == IF thread[t].call = "timed_lock" THEN "retry" ELSE "file"
<1>1. TypeOK /\ MutexOf(t).owner \in {t, Nobody} /\ thread[t].pc = "mutex"
  BY DEF Inv, LockMutex, At
<1>2. /\ thread' \in [Threads -> Thread]
      /\ thread'[t].pc = pc /\ thread'[t].held = thread[t].held
      /\ \A u \in Threads \ {t} : thread'[u] = thread[u]
  BY <1>1, Going, ThreadType DEF LockMutex, Pcs
<1>3. /\ thread'[t].held = thread[t].held
      /\ thread'[t].pc \in {"retry", "file"}
  BY <1>1, <1>2, ThreadType DEF Thread
<1>4. /\ mutex' \in [Processes -> Mutex]
      /\ MutexOf(t)'.owner = t /\ ~MutexOf(t)'.dead
      /\ MutexOf(t)'.depth = MutexOf(t).depth + 1
      /\ \E m \in Mutex : mutex' = [mutex EXCEPT ![ProcessOf[t]] = m]
  BY <1>1, Granting DEF LockMutex
<1>5. TypeOK'
  BY <1>2, <1>4 DEF LockMutex, Inv, TypeOK
<1>6. MutexOf(t).depth >= thread[t].held
  BY <1>1, ThreadType DEF Inv, MutexInv, OwnerInv, Uses
<1>7. OwnerInv(t)'
  <2>1. Uses(t)' = thread[t].held + 1
    BY <1>3 DEF Uses
  <2>2. MutexOf(t)'.depth >= Uses(t)'
    BY <1>1, <1>4, <1>6, <2>1, ThreadType
  <2> QED
    BY <1>3, <1>4, <2>2 DEF OwnerInv, At
<1> QED
  BY <1>1, <1>2, <1>4, <1>5, <1>7, OtherThreads

LEMMA MutexBusyInv ==
  ASSUME Inv, NEW t \in Threads, MutexBusy(t)
  PROVE  Inv'
<1>1. TypeOK /\ UNCHANGED <<mutex, counter, l_type, flock, now>>
  BY DEF Inv, MutexBusy
<1>2. /\ thread' \in [Threads -> Thread]
      /\ thread'[t].pc = "idle" /\ thread'[t].held = thread[t].held
      /\ \A u \in Threads \ {t} : thread'[u] = thread[u]
  BY <1>1, Refusing, ThreadType DEF MutexBusy
<1>3. Uses(t)' <= Uses(t) /\ ~At(t, "undo")'
  BY <1>1, <1>2, ThreadType DEF Uses, At
<1> QED
  BY <1>1, <1>2, <1>3, SameMutex DEF TypeOK

LEMMA OwnerDeadInv ==
  ASSUME Inv, NEW t \in Threads, OwnerDead(t)
  PROVE  Inv'
<1> DEFINE twice == Recursive /\ thread[t].call # "timed_lock"
           n == IF twice THEN 2 ELSE 1
<1>1. TypeOK /\ MutexOf(t).owner = Nobody /\ thread[t].pc = "mutex"
  BY ThreadType DEF Inv, OwnerDead, At, MutexInv, MutexOf
<1>2. /\ Granted(t, n)
      /\ (Go(t, "file") /\ twice) \/ Refuse(t) \/ Go(t, "stuck")
  BY DEF OwnerDead
<1>3. thread[t].held = 0
  BY <1>1, ThreadType DEF Inv, MutexInv, OwnerInv, Uses
<1>4. /\ mutex' \in [Processes -> Mutex]
      /\ MutexOf(t)'.owner = t /\ ~MutexOf(t)'.dead
      /\ MutexOf(t)'.depth = MutexOf(t).depth + n
      /\ \E m \in Mutex : mutex' = [mutex EXCEPT ![ProcessOf[t]] = m]
  <2>1. n \in Nat
    OBVIOUS
  <2> QED
    BY <1>1, <1>2, <2>1, Granting
<1>5. /\ thread' \in [Threads -> Thread]
      /\ thread'[t].held = 0
      /\ thread'[t].pc = "file" \/ thread'[t].pc \in {"idle", "stuck"}
      /\ \A u \in Threads \ {t} : thread'[u] = thread[u]
  <2>1. CASE Go(t, "file")
    BY <1>1, <1>3, <2>1, Going, ThreadType DEF Pcs
  <2>2. CASE Refuse(t)
    BY <1>1, <1>3, <2>2, Refusing, ThreadType
  <2>3. CASE Go(t, "stuck")
    BY <1>1, <1>3, <2>3, Going, ThreadType DEF Pcs
  <2> QED
    BY <1>2, <2>1, <2>2, <2>3
<1>6. TypeOK'
  BY <1>4, <1>5 DEF OwnerDead, Inv, TypeOK
<1>7. OwnerInv(t)'
  <2>1. Uses(t)' <= 1 /\ Uses(t)' \in Nat
    BY <1>5 DEF Uses
  <2>2. MutexOf(t)'.depth >= 1
    BY <1>1, <1>4, ThreadType
  <2> QED
    BY <1>4, <1>5, <1>6, <2>1, <2>2, ThreadType DEF OwnerInv, At, TypeOK, MutexOf, Mutex
<1> QED
  BY <1>1, <1>4, <1>5, <1>6, <1>7, OtherThreads

LEMMA LockFileInv ==
  ASSUME Inv, NEW t \in Threads, LockFile(t)
  PROVE  Inv'
<1>1. TypeOK /\ thread[t].pc = "file" /\ mutex' = mutex /\ counter' = counter /\ now' = now
  BY DEF Inv, LockFile, At
<1>2. /\ l_type' \in [Processes -> {"F_WRLCK", "F_UNLCK"}]
      /\ flock' \in Processes \union {Nobody}
  BY <1>1, ThreadType DEF LockFile, TypeOK
<1>3. /\ thread' \in [Threads -> Thread]
      /\ \A u \in Threads \ {t} : thread'[u] = thread[u]
      /\ thread'[t].held = thread[t].held
      /\ thread'[t].pc = "count" \/ thread'[t].failed
  <2>1. CASE Go(t, "count")
    BY <1>1, <2>1, Going, ThreadType DEF Pcs
  <2>2. CASE Fail(t, "undo")
    BY <1>1, <2>2, Failing, ThreadType DEF Pcs
  <2> QED
    BY <2>1, <2>2 DEF LockFile
<1>4. Uses(t)' <= Uses(t)
  BY <1>1, <1>3, ThreadType DEF Uses
<1> QED
  BY <1>1, <1>2, <1>3, <1>4, SameMutex DEF At, TypeOK

\* a thread in "undo" or "unlock" gives back one of its uses
LEMMA GivingBack ==
  ASSUME Inv, NEW t \in Threads, Uses(t) > 0,
         mutex' = [mutex EXCEPT ![ProcessOf[t]] = Unlocked(@)],
         UNCHANGED <<counter, l_type, flock, now>>,
         thread' \in [Threads -> Thread],
         \A u \in Threads \ {t} : thread'[u] = thread[u],
         Uses(t)' = Uses(t) - 1,
         ~At(t, "undo")'
  PROVE  Inv'
<1>1. TypeOK
  BY DEF Inv
<1>2. /\ MutexOf(t).owner = t /\ ~MutexOf(t).dead
      /\ MutexOf(t).depth >= Uses(t)
      /\ Uses(t) \in Nat /\ MutexOf(t).depth \in Nat
  BY <1>1, Owning, ThreadType
<1>6. MutexOf(t).depth >= 1
  BY <1>2
<1>3. /\ mutex' \in [Processes -> Mutex]
      /\ ~MutexOf(t)'.dead
      /\ MutexOf(t).depth > 1 =>
           MutexOf(t)'.owner = t /\ MutexOf(t)'.depth = MutexOf(t).depth - 1
      /\ \E m \in Mutex : mutex' = [mutex EXCEPT ![ProcessOf[t]] = m]
  BY <1>1, <1>2, <1>6, Unlocking
<1>4. TypeOK'
  BY <1>1, <1>3 DEF TypeOK
<1>5. OwnerInv(t)'
  <2>1. Uses(t)' > 0 => MutexOf(t).depth > 1
    BY <1>2
  <2>2. Uses(t)' > 0 => MutexOf(t)'.owner = t /\ MutexOf(t)'.depth >= Uses(t)'
    BY <1>2, <1>3, <2>1
  <2> QED
    BY <2>2 DEF OwnerInv
<1> QED
  BY <1>2, <1>3, <1>4, <1>5, OtherThreads

LEMMA UndoInv ==
  ASSUME Inv, NEW t \in Threads, Undo(t)
  PROVE  Inv'
<1>1. TypeOK /\ thread[t].pc = "undo" /\ thread[t].failed
  BY DEF Inv, Undo, At, MutexInv, OwnerInv
<1>2. /\ thread' \in [Threads -> Thread]
      /\ \A u \in Threads \ {t} : thread'[u] = thread[u]
      /\ thread'[t].held = thread[t].held
      /\ thread'[t].pc = "idle" \/ (thread'[t].pc = "count" /\ thread'[t].failed)
  <2>1. CASE Refuse(t)
    BY <1>1, <2>1, Refusing, ThreadType
  <2>2. CASE Go(t, "count")
    BY <1>1, <2>2, Going, ThreadType DEF Pcs
  <2> QED
    BY <2>1, <2>2 DEF Undo
<1>3. Uses(t) > 0 /\ Uses(t)' = Uses(t) - 1 /\ ~At(t, "undo")'
  BY <1>1, <1>2, ThreadType DEF Uses, At
<1> QED
  BY <1>2, <1>3, GivingBack DEF Undo

LEMMA UnlockMutexInv ==
  ASSUME Inv, NEW t \in Threads, UnlockMutex(t)
  PROVE  Inv'
<1> DEFINE pc == IF Recursive THEN "uncount" ELSE "idle"
<1>1. TypeOK /\ thread[t].pc = "unlock"
  BY DEF Inv, UnlockMutex, At
<1>2. /\ thread' \in [Threads -> Thread]
      /\ \A u \in Threads \ {t} : thread'[u] = thread[u]
      /\ thread'[t].pc = pc /\ thread'[t].held = thread[t].held
  BY <1>1, Going, ThreadType DEF Pcs, UnlockMutex
<1>3. thread'[t].held = thread[t].held /\ thread'[t].pc \in {"uncount", "idle"}
  BY <1>1, <1>2, ThreadType DEF Thread
<1>4. Uses(t) > 0 /\ Uses(t)' = Uses(t) - 1 /\ ~At(t, "undo")'
  BY <1>1, <1>3, ThreadType DEF Uses, At
<1> QED
  BY <1>2, <1>4, GivingBack DEF UnlockMutex

LEMMA TimedInv ==
  ASSUME Inv, NEW t \in Threads, TimedFile(t) \/ Sleep(t) \/ GiveUp(t)
  PROVE  Inv'
<1>1. TypeOK /\ thread[t].pc = "retry" /\ UNCHANGED <<mutex, counter, l_type, now>>
  BY DEF Inv, TimedFile, Sleep, GiveUp, At
<1>2. flock' \in Processes \union {Nobody}
  BY <1>1, ThreadType DEF TimedFile, Sleep, GiveUp, Dropped, TypeOK
<1>3. /\ thread' \in [Threads -> Thread]
      /\ \A u \in Threads \ {t} : thread'[u] = thread[u]
      /\ thread'[t].held = thread[t].held
      /\ thread'[t].pc \in {"retry", "count"} \/ thread'[t].failed
  <2>1. CASE TimedFile(t)
    <3>1. CASE Go(t, "count")
      BY <1>1, <3>1, Going, ThreadType DEF Pcs
    <3>2. CASE Go(t, "undo") /\ thread[t].failed
      BY <1>1, <3>2, Going, ThreadType DEF Pcs
    <3> QED
      BY <2>1, <3>1, <3>2, <1>1, ThreadType DEF TimedFile
  <2>2. CASE Sleep(t)
    <3>1. PICK e \in {thread[t].failed, TRUE} :
            thread' = [thread EXCEPT ![t].failed = e]
      BY <2>2 DEF Sleep
    <3> DEFINE r == [thread[t] EXCEPT !.failed = e]
    <3>2. r \in Thread /\ r.held = thread[t].held /\ r.pc = "retry"
      BY <1>1, ThreadType DEF Thread
    <3>3. thread' = [thread EXCEPT ![t] = r]
      BY <3>1
    <3> HIDE DEF r
    <3> QED
      BY <1>1, <3>2, <3>3, ThreadChange, ThreadType
  <2>3. CASE GiveUp(t)
    BY <1>1, <2>3, Failing, ThreadType DEF GiveUp, Pcs
  <2> QED
    BY <2>1, <2>2, <2>3
<1>4. Uses(t)' <= Uses(t)
  BY <1>1, <1>3, ThreadType DEF Uses
<1> QED
  BY <1>1, <1>2, <1>3, <1>4, SameMutex DEF At, TypeOK

\* a call that returns
LEMMA Counting ==
  ASSUME TypeOK, NEW t \in Threads, Return(t),
         thread[t].pc \in {"count", "counted"}
  PROVE  /\ thread' \in [Threads -> Thread]
         /\ \A u \in Threads \ {t} : thread'[u] = thread[u]
         /\ thread'[t].pc = "idle"
         /\ Uses(t)' = Uses(t)
<1>1. CASE Refuse(t) /\ thread[t].failed
  BY <1>1, Refusing, ThreadType DEF Uses
<1>2. CASE Accept(t) /\ ~thread[t].failed
  <2>1. /\ thread' \in [Threads -> Thread]
        /\ thread'[t].pc = "idle" /\ thread'[t].held = thread[t].held + 1
        /\ \A u \in Threads \ {t} : thread'[u] = thread[u]
    BY <1>2, Accepting, ThreadType
  <2>2. Uses(t) = thread[t].held + 1
    BY <1>2 DEF Uses
  <2>3. Uses(t)' = thread[t].held + 1
    BY <2>1, ThreadType DEF Uses
  <2> QED
    BY <2>1, <2>2, <2>3
<1> QED
  BY <1>1, <1>2 DEF Return

\* m_counter as loaded
LEMMA Loading ==
  ASSUME TypeOK, NEW t \in Threads, NEW pc \in Pcs,
         thread' = [thread EXCEPT ![t].pc = pc, ![t].seen = CounterOf(t)]
  PROVE  /\ thread' \in [Threads -> Thread]
         /\ \A u \in Threads \ {t} : thread'[u] = thread[u]
         /\ thread'[t].pc = pc /\ thread'[t].failed = thread[t].failed
         /\ thread'[t].call = thread[t].call
         /\ thread'[t].held = thread[t].held
<1> DEFINE r == [thread[t] EXCEPT !.pc = pc, !.seen = CounterOf(t)]
<1>1. /\ r \in Thread /\ r.pc = pc /\ r.failed = thread[t].failed
      /\ r.call = thread[t].call /\ r.held = thread[t].held
  BY ThreadType DEF Thread, Pcs
<1>2. thread' = [thread EXCEPT ![t] = r]
  OBVIOUS
<1> HIDE DEF r
<1> QED
  BY <1>1, <1>2, ThreadChange, ThreadType

LEMMA CounterType ==
  ASSUME TypeOK, NEW p \in Processes, NEW n \in Nat,
         counter' = [counter EXCEPT ![p] = n % CounterRange]
  PROVE  counter' \in [Processes -> 0..(CounterRange - 1)]
<1>1. n % CounterRange \in 0..(CounterRange - 1)
  OBVIOUS
<1> QED
  BY <1>1 DEF TypeOK

LEMMA CountInv ==
  ASSUME Inv, NEW t \in Threads, Count(t) \/ Counted(t)
  PROVE  Inv'
<1>1. TypeOK /\ UNCHANGED <<mutex, l_type, flock, now>>
  BY DEF Inv, Count, Counted
<1>2. counter' \in [Processes -> 0..(CounterRange - 1)]
  <2>1. CASE counter' = counter
    BY <1>1, <2>1 DEF TypeOK
  <2>2. CASE Counted(t)
    <3>1. (thread[t].seen + 1) \in Nat
      BY <1>1, ThreadType
    <3> QED
      BY <1>1, <2>2, <3>1, CounterType, ThreadType DEF Counted
  <2> QED
    BY <2>1, <2>2 DEF Count
<1>3. /\ thread' \in [Threads -> Thread]
      /\ \A u \in Threads \ {t} : thread'[u] = thread[u]
      /\ thread'[t].pc # "undo"
      /\ Uses(t)' = Uses(t)
  <2>1. CASE Return(t) /\ thread[t].pc \in {"count", "counted"}
    BY <1>1, <2>1, Counting
  <2>2. CASE /\ thread[t].pc = "count"
             /\ thread' = [thread EXCEPT ![t].pc = "counted", ![t].seen = CounterOf(t)]
    BY <1>1, <2>2, Loading DEF Uses, Pcs
  <2> QED
    BY <2>1, <2>2 DEF Count, Counted, At
<1>4. Uses(t)' <= Uses(t)
  BY <1>1, <1>3, ThreadType
<1> QED
  BY <1>1, <1>2, <1>3, <1>4, SameMutex DEF At, TypeOK

LEMMA UncountInv ==
  ASSUME Inv, NEW t \in Threads, Uncount(t) \/ Uncounted(t)
  PROVE  Inv'
<1>1. TypeOK /\ UNCHANGED <<mutex, l_type, flock, now>>
  BY DEF Inv, Uncount, Uncounted
<1>2. counter' \in [Processes -> 0..(CounterRange - 1)]
  <2>1. CASE counter' = counter
    BY <1>1, <2>1 DEF TypeOK
  <2>2. CASE Uncounted(t)
    <3>1. (thread[t].seen + CounterRange - 1) \in Nat
      BY <1>1, ThreadType
    <3> QED
      BY <1>1, <2>2, <3>1, CounterType, ThreadType DEF Uncounted
  <2> QED
    BY <2>1, <2>2 DEF Uncount
<1>3. /\ thread' \in [Threads -> Thread]
      /\ \A u \in Threads \ {t} : thread'[u] = thread[u]
      /\ thread'[t].pc \in {"uncounted", "idle"}
      /\ thread'[t].held = thread[t].held
  <2>1. CASE Refuse(t)
    BY <1>1, <2>1, Refusing, ThreadType
  <2>2. CASE thread' = [thread EXCEPT ![t].pc = "uncounted", ![t].seen = CounterOf(t)]
    BY <1>1, <2>2, Loading DEF Pcs
  <2> QED
    BY <2>1, <2>2 DEF Uncount, Uncounted
<1>4. Uses(t)' <= Uses(t)
  BY <1>1, <1>3, ThreadType DEF Uses
<1> QED
  BY <1>1, <1>2, <1>3, <1>4, SameMutex DEF At, TypeOK

LEMMA Releasing ==
  ASSUME TypeOK, NEW t \in Threads, Unlock(t)
  PROVE  /\ thread' \in [Threads -> Thread]
         /\ \A u \in Threads \ {t} : thread'[u] = thread[u]
         /\ thread'[t].pc = "unlock" /\ thread'[t].held = thread[t].held - 1
         /\ thread'[t].call = thread[t].call
         /\ thread'[t].failed = thread[t].failed
<1> DEFINE r == [thread[t] EXCEPT !.pc = "unlock", !.held = @ - 1]
<1>1. thread[t].held - 1 \in Nat
  BY ThreadType DEF Unlock
<1>2. /\ r \in Thread /\ r.pc = "unlock" /\ r.held = thread[t].held - 1
      /\ r.call = thread[t].call /\ r.failed = thread[t].failed
  BY <1>1, ThreadType DEF Thread
<1>3. thread' = [thread EXCEPT ![t] = r]
  BY DEF Unlock
<1> HIDE DEF r
<1> QED
  BY <1>2, <1>3, ThreadChange, ThreadType

LEMMA UnlockInv ==
  ASSUME Inv, NEW t \in Threads, Unlock(t)
  PROVE  Inv'
<1>1. TypeOK /\ UNCHANGED <<mutex, counter, now>> /\ thread[t].pc = "idle"
  BY DEF Inv, Unlock, At
<1>2. /\ l_type' \in [Processes -> {"F_WRLCK", "F_UNLCK"}]
      /\ flock' \in Processes \union {Nobody}
  BY <1>1, ThreadType DEF Unlock, Dropped, TypeOK
<1>3. Uses(t)' <= Uses(t) /\ ~At(t, "undo")'
  BY <1>1, Releasing, ThreadType DEF Uses, At
<1> QED
  BY <1>1, <1>2, <1>3, Releasing, SameMutex DEF TypeOK

LEMMA ThreadEndsInv ==
  ASSUME Inv, NEW t \in Threads, ThreadEnds(t)
  PROVE  Inv'
<1> DEFINE m == [FreeMutex EXCEPT !.dead = TRUE]
<1>1. TypeOK /\ MutexOf(t).owner = t /\ UNCHANGED <<counter, l_type, flock, now>>
  BY DEF Inv, ThreadEnds
<1>2. m \in Mutex /\ m.owner = Nobody
  BY DEF FreeMutex, Mutex
<1>3. mutex' = [mutex EXCEPT ![ProcessOf[t]] = m]
  BY DEF ThreadEnds
<1> HIDE DEF m
<1>4. mutex' \in [Processes -> Mutex] /\ MutexOf(t)' = m
  BY <1>1, <1>2, <1>3, ThreadType DEF TypeOK, MutexOf
<1>5. /\ thread' \in [Threads -> Thread]
      /\ thread'[t].pc = "idle" /\ thread'[t].held = 0
      /\ \A u \in Threads \ {t} : thread'[u] = thread[u]
  <2>1. Idle \in Thread /\ Idle.held = 0 /\ Idle.pc = "idle"
    BY IdleRecords
  <2> QED
    BY <1>1, <2>1, ThreadChange, ThreadType DEF ThreadEnds
<1>6. TypeOK'
  BY <1>1, <1>4, <1>5 DEF TypeOK
<1>7. OwnerInv(t)'
  BY <1>5 DEF OwnerInv, Uses, At
<1> QED
  BY <1>1, <1>2, <1>3, <1>4, <1>5, <1>6, <1>7, OtherThreads

LEMMA RestartInv ==
  ASSUME Inv, NEW p \in Processes, Restart(p)
  PROVE  Inv'
<1>1. TypeOK
  BY DEF Inv
<1>2. Idle \in Thread /\ Idle.held = 0 /\ Idle.pc = "idle"
  BY IdleRecords
<1>3. FreeMutex \in Mutex /\ FreeMutex.owner = Nobody
  BY DEF FreeMutex, Mutex
<1>4. /\ mutex' \in [Processes -> Mutex]
      /\ mutex'[p] = FreeMutex
      /\ \A q \in Processes \ {p} : mutex'[q] = mutex[q]
  BY <1>1, <1>3 DEF Restart, TypeOK
<1>5. /\ thread' \in [Threads -> Thread]
      /\ \A t \in Threads :
           thread'[t] = IF ProcessOf[t] = p THEN Idle ELSE thread[t]
  BY <1>1, <1>2, ThreadType DEF Restart
<1>6. TypeOK'
  <2>1. 0 \in 0..(CounterRange - 1)
    OBVIOUS
  <2>2. counter' \in [Processes -> 0..(CounterRange - 1)]
    BY <1>1, <2>1 DEF Restart, TypeOK
  <2>3. /\ l_type' \in [Processes -> {"F_WRLCK", "F_UNLCK"}]
        /\ flock' \in Processes \union {Nobody} /\ now' \in Nat
    BY <1>1 DEF Restart, TypeOK, Dropped
  <2> QED
    BY <1>4, <1>5, <2>2, <2>3 DEF TypeOK
<1>7. ASSUME NEW t \in Threads PROVE OwnerInv(t)'
  <2>1. CASE ProcessOf[t] = p
    BY <1>2, <1>5, <2>1 DEF OwnerInv, Uses, At
  <2>2. CASE ProcessOf[t] # p
    <3>1. thread'[t] = thread[t] /\ MutexOf(t)' = MutexOf(t)
      BY <1>1, <1>4, <1>5, <2>2, ThreadType DEF MutexOf
    <3> QED
      BY <3>1 DEF Inv, MutexInv, OwnerInv, Uses, At
  <2> QED
    BY <2>1, <2>2
<1> QED
  BY <1>3, <1>4, <1>6, <1>7 DEF Inv, MutexInv

LEMMA NextInv == ASSUME Inv, [Next]_vars PROVE Inv'
<1>1. CASE UNCHANGED vars
  BY <1>1 DEF vars, Inv, TypeOK, MutexInv, OwnerInv, Uses, At, MutexOf
<1>2. CASE Tick
  <2>1. now' \in Nat
    BY <1>2 DEF Tick, Inv, TypeOK
  <2> QED
    BY <1>2, <2>1 DEF Tick, Inv, TypeOK, MutexInv, OwnerInv, Uses, At, MutexOf
<1>3. ASSUME NEW t \in Threads, Step(t) PROVE Inv'
  BY <1>3, LockMutexInv, MutexBusyInv, OwnerDeadInv, LockFileInv, UndoInv, TimedInv,
     CountInv, UncountInv, UnlockMutexInv DEF Step
<1> QED
  BY <1>1, <1>2, <1>3, CallInv, UnlockInv, ThreadEndsInv, RestartInv DEF Next

LEMMA SpecInv == Spec => []Inv
BY InitInv, NextInv, PTL DEF Spec

-----------------------------------------------------------------------------
\* Every variable keeps its type.
THEOREM LockTypes == Spec => []TypeOK
<1>1. Inv => TypeOK
  BY DEF Inv
<1> QED
  BY <1>1, SpecInv, PTL

\* The pthread mutex does its part with every kind of mutex and call: through
\* owner deaths, nested locks, refused files and timeouts, no two threads of a
\* process hold the lock.
THEOREM ThreadsExclude == Spec => []ExclusiveInProcess
<1>1. ASSUME Inv PROVE ExclusiveInProcess
  <2>1. ASSUME NEW t \in Threads, Holding(t) PROVE MutexOf(t).owner = t
    <3>1. Uses(t) > 0
      BY <2>1, <1>1, ThreadType DEF Inv, Holding, Uses
    <3> QED
      BY <1>1, <3>1, Owning
  <2> QED
    BY <2>1 DEF ExclusiveInProcess, MutexOf
<1> QED
  BY <1>1, SpecInv, PTL

-----------------------------------------------------------------------------
(* The file lock, of a mutex that is not recursive and without timed_lock.  *)
(* A recursive mutex does not give the file back, and timed_lock does not    *)
(* always lock it: Exclusive fails for them.                                *)
Plain == ~Recursive /\ Calls \subseteq {"lock", "try_lock"}

\* t holds the lock or is about to return with it
Claims(t) == Holding(t) \/ (At(t, "count") /\ ~thread[t].failed)

PlainThread(t) ==
  /\ thread[t].pc \in {"idle", "mutex", "stuck", "file", "undo", "count", "unlock"}
  /\ thread[t].call \in {"lock", "try_lock"}
  /\ thread[t].held <= 1 /\ (~At(t, "idle") => thread[t].held = 0)
  /\ Claims(t) => flock = ProcessOf[t]

FileInv ==
  /\ \A p \in Processes : counter[p] = 0
  /\ \A t \in Threads : PlainThread(t)

LEMMA ClaimsOwn ==
  ASSUME Inv, NEW t \in Threads, Claims(t)
  PROVE  MutexOf(t).owner = t
<1>1. Uses(t) > 0
  BY ThreadType DEF Inv, Claims, Holding, At, Uses
<1> QED
  BY <1>1, Owning

\* The frame: t takes the file only when no other process has it, and gives it
\* back only when it holds the mutex of its process.
LEMMA OtherClaims ==
  ASSUME Inv, FileInv, NEW t \in Threads,
         \A u \in Threads \ {t} : thread'[u] = thread[u],
         counter' = counter,
         \/ flock' = flock
         \/ Lockable(ProcessOf[t]) /\ flock' = ProcessOf[t]
         \/ Claims(t) /\ flock' = Dropped(ProcessOf[t]),
         PlainThread(t)'
  PROVE  FileInv'
<1>1. ASSUME NEW u \in Threads, u # t PROVE PlainThread(u)'
  <2>1. thread'[u] = thread[u] /\ PlainThread(u)
    BY <1>1 DEF FileInv
  <2>2. Claims(u)' = Claims(u)
    BY <2>1 DEF Claims, Holding, At
  <2>3. Claims(u) => flock' = ProcessOf[u]
    <3> SUFFICES ASSUME Claims(u) PROVE flock' = ProcessOf[u]
      OBVIOUS
    <3>1. flock = ProcessOf[u] /\ MutexOf(u).owner = u
      BY <2>1, ClaimsOwn DEF PlainThread
    <3>2. ProcessOf[u] # Nobody
      BY DEF Inv
    <3>3. CASE Lockable(ProcessOf[t]) /\ flock' = ProcessOf[t]
      BY <3>1, <3>2, <3>3 DEF Lockable
    <3>4. CASE Claims(t) /\ flock' = Dropped(ProcessOf[t])
      <4>1. ProcessOf[u] # ProcessOf[t]
        BY <1>1, <3>1, <3>4, ClaimsOwn DEF MutexOf
      <4> QED
        BY <3>1, <3>4, <4>1 DEF Dropped
    <3> QED
      BY <3>1, <3>3, <3>4
  <2> QED
    BY <2>1, <2>2, <2>3 DEF PlainThread, At
<1> QED
  BY <1>1 DEF FileInv

LEMMA PlainInit == ASSUME Init PROVE FileInv
<1>1. Idle.held = 0 /\ Idle.pc = "idle" /\ Idle.call = "lock"
  BY DEF Idle
<1> QED
  BY <1>1 DEF Init, FileInv, PlainThread, Claims, Holding, At

LEMMA PlainStep ==
  ASSUME Plain, Inv, FileInv, NEW t \in Threads, Step(t)
  PROVE  FileInv'
<1>1. /\ TypeOK /\ PlainThread(t) /\ counter[ProcessOf[t]] = 0
      /\ ~Recursive
  BY ThreadType DEF Inv, FileInv, Plain
<1>2. CASE LockMutex(t)
  <2>1. Go(t, "file") /\ thread[t].pc = "mutex" /\ UNCHANGED <<counter, flock>>
    BY <1>1, <1>2 DEF LockMutex, PlainThread, At
  <2>2. PlainThread(t)'
    BY <1>1, <2>1, Going, ThreadType DEF Pcs, PlainThread, Claims, Holding, At
  <2> QED
    BY <1>1, <2>1, <2>2, Going, ThreadType, OtherClaims DEF Pcs
<1>3. CASE MutexBusy(t)
  <2>1. Refuse(t) /\ thread[t].pc = "mutex" /\ UNCHANGED <<counter, flock>>
    BY <1>3 DEF MutexBusy, At
  <2>2. PlainThread(t)'
    BY <1>1, <2>1, Refusing, ThreadType DEF PlainThread, Claims, Holding, At
  <2> QED
    BY <1>1, <2>1, <2>2, Refusing, ThreadType, OtherClaims
<1>4. CASE OwnerDead(t)
  <2>1. /\ Refuse(t) \/ Go(t, "stuck")
        /\ thread[t].pc = "mutex" /\ UNCHANGED <<counter, flock>>
    BY <1>1, <1>4 DEF OwnerDead, At
  <2>2. CASE Refuse(t)
    <3>1. PlainThread(t)'
      BY <1>1, <2>1, <2>2, Refusing, ThreadType DEF PlainThread, Claims, Holding, At
    <3> QED
      BY <1>1, <2>1, <2>2, <3>1, Refusing, ThreadType, OtherClaims
  <2>3. CASE Go(t, "stuck")
    <3>1. PlainThread(t)'
      BY <1>1, <2>1, <2>3, Going, ThreadType DEF Pcs, PlainThread, Claims, Holding, At
    <3> QED
      BY <1>1, <2>1, <2>3, <3>1, Going, ThreadType, OtherClaims DEF Pcs
  <2> QED
    BY <2>1, <2>2, <2>3
<1>5. CASE LockFile(t)
  <2>1. thread[t].pc = "file" /\ counter' = counter
    BY <1>5 DEF LockFile, At
  <2>2. CASE Go(t, "count") /\ Lockable(ProcessOf[t]) /\ flock' = ProcessOf[t]
    <3>1. PlainThread(t)'
      BY <1>1, <2>1, <2>2, Going, ThreadType DEF Pcs, PlainThread, Claims, Holding, At
    <3> QED
      BY <1>1, <2>1, <2>2, <3>1, Going, ThreadType, OtherClaims DEF Pcs
  <2>3. CASE Fail(t, "undo") /\ flock' = flock
    <3>1. PlainThread(t)'
      BY <1>1, <2>1, <2>3, Failing, ThreadType DEF Pcs, PlainThread, Claims, Holding, At
    <3> QED
      BY <1>1, <2>1, <2>3, <3>1, Failing, ThreadType, OtherClaims DEF Pcs
  <2> QED
    BY <1>1, <1>5, <2>2, <2>3 DEF LockFile
<1>6. CASE Undo(t)
  <2>1. /\ Go(t, "count") /\ thread[t].pc = "undo" /\ thread[t].failed
        /\ UNCHANGED <<counter, flock>>
    BY <1>1, <1>6 DEF Undo, At, PlainThread, Inv, MutexInv, OwnerInv
  <2>2. PlainThread(t)'
    BY <1>1, <2>1, Going, ThreadType DEF Pcs, PlainThread, Claims, Holding, At
  <2> QED
    BY <1>1, <2>1, <2>2, Going, ThreadType, OtherClaims DEF Pcs
<1>7. CASE Count(t)
  <2>1. /\ Return(t) /\ thread[t].pc = "count" /\ thread[t].held = 0
        /\ UNCHANGED <<counter, flock>>
    BY <1>1, <1>7 DEF Count, At, PlainThread
  <2>2. CASE Refuse(t) /\ thread[t].failed
    <3>1. PlainThread(t)'
      BY <1>1, <2>1, <2>2, Refusing, ThreadType DEF PlainThread, Claims, Holding, At
    <3> QED
      BY <1>1, <2>1, <2>2, <3>1, Refusing, ThreadType, OtherClaims
  <2>3. CASE Accept(t) /\ ~thread[t].failed
    <3>1. flock = ProcessOf[t]
      BY <1>1, <2>1, <2>3 DEF PlainThread, Claims, At
    <3>2. /\ thread'[t].pc = "idle" /\ thread'[t].held = 1 /\ thread'[t].call = "lock"
          /\ \A u \in Threads \ {t} : thread'[u] = thread[u]
      <4>1. thread[t].held + 1 = 1
        BY <2>1
      <4> QED
        BY <1>1, <2>3, <4>1, Accepting, ThreadType
    <3>3. PlainThread(t)'
      BY <2>1, <3>1, <3>2 DEF PlainThread, Claims, Holding, At
    <3> QED
      BY <2>1, <3>2, <3>3, OtherClaims
  <2> QED
    BY <2>1, <2>2, <2>3 DEF Return
<1>8. CASE UnlockMutex(t)
  <2>1. Go(t, "idle") /\ thread[t].pc = "unlock" /\ UNCHANGED <<counter, flock>>
    BY <1>1, <1>8 DEF UnlockMutex, At
  <2>2. PlainThread(t)'
    BY <1>1, <2>1, Going, ThreadType DEF Pcs, PlainThread, Claims, Holding, At
  <2> QED
    BY <1>1, <2>1, <2>2, Going, ThreadType, OtherClaims DEF Pcs
<1>9. ~(TimedFile(t) \/ Sleep(t) \/ GiveUp(t) \/ Counted(t) \/ Uncount(t) \/ Uncounted(t))
  BY <1>1 DEF TimedFile, Sleep, GiveUp, Counted, Uncount, Uncounted, At, PlainThread
<1> QED
  BY <1>2, <1>3, <1>4, <1>5, <1>6, <1>7, <1>8, <1>9 DEF Step

LEMMA PlainNext ==
  ASSUME Plain, Inv, FileInv, [Next]_vars
  PROVE  FileInv'
<1>1. TypeOK /\ ~Recursive
  BY DEF Inv, Plain
<1>2. CASE UNCHANGED vars \/ Tick
  BY <1>2 DEF vars, Tick, FileInv, PlainThread, Claims, Holding, At
<1>3. ASSUME NEW t \in Threads, NEW c \in Calls, Call(t, c) PROVE FileInv'
  <2>6. PICK s : thread' = [thread EXCEPT ![t].pc = "mutex", ![t].call = c,
                                          ![t].until = s]
    BY <1>3 DEF Call
  <2> DEFINE r == [thread[t] EXCEPT !.pc = "mutex", !.call = c, !.until = s]
  <2>1. /\ PlainThread(t) /\ thread[t].held < 1 /\ UNCHANGED <<counter, flock>>
        /\ c \in {"lock", "try_lock"} /\ thread' = [thread EXCEPT ![t] = r]
    BY <1>1, <1>3, <2>6 DEF Call, FileInv, Plain
  <2>2. r.pc = "mutex" /\ r.call = c /\ r.held = thread[t].held
    BY <1>1, ThreadType DEF Thread
  <2> HIDE DEF r
  <2>3. thread'[t] = r /\ \A u \in Threads \ {t} : thread'[u] = thread[u]
    BY <1>1, <2>1, ThreadType
  <2>4. thread[t].held = 0
    BY <1>1, <2>1, ThreadType
  <2>5. PlainThread(t)'
    BY <2>1, <2>2, <2>3, <2>4 DEF PlainThread, Claims, Holding, At
  <2> QED
    BY <2>1, <2>3, <2>5, OtherClaims
<1>4. ASSUME NEW t \in Threads, Unlock(t) PROVE FileInv'
  <2>1. /\ PlainThread(t) /\ Claims(t) /\ thread[t].held = 1
        /\ counter' = counter /\ flock' = Dropped(ProcessOf[t])
    BY <1>1, <1>4, ThreadType DEF FileInv, PlainThread, Unlock, Claims, Holding
  <2>2. /\ thread'[t].pc = "unlock" /\ thread'[t].held = 0
        /\ thread'[t].call = thread[t].call
        /\ \A u \in Threads \ {t} : thread'[u] = thread[u]
    BY <1>1, <1>4, <2>1, Releasing
  <2>3. PlainThread(t)'
    BY <2>1, <2>2 DEF PlainThread, Claims, Holding, At
  <2> QED
    BY <2>1, <2>2, <2>3, OtherClaims
<1>5. ASSUME NEW t \in Threads, ThreadEnds(t) PROVE FileInv'
  <2>1. Idle.held = 0 /\ Idle.pc = "idle" /\ Idle.call = "lock"
    BY DEF Idle
  <2>2. /\ thread'[t] = Idle /\ UNCHANGED <<counter, flock>>
        /\ \A u \in Threads \ {t} : thread'[u] = thread[u]
    BY <1>1, <1>5, ThreadType DEF ThreadEnds
  <2>3. PlainThread(t)'
    BY <2>1, <2>2 DEF PlainThread, Claims, Holding, At
  <2> QED
    BY <2>2, <2>3, OtherClaims
<1>6. ASSUME NEW p \in Processes, Restart(p) PROVE FileInv'
  <2>1. Idle.held = 0 /\ Idle.pc = "idle" /\ Idle.call = "lock"
    BY DEF Idle
  <2>2. ASSUME NEW q \in Processes PROVE counter'[q] = 0
    BY <1>1, <1>6 DEF Restart, FileInv, TypeOK
  <2>3. ASSUME NEW t \in Threads PROVE PlainThread(t)'
    <3>1. CASE ProcessOf[t] = p
      <4>1. thread'[t] = Idle
        BY <1>6, <3>1 DEF Restart
      <4> QED
        BY <2>1, <4>1 DEF PlainThread, Claims, Holding, At
    <3>2. CASE ProcessOf[t] # p
      <4>1. thread'[t] = thread[t] /\ flock' = Dropped(p) /\ PlainThread(t)
        BY <1>6, <3>2 DEF Restart, FileInv
      <4> QED
        BY <3>2, <4>1 DEF PlainThread, Claims, Holding, At, Dropped
    <3> QED
      BY <3>1, <3>2
  <2> QED
    BY <2>2, <2>3 DEF FileInv
<1> QED
  BY <1>2, <1>3, <1>4, <1>5, <1>6, PlainStep DEF Next

LEMMA PlainInv == ASSUME Plain PROVE Spec => [](Inv /\ FileInv)
<1>1. Inv /\ FileInv /\ [Next]_vars => (Inv /\ FileInv)'
  BY NextInv, PlainNext
<1> QED
  BY <1>1, InitInv, PlainInit, PTL DEF Spec

\* Whoever holds the mutex, its process has the file.
THEOREM HoldersHaveTheFile == ASSUME Plain PROVE Spec => []HolderHasFile
<1>1. ASSUME Inv, FileInv PROVE HolderHasFile
  BY <1>1 DEF FileInv, PlainThread, Claims, HolderHasFile
<1> QED
  BY <1>1, PlainInv, PTL

\* The purpose of the mutex.
THEOREM AllExclude == ASSUME Plain PROVE Spec => []Exclusive
<1>1. ASSUME Inv, FileInv, NEW t \in Threads, NEW u \in Threads, Holding(t), Holding(u)
      PROVE  t = u
  <2>1. flock = ProcessOf[t] /\ flock = ProcessOf[u]
    BY <1>1 DEF FileInv, PlainThread, Claims
  <2>2. MutexOf(t).owner = t /\ MutexOf(u).owner = u
    BY <1>1, ClaimsOwn DEF Claims
  <2> QED
    BY <2>1, <2>2 DEF MutexOf
<1>2. Inv /\ FileInv => Exclusive
  BY <1>1 DEF Exclusive
<1> QED
  BY <1>2, PlainInv, PTL

-----------------------------------------------------------------------------
(* The file is given back before the mutex.                                 *)

\* a thread that is about to give the mutex back does not leave it the file
GivenBack(t) == At(t, "undo") \/ At(t, "unlock") => flock # ProcessOf[t]

UnderInv ==
  /\ FileUnderMutex
  /\ \A t \in Threads : GivenBack(t)

\* The frame: t changes the mutex of its process only, and takes the file only while
\* it has that mutex, so that no other thread of the process is about to give it back.
LEMMA OtherGivesBack ==
  ASSUME Inv, UnderInv, NEW t \in Threads,
         \A u \in Threads \ {t} : thread'[u] = thread[u],
         \A p \in Processes \ {ProcessOf[t]} : mutex'[p] = mutex[p],
         \/ flock' = flock
         \/ MutexOf(t).owner = t /\ flock' = ProcessOf[t]
         \/ flock' = Dropped(ProcessOf[t]),
         GivenBack(t)',
         flock' = ProcessOf[t] => MutexOf(t)'.owner # Nobody \/ MutexOf(t)'.dead
  PROVE  UnderInv'
<1>1. ASSUME NEW u \in Threads, u # t PROVE GivenBack(u)'
  <2> SUFFICES ASSUME At(u, "undo") \/ At(u, "unlock"), flock' = ProcessOf[u]
               PROVE  FALSE
    BY <1>1 DEF GivenBack, At
  <2>1. flock # ProcessOf[u]
    BY DEF UnderInv, GivenBack
  <2>2. MutexOf(u).owner = u
    <3>1. Uses(u) > 0
      BY ThreadType DEF Inv, Uses, At
    <3> QED
      BY <3>1, Owning
  <2>3. ProcessOf[u] # Nobody
    OBVIOUS
  <2> QED
    BY <1>1, <2>1, <2>2, <2>3 DEF MutexOf, Dropped
<1>2. ASSUME NEW p \in Processes, flock' = p
      PROVE  mutex'[p].owner # Nobody \/ mutex'[p].dead
  <2>1. CASE p = ProcessOf[t]
    BY <1>2, <2>1 DEF MutexOf
  <2>2. CASE p # ProcessOf[t]
    <3>1. flock = p
      BY <1>2, <2>2 DEF Dropped
    <3> QED
      BY <1>2, <2>2, <3>1 DEF UnderInv, FileUnderMutex
  <2> QED
    BY <2>1, <2>2
<1> QED
  BY <1>1, <1>2 DEF UnderInv, FileUnderMutex

\* a mutex that has just been granted
LEMMA UnderGrant ==
  ASSUME Inv, UnderInv, NEW t \in Threads, NEW n \in Nat, Granted(t, n), flock' = flock,
         \A u \in Threads \ {t} : thread'[u] = thread[u],
         ~At(t, "undo")', ~At(t, "unlock")'
  PROVE  UnderInv'
<1>1. mutex'[ProcessOf[t]].owner = t /\ t # Nobody
  BY ThreadType DEF Inv, TypeOK, Granted
<1>2. \A p \in Processes \ {ProcessOf[t]} : mutex'[p] = mutex[p]
  BY DEF Inv, TypeOK, Granted
<1> QED
  BY <1>1, <1>2, OtherGivesBack DEF GivenBack, MutexOf

\* a step that leaves the mutexes and the file alone, and is about to give back
\* nothing that was not given back
LEMMA UnderSame ==
  ASSUME Inv, UnderInv, NEW t \in Threads, UNCHANGED <<mutex, flock>>,
         \A u \in Threads \ {t} : thread'[u] = thread[u],
         At(t, "undo")' \/ At(t, "unlock")' => flock # ProcessOf[t]
  PROVE  UnderInv'
<1>1. flock = ProcessOf[t] => MutexOf(t).owner # Nobody \/ MutexOf(t).dead
  BY ThreadType DEF Inv, UnderInv, FileUnderMutex, MutexOf
<1> QED
  BY <1>1, OtherGivesBack DEF GivenBack, MutexOf

LEMMA UnderGiven ==
  ASSUME Inv, UnderInv, NEW t \in Threads, At(t, "undo") \/ At(t, "unlock"),
         mutex' = [mutex EXCEPT ![ProcessOf[t]] = Unlocked(@)], flock' = flock,
         \A u \in Threads \ {t} : thread'[u] = thread[u],
         ~At(t, "undo")', ~At(t, "unlock")'
  PROVE  UnderInv'
<1>1. flock # ProcessOf[t]
  BY DEF UnderInv, GivenBack
<1>2. \A p \in Processes \ {ProcessOf[t]} : mutex'[p] = mutex[p]
  BY DEF Inv, TypeOK
<1> QED
  BY <1>1, <1>2, OtherGivesBack DEF GivenBack, MutexOf

LEMMA UnderStep ==
  ASSUME Plain, Inv, FileInv, UnderInv, NEW t \in Threads, Step(t)
  PROVE  UnderInv'
<1>1. TypeOK /\ PlainThread(t) /\ counter[ProcessOf[t]] = 0 /\ ~Recursive
  BY ThreadType DEF Inv, FileInv, Plain
<1>2. CASE LockMutex(t)
  <2>1. Go(t, "file") /\ Granted(t, 1) /\ flock' = flock
    BY <1>1, <1>2 DEF LockMutex, PlainThread, At
  <2> QED
    BY <1>1, <2>1, Going, ThreadType, UnderGrant DEF Pcs, At
<1>3. CASE MutexBusy(t)
  BY <1>1, <1>3, Refusing, ThreadType, UnderSame DEF MutexBusy, At
<1>4. CASE OwnerDead(t)
  <2>1. Granted(t, 1) /\ flock' = flock
    BY <1>1, <1>4 DEF OwnerDead
  <2>2. CASE Refuse(t)
    BY <1>1, <2>1, <2>2, Refusing, ThreadType, UnderGrant DEF At
  <2>3. CASE Go(t, "stuck")
    BY <1>1, <2>1, <2>3, Going, ThreadType, UnderGrant DEF Pcs, At
  <2> QED
    BY <1>1, <1>4, <2>2, <2>3 DEF OwnerDead
<1>5. CASE LockFile(t)
  <2>1. mutex' = mutex /\ MutexOf(t).owner = t /\ t # Nobody
    <3>1. Uses(t) > 0
      BY <1>1, <1>5, ThreadType DEF LockFile, At, Uses
    <3> QED
      BY <1>5, <3>1, Owning DEF LockFile
  <2>2. CASE Go(t, "count") /\ flock' = ProcessOf[t]
    BY <1>1, <2>1, <2>2, Going, ThreadType, OtherGivesBack DEF Pcs, GivenBack, At, MutexOf
  <2>3. CASE Fail(t, "undo") /\ flock' = flock /\ ~Lockable(ProcessOf[t])
    BY <1>1, <2>1, <2>3, Failing, ThreadType, UnderSame DEF Pcs, Lockable
  <2> QED
    BY <1>1, <1>5, <2>2, <2>3 DEF LockFile
<1>6. CASE Undo(t)
  <2>1. Go(t, "count")
    BY <1>1, <1>6 DEF Undo, PlainThread
  <2> QED
    BY <1>1, <1>6, <2>1, Going, ThreadType, UnderGiven DEF Undo, Pcs, At
<1>7. CASE Count(t)
  <2>1. Return(t) /\ UNCHANGED <<mutex, flock>>
    BY <1>1, <1>7 DEF Count
  <2> QED
    BY <1>1, <2>1, Refusing, Accepting, ThreadType, UnderSame DEF Return, At
<1>8. CASE UnlockMutex(t)
  <2>1. Go(t, "idle")
    BY <1>1, <1>8 DEF UnlockMutex
  <2> QED
    BY <1>1, <1>8, <2>1, Going, ThreadType, UnderGiven DEF UnlockMutex, Pcs, At
<1>9. ~(TimedFile(t) \/ Sleep(t) \/ GiveUp(t) \/ Counted(t) \/ Uncount(t) \/ Uncounted(t))
  BY <1>1 DEF TimedFile, Sleep, GiveUp, Counted, Uncount, Uncounted, At, PlainThread
<1> QED
  BY <1>2, <1>3, <1>4, <1>5, <1>6, <1>7, <1>8, <1>9 DEF Step

LEMMA UnderNext ==
  ASSUME Plain, Inv, FileInv, UnderInv, [Next]_vars
  PROVE  UnderInv'
<1>1. TypeOK /\ ~Recursive
  BY DEF Inv, Plain
<1>2. CASE UNCHANGED vars \/ Tick
  BY <1>2 DEF vars, Tick, UnderInv, FileUnderMutex, GivenBack, At
<1>3. ASSUME NEW t \in Threads, NEW c \in Calls, Call(t, c) PROVE UnderInv'
  <2>1. PICK s : thread' = [thread EXCEPT ![t].pc = "mutex", ![t].call = c,
                                          ![t].until = s]
    BY <1>3 DEF Call
  <2>2. thread'[t].pc = "mutex" /\ \A u \in Threads \ {t} : thread'[u] = thread[u]
    BY <1>1, <2>1, ThreadType DEF Thread
  <2> QED
    BY <1>3, <2>2, UnderSame DEF Call, At
<1>4. ASSUME NEW t \in Threads, Unlock(t) PROVE UnderInv'
  <2>1. /\ mutex' = mutex /\ flock' = Dropped(ProcessOf[t])
        /\ \A u \in Threads \ {t} : thread'[u] = thread[u]
    BY <1>1, <1>4, Releasing DEF Unlock, FileInv
  <2>2. flock' # ProcessOf[t]
    BY <2>1, ThreadType DEF Inv, Dropped
  <2> QED
    BY <2>1, <2>2, OtherGivesBack DEF GivenBack
<1>5. ASSUME NEW t \in Threads, ThreadEnds(t) PROVE UnderInv'
  <2>1. Idle.pc = "idle"
    BY DEF Idle
  <2>2. /\ thread'[t] = Idle /\ flock' = flock
        /\ \A u \in Threads \ {t} : thread'[u] = thread[u]
    BY <1>1, <1>5, ThreadType DEF ThreadEnds
  <2>3. /\ MutexOf(t)'.dead
        /\ \A p \in Processes \ {ProcessOf[t]} : mutex'[p] = mutex[p]
    <3>1. [FreeMutex EXCEPT !.dead = TRUE].dead
      BY DEF FreeMutex
    <3> QED
      BY <1>1, <1>5, <3>1, ThreadType DEF ThreadEnds, TypeOK, MutexOf
  <2> QED
    BY <2>1, <2>2, <2>3, OtherGivesBack DEF GivenBack, At
<1>6. ASSUME NEW p \in Processes, Restart(p) PROVE UnderInv'
  <2>1. Idle.pc = "idle" /\ flock' # p /\ (flock' # Nobody => flock' = flock)
    BY <1>6 DEF Idle, Restart, Dropped
  <2>2. ASSUME NEW q \in Processes, flock' = q
        PROVE  mutex'[q].owner # Nobody \/ mutex'[q].dead
    BY <1>1, <1>6, <2>1, <2>2 DEF Restart, UnderInv, FileUnderMutex, TypeOK
  <2>3. ASSUME NEW t \in Threads PROVE GivenBack(t)'
    <3>1. CASE ProcessOf[t] = p
      BY <2>1, <3>1 DEF GivenBack
    <3>2. CASE ProcessOf[t] # p
      <4>1. thread'[t] = thread[t] /\ ProcessOf[t] # Nobody
        BY <1>6, <3>2 DEF Restart
      <4> QED
        BY <2>1, <4>1 DEF UnderInv, GivenBack, At
    <3> QED
      BY <3>1, <3>2
  <2> QED
    BY <2>2, <2>3 DEF UnderInv, FileUnderMutex
<1> QED
  BY <1>2, <1>3, <1>4, <1>5, <1>6, UnderStep DEF Next

\* Unlock, and every call that does not get the lock, gives the file back before the
\* mutex: a process has the file only while its mutex is taken or abandoned.
THEOREM FileGivenBackFirst == ASSUME Plain PROVE Spec => []FileUnderMutex
<1>1. Init => UnderInv
  BY DEF Init, UnderInv, FileUnderMutex, GivenBack, At, Idle
<1>2. Inv /\ FileInv /\ UnderInv /\ [Next]_vars => UnderInv'
  BY UnderNext
<1>3. UnderInv => FileUnderMutex
  BY DEF UnderInv
<1> QED
  BY <1>1, <1>2, <1>3, PlainInv, PTL DEF Spec

-----------------------------------------------------------------------------
(* The refinement.                                                          *)

\* only one thread moves at a time, but when a process ends
LEMMA OneMoves ==
  ASSUME Inv, Next, NEW t \in Threads, NEW u \in Threads, t # u
  PROVE  \/ thread'[t] = thread[t]
         \/ thread'[u] = thread[u]
         \/ thread'[u] = Idle
<1>1. TypeOK
  BY DEF Inv
<1>2. CASE Tick
  BY <1>2 DEF Tick
<1>3. ASSUME NEW p \in Processes, Restart(p)
      PROVE  thread'[u] = thread[u] \/ thread'[u] = Idle
  BY <1>3 DEF Restart
<1>4. ASSUME NEW v \in Threads, \E r : thread' = [thread EXCEPT ![v] = r]
      PROVE  thread'[t] = thread[t] \/ thread'[u] = thread[u]
  BY <1>1, <1>4, ThreadType
<1>5. ASSUME NEW v \in Threads,
             \/ Step(v) \/ Unlock(v) \/ ThreadEnds(v)
             \/ \E c \in Calls : Call(v, c)
      PROVE  \E r : thread' = [thread EXCEPT ![v] = r]
  BY <1>5 DEF Step, Unlock, ThreadEnds, Call, LockMutex, MutexBusy, OwnerDead, LockFile,
       Undo, TimedFile, Sleep, GiveUp, Count, Counted, UnlockMutex, Uncount, Uncounted,
       Go, Fail, Refuse, Accept, Return
<1> QED
  BY <1>2, <1>3, <1>4, <1>5 DEF Next

HolderNow ==
  IF \E t \in Threads : Holding(t)
  THEN CHOOSE t \in Threads : Holding(t) ELSE Nobody

\* A mutex that is not recursive, used through lock and try_lock, is one lock for
\* the threads of all processes, whatever threads and processes end.
THEOREM LockImplemented == ASSUME Plain PROVE Spec => ImplementsLock
<1>1. Init => Lock!Init
  BY DEF Init, Lock!Init, Holding, Idle
<1>2. ASSUME Inv, Exclusive, Exclusive', Next
      PROVE  [Lock!Next]_HolderNow
  <2>1. CASE ~\E t \in Threads : Holding(t)
    <3>1. HolderNow = Nobody
      BY <2>1 DEF HolderNow
    <3>2. HolderNow' = Nobody \/ HolderNow' \in Threads
      BY DEF HolderNow
    <3> QED
      BY <3>1, <3>2 DEF Lock!Next, Lock!Acquire, HolderNow
  <2>2. CASE \E t \in Threads : Holding(t)
    <3>1. PICK t \in Threads : Holding(t)
      BY <2>2
    <3>2. HolderNow = t /\ t # Nobody
      BY <1>2, <3>1 DEF HolderNow, Exclusive
    <3>3. ASSUME NEW u \in Threads, Holding(u)' PROVE u = t
      <4> SUFFICES ASSUME u # t PROVE FALSE
        OBVIOUS
      <4>1. CASE thread'[t] = thread[t]
        <5>1. Holding(t)'
          BY <3>1, <4>1 DEF Holding
        <5> QED
          BY <1>2, <3>3, <5>1 DEF Exclusive, Holding
      <4>2. CASE thread'[u] = thread[u]
        <5>1. Holding(u)
          BY <3>3, <4>2 DEF Holding
        <5> QED
          BY <1>2, <3>1, <5>1 DEF Exclusive
      <4>3. CASE thread'[u] = Idle
        BY <3>3, <4>3 DEF Holding, Idle
      <4> QED
        BY <1>2, <4>1, <4>2, <4>3, OneMoves
    <3>4. HolderNow' = Nobody \/ HolderNow' = t
      BY <3>3 DEF HolderNow
    <3> QED
      BY <3>2, <3>4 DEF Lock!Next, Lock!Release, HolderNow
  <2> QED
    BY <2>1, <2>2
<1>3. UNCHANGED vars => UNCHANGED HolderNow
  BY DEF vars, HolderNow, Holding
<1>4. Inv /\ Exclusive /\ Exclusive' /\ [Next]_vars => [Lock!Next]_HolderNow
  BY <1>2, <1>3
<1> QED
  BY <1>1, <1>4, SpecInv, AllExclude, PTL DEF Spec, ImplementsLock, Lock!Spec, HolderNow
=============================================================================
