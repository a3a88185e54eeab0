------------------------- MODULE ThreadMultiProofs -------------------------
(***************************************************************************)
(* ThreadMulti implements Thread, and its worker never uses a member that  *)
(* the destructor has destroyed, for any descriptors and any queue length. *)
(***************************************************************************)
EXTENDS ThreadMulti, TLAPS

\* The worker owns the mutex exactly between lock and wait and while it
\* handles a descriptor; it iterates only sessions that are in the map.
Locking ==
  /\ mutex = "worker" <=> wpc \in {"enter", "locked", "iterate"}
  /\ it # NoFd <=> wpc = "iterate"
  /\ wpc = "iterate" => it \in sessions

\* How far the worker can be at each stage of the destructor.
Stages ==
  /\ stop <=> mpc # "serve"
  /\ mpc = "lock" => wpc \in {"locked", "iterate", "check", "done"}
  /\ mpc \in {"members", "join", "base", "destroyed"} => wpc \in {"check", "done"}
  /\ mpc \in {"base", "destroyed"} => wpc = "done"
  /\ mpc \in {"serve", "sleep", "lock"} => gone = {}

Inv == TypeOK /\ Locking /\ Stages

----------------------------------------------------------------------------
\* The constructor establishes the invariant.
LEMMA InitInv == Init => Inv
  <1> SUFFICES ASSUME Init PROVE Inv
    OBVIOUS
  <1>1. queue \in Seq(Fd)
    BY DEF Init
  <1>2. TypeOK
    BY <1>1 DEF Init, TypeOK, WorkerPc, MainPc
  <1>3. Locking /\ Stages
    BY DEF Init, Locking, Stages
  <1> QED
    BY <1>2, <1>3 DEF Inv

\* The calls of the server's thread keep it: they run with the mutex free.
LEMMA CallsInv == ASSUME Inv, Calls \/ RequestStop PROVE Inv'
  <1> USE ThreadMultiAssumption DEF Inv, workerVars
  <1>1. ASSUME NEW fd \in Fd, add_session(fd) \/ remove_session(fd) PROVE Inv'
    BY <1>1 DEF add_session, remove_session, TypeOK, Locking, Stages
  <1>2. ASSUME NEW fd \in Fd, data_available(fd) PROVE Inv'
    <2>1. Append(queue, fd) \in Seq(Fd)
      BY DEF TypeOK
    <2> QED
      BY <1>2, <2>1 DEF data_available, notify_one, TypeOK, Locking, Stages
  <1>3. CASE RequestStop
    BY <1>3 DEF RequestStop, TypeOK, Locking, Stages, MainPc
  <1> QED
    BY <1>1, <1>2, <1>3 DEF Calls

\* The stages of the destructor keep it.
LEMMA DestructorInv == ASSUME Inv, Destructor PROVE Inv'
  <1> USE DEF Inv, workerVars, TypeOK, Locking, Stages, MainPc, WorkerPc
  <1>1. CASE SleepEnds
    BY <1>1 DEF SleepEnds
  <1>2. CASE LockAndNotify
    BY <1>2 DEF LockAndNotify, notify_one
  <1>3. CASE DestroyMembers
    BY <1>3 DEF DestroyMembers, Members
  <1>4. CASE JoinWorker
    BY <1>4 DEF JoinWorker
  <1>5. CASE DestroySessions
    BY <1>5 DEF DestroySessions, Members
  <1> QED
    BY <1>1, <1>2, <1>3, <1>4, <1>5 DEF Destructor

\* The worker's steps keep it: after a stop request none leads back to a wait.
LEMMA WorkerInv == ASSUME Inv, Worker PROVE Inv'
  <1> USE DEF Inv, TypeOK, Locking, Stages, WorkerPc
  <1>1. CASE Check
    BY <1>1 DEF Check
  <1>2. CASE Lock \/ StartWait \/ Wake
    <2>1. TypeOK' /\ Locking'
      BY <1>2 DEF Lock, StartWait, Wake
    <2>2. Stages'
      BY <1>2 DEF Lock, StartWait, Wake
    <2> QED
      BY <2>1, <2>2
  <1>3. CASE Relock \/ BailOut \/ EndIteration
    BY <1>3 DEF Relock, BailOut, EndIteration
  <1>4. CASE PopFront
    <2>1. Head(queue) \in Fd /\ Tail(queue) \in Seq(Fd)
      BY <1>4 DEF PopFront
    <2> QED
      BY <1>4, <2>1, ThreadMultiAssumption DEF PopFront
  <1> QED
    BY <1>1, <1>2, <1>3, <1>4 DEF Worker

\* The inductive invariant.
THEOREM Inductive == Spec => []Inv
  <1>1. Inv /\ [Next]_vars => Inv'
    <2>1. Inv /\ UNCHANGED vars => Inv'
      BY DEF vars, Inv, TypeOK, Locking, Stages
    <2> QED
      BY <2>1, CallsInv, DestructorInv, WorkerInv DEF Next, Destroyed
  <1> QED
    BY <1>1, InitInv, PTL DEF Spec

\* Every variable of a ThreadMulti keeps its type.
THEOREM TypeCorrect == Spec => []TypeOK
  <1>1. Inv => TypeOK
    BY DEF Inv
  <1> QED
    BY <1>1, Inductive, PTL

\* The members go before the worker is joined, and the worker never uses one
\* that is gone: the sleep outlasts its wait, the lock its iteration.
THEOREM MembersOutliveUse == Spec => []NoUseAfterDestroy
  <1>1. Inv => NoUseAfterDestroy
    BY DEF Inv, TypeOK, Stages, NoUseAfterDestroy, Uses, WorkerPc, MainPc, Members
  <1> QED
    BY <1>1, Inductive, PTL

\* Every behaviour of ThreadMulti is one of Thread: locking and waiting are
\* stutters, and each call takes effect as one step between two iterations.
THEOREM ImplementsThread == Spec => Implements
  <1>1. Init => T!ThreadInit
    BY DEF Init, T!ThreadInit
  <1>2. ASSUME Inv, Inv', [Next]_vars PROVE [T!ThreadNext]_(T!threadVars)
    <2> USE DEF T!threadVars, T!ThreadNext, T!Idle
    <2>1. mutex = "free" => it = NoFd
      BY <1>2 DEF Inv, Locking
    <2>2. ASSUME NEW fd \in Fd, add_session(fd)
          PROVE  T!add_session(fd)
      BY <2>1, <2>2 DEF add_session, workerVars, T!add_session
    <2>3. ASSUME NEW fd \in Fd, remove_session(fd)
          PROVE  T!remove_session(fd)
      BY <2>1, <2>3 DEF remove_session, workerVars, T!remove_session
    <2>4. ASSUME NEW fd \in Fd, data_available(fd)
          PROVE  T!data_available(fd)
      BY <2>1, <2>4 DEF data_available, workerVars, T!data_available
    <2>5. CASE PopFront
      <3>1. mpc # "destroyed" /\ it = NoFd
        BY <1>2, <2>5 DEF PopFront, Inv, Locking, Stages
      <3>2. T!Take
        BY <3>1, <2>5 DEF PopFront, T!Take
      <3> QED
        BY <3>2
    <2>6. CASE EndIteration
      <3>1. mpc # "destroyed" /\ it # NoFd
        BY <1>2, <2>6 DEF EndIteration, Inv, Locking, Stages
      <3>2. T!Finish
        BY <3>1, <2>6 DEF EndIteration, T!Finish
      <3> QED
        BY <3>2
    <2>7. CASE DestroySessions
      <3>1. it = NoFd
        BY <1>2, <2>7 DEF DestroySessions, Inv, Locking, Stages
      <3>2. T!Destroy
        BY <3>1, <2>7 DEF DestroySessions, workerVars, T!Destroy
      <3> QED
        BY <3>2
    <2>8. CASE \/ RequestStop \/ SleepEnds \/ LockAndNotify \/ DestroyMembers
               \/ JoinWorker \/ Check \/ Lock \/ StartWait \/ Wake \/ Relock
               \/ BailOut \/ UNCHANGED vars
      <3>1. UNCHANGED <<sessions, queue, it>>
        BY <2>8 DEF RequestStop, SleepEnds, LockAndNotify, DestroyMembers,
          JoinWorker, Check, Lock, StartWait, Wake, Relock, BailOut, vars, workerVars
      <3>2. mpc' = "destroyed" <=> mpc = "destroyed"
        BY <2>8 DEF RequestStop, SleepEnds, LockAndNotify, DestroyMembers,
          JoinWorker, Check, Lock, StartWait, Wake, Relock, BailOut, vars
      <3> QED
        BY <3>1, <3>2
    <2> QED
      BY <1>2, <2>2, <2>3, <2>4, <2>5, <2>6, <2>7, <2>8
      DEF Next, Calls, Destructor, Worker, Destroyed
  <1> QED
    BY <1>1, <1>2, Inductive, PTL DEF Spec, Implements, T!ThreadSpec

============================================================================
