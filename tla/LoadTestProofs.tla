--------------------------- MODULE LoadTestProofs --------------------------
(***************************************************************************)
(* The invariants of the load test, with the clients its threads make and  *)
(* the server it starts, for any number of threads, attempts, addresses    *)
(* and options.  One inductive invariant, IInv, carries all of them: what  *)
(* a thread owns follows from where it is, and the numbers in the report   *)
(* are the cardinalities of two sets.                                      *)
(***************************************************************************)
EXTENDS LoadTest, FiniteSetTheorems, TLAPS

SetupPc == {"none", "resolve", "socket", "connect", "ctx", "load", "handshake",
            "ready", "thrown"}

Types ==
  /\ cpc \in [Thread -> SetupPc]
  /\ open \in [Thread -> Nat]
  /\ leaked \in [Thread -> Nat]
  /\ ctx \in {"null", "bare", "loaded"}
  /\ ctxOwner \in Thread \cup {NoThread}
  /\ noStore \in BOOLEAN
  /\ addr \in Nat
  /\ config \in [client_type : {"None", "TCP", "SSL"}, run_server : BOOLEAN]
  /\ mpc \in {"args", "server", "threads", "join", "report", "kill", "reap", "exit"}
  /\ status \in {"none", "success", "failure", "aborted"}
  /\ tpc \in [Thread -> {"off", "attempt", "create", "recv", "record", "ended"}]
  /\ attempts \in [Thread -> 0 .. NAttempts]
  /\ output \in [Thread -> Output \cup {"none"}]
  /\ echoed \in Nat
  /\ results \in [Output -> Nat]

\* The places of a constructor where its socket is open.
Connected == {"connect", "ctx", "load", "handshake", "ready"}

\* A thread has the sockets it leaked, one more exactly while its client has
\* one, and a client only inside an attempt.
Holdings ==
  \A t \in Thread :
    /\ open[t] = leaked[t] + IF cpc[t] \in Connected THEN 1 ELSE 0
    /\ tpc[t] \in {"off", "attempt", "ended"} => cpc[t] = "none"
    /\ tpc[t] = "recv" => cpc[t] = "ready"
    /\ tpc[t] = "record" => cpc[t] \in {"ready", "thrown"}

\* Who loads the CA store holds the mutex, and nobody else.
Context ==
  /\ \A t \in Thread : cpc[t] = "load" <=> ctxOwner = t
  /\ ctx = "bare" => ctxOwner \in Thread \/ noStore
  /\ ContextLoaded

\* An attempt that has begun is one that was still to be made.
Progress ==
  \A t \in Thread :
    /\ tpc[t] \in {"create", "recv", "record"} => attempts[t] < NAttempts
    /\ tpc[t] = "ended" => attempts[t] = NAttempts
    /\ tpc[t] = "record" => output[t] \in Output

AllOff == tpc = [t \in Thread |-> "off"]

AllEnded == \A t \in Thread : tpc[t] = "ended"

\* What main() knows of the threads and of the server where it is.
Stages ==
  /\ mpc \in {"args", "server", "threads"} => AllOff
  /\ mpc \in {"report", "kill", "reap"} => AllEnded
  /\ mpc = "exit" <=> status # "none"
  /\ Ran => AllEnded /\ (status = "success" <=> Failures = 0)

ServerLife ==
  /\ mpc \in {"args", "server"} => proc = "none"
  /\ OneListener

\* The attempts that are in the results, and the threads that were echoed and
\* have not recorded it.
Done == {a \in Thread \X (1 .. NAttempts) : a[2] <= attempts[a[1]]}

Echoing == {t \in Thread : tpc[t] = "record" /\ output[t] = "Success"}

Tally ==
  /\ results["Success"] + Failures = Cardinality(Done)
  /\ echoed = results["Success"] + Cardinality(Echoing)

IInv ==
  /\ Types /\ Holdings /\ Context /\ Progress /\ Stages /\ ServerLife /\ Tally

----------------------------------------------------------------------------
\* Where main() takes a step, what the threads own and have counted stays.
LEMMA ThreadsStand ==
  ASSUME IInv, UNCHANGED <<setupVars, attemptVars>>
  PROVE  Holdings' /\ Context' /\ Progress' /\ Tally'
  <1> USE DEF IInv, setupVars, ctxVars, attemptVars
  <1>1. Holdings' /\ Progress'
    BY DEF Holdings, Progress
  <1>2. Context'
    BY DEF Context, ContextLoaded
  <1>3. Tally'
    BY DEF Tally, Failures, Done, Echoing
  <1> QED
    BY <1>1, <1>2, <1>3

\* An empty report: nothing was attempted.
LEMMA InitIInv == Init => IInv
  <1> SUFFICES ASSUME Init PROVE IInv
    OBVIOUS
  <1> USE LoadTestAssumption, ClientSetupAssumption DEF Init, SetupInit, ServerStartInit
  <1>1. Types
    <2>1. config \in [client_type : {"None", "TCP", "SSL"}, run_server : BOOLEAN]
      OBVIOUS
    <2>2. results \in [Output -> Nat] /\ output \in [Thread -> Output \cup {"none"}]
      OBVIOUS
    <2>3. /\ attempts \in [Thread -> 0 .. NAttempts]
          /\ tpc \in [Thread -> {"off", "attempt", "create", "recv", "record", "ended"}]
      OBVIOUS
    <2>4. cpc \in [Thread -> SetupPc] /\ open \in [Thread -> Nat] /\ leaked \in [Thread -> Nat]
      BY DEF SetupPc
    <2> QED
      BY <2>1, <2>2, <2>3, <2>4 DEF Types
  <1>2. Holdings /\ Context /\ Progress
    BY DEF Holdings, Connected, Context, ContextLoaded, Progress
  <1>3. Stages /\ ServerLife
    BY DEF Stages, AllOff, Ran, ServerLife, OneListener
  <1>4. Done = {} /\ Echoing = {}
    BY DEF Done, Echoing
  <1>5. Tally
    BY <1>4, FS_EmptySet DEF Tally, Failures, Output
  <1> QED
    BY <1>1, <1>2, <1>3, <1>5 DEF IInv

----------------------------------------------------------------------------
(* main(). *)

\* The options: no thread and no server yet.
LEMMA OptionsIInv ==
  ASSUME IInv, TypeOption \/ ServerOption \/ HelpOption \/ EndArgs PROVE IInv'
  <1> USE DEF IInv, TypeOption, ServerOption, HelpOption, EndArgs, ExitWith
  <1>1. Types'
    <2>1. config' \in [client_type : {"None", "TCP", "SSL"}, run_server : BOOLEAN]
      BY DEF Types
    <2>2. /\ mpc' \in {"args", "server", "threads", "exit"}
          /\ status' \in {"none", "success", "failure", "aborted"}
      BY DEF Types
    <2>3. UNCHANGED <<setupVars, serverVars, attemptVars>>
      OBVIOUS
    <2> QED
      BY <2>1, <2>2, <2>3 DEF Types, setupVars, ctxVars, serverVars, attemptVars
  <1>2. Holdings' /\ Context' /\ Progress' /\ Tally'
    BY ThreadsStand
  <1>3. Stages'
    BY DEF Stages, AllOff, AllEnded, Ran, Failures, Types, attemptVars
  <1>4. ServerLife'
    BY DEF ServerLife, OneListener, Alive, Types, serverVars
  <1> QED
    BY <1>1, <1>2, <1>3, <1>4

\* run_server(): a process, or none.
LEMMA RunServerIInv ==
  ASSUME IInv, RunServer \/ RunServerFails PROVE IInv'
  <1> USE DEF IInv, RunServer, RunServerFails, ExitWith
  <1>1. Types'
    BY DEF Types, setupVars, ctxVars, serverVars, attemptVars
  <1>2. Holdings' /\ Context' /\ Progress' /\ Tally'
    BY ThreadsStand
  <1>3. Stages'
    BY DEF Stages, AllOff, AllEnded, Ran, Failures, Types, attemptVars
  <1>4. ServerLife'
    BY DEF ServerLife, OneListener, Alive, Types, serverVars
  <1> QED
    BY <1>1, <1>2, <1>3, <1>4

\* Every thread starts with no client and nothing recorded.
LEMMA StartThreadsIInv == ASSUME IInv, StartThreads PROVE IInv'
  <1> USE DEF IInv, StartThreads
  <1>1. Types'
    BY DEF Types, setupVars, ctxVars, serverVars
  <1>2. Holdings' /\ Progress'
    BY DEF Holdings, Progress, Stages, AllOff, setupVars
  <1>3. Context'
    BY DEF Context, ContextLoaded, setupVars, ctxVars
  <1>4. Stages'
    BY DEF Stages, Ran
  <1>5. ServerLife'
    BY DEF ServerLife, OneListener, Alive, Stages, serverVars
  <1>6. Done' = Done /\ Echoing' = Echoing
    BY DEF Done, Echoing, Stages, AllOff
  <1>7. Tally'
    BY <1>6 DEF Tally, Failures
  <1> QED
    BY <1>1, <1>2, <1>3, <1>4, <1>5, <1>7

\* Join, report, kill_server() and the exit status.
LEMMA EndIInv ==
  ASSUME IInv, Join \/ Report \/ Kill \/ Terminate \/ Reap PROVE IInv'
  <1> USE DEF IInv, Join, Report, Kill, Terminate, Reap, Verdict, ExitWith, Waited
  <1>1. Types'
    BY DEF Types, setupVars, ctxVars, serverVars, attemptVars, mainVars
  <1>2. Holdings' /\ Context' /\ Progress' /\ Tally'
    BY ThreadsStand
  <1>3. Stages'
    <2> USE DEF Stages, AllOff, AllEnded, Ran, attemptVars, mainVars
    <2>1. Failures \in Nat /\ (UNCHANGED attemptVars => Failures' = Failures)
      BY DEF Failures, Types, Output
    <2>2. CASE Join
      BY <2>1, <2>2
    <2>3. CASE Kill \/ Terminate
      BY <2>1, <2>3
    <2>4. CASE Report \/ Reap
      BY <2>1, <2>4
    <2> QED
      BY <2>2, <2>3, <2>4
  <1>4. ServerLife'
    BY DEF ServerLife, OneListener, Alive, Types, Stages, serverVars, mainVars
  <1> QED
    BY <1>1, <1>2, <1>3, <1>4

----------------------------------------------------------------------------
(* The server's process. *)

\* It begins after main() has asked for it, and does not come back to life.
LEMMA ChildIInv == ASSUME IInv, ChildStep PROVE IInv'
  <1> USE DEF IInv, ChildStep, ServerStep, Exec, OpenListener, Bind, Listen, SetUp, Crash,
          Killed, Dies, Alive, AfterBindFails
  <1>1. Types'
    BY DEF Types, setupVars, ctxVars, attemptVars, mainVars
  <1>2. Holdings' /\ Context' /\ Progress' /\ Tally'
    BY ThreadsStand
  <1>3. Stages'
    BY DEF Stages, AllOff, AllEnded, Ran, Failures, Types, attemptVars, mainVars
  <1>4. ServerLife'
    BY DEF ServerLife, OneListener, Types, mainVars
  <1> QED
    BY <1>1, <1>2, <1>3, <1>4

----------------------------------------------------------------------------
(* The threads. *)

\* While a thread is at work main() waits for it: a step of the thread says
\* nothing about the stage, and leaves the server alone.
LEMMA AtWork ==
  ASSUME IInv, NEW t \in Thread, status = "none",
         tpc[t] \in {"attempt", "create", "recv", "record"}
  PROVE  /\ mpc = "join"
         /\ UNCHANGED <<serverVars, mainVars>> => Stages' /\ ServerLife'
  <1>1. mpc = "join"
    <2>1. ~AllOff /\ ~AllEnded
      BY DEF AllOff, AllEnded
    <2> QED
      BY <2>1 DEF IInv, Stages, Types
  <1>2. ASSUME UNCHANGED <<serverVars, mainVars>> PROVE Stages'
    BY <1>1, <1>2 DEF Stages, Ran, mainVars
  <1>3. ASSUME UNCHANGED <<serverVars, mainVars>> PROVE ServerLife'
    BY <1>3 DEF IInv, ServerLife, OneListener, Alive, serverVars, mainVars
  <1> QED
    BY <1>1, <1>2, <1>3

\* A constructor opens and closes its own socket, and holds the mutex while
\* it loads the store.
LEMMA CreateClientIInv ==
  ASSUME IInv, NEW t \in Thread, CreateClient(t) PROVE IInv'
  <1> DEFINE tls == config.client_type = "SSL"
  <1> USE DEF IInv, CreateClient, Running
  <1>0. SetupStep(t, tls, Accepting)
    OBVIOUS
  <1>1. Types'
    <2> USE <1>0 DEF SetupStep, Resolve, OpenSocket, NoAddressLeft, ConnectSocket,
            ConnectFails, LockCtx, LoadStore, Goto, ctxVars
    <2>1. cpc' \in [Thread -> SetupPc]
      BY DEF Types, SetupPc
    <2>2. open' \in [Thread -> Nat]
      <3>1. open \in [Thread -> Nat] /\ (cpc[t] \in Connected => open[t] > 0)
        BY DEF Types, Holdings
      <3> QED
        BY <3>1 DEF Opened, Closed, AfterConnectFails, Connected
    <2>3. ctx' \in {"null", "bare", "loaded"} /\ noStore' \in BOOLEAN
      BY DEF Types
    <2>4. ctxOwner' \in Thread \cup {NoThread}
      BY DEF Types
    <2> QED
      BY <2>1, <2>2, <2>3, <2>4 DEF Types, serverVars, mainVars, attemptVars
  <1>2. Holdings'
    BY DEF SetupStep, Resolve, OpenSocket, NoAddressLeft, ConnectSocket,
           ConnectFails, LockCtx, LoadStore, Goto, Opened, Closed,
           AfterConnectFails, Types, Holdings, Connected, attemptVars
  <1>3. Context'
    BY ClientSetupAssumption
    DEF SetupStep, Resolve, OpenSocket, NoAddressLeft, ConnectSocket,
        ConnectFails, LockCtx, LoadStore, Goto, CtxFree, ctxVars,
        Types, Context, ContextLoaded
  <1>4. Progress' /\ Tally'
    BY DEF Progress, Tally, Failures, Done, Echoing, attemptVars
  <1>5. Stages' /\ ServerLife'
    BY AtWork
  <1> QED
    BY <1>1, <1>2, <1>3, <1>4, <1>5

\* The handshake neither opens nor closes anything.
LEMMA ShakeHandsIInv ==
  ASSUME IInv, NEW t \in Thread, ShakeHands(t) PROVE IInv'
  <1> USE DEF IInv, ShakeHands, Running, Handshake, Goto
  <1>1. Types'
    BY DEF Types, SetupPc, ctxVars, serverVars, mainVars, attemptVars
  <1>2. Holdings'
    BY DEF Types, Holdings, Connected, attemptVars
  <1>3. Context'
    BY DEF Types, Context, ContextLoaded, ctxVars
  <1>4. Progress' /\ Tally'
    BY DEF Progress, Tally, Failures, Done, Echoing, attemptVars
  <1>5. Stages' /\ ServerLife'
    BY AtWork
  <1> QED
    BY <1>1, <1>2, <1>3, <1>4, <1>5

\* The start of an attempt.
LEMMA StartAttemptIInv ==
  ASSUME IInv, NEW t \in Thread, StartAttempt(t) PROVE IInv'
  <1> USE DEF IInv, StartAttempt, Running, Goto, Step
  <1>1. Types'
    BY DEF Types, SetupPc, ctxVars, serverVars, mainVars
  <1>2. Holdings'
    BY DEF Types, Holdings, Connected
  <1>3. Context'
    BY DEF Types, Context, ContextLoaded, ctxVars, Holdings
  <1>4. Progress'
    BY LoadTestAssumption DEF Types, Progress
  <1>5. Done' = Done /\ Echoing' = Echoing
    BY DEF Types, Done, Echoing
  <1>6. Tally'
    BY <1>5 DEF Tally, Failures
  <1>7. Stages' /\ ServerLife'
    BY AtWork
  <1> QED
    BY <1>1, <1>2, <1>3, <1>4, <1>6, <1>7

\* Steps after the constructor that count nothing: the failure it threw, the
\* string sent, an exception of the connection, the end of the thread.
LEMMA UncountedIInv ==
  ASSUME IInv, NEW t \in Thread,
         CreateFails(t) \/ Send(t) \/ Throws(t) \/ EndThread(t)
  PROVE  IInv'
  <1> USE DEF IInv, Running, Step
  <1>1. CASE Throws(t)
    <2> USE <1>1 DEF Throws, ExitWith
    <2>1. Types'
      BY DEF Types, setupVars, ctxVars, serverVars, attemptVars
    <2>2. Holdings' /\ Context' /\ Progress' /\ Tally'
      BY ThreadsStand
    <2>3. Stages' /\ ServerLife'
      BY DEF Stages, Ran, ServerLife, OneListener, Alive, serverVars
    <2> QED
      BY <2>1, <2>2, <2>3
  <1>2. CASE CreateFails(t) \/ Send(t) \/ EndThread(t)
    <2> USE <1>2 DEF CreateFails, Send, EndThread
    <2>1. Types'
      BY DEF Types, Output, setupVars, ctxVars, serverVars, mainVars
    <2>2. Holdings' /\ Progress'
      BY LoadTestAssumption DEF Types, Holdings, Progress, Output, setupVars
    <2>3. Context'
      BY DEF Context, ContextLoaded, setupVars, ctxVars
    <2>4. Done' = Done /\ Echoing' = Echoing
      BY DEF Types, Done, Echoing
    <2>5. Tally'
      BY <2>4 DEF Tally, Failures
    <2>6. Stages' /\ ServerLife'
      BY AtWork
    <2> QED
      BY <2>1, <2>2, <2>3, <2>5, <2>6
  <1> QED
    BY <1>1, <1>2

\* A response: an echo puts the thread among those that will record one.
LEMMA ReceiveIInv ==
  ASSUME IInv, NEW t \in Thread, NEW r \in {"echo", "other", "none"}, Receive(t, r)
  PROVE  IInv'
  <1> USE DEF IInv, Receive, Running, Step
  <1>1. /\ OutputOf(r) \in Output
        /\ OutputOf(r) = "Success" <=> r = "echo"
    BY DEF OutputOf, Output
  <1>2. Types'
    BY <1>1 DEF Types, setupVars, ctxVars, serverVars, mainVars
  <1>3. Holdings' /\ Progress'
    BY <1>1 DEF Types, Holdings, Progress, setupVars
  <1>4. Context'
    BY DEF Context, ContextLoaded, setupVars, ctxVars
  <1>5. IsFiniteSet(Echoing) /\ t \notin Echoing /\ Cardinality(Echoing) \in Nat
    <2>1. IsFiniteSet(Echoing)
      BY FS_Subset, LoadTestAssumption DEF Echoing
    <2> QED
      BY <2>1, FS_CardinalityType DEF Echoing
  <1>6. Tally'
    <2>1. Done' = Done /\ Failures' = Failures
      BY DEF Done, Failures
    <2>2. CASE r = "echo"
      <3>1. Echoing' = Echoing \cup {t}
        BY <1>1, <2>2 DEF Types, Echoing
      <3>2. Cardinality(Echoing') = Cardinality(Echoing) + 1
        BY <1>5, <3>1, FS_AddElement
      <3>3. results["Success"] \in Nat
        BY DEF Types, Output
      <3> QED
        BY <1>5, <2>1, <2>2, <3>2, <3>3 DEF Tally
    <2>3. CASE r # "echo"
      <3>1. Echoing' = Echoing
        BY <1>1, <2>3 DEF Types, Echoing
      <3> QED
        BY <2>1, <2>3, <3>1 DEF Tally
    <2> QED
      BY <2>2, <2>3
  <1>7. Stages' /\ ServerLife'
    BY AtWork
  <1> QED
    BY <1>2, <1>3, <1>4, <1>6, <1>7

\* The attempts are finitely many.
LEMMA DoneFinite ==
  /\ IsFiniteSet(Thread \X (1 .. NAttempts))
  /\ Cardinality(Thread \X (1 .. NAttempts)) = Cardinality(Thread) * NAttempts
  /\ IsFiniteSet(Done) /\ Cardinality(Done) \in Nat
  <1>1. IsFiniteSet(1 .. NAttempts) /\ Cardinality(1 .. NAttempts) = NAttempts
    BY FS_Interval, LoadTestAssumption
  <1>2. /\ IsFiniteSet(Thread \X (1 .. NAttempts))
        /\ Cardinality(Thread \X (1 .. NAttempts)) = Cardinality(Thread) * NAttempts
    BY <1>1, FS_Product, LoadTestAssumption
  <1>3. IsFiniteSet(Done)
    BY <1>2, FS_Subset DEF Done
  <1> QED
    BY <1>2, <1>3, FS_CardinalityType

\* The result of an attempt: one more done, under its own output, and the
\* client with its socket is gone.
LEMMA RecordIInv == ASSUME IInv, NEW t \in Thread, Record(t) PROVE IInv'
  <1> USE DEF IInv, Record, Running, Step, Goto
  <1>1. /\ output[t] \in Output
        /\ attempts[t] \in 0 .. NAttempts /\ attempts[t] < NAttempts
        /\ cpc[t] \in {"ready", "thrown"}
    BY DEF Types, Holdings, Progress
  <1>2. Types'
    BY <1>1, LoadTestAssumption
    DEF Types, SetupPc, Recorded, Closed, Holdings, Connected, ctxVars,
        serverVars, mainVars
  <1>3. Holdings' /\ Progress'
    BY <1>1, LoadTestAssumption DEF Types, Holdings, Connected, Closed, Progress
  <1>4. Context'
    BY <1>1 DEF Types, Context, ContextLoaded, ctxVars
  <1>5. Cardinality(Done') = Cardinality(Done) + 1
    <2> DEFINE a == <<t, attempts[t] + 1>>
    <2>1. a \notin Done /\ Done' = Done \cup {a}
      BY <1>1, LoadTestAssumption DEF Types, Done
    <2> QED
      BY <2>1, DoneFinite, FS_AddElement
  <1>6. IsFiniteSet(Echoing) /\ Cardinality(Echoing) \in Nat
    <2>1. IsFiniteSet(Echoing)
      BY FS_Subset, LoadTestAssumption DEF Echoing
    <2> QED
      BY <2>1, FS_CardinalityType
  <1>7. Echoing' = Echoing \ {t}
    BY DEF Types, Echoing
  <1>8. /\ results' = [results EXCEPT ![output[t]] = @ + 1]
        /\ results \in [Output -> Nat]
    BY DEF Types, Recorded
  <1>9. Tally'
    <2>1. CASE output[t] = "Success"
      <3>1. Cardinality(Echoing') = Cardinality(Echoing) - 1
        <4>1. t \in Echoing
          BY <2>1 DEF Echoing
        <4> QED
          BY <1>6, <1>7, <4>1, FS_RemoveElement
      <3>2. results'["Success"] = results["Success"] + 1 /\ Failures' = Failures
        BY <1>8, <2>1 DEF Failures, Output
      <3> QED
        BY <1>5, <1>6, <1>8, <3>1, <3>2, DoneFinite DEF Tally, Failures, Output
    <2>2. CASE output[t] # "Success"
      <3>1. Echoing' = Echoing
        BY <1>7, <2>2 DEF Echoing
      <3>2. results'["Success"] = results["Success"] /\ Failures' = Failures + 1
        BY <1>1, <1>8, <2>2 DEF Failures, Output
      <3> QED
        BY <1>5, <1>6, <1>8, <3>1, <3>2, DoneFinite DEF Tally, Failures, Output
    <2> QED
      BY <2>1, <2>2
  <1>10. Stages' /\ ServerLife'
    BY AtWork
  <1> QED
    BY <1>2, <1>3, <1>4, <1>9, <1>10

----------------------------------------------------------------------------
LEMMA StutterIInv == ASSUME IInv, UNCHANGED vars PROVE IInv'
  <1> USE DEF IInv, vars
  <1>1. Types'
    BY DEF Types, setupVars, ctxVars, serverVars, mainVars, attemptVars
  <1>2. Holdings' /\ Context' /\ Progress' /\ Tally'
    BY ThreadsStand
  <1>3. Stages'
    BY DEF Stages, AllOff, AllEnded, Ran, Failures, mainVars, attemptVars
  <1>4. ServerLife'
    BY DEF ServerLife, OneListener, Alive, serverVars, mainVars
  <1> QED
    BY <1>1, <1>2, <1>3, <1>4

\* IInv holds in every state of the load test.
THEOREM Inductive == Spec => []IInv
  <1>1. IInv /\ [Next]_vars => IInv'
    <2> SUFFICES ASSUME IInv, [Next]_vars PROVE IInv'
      OBVIOUS
    <2>1. CASE MainStep
      BY <2>1, OptionsIInv, RunServerIInv, StartThreadsIInv, EndIInv DEF MainStep
    <2>2. ASSUME NEW t \in Thread, ThreadStep(t) \/ ShakeHands(t) PROVE IInv'
      BY <2>2, StartAttemptIInv, CreateClientIInv, ShakeHandsIInv, UncountedIInv,
         ReceiveIInv, RecordIInv
      DEF ThreadStep
    <2>3. CASE ChildStep
      BY <2>3, ChildIInv
    <2>4. CASE UNCHANGED vars
      BY <2>4, StutterIInv
    <2> QED
      BY <2>1, <2>2, <2>3, <2>4 DEF Next, Exited
  <1> QED
    BY <1>1, InitIInv, PTL DEF Spec

\* NoSocketLeft, with any failures of any of the calls of an attempt: the only
\* sockets a client's constructor does not close are the ones it could not
\* make non-blocking.
THEOREM SocketsClosed == Spec => []NoSocketLeft
  <1>1. IInv => NoSocketLeft
    <2> SUFFICES ASSUME IInv, NEW t \in Thread
                 PROVE  /\ open[t] <= leaked[t] + 1
                        /\ tpc[t] \in {"attempt", "ended"} => open[t] = leaked[t]
      BY DEF NoSocketLeft
    <2>1. /\ open[t] = leaked[t] + IF cpc[t] \in Connected THEN 1 ELSE 0
          /\ leaked[t] \in Nat
      BY DEF IInv, Holdings, Types
    <2>2. tpc[t] \in {"attempt", "ended"} => cpc[t] \notin Connected
      BY DEF IInv, Holdings, Connected
    <2> QED
      BY <2>1, <2>2
  <1> QED
    BY <1>1, Inductive, PTL

\* ContextLoaded: the mutex of initialize_ctx() is enough for any number of
\* threads.
THEOREM StoreBeforeHandshake == Spec => []ContextLoaded
  <1>1. IInv => ContextLoaded
    BY DEF IInv, Context
  <1> QED
    BY <1>1, Inductive, PTL

\* OneListener, for any list of addresses to bind to.
THEOREM ListenerAlone == Spec => []OneListener
  <1>1. IInv => OneListener
    BY DEF IInv, ServerLife
  <1> QED
    BY <1>1, Inductive, PTL

\* When every thread has ended every attempt is done, and none is between its
\* echo and its record.
LEMMA AllDone ==
  ASSUME IInv, AllEnded
  PROVE  /\ results["Success"] + Failures = Cardinality(Thread) * NAttempts
         /\ echoed = results["Success"]
         /\ results["Success"] \in Nat /\ Failures \in Nat
  <1>1. Done = Thread \X (1 .. NAttempts)
    BY LoadTestAssumption DEF IInv, Progress, AllEnded, Done
  <1>2. Echoing = {}
    BY DEF AllEnded, Echoing
  <1>3. results["Success"] \in Nat /\ Failures \in Nat
    BY DEF IInv, Types, Failures, Output
  <1>4. results["Success"] + Failures = Cardinality(Thread) * NAttempts
    BY <1>1, DoneFinite DEF IInv, Tally
  <1>5. echoed = results["Success"]
    BY <1>2, <1>3, FS_EmptySet DEF IInv, Tally
  <1> QED
    BY <1>3, <1>4, <1>5

\* AllRecorded: no result is lost, however many threads add theirs.
THEOREM NoResultLost == Spec => []AllRecorded
  <1>1. IInv => AllRecorded
    BY AllDone DEF AllRecorded, IInv, Stages
  <1> QED
    BY <1>1, Inductive, PTL

\* VerdictTrue, for any number of threads and attempts.
THEOREM ExitStatusTrue == Spec => []VerdictTrue
  <1>1. IInv => VerdictTrue
    <2> SUFFICES ASSUME IInv, Ran
                 PROVE  status = "success" <=> echoed = Cardinality(Thread) * NAttempts
      BY DEF VerdictTrue
    <2>1. AllEnded /\ (status = "success" <=> Failures = 0)
      BY DEF IInv, Stages
    <2> DEFINE all == Cardinality(Thread) * NAttempts
    <2>2. /\ results["Success"] + Failures = all /\ echoed = results["Success"]
          /\ results["Success"] \in Nat /\ Failures \in Nat
      BY <2>1, AllDone
    <2> HIDE DEF all
    <2>3. Failures = 0 <=> echoed = all
      BY <2>2
    <2> QED
      BY <2>1, <2>3 DEF all
  <1> QED
    BY <1>1, Inductive, PTL

============================================================================
