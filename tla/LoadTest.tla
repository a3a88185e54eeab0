------------------------------ MODULE LoadTest -----------------------------
(***************************************************************************)
(* The load test (loadtest.cc): the options, the server it may start, the  *)
(* threads that make a client per attempt, send a string and wait for its  *)
(* echo, and the verdict.  The server that answers, the load test's own    *)
(* (ServerStart) or another one that holds the port, may give any response *)
(* or none.                                                                *)
(***************************************************************************)
EXTENDS ClientSetup, ServerStart, Sequences, FiniteSets

CONSTANTS
  NAttempts,  \* --attempts
  MaxArgs     \* model bound: options on the command line

ASSUME LoadTestAssumption ==
  /\ IsFiniteSet(Thread)
  /\ NAttempts \in Nat
  /\ MaxArgs \in Nat

VARIABLES
  args,       \* the options getopt_long() has not looked at
  wanted,     \* history: --run-server was among the options
  config,     \* client_type and run_server
  mpc,        \* where main() is
  pid,        \* server_pid: "none", "pid" or "-1" (POSIX), "handle" (Windows)
  tpc,        \* per thread: where it is
  attempts,   \* per thread: attempts done
  output,     \* per thread: result.output of the attempt
  echoed,     \* history: attempts whose response was the string sent
  results,    \* results: how many of each output
  status      \* "none", "success", "failure", or "aborted" (std::terminate)

mainVars == <<args, wanted, config, mpc, pid, status>>
attemptVars == <<tpc, attempts, output, echoed, results>>
vars == <<setupVars, serverVars, mainVars, attemptVars>>

Option == {"-t", "-s", "-r", "--run-server", "-h"}

Output == {"Success", "Timeout", "Incorrect", "FailedToConnect"}

Init ==
  /\ SetupInit
  /\ ServerStartInit
  /\ args \in UNION {[1 .. n -> Option] : n \in 0 .. MaxArgs}
  /\ wanted = \E k \in DOMAIN args : args[k] = "--run-server"
  /\ config = [client_type |-> "None", run_server |-> FALSE]
  /\ mpc = "args"
  /\ pid = "none"
  /\ status = "none"
  /\ tpc = [t \in Thread |-> "off"]
  /\ attempts = [t \in Thread |-> 0]
  /\ output = [t \in Thread |-> "none"]
  /\ echoed = 0
  /\ results = [o \in Output |-> 0]

----------------------------------------------------------------------------
(* main(), up to the threads. *)

ExitWith(s) == status' = s /\ mpc' = "exit"

\* -t and -s exclude each other.
TypeOption ==
  /\ mpc = "args"
  /\ args # <<>>
  /\ Head(args) \in {"-t", "-s"}
  /\ args' = Tail(args)
  /\ IF config.client_type # "None"
     THEN ExitWith("failure") /\ UNCHANGED config
     ELSE /\ config' = [config EXCEPT !.client_type =
                          IF Head(args) = "-t" THEN "TCP" ELSE "SSL"]
          /\ UNCHANGED <<mpc, status>>
  /\ UNCHANGED <<setupVars, serverVars, wanted, pid, attemptVars>>

\* --run-server is declared with required_argument: it takes the next option
\* for its argument, and is reported as '?' and ignored if there is none.
ServerOption ==
  /\ mpc = "args"
  /\ args # <<>>
  /\ Head(args) \in {"-r", "--run-server"}
  /\ \/ /\ Head(args) = "-r"
        /\ config' = [config EXCEPT !.run_server = TRUE]
        /\ args' = Tail(args)
     \/ /\ Head(args) = "--run-server" /\ Len(args) > 1
        /\ config' = [config EXCEPT !.run_server = TRUE]
        /\ args' = Tail(Tail(args))
     \/ /\ Head(args) = "--run-server" /\ Len(args) = 1
        /\ args' = <<>>
        /\ UNCHANGED config
  /\ UNCHANGED <<setupVars, serverVars, wanted, mpc, pid, status, attemptVars>>

\* show_help() itself exits, with EXIT_FAILURE.
HelpOption ==
  /\ mpc = "args"
  /\ args # <<>>
  /\ Head(args) = "-h"
  /\ ExitWith("failure")
  /\ UNCHANGED <<setupVars, serverVars, args, wanted, config, pid, attemptVars>>

\* parse_args() returns, or exits for want of a client type.
EndArgs ==
  /\ mpc = "args"
  /\ args = <<>>
  /\ IF config.client_type = "None"
     THEN ExitWith("failure")
     ELSE /\ mpc' = IF config.run_server THEN "server" ELSE "threads"
          /\ UNCHANGED status
  /\ UNCHANGED <<setupVars, serverVars, args, wanted, config, pid, attemptVars>>

\* run_server(): fork(), or CreateProcess on Windows.  The parent sleeps for
\* 300 ms, however far the child has come by then.
RunServer ==
  /\ mpc = "server"
  /\ pid' \in {"pid", "handle"}
  /\ proc' = "exec"
  /\ mpc' = "threads"
  /\ UNCHANGED <<setupVars, addr, sockets, doomed, foreign,
                 args, wanted, config, status, attemptVars>>

\* fork() returns -1 and run_server() takes it for a process; CreateProcess
\* fails and run_server() throws.
RunServerFails ==
  /\ mpc = "server"
  /\ \/ pid' = "-1" /\ mpc' = "threads" /\ UNCHANGED status
     \/ ExitWith("aborted") /\ UNCHANGED pid
  /\ UNCHANGED <<setupVars, serverVars, args, wanted, config, attemptVars>>

StartThreads ==
  /\ mpc = "threads"
  /\ tpc' = [t \in Thread |-> "attempt"]
  /\ mpc' = "join"
  /\ UNCHANGED <<setupVars, serverVars, args, wanted, config, pid, status,
                 attempts, output, echoed, results>>

----------------------------------------------------------------------------
(* The threads. *)

Running(t, l) == status = "none" /\ tpc[t] = l

Step(t, l) == tpc' = [tpc EXCEPT ![t] = l]

StartAttempt(t) ==
  /\ Running(t, "attempt")
  /\ attempts[t] < NAttempts
  /\ Goto(t, "resolve", 0)
  /\ Step(t, "create")
  /\ UNCHANGED <<open, leaked, ctxVars, serverVars, mainVars, attempts, output, echoed, results>>

CreateClient(t) ==
  /\ Running(t, "create")
  /\ SetupStep(t, config.client_type = "SSL", Accepting)
  /\ UNCHANGED <<serverVars, mainVars, attemptVars>>

\* The server answers the handshake, or has gone.
ShakeHands(t) ==
  /\ Running(t, "create")
  /\ Serving \/ ~Accepting
  /\ Handshake(t)
  /\ UNCHANGED <<serverVars, mainVars, attemptVars>>

\* The exception of create_client() is caught: goto skip.
CreateFails(t) ==
  /\ Running(t, "create")
  /\ cpc[t] = "thrown"
  /\ output' = [output EXCEPT ![t] = "FailedToConnect"]
  /\ Step(t, "record")
  /\ UNCHANGED <<setupVars, serverVars, mainVars, attempts, echoed, results>>

Send(t) ==
  /\ Running(t, "create")
  /\ cpc[t] = "ready"
  /\ Step(t, "recv")
  /\ UNCHANGED <<setupVars, serverVars, mainVars, attempts, output, echoed, results>>

\* An exception of send() or recv_spinlock() leaves the thread: terminate.
Throws(t) ==
  /\ Running(t, "recv") \/ (Running(t, "create") /\ cpc[t] = "ready")
  /\ ExitWith("aborted")
  /\ UNCHANGED <<setupVars, serverVars, args, wanted, config, pid, attemptVars>>

\* Fault: a response is a success whatever it says.
OutputOf_any(r) == IF r = "none" THEN "Timeout" ELSE "Success"

\* r: the string that was sent, another of its length, or none in 30 s.
OutputOf(r) ==
  CASE r = "echo" -> "Success" [] r = "none" -> "Timeout" [] OTHER -> "Incorrect"

Receive(t, r) ==
  /\ Running(t, "recv")
  /\ output' = [output EXCEPT ![t] = OutputOf(r)]
  /\ echoed' = IF r = "echo" THEN echoed + 1 ELSE echoed
  /\ Step(t, "record")
  /\ UNCHANGED <<setupVars, serverVars, mainVars, attempts, results>>

\* Fault: no lock_guard, and the entry of another thread overwrites this.
Recorded_unlocked(t) ==
  IF \E u \in Thread \ {t} : tpc[u] = "record" THEN results
  ELSE [results EXCEPT ![output[t]] = @ + 1]

\* results.emplace_back() under the mutex.
Recorded(t) == [results EXCEPT ![output[t]] = @ + 1]

\* The result is added, then the client is destroyed.
Record(t) ==
  /\ Running(t, "record")
  /\ results' = Recorded(t)
  /\ output' = [output EXCEPT ![t] = "none"]
  /\ Step(t, "attempt")
  /\ attempts' = [attempts EXCEPT ![t] = @ + 1]
  /\ open' = IF cpc[t] = "ready" THEN Closed(t) ELSE open
  /\ Goto(t, "none", 0)
  /\ UNCHANGED <<leaked, ctxVars, serverVars, mainVars, echoed>>

EndThread(t) ==
  /\ Running(t, "attempt")
  /\ attempts[t] = NAttempts
  /\ Step(t, "ended")
  /\ UNCHANGED <<setupVars, serverVars, mainVars, attempts, output, echoed, results>>

----------------------------------------------------------------------------
(* main(), after the threads. *)

Failures == results["Timeout"] + results["Incorrect"] + results["FailedToConnect"]

Verdict == ExitWith(IF Failures > 0 THEN "failure" ELSE "success")

Join ==
  /\ mpc = "join"
  /\ \A t \in Thread : tpc[t] = "ended"
  /\ mpc' = "report"
  /\ UNCHANGED <<setupVars, serverVars, args, wanted, config, pid, status, attemptVars>>

Report ==
  /\ mpc = "report"
  /\ IF config.run_server THEN mpc' = "kill" /\ UNCHANGED status ELSE Verdict
  /\ UNCHANGED <<setupVars, serverVars, args, wanted, config, pid, attemptVars>>

\* kill_server(): SIGTERM, of which the server knows nothing; on Windows a
\* console event that may not reach it.  kill(-1, SIGTERM) goes to every
\* process of the user.
Kill ==
  /\ mpc = "kill"
  /\ mpc' = "reap"
  /\ \/ pid = "pid" /\ doomed' = Alive /\ UNCHANGED foreign
     \/ pid = "handle" /\ doomed' \in {FALSE, Alive} /\ UNCHANGED foreign
     \/ pid = "-1" /\ foreign' \in {foreign, FALSE} /\ UNCHANGED doomed
  /\ UNCHANGED <<setupVars, proc, addr, sockets, args, wanted, config, pid, status,
                 attemptVars>>

\* Windows: the event was not sent, or the server outlived it for 3 s.
Terminate ==
  /\ mpc = "reap"
  /\ pid = "handle"
  /\ Alive /\ ~doomed
  /\ doomed' = TRUE
  /\ UNCHANGED <<setupVars, proc, addr, sockets, foreign, mainVars, attemptVars>>

\* Fault: kill_server() does not wait.
Waited_not == TRUE

\* waitpid(), WaitForSingleObject(): the process is over.
Waited == ~Alive

\* Then the exit status.
Reap ==
  /\ mpc = "reap"
  /\ Waited
  /\ Verdict
  /\ UNCHANGED <<setupVars, serverVars, args, wanted, config, pid, attemptVars>>

----------------------------------------------------------------------------
MainStep ==
  \/ TypeOption \/ ServerOption \/ HelpOption \/ EndArgs
  \/ RunServer \/ RunServerFails \/ StartThreads
  \/ Join \/ Report \/ Kill \/ Terminate \/ Reap

\* What a thread does by itself; recv_spinlock() gives up after 30 s.
ThreadStep(t) ==
  \/ StartAttempt(t) \/ CreateClient(t) \/ CreateFails(t) \/ Send(t) \/ Throws(t)
  \/ \E r \in {"echo", "other", "none"} : Receive(t, r)
  \/ Record(t) \/ EndThread(t)

ChildStep == ServerStep /\ UNCHANGED <<setupVars, mainVars, attemptVars>>

Exited == mpc = "exit" /\ UNCHANGED vars

Next ==
  \/ MainStep
  \/ \E t \in Thread : ThreadStep(t) \/ ShakeHands(t)
  \/ ChildStep
  \/ Exited

Spec == Init /\ [][Next]_vars

\* The threads are scheduled and a signal arrives; nothing makes a server
\* finish the handshake, or its own start.
FairSpec ==
  /\ Spec
  /\ WF_vars(MainStep)
  /\ \A t \in Thread : WF_vars(ThreadStep(t))
  /\ WF_vars(Killed /\ ChildStep)

----------------------------------------------------------------------------
Ran == mpc = "exit" /\ tpc # [t \in Thread |-> "off"] /\ status # "aborted"

\* The exit status is the truth about the server: EXIT_SUCCESS exactly if
\* every attempt of every thread was answered with the string it sent.
VerdictTrue ==
  Ran => (status = "success" <=> echoed = Cardinality(Thread) * NAttempts)

\* "Out of %zu requests": when main() reports there is one result for every
\* attempt, though all threads add theirs to one vector.
AllRecorded ==
  mpc = "report" => results["Success"] + Failures = Cardinality(Thread) * NAttempts

\* Whichever of the calls of its attempts failed, a thread between two of
\* them has no socket open but those that socket_mark_as_nonblocking() left
\* when it threw, and one at work has at most one more.
NoSocketLeft ==
  \A t \in Thread :
    /\ open[t] <= leaked[t] + 1
    /\ status = "none" /\ tpc[t] \in {"attempt", "ended"} => open[t] = leaked[t]

\* However many of the addresses it could not bind to, the server has no
\* socket open but the one of the address it is at, and listens on that.
OneListener ==
  sockets = IF proc \in {"bind", "listen", "setup", "up"} THEN {addr} ELSE {}

\* No client begins its handshake with a context whose CA store another
\* thread is still loading.
ContextLoaded ==
  \A t \in Thread : cpc[t] = "handshake" => ctx = "loaded" \/ noStore

\* The load test ends, and the server it started with it, wherever in its
\* start that was and whether or not the Windows console event reached it;
\* but an abort leaves the server, and a client may wait for its handshake for
\* ever.
Ends ==
  \/ <>[](mpc = "exit" /\ (Alive => status = "aborted"))
  \/ \E t \in Thread : <>[](cpc[t] = "handshake")

\* "-r, --run-server   Execute server": the option makes the load test start
\* a server.
RunServerHonoured == mpc = "join" /\ wanted => config.run_server

============================================================================
