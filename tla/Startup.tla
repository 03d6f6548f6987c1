------------------------------- MODULE Startup -------------------------------
(***************************************************************************)
(* The life of the process (main.cpp), with the constructor and destructor *)
(* of the server on either platform (server_posix.cpp, server_win.cpp):    *)
(* the signal flag, the system calls of the constructor and what each of   *)
(* their error paths undoes, the loop of main and the way down.            *)
(*                                                                         *)
(* What the server threads do in between is the subject of Server, what    *)
(* ~conductor waits for first that of Conductor.                           *)
(***************************************************************************)
EXTENDS Naturals, Sequences

CONSTANTS
  MaxSignals,   \* bound on the signals, or console events, that are sent
  MaxFailures   \* bound on the calls of server::fail

ASSUME StartupAssumption == MaxSignals \in Nat /\ MaxFailures \in Nat

VARIABLES
  platform,     \* WPWRAPPER_POSIX or WPWRAPPER_WIN
  mainPc,       \* the main thread
  keepRunning,  \* keep_running is set
  call,         \* the next system call of server::server
  open,         \* what the server has open
  misused,      \* history: what was closed when it was not open
  running,      \* server::running_
  threads,      \* the server threads have been started and not been joined
  failed,       \* conductor::has_failed, because of the server
  signals, failures,  \* how many there were (bounded)
  crashed       \* how the process was terminated, if main did not return

resourceVars == <<open, misused>>
serverVars   == <<call, resourceVars, running, threads, failed, failures>>
vars == <<platform, mainPc, keepRunning, serverVars, signals, crashed>>

Init ==
  /\ platform \in {"posix", "win"}
  /\ mainPc = "start" /\ keepRunning = FALSE
  /\ call = 1 /\ open = {} /\ misused = {}
  /\ running = FALSE /\ threads = FALSE /\ failed = FALSE
  /\ signals = 0 /\ failures = 0
  /\ crashed = "no"

\* close, closesocket, freeaddrinfo or WSACleanup of everything in S.
CloseAll(S) ==
  /\ open' = open \ S
  /\ misused' = misused \union (S \ open)

(***************************************************************************)
(* The constructor of the server, call by call.                            *)
(***************************************************************************)

\* What a call opens, what its error path closes, and what is freed after it.
Call(opens, onError, frees) == [opens |-> opens, onError |-> onError, frees |-> frees]

Sockets == {"listen", "interrupt0", "interrupt1"}

PosixCalls ==
  << Call({"addr"}, {}, {}),                                   \* getaddrinfo
     Call({"listen"}, {"addr"}, {}),                           \* socket
     Call({}, {"addr", "listen"}, {}),                         \* SO_REUSEADDR
     Call({}, {"addr", "listen"}, {}),                         \* SO_REUSEPORT
     Call({}, {"addr", "listen"}, {}),                         \* FD_CLOEXEC
     Call({}, {"addr", "listen"}, {}),                         \* bind
     Call({}, {"addr", "listen"}, {"addr"}),                   \* getsockname
     Call({}, {"listen"}, {}),                                 \* listen
     Call({"interrupt0"}, {"listen"}, {}),                     \* socket
     Call({"interrupt1"}, {"listen", "interrupt0"}, {}),       \* socket
     Call({"iaddr"}, Sockets, {}),                             \* getaddrinfo
     Call({}, Sockets \union {"iaddr"}, {}),                   \* SO_REUSEADDR
     Call({}, Sockets \union {"iaddr"}, {}),                   \* SO_REUSEPORT
     Call({}, Sockets \union {"iaddr"}, {}),                   \* bind
     Call({}, Sockets \union {"iaddr"}, {"iaddr"}),            \* connect
     Call({}, Sockets, {}),                                    \* FD_CLOEXEC
     Call({}, Sockets, {}) >>                                  \* FD_CLOEXEC

WinCalls ==
  << Call({"winsock"}, {}, {}),                                \* WSAStartup
     Call({"addr"}, {"winsock"}, {}),                          \* getaddrinfo
     Call({"listen"}, {"addr", "winsock"}, {}),                \* socket
     Call({}, {"addr", "listen", "winsock"}, {}),              \* bind
     Call({}, {"addr", "listen", "winsock"}, {"addr"}),        \* getsockname
     Call({}, {"listen", "winsock"}, {}),                      \* listen
     Call({"interrupt0"}, {"listen", "winsock"}, {}),          \* socket
     Call({"interrupt1"}, {"listen", "interrupt0", "winsock"}, {}),  \* socket
     Call({"iaddr"}, Sockets \union {"winsock"}, {}),          \* getaddrinfo
     Call({}, Sockets \union {"iaddr", "winsock"}, {}),        \* bind
     Call({}, Sockets \union {"iaddr", "winsock"}, {}) >>      \* connect

Calls == IF platform = "posix" THEN PosixCalls ELSE WinCalls

InConstructor == mainPc = "construct" /\ call <= Len(Calls)

CallSucceeds ==
  /\ InConstructor
  /\ open' = (open \union Calls[call].opens) \ Calls[call].frees
  /\ call' = call + 1
  /\ UNCHANGED <<platform, mainPc, keepRunning, misused, running, threads, failed, failures,
                 signals, crashed>>

\* Mutant of Undone: the addresses are forgotten.
UndoneSockets == Calls[call].onError \ {"addr", "iaddr"}

Undone == Calls[call].onError

\* The error path throws api_error, and main returns its error number.
CallFails ==
  /\ InConstructor
  /\ CloseAll(Undone)
  /\ mainPc' = "exit"
  /\ UNCHANGED <<platform, keepRunning, call, running, threads, failed, failures, signals,
                 crashed>>

\* On macOS the error codes of getaddrinfo are positive, and only a negative one is
\* looked for: the address is used uninitialized.
ErrorOverlooked ==
  /\ InConstructor /\ platform = "posix"
  /\ Calls[call].opens \cap {"addr", "iaddr"} # {}
  /\ crashed' = "bad_address"
  /\ UNCHANGED <<platform, mainPc, keepRunning, serverVars, signals>>

\* Mutant of StartThreads: test_and_set comes after the constructor.
StartThreadsAndSet ==
  /\ mainPc = "construct" /\ call > Len(Calls)
  /\ running' = TRUE /\ threads' = TRUE
  /\ keepRunning' = TRUE
  /\ mainPc' = "loop"
  /\ UNCHANGED <<platform, call, resourceVars, failed, failures, signals, crashed>>

StartThreads ==
  /\ mainPc = "construct" /\ call > Len(Calls)
  /\ running' = TRUE /\ threads' = TRUE
  /\ mainPc' = "loop"
  /\ UNCHANGED <<platform, keepRunning, call, resourceVars, failed, failures, signals,
                 crashed>>

(***************************************************************************)
(* main.                                                                   *)
(***************************************************************************)

\* sigaction or SetConsoleCtrlHandler.
InstallHandlers ==
  /\ mainPc = "start"
  /\ mainPc' = "configure"
  /\ UNCHANGED <<platform, keepRunning, serverVars, signals, crashed>>

\* An exception of configure_logger is swallowed, and with it the logger that the
\* next line dereferences.
ConfigureLogger ==
  /\ mainPc = "configure"
  /\ \/ mainPc' = "arm" /\ UNCHANGED crashed
     \/ crashed' = "null_logger" /\ UNCHANGED mainPc
  /\ UNCHANGED <<platform, keepRunning, serverVars, signals>>

\* keep_running.test_and_set(): a signal that came before is forgotten.
SetFlag ==
  /\ mainPc = "arm"
  /\ keepRunning' = TRUE
  /\ mainPc' = "construct"
  /\ UNCHANGED <<platform, serverVars, signals, crashed>>

\* The loop, which sets the flag again at every turn.
LoopTest ==
  /\ mainPc = "loop"
  /\ keepRunning' = TRUE
  /\ mainPc' = IF keepRunning /\ ~failed THEN "sleep" ELSE "notify"
  /\ UNCHANGED <<platform, serverVars, signals, crashed>>

Sleep ==
  /\ mainPc = "sleep"
  /\ mainPc' = "loop"
  /\ UNCHANGED <<platform, keepRunning, serverVars, signals, crashed>>

\* notify(), and ~conductor up to the destructor of server_.
Notify ==
  /\ mainPc = "notify"
  /\ mainPc' = "stop"
  /\ UNCHANGED <<platform, keepRunning, serverVars, signals, crashed>>

(***************************************************************************)
(* The destructor of the server, and fail().                               *)
(***************************************************************************)

StopServer ==
  /\ mainPc = "stop"
  /\ running' = FALSE
  /\ CloseAll(IF running THEN {"interrupt1"} ELSE {})
  /\ mainPc' = "join"
  /\ UNCHANGED <<platform, keepRunning, call, threads, failed, failures, signals, crashed>>

\* The three threads end, if they do (Server!DestroyFinishes).
Joined ==
  /\ mainPc = "join"
  /\ threads' = FALSE
  /\ mainPc' = "cleanup"
  /\ UNCHANGED <<platform, keepRunning, call, resourceVars, running, failed, failures,
                 signals, crashed>>

\* Mutant of Cleanup: the sockets are closed with the threads still running.
CleanupBeforeJoin ==
  /\ mainPc = "join"
  /\ CloseAll({"listen", "interrupt0"} \union
              (IF platform = "win" THEN {"winsock"} ELSE {}))
  /\ mainPc' = "exit"
  /\ UNCHANGED <<platform, keepRunning, call, running, threads, failed, failures, signals,
                 crashed>>

Cleanup ==
  /\ mainPc = "cleanup"
  /\ CloseAll({"listen", "interrupt0"} \union
              (IF platform = "win" THEN {"winsock"} ELSE {}))
  /\ mainPc' = "exit"
  /\ UNCHANGED <<platform, keepRunning, call, running, threads, failed, failures, signals,
                 crashed>>

\* Mutant of ServerFails: both interrupt sockets are closed.
ServerFailsClosesBoth ==
  /\ threads /\ failures < MaxFailures
  /\ running' = FALSE
  /\ CloseAll({"interrupt0", "interrupt1"})
  /\ failed' = TRUE
  /\ failures' = failures + 1
  /\ UNCHANGED <<platform, mainPc, keepRunning, call, threads, signals, crashed>>

\* fail() of a server thread, and on_failure.
ServerFails ==
  /\ threads /\ failures < MaxFailures
  /\ running' = FALSE
  /\ CloseAll({"interrupt0"})
  /\ failed' = TRUE
  /\ failures' = failures + 1
  /\ UNCHANGED <<platform, mainPc, keepRunning, call, threads, signals, crashed>>

(***************************************************************************)
(* Signals.                                                                *)
(***************************************************************************)

\* signal_handler or console_handler; before it is installed, the default action.
Signal ==
  /\ mainPc # "exit" /\ signals < MaxSignals
  /\ signals' = signals + 1
  /\ IF mainPc = "start" THEN crashed' = "signal" /\ UNCHANGED keepRunning
     ELSE keepRunning' = FALSE /\ UNCHANGED crashed
  /\ UNCHANGED <<platform, mainPc, serverVars>>

\* CTRL_CLOSE_EVENT: Windows ends the process when the handler has returned.
CloseConsole ==
  /\ platform = "win" /\ mainPc \notin {"start", "exit"} /\ signals < MaxSignals
  /\ signals' = signals + 1
  /\ keepRunning' = FALSE
  /\ crashed' = "console_closed"
  /\ UNCHANGED <<platform, mainPc, serverVars>>

(***************************************************************************)
(* The specification.                                                      *)
(***************************************************************************)

MainStep ==
  \/ InstallHandlers \/ ConfigureLogger \/ SetFlag
  \/ CallSucceeds \/ CallFails \/ ErrorOverlooked \/ StartThreads
  \/ LoopTest \/ Sleep \/ Notify \/ StopServer \/ Cleanup

Next ==
  /\ crashed = "no"
  /\ MainStep \/ Joined \/ ServerFails \/ Signal \/ CloseConsole

Spec == Init /\ [][Next]_vars

\* The main thread runs.  The server threads need not end.
FairSpec == Spec /\ WF_vars(crashed = "no" /\ MainStep)

(***************************************************************************)
(* Properties.                                                             *)
(***************************************************************************)

\* When main returns, the server has left nothing open, on whichever error path of
\* its constructor: with two exceptions after it has run, the end of the interrupt
\* sockets that ~server only closes if no thread has failed (server_posix.cpp:220,
\* server_win.cpp:176), and the second address on Windows (server_win.cpp:154).
NothingLeftOpen ==
  mainPc = "exit" =>
    IF call <= Len(Calls) THEN open = {}
    ELSE open \subseteq (IF failed THEN {"interrupt1"} ELSE {})
                        \union (IF platform = "win" THEN {"iaddr"} ELSE {})

\* Nothing is closed twice but the socket that fail() closes: by the destructor, or
\* by the failure of a second thread.
OnlyFailureClosesTwice == misused \subseteq (IF failed THEN {"interrupt0"} ELSE {})

\* A server thread never polls or accepts on a socket that main has closed.
ThreadsHaveSockets ==
  threads =>
    /\ "listen" \in open
    /\ ~failed => "interrupt0" \in open

\* A signal that comes after the flag was set first, and a failure of the server, ends
\* the loop of main, also when it comes while the server is still being constructed;
\* signals before that are forgotten (main.cpp:110).
StopIsObeyed ==
  (mainPc \in {"construct", "loop", "sleep"} /\ (~keepRunning \/ failed)) ~>
    (mainPc \in {"stop", "join", "cleanup", "exit"} \/ crashed # "no")
=============================================================================
