---------------------------- MODULE StartupProofs ----------------------------
(***************************************************************************)
(* Theorems about module Startup: what is open when main returns, what is  *)
(* closed twice, and that the server threads have their sockets, for every *)
(* bound on the signals and on the failures.                               *)
(***************************************************************************)
EXTENDS Startup, TLAPS

(***************************************************************************)
(* The inductive invariant.                                                *)
(***************************************************************************)

\* The main thread has not left the constructor of the server.
Constructing == {"start", "configure", "arm", "construct"}

\* The server runs, or is on its way to its destructor.
Serving == {"loop", "sleep", "notify", "stop"}

Stopping == {"join", "cleanup"}

TypeInv ==
  /\ platform \in {"posix", "win"}
  /\ mainPc \in Constructing \union Serving \union Stopping \union {"exit"}
  /\ call \in 1 .. Len(Calls) + 1
  /\ running \in BOOLEAN /\ threads \in BOOLEAN /\ failed \in BOOLEAN

\* What a constructor that has made all its calls has open.
Complete == Sockets \union (IF platform = "win" THEN {"winsock", "iaddr"} ELSE {})

\* What is open before a call is exactly what the error path of the call closes.
ConstructorInv ==
  mainPc \in Constructing =>
    /\ mainPc # "construct" => call = 1
    /\ open = IF call <= Len(Calls) THEN Calls[call].onError ELSE Complete
    /\ ~threads /\ ~failed

\* Past the constructor only fail(), until the destructor, closes anything, and
\* running_ tells whether it did.
ServingInv ==
  mainPc \in Serving =>
    /\ call > Len(Calls)
    /\ threads
    /\ running = ~failed
    /\ open = IF failed THEN Complete \ {"interrupt0"} ELSE Complete

\* In the destructor one end of the interrupt sockets is closed, by the destructor
\* or by fail(); a thread that has not ended yet may close the other one.
StoppingInv ==
  mainPc \in Stopping =>
    /\ call > Len(Calls)
    /\ open \subseteq Complete
    /\ {"listen"} \union (IF platform = "win" THEN {"winsock"} ELSE {}) \subseteq open
    /\ ~failed => "interrupt0" \in open /\ "interrupt1" \notin open
    /\ mainPc = "cleanup" => ~threads

ExitInv == mainPc = "exit" => ~threads /\ NothingLeftOpen

IInv ==
  TypeInv /\ ConstructorInv /\ ServingInv /\ StoppingInv /\ ExitInv
  /\ OnlyFailureClosesTwice

(***************************************************************************)
(* The tables of system calls.                                             *)
(***************************************************************************)

\* The error path of the first call closes nothing, as nothing is open.
LEMMA FirstCall == Len(Calls) \in Nat \ {0} /\ Calls[1].onError = {}
BY DEF Calls, PosixCalls, WinCalls, Call

\* The error path of a call closes what was open before it: what the error path of
\* the previous call closes, and what that call has opened, without what was freed
\* in between (server_posix.cpp, server_win.cpp: the constructors).
LEMMA ErrorPathsFollow ==
  ASSUME platform \in {"posix", "win"}, NEW k \in 1 .. Len(Calls)
  PROVE  (Calls[k].onError \union Calls[k].opens) \ Calls[k].frees
           = IF k + 1 <= Len(Calls) THEN Calls[k + 1].onError ELSE Complete
<1>1. CASE platform = "posix"
  <2> DEFINE After(j) == (PosixCalls[j].onError \union PosixCalls[j].opens)
                           \ PosixCalls[j].frees
             Follows(j) == After(j) = PosixCalls[j + 1].onError
  <2>1. Len(Calls) = 17 /\ Calls = PosixCalls /\ Complete = Sockets
    BY <1>1 DEF Calls, PosixCalls, Complete
  <2>2. Follows(1) /\ Follows(2) /\ Follows(3) /\ Follows(4) /\ Follows(5) /\ Follows(6)
    BY DEF PosixCalls, Call, Sockets
  <2>3. Follows(7) /\ Follows(8) /\ Follows(9) /\ Follows(10) /\ Follows(11)
    BY DEF PosixCalls, Call, Sockets
  <2>4. Follows(12) /\ Follows(13) /\ Follows(14) /\ Follows(15) /\ Follows(16)
    BY DEF PosixCalls, Call, Sockets
  <2>5. After(17) = Sockets
    BY DEF PosixCalls, Call, Sockets
  <2> HIDE DEF Follows
  <2>6. ASSUME k # 17 PROVE Follows(k)
    <3>1. k \in 1 .. 16
      BY <2>1, <2>6
    <3> QED
      BY <2>2, <2>3, <2>4, <3>1
  <2> QED
    BY <2>1, <2>5, <2>6 DEF Follows
<1>2. CASE platform = "win"
  <2>1. Len(Calls) = 11 /\ Calls = WinCalls
    BY <1>2 DEF Calls, WinCalls
  <2>2. k \in 1 .. 11
    BY <2>1
  <2> QED
    BY <1>2, <2>1, <2>2 DEF WinCalls, Call, Sockets, Complete
<1> QED
  BY <1>1, <1>2

(***************************************************************************)
(* The main thread.                                                        *)
(***************************************************************************)

LEMMA Initially == Init => IInv
<1> SUFFICES ASSUME Init PROVE IInv
  OBVIOUS
<1>1. call \in 1 .. Len(Calls) + 1
  BY FirstCall DEF Init
<1>2. TypeInv
  BY <1>1 DEF Init, TypeInv, Constructing
<1>3. ConstructorInv
  BY FirstCall DEF Init, ConstructorInv
<1> QED
  BY <1>2, <1>3
     DEF Init, IInv, ServingInv, StoppingInv, ExitInv, Serving, Stopping,
         OnlyFailureClosesTwice

\* The table of calls is that of the platform.
LEMMA SameCalls ==
  ASSUME UNCHANGED platform
  PROVE  Calls' = Calls /\ Complete' = Complete
BY DEF Calls, Complete, PosixCalls, WinCalls

\* A call of the constructor, whether it succeeds or fails.
LEMMA ConstructorSteps ==
  ASSUME IInv, CallSucceeds \/ CallFails \/ ErrorOverlooked \/ StartThreads
  PROVE  IInv'
<1> USE DEF IInv, TypeInv, Constructing, Serving, Stopping
<1>1. UNCHANGED platform /\ Calls' = Calls /\ Complete' = Complete
  BY SameCalls DEF CallSucceeds, CallFails, ErrorOverlooked, StartThreads, serverVars
<1>2. Len(Calls) \in Nat
  BY DEF Calls, PosixCalls, WinCalls
<1>3. CASE CallSucceeds
  <2>1. call \in 1 .. Len(Calls)
    BY <1>2, <1>3 DEF CallSucceeds, InConstructor
  <2>2. open' = IF call' <= Len(Calls) THEN Calls[call'].onError ELSE Complete
    BY <1>3, <2>1, ErrorPathsFollow DEF CallSucceeds, InConstructor, ConstructorInv
  <2> QED
    BY <1>1, <1>2, <1>3, <2>1, <2>2
       DEF CallSucceeds, InConstructor, ConstructorInv, ServingInv, StoppingInv, ExitInv,
           OnlyFailureClosesTwice
<1>4. CASE CallFails
  <2>1. open' = {} /\ misused' = misused
    BY <1>4 DEF CallFails, InConstructor, CloseAll, Undone, ConstructorInv
  <2> QED
    BY <1>1, <1>4, <2>1
       DEF CallFails, InConstructor, ConstructorInv, ServingInv, StoppingInv, ExitInv,
           NothingLeftOpen, OnlyFailureClosesTwice
<1>5. CASE ErrorOverlooked
  BY <1>1, <1>5
     DEF ErrorOverlooked, serverVars, resourceVars, ConstructorInv, ServingInv, StoppingInv,
         ExitInv, NothingLeftOpen, OnlyFailureClosesTwice
<1>6. CASE StartThreads
  <2>1. open = Complete /\ ~failed
    BY <1>2, <1>6 DEF StartThreads, ConstructorInv
  <2> QED
    BY <1>1, <1>6, <2>1
       DEF StartThreads, resourceVars, ConstructorInv, ServingInv, StoppingInv, ExitInv,
           OnlyFailureClosesTwice
<1> QED
  BY <1>3, <1>4, <1>5, <1>6

\* The steps of main around the constructor and the destructor.
LEMMA MainSteps ==
  ASSUME IInv,
         InstallHandlers \/ ConfigureLogger \/ SetFlag \/ LoopTest \/ Sleep \/ Notify
  PROVE  IInv'
<1> USE DEF IInv, TypeInv, Constructing, Serving, Stopping, serverVars, resourceVars
<1>1. UNCHANGED <<platform, serverVars>> /\ Calls' = Calls /\ Complete' = Complete
  BY SameCalls DEF InstallHandlers, ConfigureLogger, SetFlag, LoopTest, Sleep, Notify
<1>2. \/ mainPc \in Constructing /\ mainPc' \in Constructing
         /\ (mainPc # "construct" \/ mainPc' = mainPc)
      \/ mainPc \in Serving /\ mainPc' \in Serving
  BY DEF InstallHandlers, ConfigureLogger, SetFlag, LoopTest, Sleep, Notify
<1>3. mainPc' # "construct" => mainPc # "construct" \/ mainPc' \in Serving
  BY <1>2
<1> QED
  BY <1>1, <1>2, <1>3
     DEF ConstructorInv, ServingInv, StoppingInv, ExitInv, OnlyFailureClosesTwice

(***************************************************************************)
(* The way down.                                                           *)
(***************************************************************************)

LEMMA DestructorSteps ==
  ASSUME IInv, StopServer \/ Joined \/ Cleanup
  PROVE  IInv'
<1> USE DEF IInv, TypeInv, Constructing, Serving, Stopping, resourceVars
<1>1. UNCHANGED platform /\ Calls' = Calls /\ Complete' = Complete
  BY SameCalls DEF StopServer, Joined, Cleanup
<1>2. CASE StopServer
  BY <1>1, <1>2
     DEF StopServer, CloseAll, Complete, Sockets, ConstructorInv, ServingInv, StoppingInv,
         ExitInv, OnlyFailureClosesTwice
<1>3. CASE Joined
  BY <1>1, <1>3
     DEF Joined, ConstructorInv, ServingInv, StoppingInv, ExitInv, OnlyFailureClosesTwice
<1>4. CASE Cleanup
  <2>1. misused' \subseteq IF failed THEN {"interrupt0"} ELSE {}
    BY <1>4 DEF Cleanup, CloseAll, StoppingInv, OnlyFailureClosesTwice
  <2>2. NothingLeftOpen'
    BY <1>1, <1>4
       DEF Cleanup, CloseAll, StoppingInv, NothingLeftOpen, Complete, Sockets
  <2> QED
    BY <1>1, <1>4, <2>1, <2>2
       DEF Cleanup, ConstructorInv, ServingInv, StoppingInv, ExitInv, OnlyFailureClosesTwice
<1> QED
  BY <1>2, <1>3, <1>4

\* fail() runs on a server thread, at any time while one runs.
LEMMA FailureStep == ASSUME IInv, ServerFails PROVE IInv'
<1> USE DEF IInv, TypeInv, Constructing, Serving, Stopping
<1>1. UNCHANGED platform /\ Calls' = Calls /\ Complete' = Complete
  BY SameCalls DEF ServerFails
<1>2. mainPc \in Serving \union {"join"}
  BY DEF ServerFails, ConstructorInv, StoppingInv, ExitInv
<1>3. open' = open \ {"interrupt0"} /\ misused' \subseteq {"interrupt0"} /\ failed'
  BY DEF ServerFails, CloseAll, OnlyFailureClosesTwice
<1>4. ConstructorInv' /\ ExitInv'
  BY <1>2 DEF ServerFails, ConstructorInv, ExitInv
<1>5. ServingInv' /\ StoppingInv'
  BY <1>1, <1>2, <1>3 DEF ServerFails, ServingInv, StoppingInv
<1> QED
  BY <1>1, <1>3, <1>4, <1>5 DEF ServerFails, OnlyFailureClosesTwice

\* A signal changes only the flag, or ends the process.
LEMMA SignalSteps == ASSUME IInv, Signal \/ CloseConsole PROVE IInv'
<1>1. UNCHANGED <<platform, mainPc, serverVars>> /\ Calls' = Calls /\ Complete' = Complete
  BY SameCalls DEF Signal, CloseConsole
<1> QED
  BY <1>1
     DEF serverVars, resourceVars, IInv, TypeInv, ConstructorInv, ServingInv, StoppingInv,
         ExitInv, NothingLeftOpen, OnlyFailureClosesTwice

(***************************************************************************)
(* The invariant and what it implies.                                      *)
(***************************************************************************)

\* IInv holds in every state of the process.
THEOREM Inductive == Spec => []IInv
<1>1. Init => IInv
  BY Initially
<1>2. IInv /\ [Next]_vars => IInv'
  <2> SUFFICES ASSUME IInv, [Next]_vars PROVE IInv'
    OBVIOUS
  <2>1. CASE MainStep
    BY <2>1, ConstructorSteps, MainSteps, DestructorSteps DEF MainStep
  <2>2. CASE Joined
    BY <2>2, DestructorSteps
  <2>3. CASE ServerFails
    BY <2>3, FailureStep
  <2>4. CASE Signal \/ CloseConsole
    BY <2>4, SignalSteps
  <2>5. CASE UNCHANGED vars
    <3>1. Calls' = Calls /\ Complete' = Complete
      BY <2>5, SameCalls DEF vars
    <3> QED
      BY <2>5, <3>1
         DEF vars, serverVars, resourceVars, IInv, TypeInv, ConstructorInv, ServingInv,
             StoppingInv, ExitInv, NothingLeftOpen, OnlyFailureClosesTwice
  <2> QED
    BY <2>1, <2>2, <2>3, <2>4, <2>5 DEF Next
<1> QED
  BY <1>1, <1>2, PTL DEF Spec

\* Whichever system call of the constructor fails, and however the process is ended
\* later, main returns with nothing left open but the two known exceptions.
THEOREM NothingIsLeftOpen == Spec => []NothingLeftOpen
<1>1. IInv => NothingLeftOpen
  BY DEF IInv, ExitInv, NothingLeftOpen
<1> QED
  BY <1>1, Inductive, PTL

\* Only interrupt_[0] is ever closed twice, and only after a failure.
THEOREM OnlyAFailureClosesTwice == Spec => []OnlyFailureClosesTwice
<1>1. IInv => OnlyFailureClosesTwice
  BY DEF IInv
<1> QED
  BY <1>1, Inductive, PTL

\* While a server thread runs, the socket it accepts on is open, and so is the one it
\* is interrupted by unless a server thread has failed.
THEOREM ThreadsAlwaysHaveSockets == Spec => []ThreadsHaveSockets
<1>1. IInv => ThreadsHaveSockets
  BY DEF IInv, TypeInv, Constructing, Serving, Stopping, ConstructorInv, ServingInv,
         StoppingInv, ExitInv, ThreadsHaveSockets, Complete, Sockets
<1> QED
  BY <1>1, Inductive, PTL
=============================================================================
