---------------------------- MODULE WorkersProofs ----------------------------
(***************************************************************************)
(* What holds of any number of workers, whatever fails: the safety         *)
(* invariants of Workers and its refinement of SertopInput, for every      *)
(* value of its constants.                                                 *)
(*                                                                         *)
(* A step is abstracted to what it does to the one worker it is of, as     *)
(* far as the invariant looks at it: a move of a thread or of sertop       *)
(* (ThreadStep), of its process (ProcessStep), of the destructor           *)
(* (DestructorMove), a constructor (BirthStep), and the steps that open    *)
(* or close handles one by one (StepOf).  That each keeps the invariant is *)
(* proved once, and then that each action is such a step.                  *)
(* The refinement has an invariant of its own (FlowInv): where each piece  *)
(* of a message is between the queue and sertop.                           *)
(***************************************************************************)
EXTENDS Workers, SequenceTheorems, FiniteSetTheorems, TLAPS

(***************************************************************************)
(* One worker at a time.                                                   *)
(***************************************************************************)

WorkersType == worker \in [Ids -> WorkerRecord]

\* The record of worker i becomes w.
Becomes(i, w) == worker' = [worker EXCEPT ![i] = w]

\* The other records stay.
LEMMA BecomesFacts ==
  ASSUME WorkersType, NEW i \in Ids, NEW w \in WorkerRecord, Becomes(i, w)
  PROVE  /\ WorkersType' /\ worker'[i] = w
         /\ \A j \in Ids : j # i => worker'[j] = worker[j]
BY DEF WorkersType, Becomes

Running(s) == s \notin {"none", "done"}

\* What the two threads and sertop may do to a record that becomes v: nothing to its
\* life, its process and what that holds; no thread starts or comes back.
ThreadMove(w, v) ==
  /\ v.life = w.life /\ v.sertop = w.sertop /\ v.lost = w.lost /\ v.holds = w.holds
  /\ v.reader = w.reader \/ (Running(w.reader) /\ v.reader # "none")
  /\ \/ v.writer = w.writer
     \/ Running(w.writer) /\ w.writer # "join" /\ v.writer \notin {"none", "join"}
  /\ v.fails >= w.fails

\* What the process of a worker may do: start or end, and close what it holds.
ProcessMove(w, v) ==
  /\ v.life = w.life /\ v.reader = w.reader /\ v.writer = w.writer
  /\ v.fails = w.fails /\ v.lost = w.lost
  /\ w.sertop \in {"forked", "running"} /\ v.sertop # "forked"

\* All that matters here but the life.
Alike(w, v) ==
  /\ v.reader = w.reader /\ v.writer = w.writer /\ v.fails = w.fails
  /\ v.sertop = w.sertop /\ v.lost = w.lost /\ v.holds = w.holds

(***************************************************************************)
(* Records.                                                                *)
(***************************************************************************)

\* CancelIoEx moves only a blocked writer.
LEMMA CancelledFacts ==
  ASSUME NEW w \in WorkerRecord
  PROVE  /\ Cancelled(w) \in WorkerRecord /\ ThreadMove(w, Cancelled(w))
         /\ Cancelled(w).reader = w.reader /\ Cancelled(w).fails = w.fails
         /\ w.writer # "blocked" => Cancelled(w).writer = w.writer
<1> DEFINE r == IF w.read = "pending" THEN "aborted" ELSE w.read
           s == IF w.writer = "blocked" /\ w.pipe # <<>> THEN "aborted" ELSE w.writer
           v == [w EXCEPT !.read = r, !.writer = s, !.pipe = <<>>]
<1>1. <<>> \in Seq(Piece)
  BY EmptySeq
<1>2. /\ r \in {"none", "pending", "done", "aborted"}
      /\ s \in {"none", "wait", "write", "blocked", "aborted", "fail", "join", "done"}
      /\ s = w.writer \/ (w.writer = "blocked" /\ s = "aborted")
  <2>1. /\ w.read \in {"none", "pending", "done", "aborted"}
        /\ w.writer \in {"none", "wait", "write", "blocked", "aborted", "fail", "join", "done"}
    BY DEF WorkerRecord
  <2> QED
    BY <2>1
<1>3. Cancelled(w) = v
  BY DEF Cancelled, WorkerRecord
<1> HIDE DEF r, s
<1>4. v \in WorkerRecord
  <2> DEFINE u == [w EXCEPT !.read = r, !.writer = s]
  <2>1. u \in WorkerRecord
    <3> DEFINE t == [w EXCEPT !.read = r]
    <3>1. t \in WorkerRecord
      BY <1>2 DEF WorkerRecord
    <3>2. u = [t EXCEPT !.writer = s]
      BY DEF WorkerRecord
    <3> HIDE DEF t, u
    <3> QED
      BY <1>2, <3>1, <3>2 DEF WorkerRecord
  <2>2. v = [u EXCEPT !.pipe = <<>>]
    BY DEF WorkerRecord
  <2> HIDE DEF u, v
  <2> QED
    BY <1>1, <2>1, <2>2 DEF WorkerRecord
<1>5. /\ v.life = w.life /\ v.sertop = w.sertop /\ v.lost = w.lost /\ v.holds = w.holds
      /\ v.reader = w.reader /\ v.fails = w.fails /\ v.writer = s /\ w.fails \in Nat
  BY DEF WorkerRecord
<1> HIDE DEF v
<1>6. ThreadMove(w, v)
  <2>1. v.reader = w.reader /\ v.fails >= w.fails
    BY <1>5
  <2>2. v.writer = w.writer \/ (Running(w.writer) /\ w.writer # "join"
                                /\ v.writer \notin {"none", "join"})
    BY <1>2, <1>5 DEF Running
  <2> QED
    BY <1>5, <2>1, <2>2 DEF ThreadMove
<1> QED
  BY <1>2, <1>3, <1>4, <1>5, <1>6

\* fail() is counted, and clears running_.
LEMMA FailingFacts ==
  ASSUME NEW w \in WorkerRecord
  PROVE  /\ Failing(w) \in WorkerRecord /\ ThreadMove(w, Failing(w))
         /\ Failing(w).reader = w.reader /\ Failing(w).fails > 0
<1> DEFINE c == Cancelled(w)
           n == c.fails + 1
           v == [c EXCEPT !.running = FALSE, !.signalled = TRUE, !.fails = n]
<1>1. c \in WorkerRecord /\ ThreadMove(w, c) /\ c.reader = w.reader
  BY CancelledFacts
<1>2. Failing(w) = v
  BY <1>1 DEF Failing, WorkerRecord
<1> HIDE DEF c
<1>3. c.fails \in Nat /\ n \in Nat /\ n > c.fails /\ w.fails \in Nat
  BY <1>1 DEF WorkerRecord
<1> HIDE DEF n
<1>4. v \in WorkerRecord
  BY <1>1, <1>3 DEF WorkerRecord
<1>5. /\ v.life = c.life /\ v.sertop = c.sertop /\ v.lost = c.lost /\ v.holds = c.holds
      /\ v.reader = c.reader /\ v.fails = n /\ v.writer = c.writer
  BY <1>1 DEF WorkerRecord
<1> HIDE DEF v
<1>6. v.fails > 0 /\ v.fails >= w.fails
  BY <1>1, <1>3, <1>5 DEF ThreadMove
<1> QED
  BY <1>1, <1>2, <1>4, <1>5, <1>6 DEF ThreadMove

\* The destructor returns.
LEMMA GoneFacts ==
  ASSUME NEW w \in WorkerRecord
  PROVE  Gone(w) \in WorkerRecord /\ Gone(w).life = "destroyed" /\ Alike(w, Gone(w))
<1>1. <<>> \in Seq(Piece) /\ <<>> \in Seq(Messages)
  BY EmptySeq
<1> QED
  BY <1>1 DEF WorkerRecord, Gone, Alike

(***************************************************************************)
(* Messages and their pieces.                                              *)
(***************************************************************************)

BudgetType ==
  /\ budget \in [messages : Nat, prints : Nat, failures : Nat]
  /\ \E b \in Budgets : budget.messages <= b.messages

\* The messages of a behaviour are named by its budget.
LEMMA SpendFacts ==
  ASSUME BudgetType, NEW what \in {"messages", "prints", "failures"}, Spend(what)
  PROVE  BudgetType' /\ (what = "messages" => budget.messages \in Messages)
<1>1. budget.messages \in Nat /\ budget.prints \in Nat /\ budget.failures \in Nat
  BY DEF BudgetType
<1>2. PICK b \in Budgets : budget.messages <= b.messages
  BY DEF BudgetType
<1>3. b.messages \in Nat
  BY WorkerAssumption
<1>4. CASE what = "messages"
  <2> DEFINE n == budget.messages - 1
  <2>1. n \in Nat /\ n <= b.messages /\ budget.messages \in 1 .. b.messages
    BY <1>1, <1>2, <1>3, <1>4 DEF Spend
  <2>2. budget' = [budget EXCEPT !.messages = n]
    BY <1>4 DEF Spend
  <2> HIDE DEF n
  <2>3. budget' \in [messages : Nat, prints : Nat, failures : Nat] /\ budget'.messages = n
    BY <2>1, <2>2 DEF BudgetType
  <2> QED
    BY <2>1, <2>3 DEF BudgetType, Messages
<1>5. CASE what = "prints"
  <2> DEFINE n == budget.prints - 1
  <2>1. n \in Nat
    BY <1>1, <1>5 DEF Spend
  <2>2. budget' = [budget EXCEPT !.prints = n]
    BY <1>5 DEF Spend
  <2> HIDE DEF n
  <2>3. /\ budget' \in [messages : Nat, prints : Nat, failures : Nat]
        /\ budget'.messages = budget.messages
    BY <2>1, <2>2 DEF BudgetType
  <2> QED
    BY <1>2, <1>5, <2>3 DEF BudgetType
<1>6. CASE what = "failures"
  <2> DEFINE n == budget.failures - 1
  <2>1. n \in Nat
    BY <1>1, <1>6 DEF Spend
  <2>2. budget' = [budget EXCEPT !.failures = n]
    BY <1>6 DEF Spend
  <2> HIDE DEF n
  <2>3. /\ budget' \in [messages : Nat, prints : Nat, failures : Nat]
        /\ budget'.messages = budget.messages
    BY <2>1, <2>2 DEF BudgetType
  <2> QED
    BY <1>2, <1>6, <2>3 DEF BudgetType
<1> QED
  BY <1>4, <1>5, <1>6

\* A message is a sequence of pieces.
LEMMA PiecesType ==
  ASSUME NEW m \in Messages
  PROVE  Pieces(m) \in Seq(Piece)
<1>1. MessageLength \in Nat
  BY WorkerAssumption
<1>2. Pieces(m) \in [1 .. MessageLength -> Piece]
  BY DEF Pieces, Piece
<1> QED
  BY <1>1, <1>2, SeqDef

(***************************************************************************)
(* The threads and the processes.                                          *)
(***************************************************************************)

\* A thread or sertop makes its move on worker i, and may close the write end of the
\* interrupt pipe in fail().
ThreadStep(i) ==
  /\ ThreadMove(worker[i], worker'[i]) /\ \A j \in Ids : j # i => worker'[j] = worker[j]
  /\ UNCHANGED <<platform, owner>>
  /\ \/ UNCHANGED handleVars
     \/ platform = "posix" /\ CloseAll(Of(i, {"interrupt1"})) /\ worker'[i].fails > 0

\* So it is with a record that becomes v.
LEMMA ThreadMoves ==
  ASSUME WorkersType, NEW i \in Ids, NEW v \in WorkerRecord, Becomes(i, v),
         ThreadMove(worker[i], v), UNCHANGED <<platform, owner>>,
         \/ UNCHANGED handleVars
         \/ platform = "posix" /\ CloseAll(Of(i, {"interrupt1"})) /\ v.fails > 0
  PROVE  WorkersType' /\ ThreadStep(i)
<1>1. WorkersType' /\ worker'[i] = v /\ \A j \in Ids : j # i => worker'[j] = worker[j]
  BY BecomesFacts
<1> QED
  BY <1>1 DEF ThreadStep

\* The read thread.
LEMMA ReaderMoves ==
  ASSUME WorkersType, BudgetType, NEW i \in Ids,
         ReaderInterrupted(i) \/ ReaderSpins(i) \/ ReaderSignalled(i) \/
         ReaderFinishes(i) \/ ReaderResponds(i) \/ ReaderReads(i) \/ ReaderFails(i) \/
         ReaderStarts(i)
  PROVE  WorkersType' /\ BudgetType' /\ ThreadStep(i)
<1> DEFINE w == worker[i]
<1>0. w \in WorkerRecord
  BY DEF WorkersType
<1>1. CASE ReaderInterrupted(i)
  <2> DEFINE v == [w EXCEPT !.reader = "done"]
  <2>1. Becomes(i, v)
    BY <1>0, <1>1 DEF ReaderInterrupted, Polls, Becomes, WorkersType, WorkerRecord
  <2>2. v \in WorkerRecord
    BY <1>0 DEF WorkerRecord
  <2>3. ThreadMove(w, v)
    BY <1>0, <1>1 DEF ReaderInterrupted, Polls, WorkerRecord, ThreadMove, Running
  <2> HIDE DEF v
  <2>4. UNCHANGED <<platform, owner>> /\ UNCHANGED handleVars
    BY <1>1 DEF ReaderInterrupted, Polls
  <2> QED
    BY <2>1, <2>2, <2>3, <2>4, <1>1, ThreadMoves DEF ReaderInterrupted, BudgetType
<1>2. CASE ReaderSpins(i)
  <2> DEFINE v == [w EXCEPT !.reader = "done"]
  <2>1. Becomes(i, v)
    BY <1>0, <1>2 DEF ReaderSpins, Polls, Becomes, WorkersType, WorkerRecord
  <2>2. v \in WorkerRecord
    BY <1>0 DEF WorkerRecord
  <2>3. ThreadMove(w, v)
    BY <1>0, <1>2 DEF ReaderSpins, Polls, WorkerRecord, ThreadMove, Running
  <2> HIDE DEF v
  <2>4. UNCHANGED <<platform, owner>> /\ UNCHANGED handleVars
    BY <1>2 DEF ReaderSpins, Polls
  <2> QED
    BY <2>1, <2>2, <2>3, <2>4, <1>2, ThreadMoves DEF ReaderSpins, BudgetType
<1>3. CASE ReaderSignalled(i)
  <2> DEFINE v == [w EXCEPT !.reader = "done"]
  <2>1. Becomes(i, v)
    BY <1>0, <1>3 DEF ReaderSignalled, Becomes, WorkersType, WorkerRecord
  <2>2. v \in WorkerRecord
    BY <1>0 DEF WorkerRecord
  <2>3. ThreadMove(w, v)
    BY <1>0, <1>3 DEF ReaderSignalled, WorkerRecord, ThreadMove, Running
  <2> HIDE DEF v
  <2>4. UNCHANGED <<platform, owner>> /\ UNCHANGED handleVars
    BY <1>3 DEF ReaderSignalled
  <2> QED
    BY <2>1, <2>2, <2>3, <2>4, <1>3, ThreadMoves DEF ReaderSignalled, BudgetType
<1>4. CASE ReaderFinishes(i)
  <2> DEFINE v == [w EXCEPT !.reader = "respond", !.read = "none"]
  <2>1. Becomes(i, v)
    BY <1>0, <1>4 DEF ReaderFinishes, Becomes, WorkersType, WorkerRecord
  <2>2. v \in WorkerRecord
    BY <1>0 DEF WorkerRecord
  <2>3. ThreadMove(w, v)
    BY <1>0, <1>4 DEF ReaderFinishes, WorkerRecord, ThreadMove, Running
  <2> HIDE DEF v
  <2>4. UNCHANGED <<platform, owner>> /\ UNCHANGED handleVars
    BY <1>4 DEF ReaderFinishes
  <2> QED
    BY <2>1, <2>2, <2>3, <2>4, <1>4, ThreadMoves DEF ReaderFinishes, BudgetType
<1>5. CASE ReaderResponds(i)
  <2> DEFINE r == ReadAgain(i)
             v == IF worker' = worker THEN w ELSE [w EXCEPT !.reader = r]
  <2>1. Becomes(i, v)
    <3>1. CASE worker' = worker
      BY <1>0, <3>1 DEF Becomes, WorkersType
    <3>2. CASE worker' = [worker EXCEPT ![i].reader = r] /\ worker' # worker
      BY <1>0, <3>2 DEF Becomes, WorkersType
    <3> QED
      BY <1>5, <3>1, <3>2 DEF ReaderResponds
  <2>2. r \in {"poll", "start", "done"}
    BY <1>0, <1>5 DEF ReaderResponds, ReadAgain, WorkerRecord
  <2> HIDE DEF r
  <2>3. v \in WorkerRecord
    <3>1. [w EXCEPT !.reader = r] \in WorkerRecord
      BY <2>2, <1>0 DEF WorkerRecord
    <3> QED
      BY <3>1, <1>0
  <2>4. ThreadMove(w, v)
    BY <2>2, <1>0, <1>5 DEF ReaderResponds, ReadAgain, WorkerRecord, ThreadMove, Running
  <2> HIDE DEF v
  <2>5. UNCHANGED <<platform, owner>> /\ UNCHANGED handleVars
    BY <1>5 DEF ReaderResponds, ReadAgain
  <2>6. BudgetType'
    BY <1>5, SpendFacts DEF ReaderResponds, BudgetType
  <2> QED
    BY <2>1, <2>2, <2>3, <2>4, <2>5, <2>6, <1>5, ThreadMoves DEF ReaderResponds
<1>6. CASE ReaderReads(i)
  <2> DEFINE n == w.unread - 1
             v == [w EXCEPT !.reader = "respond", !.unread = n]
  <2>1. Becomes(i, v)
    BY <1>0, <1>6 DEF ReaderReads, Polls, Becomes, WorkersType, WorkerRecord
  <2>2. n \in Nat
    BY <1>0, <1>6 DEF ReaderReads, Polls, WorkerRecord
  <2> HIDE DEF n
  <2>3. v \in WorkerRecord
    BY <2>2, <1>0 DEF WorkerRecord
  <2>4. ThreadMove(w, v)
    BY <2>2, <1>0, <1>6 DEF ReaderReads, Polls, WorkerRecord, ThreadMove, Running
  <2> HIDE DEF v
  <2>5. UNCHANGED <<platform, owner>> /\ UNCHANGED handleVars
    BY <1>6 DEF ReaderReads, Polls
  <2> QED
    BY <2>1, <2>2, <2>3, <2>4, <2>5, <1>6, ThreadMoves DEF ReaderReads, BudgetType
<1>7. CASE ReaderFails(i)
  <2> DEFINE n == w.fails + 1
             v == [w EXCEPT !.reader = "fail", !.running = FALSE, !.fails = n]
  <2>1. Becomes(i, v)
    BY <1>0, <1>7 DEF ReaderFails, Polls, Becomes, WorkersType, WorkerRecord
  <2>2. BudgetType'
    BY <1>7, SpendFacts DEF ReaderFails
  <2>3. n \in Nat /\ n > 0 /\ n > w.fails
    BY <1>0, <1>7 DEF ReaderFails, Polls, WorkerRecord
  <2> HIDE DEF n
  <2>4. v \in WorkerRecord
    BY <2>3, <1>0 DEF WorkerRecord
  <2>5. ThreadMove(w, v) /\ v.fails > 0
    BY <2>3, <1>0, <1>7 DEF ReaderFails, Polls, WorkerRecord, ThreadMove, Running
  <2> HIDE DEF v
  <2>6. UNCHANGED <<platform, owner>> /\ platform = "posix" /\ CloseAll(Of(i, {"interrupt1"}))
    BY <1>7 DEF ReaderFails, Polls
  <2> QED
    BY <2>1, <2>2, <2>3, <2>4, <2>5, <2>6, ThreadMoves
<1>8. CASE ReaderStarts(i)
  <2> DEFINE r == IF w.unread > 0 THEN "done" ELSE "pending"
             n == IF w.unread > 0 THEN w.unread - 1 ELSE w.unread
             v == [w EXCEPT !.reader = "wait", !.read = r, !.unread = n]
  <2>1. Becomes(i, v)
    BY <1>0, <1>8 DEF ReaderStarts, Becomes, WorkersType, WorkerRecord
  <2>2. r \in {"pending", "done"} /\ n \in Nat
    BY <1>0, <1>8 DEF ReaderStarts, WorkerRecord
  <2> HIDE DEF r, n
  <2>3. v \in WorkerRecord
    BY <2>2, <1>0 DEF WorkerRecord
  <2>4. ThreadMove(w, v)
    BY <2>2, <1>0, <1>8 DEF ReaderStarts, WorkerRecord, ThreadMove, Running
  <2> HIDE DEF v
  <2>5. UNCHANGED <<platform, owner>> /\ UNCHANGED handleVars
    BY <1>8 DEF ReaderStarts
  <2> QED
    BY <2>1, <2>2, <2>3, <2>4, <2>5, <1>8, ThreadMoves DEF ReaderStarts, BudgetType
<1> QED
  BY <1>1, <1>2, <1>3, <1>4, <1>5, <1>6, <1>7, <1>8

\* The write thread and its queue.
LEMMA WriterMoves ==
  ASSUME WorkersType, BudgetType, NEW i \in Ids,
         WriterStops(i) \/ WriterFinishes(i) \/ WriterFails(i) \/ WriterStarts(i) \/
         Enqueue(i) \/ WriterPops(i)
  PROVE  WorkersType' /\ BudgetType' /\ ThreadStep(i)
<1> DEFINE w == worker[i]
<1>0. w \in WorkerRecord
  BY DEF WorkersType
<1>1. CASE WriterStops(i)
  <2> DEFINE v == [w EXCEPT !.writer = "done"]
  <2>1. Becomes(i, v)
    BY <1>0, <1>1 DEF WriterStops, Becomes, WorkersType, WorkerRecord
  <2>2. v \in WorkerRecord
    BY <1>0 DEF WorkerRecord
  <2>3. ThreadMove(w, v)
    BY <1>0, <1>1 DEF WriterStops, WorkerRecord, ThreadMove, Running
  <2> HIDE DEF v
  <2>4. UNCHANGED <<platform, owner>> /\ UNCHANGED handleVars
    BY <1>1 DEF WriterStops
  <2> QED
    BY <2>1, <2>2, <2>3, <2>4, <1>1, ThreadMoves DEF WriterStops, BudgetType
<1>2. CASE WriterFinishes(i)
  <2> DEFINE s == WriteAgain(i)
             v == [w EXCEPT !.writer = s]
  <2>1. Becomes(i, v)
    BY <1>0, <1>2 DEF WriterFinishes, WriteAgain, Becomes, WorkersType, WorkerRecord
  <2>2. s \in {"wait", "done"}
    BY <1>0, <1>2 DEF WriterFinishes, WriteAgain, WorkerRecord
  <2> HIDE DEF s
  <2>3. v \in WorkerRecord
    BY <2>2, <1>0 DEF WorkerRecord
  <2>4. ThreadMove(w, v)
    BY <2>2, <1>0, <1>2 DEF WriterFinishes, WriteAgain, WorkerRecord, ThreadMove, Running
  <2> HIDE DEF v
  <2>5. UNCHANGED <<platform, owner>> /\ UNCHANGED handleVars
    BY <1>2 DEF WriterFinishes, WriteAgain
  <2> QED
    BY <2>1, <2>2, <2>3, <2>4, <2>5, <1>2, ThreadMoves DEF WriterFinishes, BudgetType
<1>3. CASE WriterFails(i)
  <2> DEFINE n == w.fails + 1
             v == [w EXCEPT !.writer = "fail", !.running = FALSE, !.fails = n]
  <2>1. Becomes(i, v)
    BY <1>0, <1>3 DEF WriterFails, Writes, Becomes, WorkersType, WorkerRecord
  <2>2. BudgetType'
    BY <1>3, SpendFacts DEF WriterFails
  <2>3. n \in Nat /\ n > 0 /\ n > w.fails
    BY <1>0, <1>3 DEF WriterFails, Writes, WorkerRecord
  <2> HIDE DEF n
  <2>4. v \in WorkerRecord
    BY <2>3, <1>0 DEF WorkerRecord
  <2>5. ThreadMove(w, v) /\ v.fails > 0
    BY <2>3, <1>0, <1>3 DEF WriterFails, Writes, WorkerRecord, ThreadMove, Running
  <2> HIDE DEF v
  <2>6. UNCHANGED <<platform, owner>> /\ platform = "posix" /\ CloseAll(Of(i, {"interrupt1"}))
    BY <1>3 DEF WriterFails, Writes
  <2> QED
    BY <2>1, <2>2, <2>3, <2>4, <2>5, <2>6, ThreadMoves
<1>4. CASE WriterStarts(i)
  <2> DEFINE e == <<>>
             p == w.rest
             v == [w EXCEPT !.writer = "blocked", !.rest = e, !.pipe = p]
  <2>1. Becomes(i, v)
    BY <1>0, <1>4 DEF WriterStarts, Becomes, WorkersType, WorkerRecord
  <2>2. e \in Seq(Piece) /\ p \in Seq(Piece)
    BY EmptySeq, <1>0, <1>4 DEF WriterStarts, WorkerRecord
  <2> HIDE DEF e, p
  <2>3. v \in WorkerRecord
    BY <2>2, <1>0 DEF WorkerRecord
  <2>4. ThreadMove(w, v)
    BY <2>2, <1>0, <1>4 DEF WriterStarts, WorkerRecord, ThreadMove, Running
  <2> HIDE DEF v
  <2>5. UNCHANGED <<platform, owner>> /\ UNCHANGED handleVars
    BY <1>4 DEF WriterStarts
  <2> QED
    BY <2>1, <2>2, <2>3, <2>4, <2>5, <1>4, ThreadMoves DEF WriterStarts, BudgetType
<1>5. CASE Enqueue(i)
  <2> DEFINE q == Append(w.queue, budget.messages)
             a == Append(w.accepted, budget.messages)
             v == [w EXCEPT !.queue = q, !.accepted = a]
  <2>1. Becomes(i, v)
    BY <1>0, <1>5 DEF Enqueue, Becomes, WorkersType, WorkerRecord
  <2>2. BudgetType' /\ budget.messages \in Messages
    BY <1>5, SpendFacts DEF Enqueue
  <2>3. q \in Seq(Messages) /\ a \in Seq(Messages)
    BY <2>2, AppendProperties, <1>0, <1>5 DEF Enqueue, WorkerRecord
  <2> HIDE DEF q, a
  <2>4. v \in WorkerRecord
    BY <2>3, <1>0 DEF WorkerRecord
  <2>5. ThreadMove(w, v)
    BY <2>3, <1>0, <1>5 DEF Enqueue, WorkerRecord, ThreadMove, Running
  <2> HIDE DEF v
  <2>6. UNCHANGED <<platform, owner>> /\ UNCHANGED handleVars
    BY <1>5 DEF Enqueue
  <2> QED
    BY <2>1, <2>2, <2>3, <2>4, <2>5, <2>6, ThreadMoves
<1>6. CASE WriterPops(i)
  <2> DEFINE r == Pieces(Head(w.queue))
             q == Tail(w.queue)
             v == [w EXCEPT !.rest = r, !.queue = q, !.writer = "write"]
  <2>1. Becomes(i, v)
    BY <1>0, <1>6 DEF WriterPops, Becomes, WorkersType, WorkerRecord
  <2>2. r \in Seq(Piece) /\ q \in Seq(Messages)
    BY HeadTailProperties, PiecesType, <1>0, <1>6 DEF WriterPops, WorkerRecord
  <2> HIDE DEF r, q
  <2>3. v \in WorkerRecord
    BY <2>2, <1>0 DEF WorkerRecord
  <2>4. ThreadMove(w, v)
    BY <2>2, <1>0, <1>6 DEF WriterPops, WorkerRecord, ThreadMove, Running
  <2> HIDE DEF v
  <2>5. UNCHANGED <<platform, owner>> /\ UNCHANGED handleVars
    BY <1>6 DEF WriterPops
  <2> QED
    BY <2>1, <2>2, <2>3, <2>4, <2>5, <1>6, ThreadMoves DEF WriterPops, BudgetType
<1> QED
  BY <1>1, <1>2, <1>3, <1>4, <1>5, <1>6

\* What sertop reads and prints.
LEMMA SertopMoves ==
  ASSUME WorkersType, BudgetType, NEW i \in Ids,
         SertopPrints(i) \/ SertopPrintsWin(i) \/ SertopReads(i) \/ SertopReadsWin(i)
  PROVE  WorkersType' /\ BudgetType' /\ ThreadStep(i)
<1> DEFINE w == worker[i]
<1>0. w \in WorkerRecord
  BY DEF WorkersType
<1>1. CASE SertopPrints(i)
  <2> DEFINE n == w.unread + 1
             v == [w EXCEPT !.unread = n]
  <2>1. Becomes(i, v)
    BY <1>0, <1>1 DEF SertopPrints, Becomes, WorkersType, WorkerRecord
  <2>2. BudgetType'
    BY <1>1, SpendFacts DEF SertopPrints
  <2>3. n \in Nat
    BY <1>0, <1>1 DEF SertopPrints, WorkerRecord
  <2> HIDE DEF n
  <2>4. v \in WorkerRecord
    BY <2>3, <1>0 DEF WorkerRecord
  <2>5. ThreadMove(w, v)
    BY <2>3, <1>0, <1>1 DEF SertopPrints, WorkerRecord, ThreadMove, Running
  <2> HIDE DEF v
  <2>6. UNCHANGED <<platform, owner>> /\ UNCHANGED handleVars
    BY <1>1 DEF SertopPrints
  <2> QED
    BY <2>1, <2>2, <2>3, <2>4, <2>5, <2>6, ThreadMoves
<1>2. CASE SertopPrintsWin(i)
  <2> DEFINE r == IF w.read = "pending" THEN "done" ELSE w.read
             n == IF w.read = "pending" THEN w.unread ELSE w.unread + 1
             v == [w EXCEPT !.read = r, !.unread = n]
  <2>1. Becomes(i, v)
    BY <1>0, <1>2 DEF SertopPrintsWin, Becomes, WorkersType, WorkerRecord
  <2>2. BudgetType'
    BY <1>2, SpendFacts DEF SertopPrintsWin
  <2>3. r \in {"none", "pending", "done", "aborted"} /\ n \in Nat
    BY <1>0, <1>2 DEF SertopPrintsWin, WorkerRecord
  <2> HIDE DEF r, n
  <2>4. v \in WorkerRecord
    BY <2>3, <1>0 DEF WorkerRecord
  <2>5. ThreadMove(w, v)
    BY <2>3, <1>0, <1>2 DEF SertopPrintsWin, WorkerRecord, ThreadMove, Running
  <2> HIDE DEF v
  <2>6. UNCHANGED <<platform, owner>> /\ UNCHANGED handleVars
    BY <1>2 DEF SertopPrintsWin
  <2> QED
    BY <2>1, <2>2, <2>3, <2>4, <2>5, <2>6, ThreadMoves
<1>3. CASE SertopReads(i)
  <2> DEFINE p == Tail(w.pipe)
             r == Append(w.received, Head(w.pipe))
             v == [w EXCEPT !.pipe = p, !.received = r]
  <2>1. Becomes(i, v)
    BY <1>0, <1>3 DEF SertopReads, Becomes, WorkersType, WorkerRecord
  <2>2. p \in Seq(Piece) /\ r \in Seq(Piece)
    BY HeadTailProperties, AppendProperties, <1>0, <1>3 DEF SertopReads, WorkerRecord
  <2> HIDE DEF p, r
  <2>3. v \in WorkerRecord
    BY <2>2, <1>0 DEF WorkerRecord
  <2>4. ThreadMove(w, v)
    BY <2>2, <1>0, <1>3 DEF SertopReads, WorkerRecord, ThreadMove, Running
  <2> HIDE DEF v
  <2>5. UNCHANGED <<platform, owner>> /\ UNCHANGED handleVars
    BY <1>3 DEF SertopReads
  <2> QED
    BY <2>1, <2>2, <2>3, <2>4, <2>5, <1>3, ThreadMoves DEF SertopReads, BudgetType
<1>4. CASE SertopReadsWin(i)
  <2> DEFINE p == Tail(w.pipe)
             r == Append(w.received, Head(w.pipe))
             v == [w EXCEPT !.pipe = p, !.received = r]
  <2>1. Becomes(i, v)
    BY <1>0, <1>4 DEF SertopReadsWin, Becomes, WorkersType, WorkerRecord
  <2>2. p \in Seq(Piece) /\ r \in Seq(Piece)
    BY HeadTailProperties, AppendProperties, <1>0, <1>4 DEF SertopReadsWin, WorkerRecord
  <2> HIDE DEF p, r
  <2>3. v \in WorkerRecord
    BY <2>2, <1>0 DEF WorkerRecord
  <2>4. ThreadMove(w, v)
    BY <2>2, <1>0, <1>4 DEF SertopReadsWin, WorkerRecord, ThreadMove, Running
  <2> HIDE DEF v
  <2>5. UNCHANGED <<platform, owner>> /\ UNCHANGED handleVars
    BY <1>4 DEF SertopReadsWin
  <2> QED
    BY <2>1, <2>2, <2>3, <2>4, <2>5, <1>4, ThreadMoves DEF SertopReadsWin, BudgetType
<1> QED
  BY <1>1, <1>2, <1>3, <1>4

\* The record w becomes v when n pieces of the rest are written.
Wrote(w, n, v) ==
  /\ n >= 1 /\ n <= Len(w.rest) /\ w.writer = "write"
  /\ v.pipe = w.pipe \o SubSeq(w.rest, 1, n) /\ v.rest = SubSeq(w.rest, n + 1, Len(w.rest))
  /\ IF n = Len(w.rest) THEN v.writer \in {"wait", "done"} ELSE v.writer = "write"
  /\ v.accepted = w.accepted /\ v.queue = w.queue /\ v.received = w.received
  /\ v.life = w.life /\ v.reader = w.reader /\ ThreadMove(w, v)

\* The write thread writes some of the rest.
LEMMA WriterWritesBecomes ==
  ASSUME WorkersType, NEW i \in Ids, WriterWrites(i)
  PROVE  \E n \in Int, v \in WorkerRecord : Becomes(i, v) /\ Wrote(worker[i], n, v)
<1> DEFINE w == worker[i]
<1>1. w \in WorkerRecord
  BY DEF WorkersType
<1>2. w.rest \in Seq(Piece) /\ w.pipe \in Seq(Piece) /\ Len(w.rest) \in Nat
  BY <1>1, LenProperties DEF WorkerRecord
<1>3. PICK n \in 1 .. Min({Room(i), Len(worker[i].rest)}) :
        worker' = [worker EXCEPT ![i].pipe = @ \o SubSeq(worker[i].rest, 1, n),
                    ![i].rest = SubSeq(@, n + 1, Len(@)),
                    ![i].writer = IF n = Len(worker[i].rest) THEN WriteAgain(i) ELSE @]
  BY DEF WriterWrites
<1>4. n \in Int /\ n >= 1 /\ n <= Len(w.rest)
  <2> DEFINE S == {Room(i), Len(worker[i].rest)}
  <2>1. Room(i) \in Int /\ Len(w.rest) \in Int
    BY <1>2, LenProperties, WorkerAssumption DEF Room
  <2>2. PICK m \in S : \A k \in S : m <= k
    BY <2>1
  <2>3. Min(S) \in S /\ \A k \in S : Min(S) <= k
    BY <2>2 DEF Min
  <2> QED
    BY <2>1, <2>3
<1> DEFINE p == w.pipe \o SubSeq(w.rest, 1, n)
           r == SubSeq(w.rest, n + 1, Len(w.rest))
           s == IF n = Len(w.rest) THEN WriteAgain(i) ELSE w.writer
           v == [w EXCEPT !.pipe = p, !.rest = r, !.writer = s]
<1>5. Becomes(i, v)
  BY <1>1, <1>3 DEF Becomes, WorkersType, WorkerRecord
<1>6. p \in Seq(Piece) /\ r \in Seq(Piece)
  <2>1. \A k \in 1 .. Len(w.rest) : w.rest[k] \in Piece
    BY <1>2, ElementOfSeq
  <2>2. \A k \in 1 .. n : w.rest[k] \in Piece
    BY <1>2, <1>4, <2>1
  <2>3. \A k \in n + 1 .. Len(w.rest) : w.rest[k] \in Piece
    BY <1>2, <1>4, <2>1
  <2>4. SubSeq(w.rest, 1, n) \in Seq(Piece)
    BY <1>4, <2>2, SubSeqProperties
  <2>5. SubSeq(w.rest, n + 1, Len(w.rest)) \in Seq(Piece)
    BY <1>2, <1>4, <2>3, SubSeqProperties
  <2> QED
    BY <1>2, <2>4, <2>5, ConcatProperties
<1>7. /\ w.writer = "write" /\ s \in {"wait", "write", "done"}
      /\ IF n = Len(w.rest) THEN s \in {"wait", "done"} ELSE s = "write"
  BY DEF WriterWrites, Writes, WriteAgain
<1> HIDE DEF p, r, s
<1>8. v \in WorkerRecord /\ ThreadMove(w, v)
  <2>1. v \in WorkerRecord
    BY <1>1, <1>6, <1>7 DEF WorkerRecord
  <2>2. ThreadMove(w, v)
    BY <1>1, <1>7 DEF WorkerRecord, ThreadMove, Running
  <2> QED
    BY <2>1, <2>2
<1>9. /\ v.pipe = p /\ v.rest = r /\ v.writer = s /\ v.accepted = w.accepted
      /\ v.queue = w.queue /\ v.received = w.received /\ v.life = w.life
      /\ v.reader = w.reader
  BY <1>1 DEF WorkerRecord
<1> HIDE DEF v, w
<1>10. Wrote(w, n, v)
  BY <1>4, <1>7, <1>8, <1>9 DEF Wrote, p, r
<1> QED
  BY <1>4, <1>5, <1>8, <1>10 DEF w

\* So it is a move of the write thread.
LEMMA WriterWritesMoves ==
  ASSUME WorkersType, BudgetType, NEW i \in Ids, WriterWrites(i)
  PROVE  WorkersType' /\ BudgetType' /\ ThreadStep(i)
<1>1. PICK n \in Int, v \in WorkerRecord : Becomes(i, v) /\ Wrote(worker[i], n, v)
  BY WriterWritesBecomes
<1>2. ThreadMove(worker[i], v)
  BY <1>1 DEF Wrote
<1>3. UNCHANGED <<platform, owner, budget>> /\ UNCHANGED handleVars
  BY DEF WriterWrites
<1> QED
  BY <1>1, <1>2, <1>3, ThreadMoves DEF BudgetType

\* on_failure returns.
LEMMA FailureReturnsMoves ==
  ASSUME WorkersType, BudgetType, NEW i \in Ids, FailureReturns(i)
  PROVE  WorkersType' /\ BudgetType' /\ ThreadStep(i)
<1> DEFINE w == worker[i]
<1>1. w \in WorkerRecord
  BY DEF WorkersType
<1>2. UNCHANGED <<platform, owner, budget>> /\ UNCHANGED handleVars
  BY DEF FailureReturns
<1>3. CASE /\ w.reader \in {"fail", "failstart"}
           /\ worker' = [worker EXCEPT ![i].reader = IF @ = "fail" THEN "done" ELSE "wait"]
  <2> DEFINE r == IF w.reader = "fail" THEN "done" ELSE "wait"
             v == [w EXCEPT !.reader = r]
  <2>1. Becomes(i, v)
    BY <1>1, <1>3 DEF Becomes, WorkersType, WorkerRecord
  <2>2. r \in {"wait", "done"}
    OBVIOUS
  <2> HIDE DEF r
  <2>3. v \in WorkerRecord
    BY <1>1, <2>2 DEF WorkerRecord
  <2>4. ThreadMove(w, v)
    BY <1>1, <1>3, <2>2 DEF WorkerRecord, ThreadMove, Running
  <2> QED
    BY <1>2, <2>1, <2>3, <2>4, ThreadMoves DEF BudgetType
<1>4. CASE w.writer = "fail" /\ worker' = [worker EXCEPT ![i].writer = "done"]
  <2> DEFINE v == [w EXCEPT !.writer = "done"]
  <2>1. Becomes(i, v)
    BY <1>1, <1>4 DEF Becomes, WorkersType, WorkerRecord
  <2>2. v \in WorkerRecord
    BY <1>1 DEF WorkerRecord
  <2>3. ThreadMove(w, v)
    BY <1>1, <1>4 DEF WorkerRecord, ThreadMove, Running
  <2> QED
    BY <1>2, <2>1, <2>2, <2>3, ThreadMoves DEF BudgetType
<1> QED
  BY <1>3, <1>4 DEF FailureReturns

\* fail() on Windows.
LEMMA FailsWinMoves ==
  ASSUME WorkersType, BudgetType, NEW i \in Ids,
         ReaderFailsWin(i) \/ WriterAborted(i) \/ WriterFailsWin(i)
  PROVE  WorkersType' /\ BudgetType' /\ ThreadStep(i)
<1> DEFINE w == worker[i]
           f == Failing(w)
<1>1. w \in WorkerRecord
  BY DEF WorkersType
<1>2. f \in WorkerRecord /\ ThreadMove(w, f) /\ f.reader = w.reader
  BY <1>1, FailingFacts
<1>3. /\ UNCHANGED <<platform, owner>> /\ UNCHANGED handleVars /\ BudgetType'
  BY SpendFacts DEF ReaderFailsWin, WriterAborted, WriterFailsWin, BudgetType
<1>4. CASE ReaderFailsWin(i)
  <2> DEFINE r == IF w.reader = "start" THEN "failstart" ELSE "fail"
             v == [f EXCEPT !.reader = r]
  <2>1. Becomes(i, v)
    BY <1>4 DEF ReaderFailsWin, Becomes
  <2>2. r \in {"fail", "failstart"} /\ Running(w.reader)
    BY <1>4 DEF ReaderFailsWin, Running
  <2> HIDE DEF r, f
  <2>3. v \in WorkerRecord
    BY <1>2, <2>2 DEF WorkerRecord
  <2>4. ThreadMove(w, v)
    BY <1>2, <2>2 DEF WorkerRecord, ThreadMove
  <2> QED
    BY <1>3, <2>1, <2>3, <2>4, ThreadMoves
<1>5. CASE WriterAborted(i) \/ WriterFailsWin(i)
  <2> DEFINE v == [f EXCEPT !.writer = "fail"]
  <2>1. Becomes(i, v)
    BY <1>2, <1>5 DEF WriterAborted, WriterFailsWin, Becomes
  <2>2. w.writer \in {"write", "blocked", "aborted"}
    BY <1>5 DEF WriterAborted, WriterFailsWin
  <2> HIDE DEF f
  <2>3. v \in WorkerRecord
    BY <1>2 DEF WorkerRecord
  <2>4. ThreadMove(w, v)
    BY <1>2, <2>2 DEF WorkerRecord, ThreadMove, Running
  <2> QED
    BY <1>3, <2>1, <2>3, <2>4, ThreadMoves
<1> QED
  BY <1>4, <1>5

\* The process of worker i starts or ends.
ProcessStep(i) ==
  /\ ProcessMove(worker[i], worker'[i]) /\ \A j \in Ids : j # i => worker'[j] = worker[j]
  /\ worker'[i].holds \subseteq worker[i].holds \ Of(i, {"stdin1"})
  /\ UNCHANGED <<platform, owner, handleVars>>

\* execv() and exit() do this.
LEMMA ProcessMoves ==
  ASSUME WorkersType, BudgetType, NEW i \in Ids,
         Exec(i) \/ ExecFails(i) \/ SertopExits(i) \/ SertopExitsWin(i)
  PROVE  WorkersType' /\ BudgetType' /\ ProcessStep(i)
<1> DEFINE w == worker[i]
<1>1. w \in WorkerRecord /\ w.holds \subseteq Handle
  BY DEF WorkersType, WorkerRecord
<1>2. /\ UNCHANGED <<platform, owner, handleVars>> /\ BudgetType'
      /\ w.sertop \in {"forked", "running"}
  BY SpendFacts DEF Exec, ExecFails, SertopExits, SertopExitsWin, BudgetType, handleVars
<1>3. PICK s \in {"running", "exited"}, h \in SUBSET Handle :
        /\ Becomes(i, [w EXCEPT !.sertop = s, !.holds = h])
        /\ h \subseteq w.holds \ Of(i, {"stdin1"})
  <2>1. CASE Exec(i)
    <3> DEFINE h == w.holds \ Of(i, {"interrupt0", "interrupt1", "stdin1", "stdout0"})
    <3>1. Becomes(i, [w EXCEPT !.sertop = "running", !.holds = h])
      BY <1>1, <2>1 DEF Exec, Becomes, WorkersType, WorkerRecord
    <3>2. h \in SUBSET Handle /\ h \subseteq w.holds \ Of(i, {"stdin1"})
      BY <1>1 DEF Of
    <3> QED
      BY <3>1, <3>2
  <2>2. CASE ExecFails(i) \/ SertopExits(i) \/ SertopExitsWin(i)
    <3> DEFINE h == {}
    <3>1. Becomes(i, [w EXCEPT !.sertop = "exited", !.holds = h])
      BY <2>2 DEF ExecFails, SertopExits, SertopExitsWin, Becomes
    <3>2. h \in SUBSET Handle /\ h \subseteq w.holds \ Of(i, {"stdin1"})
      OBVIOUS
    <3> QED
      BY <3>1, <3>2
  <2> QED
    BY <2>1, <2>2
<1> DEFINE v == [w EXCEPT !.sertop = s, !.holds = h]
<1>4. v \in WorkerRecord
  BY <1>1 DEF WorkerRecord
<1>5. ProcessMove(w, v) /\ v.holds = h
  BY <1>1, <1>2 DEF WorkerRecord, ProcessMove
<1> HIDE DEF v
<1>6. WorkersType' /\ worker'[i] = v /\ \A j \in Ids : j # i => worker'[j] = worker[j]
  BY <1>3, <1>4, BecomesFacts DEF v
<1> QED
  BY <1>2, <1>3, <1>5, <1>6 DEF ProcessStep

(***************************************************************************)
(* The inductive invariant.                                                *)
(***************************************************************************)

TypeInv ==
  /\ WorkersType /\ BudgetType /\ owner \in OwnerRecord /\ platform \in {"posix", "win"}
  /\ open \subseteq Handle /\ misused \subseteq Handle

\* The owner is at worker i and at one of pcs.
Here(i, pcs) == owner.id = i /\ owner.pc \in pcs

\* Workers are constructed in the order of their ids.
BornInv == \E n \in 0 .. MaxWorkers : \A i \in Ids : worker[i].life # "none" <=> i < n

\* The owner works on one worker, on the steps that the build has, and holds queue_m_
\* unless that is dead.
OwnerInv ==
  /\ owner.pc # "idle" => owner.id \in Ids /\ owner.lock \in {"owner", "dead"}
  /\ owner.pc = "forked" => worker[owner.id].life = "constructing"
  /\ owner.pc \notin {"idle", "forked"} => worker[owner.id].life = "destroying"
  /\ owner.pc \in {"forked", "kill", "future"} => platform = "posix"
  /\ owner.pc \in {"cancel", "terminate"} => platform = "win"
  /\ owner.waiter # "none" <=>
       platform = "posix" /\ owner.pc \in {"wait", "kill", "cleanup", "future"}

\* A worker is constructed or destroyed by the owner, or by its own write thread.
LifeInv ==
  \A i \in Ids :
    /\ worker[i].life = "constructing" => Here(i, {"forked"})
    /\ worker[i].life = "destroying" =>
         (owner.id = i /\ owner.pc \notin {"idle", "forked"}) \/ worker[i].writer = "join"
    /\ worker[i].writer = "join" => owner.lock = "writer" /\ worker[i].life = "destroying"

\* Where the destructor has joined both threads and closed the pipes to sertop.
Closed == {"wait", "kill", "terminate", "cleanup", "future"}

\* No thread runs before the constructor has started it or after it is joined.
ThreadInv ==
  \A i \in Ids :
    /\ worker[i].life \in {"none", "constructing", "failed"} =>
         worker[i].reader = "none" /\ worker[i].writer = "none"
    /\ worker[i].life = "destroyed" \/ Here(i, Closed \union {"joinWriter"}) =>
         ~Running(worker[i].reader)
    /\ worker[i].life = "destroyed" \/ Here(i, Closed) => ~Running(worker[i].writer)

\* How far a worker has come, as far as its handles tell.
Phase(i) ==
  IF worker[i].life \notin {"alive", "destroying"} THEN worker[i].life
  ELSE IF Here(i, {"future"}) THEN "destroyed"
  ELSE IF Here(i, Closed) THEN "closed" ELSE "open"

Expected(phase) ==
  IF platform = "posix"
    THEN CASE phase = "constructing" ->
                {"interrupt0", "interrupt1", "stdin0", "stdin1", "stdout0", "stdout1"}
           [] phase = "open" -> {"interrupt0", "interrupt1", "stdin1", "stdout0"}
           [] phase \in {"closed", "failed"} -> {"interrupt0", "interrupt1"}
           [] phase \in {"none", "destroyed"} -> {}
    ELSE CASE phase = "open" ->
                {"workerEnd", "sertopEnd", "process", "interruptEvent", "readEvent", "writeEvent"}
           [] phase = "closed" -> {"process", "interruptEvent", "readEvent", "writeEvent"}
           [] phase = "destroyed" -> {"interruptEvent", "readEvent", "writeEvent"}
           [] phase \in {"none", "failed", "constructing"} -> {}

\* A worker has no other handle open than its phase allows.
OpenMost == \A h \in open : h[2] \in Expected(Phase(h[1]))

\* It has these open, but for the write end of the interrupt pipe after a failure.
OpenLeast ==
  \A i \in Ids : worker[i].life # "failed" =>
    \A n \in Expected(Phase(i)) :
      <<i, n>> \in open \/ (n = "interrupt1" /\ worker[i].fails > 0)

\* A sertop holds the write end of another one's input only if it is the younger one,
\* and of its own only before execv().
HeldInv ==
  \A i, j \in Ids : <<i, "stdin1">> \in worker[j].holds =>
    i < j \/ (i = j /\ worker[i].sertop = "forked")

\* What the owner knows of the process.
EndInv ==
  \A i \in Ids : owner.id = i =>
    /\ owner.waiter = "ready" => worker[i].sertop = "reaped"
    /\ owner.waiter = "failed" => "process" \in worker[i].lost
    /\ owner.pc = "cleanup" /\ platform = "win" =>
         worker[i].sertop = "exited" \/ "process" \in worker[i].lost

ControlInv == BornInv /\ OwnerInv /\ LifeInv /\ ThreadInv /\ EndInv /\ NoProcessLeft

HandleInv == OpenMost /\ OpenLeast /\ MisusedOnlyAfterFailure /\ HeldInv

IInv == TypeInv /\ ControlInv /\ HandleInv

\* A step of a thread keeps the invariant: the handles are those of the same phase, and
\* the one that fail() may close is excused from now on.
LEMMA ThreadKeeps ==
  ASSUME IInv, NEW i \in Ids, ThreadStep(i), WorkersType'
  PROVE  ControlInv' /\ HandleInv'
<1> USE DEF IInv, TypeInv
<1>1. /\ ThreadMove(worker[i], worker'[i]) /\ \A j \in Ids : j # i => worker'[j] = worker[j]
      /\ platform' = platform /\ owner' = owner
  BY DEF ThreadStep
<1>2. ControlInv'
  <2>1. BornInv'
    BY <1>1 DEF ControlInv, BornInv, ThreadMove
  <2>2. OwnerInv'
    BY <1>1 DEF ControlInv, OwnerInv, ThreadMove
  <2>3. LifeInv'
    BY <1>1 DEF ControlInv, LifeInv, Here, ThreadMove
  <2>4. ThreadInv'
    BY <1>1 DEF ControlInv, ThreadInv, Here, ThreadMove, Running
  <2>5. EndInv' /\ NoProcessLeft'
    BY <1>1 DEF ControlInv, EndInv, NoProcessLeft, ThreadMove
  <2> QED
    BY <2>1, <2>2, <2>3, <2>4, <2>5 DEF ControlInv
<1>3. HandleInv'
  <2>0. \A j \in Ids : worker[j].fails \in Nat /\ worker'[j].fails \in Nat
    BY DEF WorkersType, WorkerRecord
  <2>1. \A j \in Ids : /\ Phase(j)' = Phase(j) /\ worker'[j].life = worker[j].life
                       /\ worker'[j].fails >= worker[j].fails /\ worker'[j].holds = worker[j].holds
                       /\ worker'[j].sertop = worker[j].sertop
    <3>1. \A j \in Ids : worker'[j].life = worker[j].life
      BY <1>1 DEF ThreadMove
    <3>2. \A j \in Ids : Phase(j)' = Phase(j)
      BY <1>1, <3>1 DEF Phase, Here
    <3>3. \A j \in Ids : worker'[j].fails >= worker[j].fails
      BY <1>1, <2>0 DEF ThreadMove
    <3>4. \A j \in Ids : worker'[j].holds = worker[j].holds /\ worker'[j].sertop = worker[j].sertop
      BY <1>1 DEF ThreadMove
    <3> QED
      BY <3>1, <3>2, <3>3, <3>4
  <2>2. \A p : Expected(p)' = Expected(p)
    BY <1>1 DEF Expected
  <2>3. CASE UNCHANGED handleVars
    <3>1. \A h \in open : h[1] \in Ids
      BY DEF Handle
    <3>2. OpenMost' /\ OpenLeast'
      BY <2>0, <2>1, <2>2, <2>3, <3>1 DEF HandleInv, OpenMost, OpenLeast, handleVars
    <3>3. MisusedOnlyAfterFailure' /\ HeldInv'
      BY <2>0, <2>1, <2>3 DEF HandleInv, MisusedOnlyAfterFailure, HeldInv, handleVars, Handle
    <3> QED
      BY <3>2, <3>3 DEF HandleInv
  <2>4. CASE platform = "posix" /\ CloseAll(Of(i, {"interrupt1"})) /\ worker'[i].fails > 0
    <3>1. \A h \in open \union misused : h[1] \in Ids
      BY DEF Handle
    <3>2. OpenMost' /\ OpenLeast'
      BY <2>0, <2>1, <2>2, <2>4, <3>1 DEF HandleInv, OpenMost, OpenLeast, CloseAll, Of
    <3>3. MisusedOnlyAfterFailure' /\ HeldInv'
      BY <2>0, <2>1, <2>4, <3>1 DEF HandleInv, MisusedOnlyAfterFailure, HeldInv, CloseAll, Of
    <3> QED
      BY <3>2, <3>3 DEF HandleInv
  <2> QED
    BY <2>3, <2>4 DEF ThreadStep
<1> QED
  BY <1>2, <1>3

\* So does a step of a process.
LEMMA ProcessKeeps ==
  ASSUME IInv, NEW i \in Ids, ProcessStep(i), WorkersType'
  PROVE  ControlInv' /\ HandleInv'
<1> USE DEF IInv, TypeInv
<1>1. /\ ProcessMove(worker[i], worker'[i]) /\ \A j \in Ids : j # i => worker'[j] = worker[j]
      /\ platform' = platform /\ owner' = owner /\ UNCHANGED handleVars
      /\ worker'[i].holds \subseteq worker[i].holds \ Of(i, {"stdin1"})
  BY DEF ProcessStep
<1>2. ControlInv'
  <2>1. BornInv'
    BY <1>1 DEF ControlInv, BornInv, ProcessMove
  <2>2. OwnerInv'
    BY <1>1 DEF ControlInv, OwnerInv, ProcessMove
  <2>3. LifeInv'
    BY <1>1 DEF ControlInv, LifeInv, Here, ProcessMove
  <2>4. ThreadInv'
    BY <1>1 DEF ControlInv, ThreadInv, Here, ProcessMove, Running
  <2>5. EndInv' /\ NoProcessLeft'
    BY <1>1 DEF ControlInv, EndInv, NoProcessLeft, ProcessMove
  <2> QED
    BY <2>1, <2>2, <2>3, <2>4, <2>5 DEF ControlInv
<1>3. HandleInv'
  <2>1. \A j \in Ids : /\ Phase(j)' = Phase(j) /\ worker'[j].life = worker[j].life
                       /\ worker'[j].fails = worker[j].fails
    BY <1>1 DEF Phase, Here, ProcessMove
  <2>2. \A p : Expected(p)' = Expected(p)
    BY <1>1 DEF Expected
  <2>3. \A h \in open \union misused : h[1] \in Ids
    BY DEF Handle
  <2>4. OpenMost' /\ OpenLeast' /\ MisusedOnlyAfterFailure'
    BY <1>1, <2>1, <2>2, <2>3
       DEF HandleInv, OpenMost, OpenLeast, MisusedOnlyAfterFailure, handleVars
  <2>5. HeldInv'
    BY <1>1 DEF HandleInv, HeldInv, Of
  <2> QED
    BY <2>4, <2>5 DEF HandleInv
<1> QED
  BY <1>2, <1>3

\* A step of the destructor of worker i that opens and closes nothing, or one of the thread
\* that waits for the process meanwhile.
DestructorMove(i) ==
  /\ owner.id = i /\ owner'.id = i /\ owner'.lock = owner.lock
  /\ \A j \in Ids : j # i => worker'[j] = worker[j]
  /\ worker'[i].life = worker[i].life /\ worker'[i].reader = worker[i].reader
  /\ worker'[i].fails = worker[i].fails
  /\ \/ worker'[i].writer = worker[i].writer
     \/ worker[i].writer = "blocked" /\ worker'[i].writer \notin {"none", "join"}
  /\ \/ worker'[i].holds = {}
     \/ worker'[i].holds = worker[i].holds
        /\ (worker'[i].sertop = worker[i].sertop \/ worker[i].sertop = "exited")
  /\ platform' = platform /\ open' = open
  /\ \/ misused' = misused
     \/ /\ platform = "posix" /\ owner.pc = "interrupt"
        /\ misused' = misused \union (Of(i, {"interrupt1"}) \ open)
  /\ \/ /\ owner'.waiter = owner.waiter
        /\ worker'[i].sertop = worker[i].sertop /\ worker[i].lost \subseteq worker'[i].lost
        /\ \/ owner.pc = "joinReader" /\ owner'.pc = "joinWriter" /\ worker[i].reader = "done"
           \/ /\ platform = "posix"
              /\ \/ owner.pc = "interrupt" /\ owner'.pc = "joinReader"
                 \/ owner.pc = "wait" /\ owner'.pc \in {"kill", "cleanup"}
                 \/ owner.pc = "kill" /\ owner'.pc = "cleanup"
           \/ /\ platform = "win"
              /\ \/ owner.pc = "interrupt" /\ owner'.pc = "cancel"
                 \/ owner.pc = "cancel" /\ owner'.pc = "joinReader"
                 \/ owner.pc = "wait" /\ owner'.pc = "terminate"
     \/ /\ platform = "win" /\ owner.pc \in {"wait", "terminate"} /\ owner'.pc = "cleanup"
        /\ owner'.waiter = owner.waiter
        /\ worker'[i].sertop = "exited" \/ "process" \in worker'[i].lost
     \/ /\ owner.waiter = "waiting" /\ owner'.pc = owner.pc
        /\ \/ owner'.waiter = "ready" /\ worker'[i].sertop = "reaped"
           \/ owner'.waiter = "failed" /\ "process" \in worker'[i].lost

\* Such a step keeps the invariant.
LEMMA DestructorMoveKeeps ==
  ASSUME IInv, NEW i \in Ids, DestructorMove(i),
         WorkersType', BudgetType', owner' \in OwnerRecord
  PROVE  IInv'
<1> USE DEF IInv, TypeInv
<1>1. /\ owner.pc \notin {"idle", "forked"} /\ owner'.pc \notin {"idle", "forked"}
      /\ owner'.pc = "future" <=> owner.pc = "future"
  BY DEF DestructorMove, ControlInv, OwnerInv
<1>2. worker[i].life = "destroying"
  BY <1>1 DEF DestructorMove, ControlInv, OwnerInv
<1>3. BornInv'
  BY DEF DestructorMove, ControlInv, BornInv
<1>4. OwnerInv'
  BY <1>1, <1>2 DEF DestructorMove, ControlInv, OwnerInv
<1>5. LifeInv'
  BY <1>1, <1>2 DEF DestructorMove, ControlInv, LifeInv, Here
<1>6. ThreadInv'
  BY <1>1, <1>2 DEF DestructorMove, ControlInv, ThreadInv, OwnerInv, Here, Closed, Running
<1>7. EndInv'
  BY <1>1 DEF DestructorMove, ControlInv, EndInv, OwnerInv
<1>8. NoProcessLeft'
  BY <1>2 DEF DestructorMove, ControlInv, NoProcessLeft
<1>9. \A j \in Ids : Phase(j)' = Phase(j)
  BY <1>1 DEF DestructorMove, ControlInv, OwnerInv, Phase, Here, Closed
<1>10. \A p : Expected(p)' = Expected(p)
  BY DEF DestructorMove, Expected
<1>11. \A h \in open \union misused : h[1] \in Ids
  BY DEF Handle
<1>12. OpenMost' /\ OpenLeast'
  BY <1>9, <1>10, <1>11 DEF DestructorMove, HandleInv, OpenMost, OpenLeast
<1>13. MisusedOnlyAfterFailure'
  <2>1. CASE misused' = misused
    BY <1>11, <2>1 DEF DestructorMove, HandleInv, MisusedOnlyAfterFailure
  <2>2. CASE /\ platform = "posix" /\ owner.pc = "interrupt"
             /\ misused' = misused \union (Of(i, {"interrupt1"}) \ open)
    <3>1. Phase(i) = "open"
      BY <1>2, <2>2 DEF DestructorMove, Phase, Here, Closed
    <3>2. <<i, "interrupt1">> \in open \/ worker[i].fails > 0
      BY <1>2, <2>2, <3>1 DEF HandleInv, OpenLeast, Expected
    <3> QED
      BY <1>11, <2>2, <3>2 DEF DestructorMove, HandleInv, MisusedOnlyAfterFailure, Of
  <2> QED
    BY <2>1, <2>2 DEF DestructorMove
<1>14. HeldInv'
  BY DEF DestructorMove, HandleInv, HeldInv
<1>15. open' \subseteq Handle /\ misused' \subseteq Handle /\ platform' \in {"posix", "win"}
  BY DEF DestructorMove, Of, Handle
<1> QED
  BY <1>3, <1>4, <1>5, <1>6, <1>7, <1>8, <1>12, <1>13, <1>14, <1>15 DEF ControlInv, HandleInv

\* The owner goes on, and the worker stays as it is.
LEMMA OwnerMoves ==
  ASSUME IInv, NEW i \in Ids,
         JoinReader(i) \/ WaitReady(i) \/ WaitTimeout(i) \/ WaitExited(i) \/ WaitTimeoutWin(i)
  PROVE  IInv'
<1> USE DEF IInv, TypeInv
<1>1. /\ UNCHANGED <<platform, worker>> /\ UNCHANGED handleVars /\ BudgetType'
      /\ owner.id = i
  BY SpendFacts DEF JoinReader, WaitReady, WaitTimeout, WaitExited, WaitTimeoutWin, At,
                    BudgetType
<1>2. PICK pc \in {"joinWriter", "kill", "terminate", "cleanup"} :
        /\ owner' = [owner EXCEPT !.pc = pc]
        /\ \/ owner.pc = "joinReader" /\ pc = "joinWriter" /\ worker[i].reader = "done"
           \/ owner.pc = "wait" /\ platform = "posix" /\ pc \in {"kill", "cleanup"}
           \/ owner.pc = "wait" /\ platform = "win" /\ pc = "terminate"
           \/ owner.pc = "wait" /\ platform = "win" /\ pc = "cleanup"
              /\ worker[i].sertop = "exited"
  BY DEF JoinReader, WaitReady, WaitTimeout, WaitExited, WaitTimeoutWin, At
<1>3. /\ owner' \in OwnerRecord /\ owner'.pc = pc
      /\ owner'.id = owner.id /\ owner'.lock = owner.lock /\ owner'.waiter = owner.waiter
  BY <1>2 DEF OwnerRecord
<1>4. DestructorMove(i)
  BY <1>1, <1>2, <1>3 DEF DestructorMove, handleVars
<1>5. WorkersType'
  BY <1>1 DEF WorkersType
<1> QED
  BY <1>1, <1>3, <1>4, <1>5, DestructorMoveKeeps

\* SetEvent.
LEMMA DestroySignalsKeeps ==
  ASSUME IInv, NEW i \in Ids, DestroySignals(i)
  PROVE  IInv'
<1> USE DEF IInv, TypeInv
<1> DEFINE v == [worker[i] EXCEPT !.signalled = TRUE]
<1>1. worker[i] \in WorkerRecord
  BY DEF WorkersType
<1>2. v \in WorkerRecord /\ Becomes(i, v)
  <2>1. Becomes(i, v)
    BY <1>1 DEF DestroySignals, Becomes, WorkersType, WorkerRecord
  <2> QED
    BY <1>1, <2>1 DEF WorkerRecord
<1>3. /\ v.life = worker[i].life /\ v.reader = worker[i].reader /\ v.writer = worker[i].writer
      /\ v.fails = worker[i].fails /\ v.sertop = worker[i].sertop /\ v.lost = worker[i].lost
      /\ v.holds = worker[i].holds
  BY <1>1 DEF WorkerRecord
<1> HIDE DEF v
<1>4. WorkersType' /\ worker'[i] = v /\ \A j \in Ids : j # i => worker'[j] = worker[j]
  BY <1>2, BecomesFacts
<1>5. owner' = [pc |-> "cancel", id |-> owner.id, lock |-> owner.lock, waiter |-> owner.waiter]
  BY DEF DestroySignals, At, OwnerRecord
<1>6. /\ owner' \in OwnerRecord
      /\ owner'.pc = "cancel" /\ owner'.id = owner.id
      /\ owner'.lock = owner.lock /\ owner'.waiter = owner.waiter
  BY <1>5 DEF OwnerRecord
<1>7. platform' = platform /\ BudgetType'
  BY DEF DestroySignals, BudgetType
<1>8. DestructorMove(i)
  BY <1>3, <1>4, <1>6, <1>7 DEF DestroySignals, At, DestructorMove, handleVars
<1> QED
  BY <1>4, <1>6, <1>7, <1>8, DestructorMoveKeeps

\* CancelIoEx of the destructor.
LEMMA DestroyCancelsKeeps ==
  ASSUME IInv, NEW i \in Ids, DestroyCancels(i)
  PROVE  IInv'
<1> USE DEF IInv, TypeInv
<1> DEFINE v == Cancelled(worker[i])
<1>1. worker[i] \in WorkerRecord
  BY DEF WorkersType
<1>2. v \in WorkerRecord /\ Becomes(i, v)
  <2>1. Becomes(i, v)
    BY <1>1 DEF DestroyCancels, Becomes, WorkersType, WorkerRecord
  <2> QED
    BY <1>1, <2>1, CancelledFacts
<1>3. ThreadMove(worker[i], v) /\ v.reader = worker[i].reader /\ v.fails = worker[i].fails
      /\ \/ v.writer = worker[i].writer
         \/ worker[i].writer = "blocked" /\ v.writer \notin {"none", "join"}
  BY <1>1, CancelledFacts DEF ThreadMove
<1> HIDE DEF v
<1>4. WorkersType' /\ worker'[i] = v /\ \A j \in Ids : j # i => worker'[j] = worker[j]
  BY <1>2, BecomesFacts
<1>5. owner' = [pc |-> "joinReader", id |-> owner.id, lock |-> owner.lock,
                waiter |-> owner.waiter]
  BY DEF DestroyCancels, At, OwnerRecord
<1>6. /\ owner' \in OwnerRecord
      /\ owner'.pc = "joinReader" /\ owner'.id = owner.id
      /\ owner'.lock = owner.lock /\ owner'.waiter = owner.waiter
  BY <1>5 DEF OwnerRecord
<1>7. platform' = platform /\ BudgetType'
  BY DEF DestroyCancels, BudgetType
<1>8. DestructorMove(i)
  BY <1>3, <1>4, <1>6, <1>7
     DEF DestroyCancels, At, DestructorMove, handleVars, ThreadMove, ControlInv, OwnerInv
<1> QED
  BY <1>4, <1>6, <1>7, <1>8, DestructorMoveKeeps

\* The byte on the interrupt pipe, which may be closed.
LEMMA DestroyInterruptKeeps ==
  ASSUME IInv, NEW i \in Ids, DestroyInterrupt(i)
  PROVE  IInv'
<1> USE DEF IInv, TypeInv
<1> DEFINE b == <<i, "interrupt1">> \in open
           v == IF worker' = [worker EXCEPT ![i].signalled = b]
                  THEN [worker[i] EXCEPT !.signalled = b]
                  ELSE [worker[i] EXCEPT !.lost = @ \union {"interrupt"}]
<1>1. worker[i] \in WorkerRecord
  BY DEF WorkersType
<1>2. v \in WorkerRecord /\ Becomes(i, v)
  <2>1. Becomes(i, v)
    BY DEF DestroyInterrupt, Becomes
  <2>2. b \in BOOLEAN
    OBVIOUS
  <2> HIDE DEF b
  <2>3. v \in WorkerRecord
    BY <1>1, <2>2 DEF WorkerRecord
  <2> QED
    BY <2>1, <2>3
<1>3. /\ v.life = worker[i].life /\ v.reader = worker[i].reader /\ v.writer = worker[i].writer
      /\ v.fails = worker[i].fails /\ v.sertop = worker[i].sertop /\ worker[i].lost \subseteq v.lost
      /\ v.holds = worker[i].holds
  BY <1>1 DEF WorkerRecord
<1> HIDE DEF v
<1>4. WorkersType' /\ worker'[i] = v /\ \A j \in Ids : j # i => worker'[j] = worker[j]
  BY <1>2, BecomesFacts
<1>5. owner' = [pc |-> "joinReader", id |-> owner.id, lock |-> owner.lock,
                waiter |-> owner.waiter]
  BY DEF DestroyInterrupt, At, OwnerRecord
<1>6. /\ owner' \in OwnerRecord
      /\ owner'.pc = "joinReader" /\ owner'.id = owner.id
      /\ owner'.lock = owner.lock /\ owner'.waiter = owner.waiter
  BY <1>5 DEF OwnerRecord
<1>7. platform' = platform /\ BudgetType'
  BY SpendFacts DEF DestroyInterrupt, BudgetType
<1>8. DestructorMove(i)
  BY <1>3, <1>4, <1>6, <1>7 DEF DestroyInterrupt, At, DestructorMove, handleVars
<1> QED
  BY <1>4, <1>6, <1>7, <1>8, DestructorMoveKeeps

\* SIGTERM.
LEMMA KillKeeps ==
  ASSUME IInv, NEW i \in Ids, Kill(i)
  PROVE  IInv'
<1> USE DEF IInv, TypeInv
<1> DEFINE v == IF worker' = [worker EXCEPT ![i].sigterm = TRUE]
                  THEN [worker[i] EXCEPT !.sigterm = TRUE]
                  ELSE [worker[i] EXCEPT !.lost = @ \union {"kill"}]
<1>1. worker[i] \in WorkerRecord
  BY DEF WorkersType
<1>2. v \in WorkerRecord /\ Becomes(i, v)
  <2>1. Becomes(i, v)
    BY DEF Kill, Becomes
  <2> QED
    BY <1>1, <2>1 DEF WorkerRecord
<1>3. /\ v.life = worker[i].life /\ v.reader = worker[i].reader /\ v.writer = worker[i].writer
      /\ v.fails = worker[i].fails /\ v.sertop = worker[i].sertop /\ worker[i].lost \subseteq v.lost
      /\ v.holds = worker[i].holds
  BY <1>1 DEF WorkerRecord
<1> HIDE DEF v
<1>4. WorkersType' /\ worker'[i] = v /\ \A j \in Ids : j # i => worker'[j] = worker[j]
  BY <1>2, BecomesFacts
<1>5. owner' = [pc |-> "cleanup", id |-> owner.id, lock |-> owner.lock, waiter |-> owner.waiter]
  BY DEF Kill, At, OwnerRecord
<1>6. /\ owner' \in OwnerRecord
      /\ owner'.pc = "cleanup" /\ owner'.id = owner.id
      /\ owner'.lock = owner.lock /\ owner'.waiter = owner.waiter
  BY <1>5 DEF OwnerRecord
<1>7. platform' = platform /\ BudgetType'
  BY SpendFacts DEF Kill, BudgetType
<1>8. DestructorMove(i)
  BY <1>3, <1>4, <1>6, <1>7 DEF Kill, At, DestructorMove, handleVars, ControlInv, OwnerInv
<1> QED
  BY <1>4, <1>6, <1>7, <1>8, DestructorMoveKeeps

\* waitpid() returns.
LEMMA ReapKeeps ==
  ASSUME IInv, NEW i \in Ids, Reap(i)
  PROVE  IInv'
<1> USE DEF IInv, TypeInv
<1> DEFINE v == [worker[i] EXCEPT !.sertop = "reaped"]
<1>1. worker[i] \in WorkerRecord
  BY DEF WorkersType
<1>2. v \in WorkerRecord /\ Becomes(i, v)
  <2>1. Becomes(i, v)
    BY <1>1 DEF Reap, Becomes, WorkersType, WorkerRecord
  <2> QED
    BY <1>1, <2>1 DEF WorkerRecord
<1>3. /\ v.life = worker[i].life /\ v.reader = worker[i].reader /\ v.writer = worker[i].writer
      /\ v.fails = worker[i].fails /\ v.lost = worker[i].lost /\ v.holds = worker[i].holds
      /\ v.sertop = "reaped"
  BY <1>1 DEF WorkerRecord
<1> HIDE DEF v
<1>4. WorkersType' /\ worker'[i] = v /\ \A j \in Ids : j # i => worker'[j] = worker[j]
  BY <1>2, BecomesFacts
<1>5. owner' = [pc |-> owner.pc, id |-> owner.id, lock |-> owner.lock, waiter |-> "ready"]
  BY DEF Reap, OwnerRecord
<1>6. /\ owner' \in OwnerRecord
      /\ owner'.pc = owner.pc /\ owner'.id = owner.id
      /\ owner'.lock = owner.lock /\ owner'.waiter = "ready"
  BY <1>5 DEF OwnerRecord
<1>7. platform' = platform /\ BudgetType'
  BY DEF Reap, BudgetType
<1>8. DestructorMove(i)
  BY <1>3, <1>4, <1>6, <1>7 DEF Reap, DestructorMove, handleVars
<1> QED
  BY <1>4, <1>6, <1>7, <1>8, DestructorMoveKeeps

\* waitpid() fails.
LEMMA ReapFailsKeeps ==
  ASSUME IInv, NEW i \in Ids, ReapFails(i)
  PROVE  IInv'
<1> USE DEF IInv, TypeInv
<1> DEFINE v == [worker[i] EXCEPT !.lost = @ \union {"process"}]
<1>1. worker[i] \in WorkerRecord
  BY DEF WorkersType
<1>2. v \in WorkerRecord /\ Becomes(i, v)
  <2>1. Becomes(i, v)
    BY <1>1 DEF ReapFails, Becomes, WorkersType, WorkerRecord
  <2> QED
    BY <1>1, <2>1 DEF WorkerRecord
<1>3. /\ v.life = worker[i].life /\ v.reader = worker[i].reader /\ v.writer = worker[i].writer
      /\ v.fails = worker[i].fails /\ v.sertop = worker[i].sertop /\ v.holds = worker[i].holds
      /\ "process" \in v.lost
  BY <1>1 DEF WorkerRecord
<1> HIDE DEF v
<1>4. WorkersType' /\ worker'[i] = v /\ \A j \in Ids : j # i => worker'[j] = worker[j]
  BY <1>2, BecomesFacts
<1>5. owner' = [pc |-> owner.pc, id |-> owner.id, lock |-> owner.lock, waiter |-> "failed"]
  BY DEF ReapFails, OwnerRecord
<1>6. /\ owner' \in OwnerRecord
      /\ owner'.pc = owner.pc /\ owner'.id = owner.id
      /\ owner'.lock = owner.lock /\ owner'.waiter = "failed"
  BY <1>5 DEF OwnerRecord
<1>7. platform' = platform /\ BudgetType'
  BY SpendFacts DEF ReapFails, BudgetType
<1>8. DestructorMove(i)
  BY <1>3, <1>4, <1>6, <1>7 DEF ReapFails, DestructorMove, handleVars
<1> QED
  BY <1>4, <1>6, <1>7, <1>8, DestructorMoveKeeps

\* TerminateProcess, or its failure.
LEMMA TerminateKeeps ==
  ASSUME IInv, NEW i \in Ids, Terminate(i)
  PROVE  IInv'
<1> USE DEF IInv, TypeInv
<1> DEFINE w == worker[i]
<1>1. w \in WorkerRecord
  BY DEF WorkersType
<1>2. platform' = platform /\ open' = open /\ misused' = misused /\ BudgetType'
  BY SpendFacts DEF Terminate, BudgetType, handleVars
<1>3. PICK v \in WorkerRecord :
        /\ Becomes(i, v)
        /\ v.life = w.life /\ v.reader = w.reader /\ v.writer = w.writer /\ v.fails = w.fails
        /\ \/ v.sertop = "exited" /\ v.holds = {}
           \/ v.sertop = w.sertop /\ v.holds = w.holds /\ "process" \in v.lost
  <2>1. CASE worker' = [worker EXCEPT ![i].sertop = "exited", ![i].holds = {}]
    <3> DEFINE v == [w EXCEPT !.sertop = "exited", !.holds = {}]
    <3>1. Becomes(i, v)
      BY <2>1 DEF Becomes
    <3>2. v \in WorkerRecord
      BY <1>1 DEF WorkerRecord
    <3>3. /\ v.life = w.life /\ v.reader = w.reader /\ v.writer = w.writer
          /\ v.fails = w.fails /\ v.sertop = "exited" /\ v.holds = {}
      BY <1>1 DEF WorkerRecord
    <3> QED
      BY <3>1, <3>2, <3>3
  <2>2. CASE worker' = [worker EXCEPT ![i].lost = @ \union {"process"}]
    <3> DEFINE v == [w EXCEPT !.lost = @ \union {"process"}]
    <3>1. Becomes(i, v)
      BY <2>2 DEF Becomes
    <3>2. v \in WorkerRecord
      BY <1>1 DEF WorkerRecord
    <3>3. /\ v.life = w.life /\ v.reader = w.reader /\ v.writer = w.writer
          /\ v.fails = w.fails /\ v.sertop = w.sertop /\ v.holds = w.holds
          /\ "process" \in v.lost
      BY <1>1 DEF WorkerRecord
    <3> QED
      BY <3>1, <3>2, <3>3
  <2> QED
    BY <2>1, <2>2 DEF Terminate
<1>4. WorkersType' /\ worker'[i] = v /\ \A j \in Ids : j # i => worker'[j] = worker[j]
  BY <1>3, BecomesFacts
<1>5. owner' = [pc |-> "cleanup", id |-> owner.id, lock |-> owner.lock, waiter |-> owner.waiter]
  BY DEF Terminate, At, OwnerRecord
<1>6. /\ owner' \in OwnerRecord
      /\ owner'.pc = "cleanup" /\ owner'.id = owner.id
      /\ owner'.lock = owner.lock /\ owner'.waiter = owner.waiter
  BY <1>5 DEF OwnerRecord
<1>7. DestructorMove(i)
  BY <1>2, <1>3, <1>4, <1>6 DEF Terminate, At, DestructorMove, ControlInv, OwnerInv
<1> QED
  BY <1>2, <1>4, <1>6, <1>7, DestructorMoveKeeps

(***************************************************************************)
(* The steps that open and close handles, or change a worker's life.       *)
(***************************************************************************)

\* What HandleInv says of the handles of worker i, less HeldInv.
HandlesRight(i) ==
  /\ \A h \in open : h[1] = i => h[2] \in Expected(Phase(i))
  /\ worker[i].life # "failed" =>
       \A n \in Expected(Phase(i)) :
         <<i, n>> \in open \/ (n = "interrupt1" /\ worker[i].fails > 0)
  /\ \A h \in misused : h[1] = i =>
       \/ h[2] = "interrupt1" /\ worker[i].fails > 0
       \/ h[2] = "thread" /\ worker[i].life = "failed"

\* The step is one of worker i and of the owner, who works on no other one.
StepOf(i) ==
  /\ platform' = platform
  /\ \A j \in Ids : j # i => worker'[j] = worker[j]
  /\ \A h \in Handle : h[1] # i =>
       (h \in open' <=> h \in open) /\ (h \in misused' <=> h \in misused)
  /\ open' \subseteq Handle /\ misused' \subseteq Handle
  /\ owner.id = i \/ owner.pc = "idle"
  /\ owner'.id = i \/ owner'.pc = "idle"

\* Then only the handles of worker i matter.
LEMMA StepOfOne ==
  ASSUME IInv, NEW i \in Ids, StepOf(i), HandlesRight(i)'
  PROVE  OpenMost' /\ OpenLeast' /\ MisusedOnlyAfterFailure'
<1> USE DEF IInv, TypeInv, StepOf
<1>1. \A j \in Ids : j # i => Phase(j)' = Phase(j)
  BY DEF Phase, Here, Closed
<1>2. \A p : Expected(p)' = Expected(p)
  BY DEF Expected
<1>3. \A h \in Handle : h[1] \in Ids
  BY DEF Handle
<1>4. OpenMost'
  BY <1>1, <1>2, <1>3 DEF HandlesRight, HandleInv, OpenMost
<1>5. OpenLeast'
  <2> SUFFICES ASSUME NEW j \in Ids, worker'[j].life # "failed", NEW n \in Expected(Phase(j))'
               PROVE  <<j, n>> \in open' \/ (n = "interrupt1" /\ worker'[j].fails > 0)
    BY DEF OpenLeast
  <2>1. CASE j = i
    BY <2>1 DEF HandlesRight
  <2>2. CASE j # i
    BY <1>1, <1>2, <2>2 DEF HandleInv, OpenLeast
  <2> QED
    BY <2>1, <2>2
<1>6. MisusedOnlyAfterFailure'
  BY <1>3 DEF HandlesRight, HandleInv, MisusedOnlyAfterFailure
<1> QED
  BY <1>4, <1>5, <1>6

\* Handles that were expected to be open are closed, and are not expected any more.
LEMMA ClosingRight ==
  ASSUME IInv, NEW i \in Ids, NEW S, CloseAll(Of(i, S)), S \subseteq Expected(Phase(i)),
         Expected(Phase(i))' = Expected(Phase(i)) \ S,
         worker[i].life # "failed", worker'[i].life # "failed",
         worker'[i].fails = worker[i].fails
  PROVE  HandlesRight(i)'
<1> USE DEF IInv, TypeInv, CloseAll, Of
<1>1. \A h \in open' : h[1] = i => h[2] \in Expected(Phase(i))'
  BY DEF HandleInv, OpenMost, Handle
<1>2. \A n \in Expected(Phase(i))' :
        <<i, n>> \in open' \/ (n = "interrupt1" /\ worker'[i].fails > 0)
  BY DEF HandleInv, OpenLeast
<1>3. \A h \in misused' : h[1] = i => h[2] = "interrupt1" /\ worker'[i].fails > 0
  BY DEF HandleInv, OpenLeast, MisusedOnlyAfterFailure
<1> QED
  BY <1>1, <1>2, <1>3 DEF HandlesRight

\* The worker that comes next is the first one that was not constructed.
LEMMA NextIsFirst ==
  ASSUME BornInv, NEW i \in Ids, IsNext(i)
  PROVE  \A j \in Ids : worker[j].life # "none" <=> j < i
<1> DEFINE S == {j \in Ids : worker[j].life # "none"}
<1>1. MaxWorkers \in Nat
  BY WorkerAssumption
<1>2. PICK n \in 0 .. MaxWorkers : \A j \in Ids : worker[j].life # "none" <=> j < n
  BY DEF BornInv
<1>3. S = 0 .. n - 1
  BY <1>1, <1>2 DEF Ids
<1>4. Cardinality(S) = n
  <2> DEFINE m == n - 1
  <2>1. m \in Int /\ n = IF 0 > m THEN 0 ELSE m - 0 + 1
    BY <1>2
  <2> HIDE DEF m
  <2>2. Cardinality(0 .. m) = IF 0 > m THEN 0 ELSE m - 0 + 1
    BY <2>1, FS_Interval
  <2> QED
    BY <1>3, <2>1, <2>2 DEF m
<1> QED
  BY <1>2, <1>4 DEF IsNext

\* The destructor begins.
LEMMA DestroyKeeps ==
  ASSUME IInv, NEW i \in Ids, Destroy(i)
  PROVE  IInv'
<1> USE DEF IInv, TypeInv
<1>1. /\ worker[i].life = "alive"
      /\ owner.pc = "idle" /\ owner.lock \in {"free", "owner", "dead"}
      /\ owner.waiter = "none"
  BY DEF Destroy, OwnerIdle, ControlInv, OwnerInv, Here, OwnerRecord
<1>2. /\ platform' = platform
      /\ BudgetType'
      /\ open' = open
      /\ misused' = misused
  BY DEF Destroy, BudgetType, handleVars, CloseAll
<1> DEFINE w == worker[i]
           v == [w EXCEPT !.life = "destroying", !.running = FALSE]
<1>3. WorkersType' /\ worker'[i] = v /\ \A j \in Ids : j # i => worker'[j] = worker[j]
  <2>1. w \in WorkerRecord /\ Becomes(i, v)
    BY DEF Destroy, Becomes, WorkersType, WorkerRecord
  <2>2. v \in WorkerRecord
    BY <2>1 DEF WorkerRecord
  <2> HIDE DEF v
  <2> QED
    BY <2>1, <2>2, BecomesFacts
<1>4. /\ v.reader = w.reader /\ v.writer = w.writer /\ v.fails = w.fails
      /\ v.sertop = w.sertop /\ v.lost = w.lost /\ v.holds = w.holds
      /\ v.life = "destroying"
  BY DEF WorkersType, WorkerRecord
<1> HIDE DEF v
<1>5. /\ owner' \in OwnerRecord
      /\ owner'.pc = (IF worker[i].running THEN "interrupt" ELSE "joinReader")
      /\ owner'.id = i /\ owner'.lock = (IF owner.lock = "free" THEN "owner" ELSE owner.lock)
      /\ owner'.waiter = owner.waiter
  BY DEF Destroy, OwnerIdle, OwnerRecord
<1>6. BornInv'
  BY <1>1, <1>2, <1>3, <1>4, <1>5 DEF ControlInv, BornInv
<1>7. OwnerInv'
  BY <1>1, <1>2, <1>3, <1>4, <1>5 DEF ControlInv, OwnerInv, LifeInv, Here
<1>8. LifeInv'
  BY <1>1, <1>2, <1>3, <1>4, <1>5 DEF ControlInv, LifeInv, OwnerInv, Here
<1>9. ThreadInv'
  BY <1>1, <1>2, <1>3, <1>4, <1>5
     DEF ControlInv, ThreadInv, OwnerInv, LifeInv, Here, Closed, Running
<1>10. EndInv'
  BY <1>1, <1>2, <1>3, <1>4, <1>5 DEF ControlInv, EndInv, OwnerInv, Here
<1>11. NoProcessLeft'
  BY <1>1, <1>2, <1>3, <1>4, <1>5 DEF ControlInv, NoProcessLeft, OwnerInv, EndInv, Here
<1>12. StepOf(i)
  BY <1>1, <1>2, <1>3, <1>4, <1>5 DEF StepOf, Here, Of, Handle, ControlInv, OwnerInv
<1>13. HandlesRight(i)'
  BY <1>1, <1>2, <1>3, <1>4, <1>5
     DEF HandlesRight, HandleInv, OpenMost, OpenLeast, MisusedOnlyAfterFailure,
     Phase, Expected, Here, Closed, Of, ControlInv, OwnerInv, LifeInv
<1>14. HeldInv'
  BY <1>1, <1>2, <1>3, <1>4, <1>5 DEF HandleInv, HeldInv
<1> QED
  BY <1>2, <1>3, <1>5, <1>6, <1>7, <1>8, <1>9, <1>10, <1>11, <1>12, <1>13, <1>14, StepOfOne
     DEF ControlInv, HandleInv, StepOf

\* Both threads are joined, and the pipes to sertop closed.
LEMMA JoinWriterKeeps ==
  ASSUME IInv, NEW i \in Ids, JoinWriter(i)
  PROVE  IInv'
<1> USE DEF IInv, TypeInv
<1>1. /\ owner.id = i /\ owner.pc = "joinWriter" /\ platform = "posix"
      /\ worker[i].writer = "done"
      /\ worker[i].life = "destroying"
  BY DEF JoinWriter, At, OwnerIdle, ControlInv, OwnerInv, Here
<1>2. /\ platform' = platform
      /\ BudgetType'
      /\ open' = open \ Of(i, {"stdin1", "stdout0"})
      /\ misused' = misused \union (Of(i, {"stdin1", "stdout0"}) \ open)
  BY DEF JoinWriter, BudgetType, handleVars, CloseAll
<1>3. worker' = worker /\ WorkersType'
  BY DEF JoinWriter, WorkersType
<1>5. /\ owner' \in OwnerRecord /\ owner'.pc = "wait"
      /\ owner'.id = owner.id /\ owner'.lock = owner.lock
      /\ owner'.waiter = "waiting"
  BY DEF JoinWriter, At, OwnerIdle, OwnerRecord
<1>6. BornInv'
  BY <1>1, <1>2, <1>3, <1>5 DEF ControlInv, BornInv
<1>7. OwnerInv'
  BY <1>1, <1>2, <1>3, <1>5 DEF ControlInv, OwnerInv, LifeInv, Here
<1>8. LifeInv'
  BY <1>1, <1>2, <1>3, <1>5 DEF ControlInv, LifeInv, OwnerInv, Here
<1>9. ThreadInv'
  BY <1>1, <1>2, <1>3, <1>5 DEF ControlInv, ThreadInv, OwnerInv, LifeInv, Here, Closed, Running
<1>10. EndInv'
  BY <1>1, <1>2, <1>3, <1>5 DEF ControlInv, EndInv, OwnerInv, Here
<1>11. NoProcessLeft'
  BY <1>1, <1>2, <1>3, <1>5 DEF ControlInv, NoProcessLeft, OwnerInv, EndInv, Here
<1>12. StepOf(i)
  BY <1>1, <1>2, <1>3, <1>5 DEF StepOf, Here, Of, Handle, ControlInv, OwnerInv
<1>13. HandlesRight(i)'
  <2>1. Phase(i) = "open" /\ Phase(i)' = "closed"
    BY <1>1, <1>2, <1>3, <1>5 DEF Phase, Here, Closed
  <2>2. {"stdin1", "stdout0"} \subseteq Expected(Phase(i))
    BY <1>1, <2>1 DEF Expected
  <2>3. Expected(Phase(i))' = Expected(Phase(i)) \ {"stdin1", "stdout0"}
    BY <1>1, <1>2, <2>1 DEF Expected
  <2> QED
    BY <1>1, <1>2, <1>3, <1>5, <2>2, <2>3, ClosingRight DEF CloseAll
<1>14. HeldInv'
  BY <1>1, <1>2, <1>3, <1>5 DEF HandleInv, HeldInv
<1> QED
  BY <1>2, <1>3, <1>5, <1>6, <1>7, <1>8, <1>9, <1>10, <1>11, <1>12, <1>13, <1>14, StepOfOne
     DEF ControlInv, HandleInv, StepOf

\* Both threads are joined, and the pipe closed.
LEMMA JoinWriterWinKeeps ==
  ASSUME IInv, NEW i \in Ids, JoinWriterWin(i)
  PROVE  IInv'
<1> USE DEF IInv, TypeInv
<1>1. /\ owner.id = i /\ owner.pc = "joinWriter" /\ platform = "win"
      /\ worker[i].writer = "done"
      /\ worker[i].life = "destroying"
  BY DEF JoinWriterWin, At, OwnerIdle, ControlInv, OwnerInv, Here
<1>2. /\ platform' = platform
      /\ BudgetType'
      /\ open' = open \ Of(i, {"sertopEnd", "workerEnd"})
      /\ misused' = misused \union (Of(i, {"sertopEnd", "workerEnd"}) \ open)
  BY DEF JoinWriterWin, BudgetType, handleVars, CloseAll
<1> DEFINE w == worker[i]
           v == Cancelled(w)
<1>3. WorkersType' /\ worker'[i] = v /\ \A j \in Ids : j # i => worker'[j] = worker[j]
  <2>1. w \in WorkerRecord /\ Becomes(i, v)
    BY DEF JoinWriterWin, Becomes, WorkersType, WorkerRecord
  <2>2. v \in WorkerRecord
    BY <2>1, CancelledFacts
  <2> HIDE DEF v
  <2> QED
    BY <2>1, <2>2, BecomesFacts
<1>4. /\ v.life = w.life /\ v.reader = w.reader /\ v.writer = w.writer
      /\ v.fails = w.fails /\ v.sertop = w.sertop /\ v.lost = w.lost
      /\ v.holds = w.holds
  BY <1>1, CancelledFacts DEF ThreadMove, Alike, WorkersType
<1> HIDE DEF v
<1>5. /\ owner' \in OwnerRecord /\ owner'.pc = "wait"
      /\ owner'.id = owner.id /\ owner'.lock = owner.lock
      /\ owner'.waiter = owner.waiter
  BY DEF JoinWriterWin, At, OwnerIdle, OwnerRecord
<1>6. BornInv'
  BY <1>1, <1>2, <1>3, <1>4, <1>5 DEF ControlInv, BornInv
<1>7. OwnerInv'
  BY <1>1, <1>2, <1>3, <1>4, <1>5 DEF ControlInv, OwnerInv, LifeInv, Here
<1>8. LifeInv'
  BY <1>1, <1>2, <1>3, <1>4, <1>5 DEF ControlInv, LifeInv, OwnerInv, Here
<1>9. ThreadInv'
  BY <1>1, <1>2, <1>3, <1>4, <1>5
     DEF ControlInv, ThreadInv, OwnerInv, LifeInv, Here, Closed, Running
<1>10. EndInv'
  BY <1>1, <1>2, <1>3, <1>4, <1>5 DEF ControlInv, EndInv, OwnerInv, Here
<1>11. NoProcessLeft'
  BY <1>1, <1>2, <1>3, <1>4, <1>5 DEF ControlInv, NoProcessLeft, OwnerInv, EndInv, Here
<1>12. StepOf(i)
  BY <1>1, <1>2, <1>3, <1>4, <1>5 DEF StepOf, Here, Of, Handle, ControlInv, OwnerInv
<1>13. HandlesRight(i)'
  <2>1. Phase(i) = "open" /\ Phase(i)' = "closed"
    BY <1>1, <1>2, <1>3, <1>4, <1>5 DEF Phase, Here, Closed
  <2>2. {"sertopEnd", "workerEnd"} \subseteq Expected(Phase(i))
    BY <1>1, <2>1 DEF Expected
  <2>3. Expected(Phase(i))' = Expected(Phase(i)) \ {"sertopEnd", "workerEnd"}
    BY <1>1, <1>2, <2>1 DEF Expected
  <2> QED
    BY <1>1, <1>2, <1>3, <1>4, <1>5, <2>2, <2>3, ClosingRight DEF CloseAll
<1>14. HeldInv'
  BY <1>1, <1>2, <1>3, <1>4, <1>5 DEF HandleInv, HeldInv
<1> QED
  BY <1>2, <1>3, <1>5, <1>6, <1>7, <1>8, <1>9, <1>10, <1>11, <1>12, <1>13, <1>14, StepOfOne
     DEF ControlInv, HandleInv, StepOf

\* The interrupt pipe is closed.
LEMMA CleanupKeeps ==
  ASSUME IInv, NEW i \in Ids, Cleanup(i)
  PROVE  IInv'
<1> USE DEF IInv, TypeInv
<1>1. /\ owner.id = i /\ owner.pc = "cleanup" /\ platform = "posix"
      /\ worker[i].life = "destroying"
  BY DEF Cleanup, At, OwnerIdle, ControlInv, OwnerInv, Here
<1>2. /\ platform' = platform
      /\ BudgetType'
      /\ open' = open \ Of(i, {"interrupt0", "interrupt1"})
      /\ misused' = misused \union (Of(i, {"interrupt0", "interrupt1"}) \ open)
  BY DEF Cleanup, BudgetType, handleVars, CloseAll
<1>3. worker' = worker /\ WorkersType'
  BY DEF Cleanup, WorkersType
<1>5. /\ owner' \in OwnerRecord /\ owner'.pc = "future"
      /\ owner'.id = owner.id /\ owner'.lock = owner.lock
      /\ owner'.waiter = owner.waiter
  BY DEF Cleanup, At, OwnerIdle, OwnerRecord
<1>6. BornInv'
  BY <1>1, <1>2, <1>3, <1>5 DEF ControlInv, BornInv
<1>7. OwnerInv'
  BY <1>1, <1>2, <1>3, <1>5 DEF ControlInv, OwnerInv, LifeInv, Here
<1>8. LifeInv'
  BY <1>1, <1>2, <1>3, <1>5 DEF ControlInv, LifeInv, OwnerInv, Here
<1>9. ThreadInv'
  BY <1>1, <1>2, <1>3, <1>5 DEF ControlInv, ThreadInv, OwnerInv, LifeInv, Here, Closed, Running
<1>10. EndInv'
  BY <1>1, <1>2, <1>3, <1>5 DEF ControlInv, EndInv, OwnerInv, Here
<1>11. NoProcessLeft'
  BY <1>1, <1>2, <1>3, <1>5 DEF ControlInv, NoProcessLeft, OwnerInv, EndInv, Here
<1>12. StepOf(i)
  BY <1>1, <1>2, <1>3, <1>5 DEF StepOf, Here, Of, Handle, ControlInv, OwnerInv
<1>13. HandlesRight(i)'
  <2>1. Phase(i) = "closed" /\ Phase(i)' = "destroyed"
    BY <1>1, <1>2, <1>3, <1>5 DEF Phase, Here, Closed
  <2>2. {"interrupt0", "interrupt1"} \subseteq Expected(Phase(i))
    BY <1>1, <2>1 DEF Expected
  <2>3. Expected(Phase(i))' = Expected(Phase(i)) \ {"interrupt0", "interrupt1"}
    BY <1>1, <1>2, <2>1 DEF Expected
  <2> QED
    BY <1>1, <1>2, <1>3, <1>5, <2>2, <2>3, ClosingRight DEF CloseAll
<1>14. HeldInv'
  BY <1>1, <1>2, <1>3, <1>5 DEF HandleInv, HeldInv
<1> QED
  BY <1>2, <1>3, <1>5, <1>6, <1>7, <1>8, <1>9, <1>10, <1>11, <1>12, <1>13, <1>14, StepOfOne
     DEF ControlInv, HandleInv, StepOf

\* The destructor returns on POSIX.
LEMMA FutureDoneKeeps ==
  ASSUME IInv, NEW i \in Ids, FutureDone(i)
  PROVE  IInv'
<1> USE DEF IInv, TypeInv
<1>1. /\ owner.id = i /\ owner.pc = "future" /\ platform = "posix"
      /\ worker[i].life = "destroying" /\ owner.waiter \in {"ready", "failed"}
  BY DEF FutureDone, At, OwnerIdle, ControlInv, OwnerInv, Here, OwnerRecord
<1>2. /\ platform' = platform
      /\ BudgetType'
      /\ open' = open
      /\ misused' = misused
  BY DEF FutureDone, BudgetType, handleVars, CloseAll
<1> DEFINE w == worker[i]
           v == Gone(w)
<1>3. WorkersType' /\ worker'[i] = v /\ \A j \in Ids : j # i => worker'[j] = worker[j]
  <2>1. w \in WorkerRecord /\ Becomes(i, v)
    BY DEF FutureDone, Becomes, WorkersType, WorkerRecord
  <2>2. v \in WorkerRecord
    BY <2>1, GoneFacts
  <2> HIDE DEF v
  <2> QED
    BY <2>1, <2>2, BecomesFacts
<1>4. /\ v.life = "destroyed" /\ v.reader = w.reader /\ v.writer = w.writer
      /\ v.fails = w.fails /\ v.sertop = w.sertop /\ v.lost = w.lost
      /\ v.holds = w.holds
  BY <1>1, GoneFacts DEF ThreadMove, Alike, WorkersType
<1> HIDE DEF v
<1>5. /\ owner' \in OwnerRecord /\ owner'.pc = "idle" /\ owner'.waiter = "none"
      /\ owner'.lock = (IF owner.lock = "owner" THEN "free" ELSE owner.lock)
  BY DEF FutureDone, Return, OwnerRecord
<1>6. BornInv'
  BY <1>1, <1>2, <1>3, <1>4, <1>5 DEF ControlInv, BornInv
<1>7. OwnerInv'
  BY <1>1, <1>2, <1>3, <1>4, <1>5 DEF ControlInv, OwnerInv, LifeInv, Here
<1>8. LifeInv'
  BY <1>1, <1>2, <1>3, <1>4, <1>5 DEF ControlInv, LifeInv, OwnerInv, Here
<1>9. ThreadInv'
  BY <1>1, <1>2, <1>3, <1>4, <1>5
     DEF ControlInv, ThreadInv, OwnerInv, LifeInv, Here, Closed, Running
<1>10. EndInv'
  BY <1>1, <1>2, <1>3, <1>4, <1>5 DEF ControlInv, EndInv, OwnerInv, Here
<1>11. NoProcessLeft'
  BY <1>1, <1>2, <1>3, <1>4, <1>5 DEF ControlInv, NoProcessLeft, OwnerInv, EndInv, Here
<1>12. StepOf(i)
  BY <1>1, <1>2, <1>3, <1>4, <1>5 DEF StepOf, Here, Of, Handle, ControlInv, OwnerInv
<1>13. HandlesRight(i)'
  BY <1>1, <1>2, <1>3, <1>4, <1>5
     DEF HandlesRight, HandleInv, OpenMost, OpenLeast, MisusedOnlyAfterFailure,
     Phase, Expected, Here, Closed, Of, ControlInv, OwnerInv, LifeInv
<1>14. HeldInv'
  BY <1>1, <1>2, <1>3, <1>4, <1>5 DEF HandleInv, HeldInv
<1> QED
  BY <1>2, <1>3, <1>5, <1>6, <1>7, <1>8, <1>9, <1>10, <1>11, <1>12, <1>13, <1>14, StepOfOne
     DEF ControlInv, HandleInv, StepOf

\* The destructor returns on Windows.
LEMMA CleanupWinKeeps ==
  ASSUME IInv, NEW i \in Ids, CleanupWin(i)
  PROVE  IInv'
<1> USE DEF IInv, TypeInv
<1>1. /\ owner.id = i /\ owner.pc = "cleanup" /\ platform = "win"
      /\ worker[i].life = "destroying"
  BY DEF CleanupWin, At, OwnerIdle, ControlInv, OwnerInv, Here
<1>2. /\ platform' = platform
      /\ BudgetType'
      /\ open' = open \ Of(i, {"process"})
      /\ misused' = misused \union (Of(i, {"process"}) \ open)
  BY DEF CleanupWin, BudgetType, handleVars, CloseAll
<1> DEFINE w == worker[i]
           v == Gone(w)
<1>3. WorkersType' /\ worker'[i] = v /\ \A j \in Ids : j # i => worker'[j] = worker[j]
  <2>1. w \in WorkerRecord /\ Becomes(i, v)
    BY DEF CleanupWin, Becomes, WorkersType, WorkerRecord
  <2>2. v \in WorkerRecord
    BY <2>1, GoneFacts
  <2> HIDE DEF v
  <2> QED
    BY <2>1, <2>2, BecomesFacts
<1>4. /\ v.life = "destroyed" /\ v.reader = w.reader /\ v.writer = w.writer
      /\ v.fails = w.fails /\ v.sertop = w.sertop /\ v.lost = w.lost
      /\ v.holds = w.holds
  BY <1>1, GoneFacts DEF ThreadMove, Alike, WorkersType
<1> HIDE DEF v
<1>5. /\ owner' \in OwnerRecord /\ owner'.pc = "idle" /\ owner'.waiter = "none"
      /\ owner'.lock = (IF owner.lock = "owner" THEN "free" ELSE owner.lock)
  BY DEF CleanupWin, Return, OwnerRecord
<1>6. BornInv'
  BY <1>1, <1>2, <1>3, <1>4, <1>5 DEF ControlInv, BornInv
<1>7. OwnerInv'
  BY <1>1, <1>2, <1>3, <1>4, <1>5 DEF ControlInv, OwnerInv, LifeInv, Here
<1>8. LifeInv'
  BY <1>1, <1>2, <1>3, <1>4, <1>5 DEF ControlInv, LifeInv, OwnerInv, Here
<1>9. ThreadInv'
  BY <1>1, <1>2, <1>3, <1>4, <1>5
     DEF ControlInv, ThreadInv, OwnerInv, LifeInv, Here, Closed, Running
<1>10. EndInv'
  BY <1>1, <1>2, <1>3, <1>4, <1>5 DEF ControlInv, EndInv, OwnerInv, Here
<1>11. NoProcessLeft'
  BY <1>1, <1>2, <1>3, <1>4, <1>5 DEF ControlInv, NoProcessLeft, OwnerInv, EndInv, Here
<1>12. StepOf(i)
  BY <1>1, <1>2, <1>3, <1>4, <1>5 DEF StepOf, Here, Of, Handle, ControlInv, OwnerInv
<1>13. HandlesRight(i)'
  <2>1. Phase(i) = "closed" /\ Phase(i)' = "destroyed"
    BY <1>1, <1>2, <1>3, <1>4, <1>5 DEF Phase, Here, Closed
  <2>2. {"process"} \subseteq Expected(Phase(i))
    BY <1>1, <2>1 DEF Expected
  <2>3. Expected(Phase(i))' = Expected(Phase(i)) \ {"process"}
    BY <1>1, <1>2, <2>1 DEF Expected
  <2> QED
    BY <1>1, <1>2, <1>3, <1>4, <1>5, <2>2, <2>3, ClosingRight DEF CloseAll
<1>14. HeldInv'
  BY <1>1, <1>2, <1>3, <1>4, <1>5 DEF HandleInv, HeldInv
<1> QED
  BY <1>2, <1>3, <1>5, <1>6, <1>7, <1>8, <1>9, <1>10, <1>11, <1>12, <1>13, <1>14, StepOfOne
     DEF ControlInv, HandleInv, StepOf

\* The constructor returns on POSIX.
LEMMA StartKeeps ==
  ASSUME IInv, NEW i \in Ids, Start(i)
  PROVE  IInv'
<1> USE DEF IInv, TypeInv
<1>1. /\ owner.id = i /\ owner.pc = "forked" /\ platform = "posix"
      /\ worker[i].life = "constructing"
  BY DEF Start, At, OwnerIdle, ControlInv, OwnerInv, Here
<1>2. /\ platform' = platform
      /\ BudgetType'
      /\ open' = open \ Of(i, {"stdin0", "stdout1"})
      /\ misused' = misused \union (Of(i, {"stdin0", "stdout1"}) \ open)
  BY DEF Start, BudgetType, handleVars, CloseAll
<1> DEFINE w == worker[i]
           v == [w EXCEPT !.life = "alive", !.running = TRUE, !.reader = "poll", !.writer = "wait"]
<1>3. WorkersType' /\ worker'[i] = v /\ \A j \in Ids : j # i => worker'[j] = worker[j]
  <2>1. w \in WorkerRecord /\ Becomes(i, v)
    BY DEF Start, Becomes, WorkersType, WorkerRecord
  <2>2. v \in WorkerRecord
    BY <2>1 DEF WorkerRecord
  <2> HIDE DEF v
  <2> QED
    BY <2>1, <2>2, BecomesFacts
<1>4. /\ v.fails = w.fails /\ v.sertop = w.sertop /\ v.lost = w.lost
      /\ v.holds = w.holds /\ v.life = "alive" /\ v.reader = "poll"
      /\ v.writer = "wait"
  BY DEF WorkersType, WorkerRecord
<1> HIDE DEF v
<1>5. /\ owner' \in OwnerRecord /\ owner'.pc = "idle" /\ owner'.waiter = "none"
      /\ owner'.lock = (IF owner.lock = "owner" THEN "free" ELSE owner.lock)
  BY DEF Start, Return, OwnerRecord
<1>6. BornInv'
  BY <1>1, <1>2, <1>3, <1>4, <1>5 DEF ControlInv, BornInv
<1>7. OwnerInv'
  BY <1>1, <1>2, <1>3, <1>4, <1>5 DEF ControlInv, OwnerInv, LifeInv, Here
<1>8. LifeInv'
  BY <1>1, <1>2, <1>3, <1>4, <1>5 DEF ControlInv, LifeInv, OwnerInv, Here
<1>9. ThreadInv'
  BY <1>1, <1>2, <1>3, <1>4, <1>5
     DEF ControlInv, ThreadInv, OwnerInv, LifeInv, Here, Closed, Running
<1>10. EndInv'
  BY <1>1, <1>2, <1>3, <1>4, <1>5 DEF ControlInv, EndInv, OwnerInv, Here
<1>11. NoProcessLeft'
  BY <1>1, <1>2, <1>3, <1>4, <1>5 DEF ControlInv, NoProcessLeft, OwnerInv, EndInv, Here
<1>12. StepOf(i)
  BY <1>1, <1>2, <1>3, <1>4, <1>5 DEF StepOf, Here, Of, Handle, ControlInv, OwnerInv
<1>13. HandlesRight(i)'
  <2>1. Phase(i) = "constructing" /\ Phase(i)' = "open"
    BY <1>1, <1>2, <1>3, <1>4, <1>5 DEF Phase, Here, Closed
  <2>2. {"stdin0", "stdout1"} \subseteq Expected(Phase(i))
    BY <1>1, <2>1 DEF Expected
  <2>3. Expected(Phase(i))' = Expected(Phase(i)) \ {"stdin0", "stdout1"}
    BY <1>1, <1>2, <2>1 DEF Expected
  <2> QED
    BY <1>1, <1>2, <1>3, <1>4, <1>5, <2>2, <2>3, ClosingRight DEF CloseAll
<1>14. HeldInv'
  BY <1>1, <1>2, <1>3, <1>4, <1>5 DEF HandleInv, HeldInv
<1> QED
  BY <1>2, <1>3, <1>5, <1>6, <1>7, <1>8, <1>9, <1>10, <1>11, <1>12, <1>13, <1>14, StepOfOne
     DEF ControlInv, HandleInv, StepOf

\* The write thread begins to destroy its own worker.
LEMMA WriterErasesItselfKeeps ==
  ASSUME IInv, NEW i \in Ids, WriterErasesItself(i)
  PROVE  IInv'
<1> USE DEF IInv, TypeInv
<1>1. /\ worker[i].life = "alive" /\ worker[i].writer = "fail"
      /\ owner.pc = "idle" /\ owner.lock = "free"
  BY DEF WriterErasesItself, OwnerIdle, ControlInv, OwnerInv, Here
<1>2. /\ platform' = platform
      /\ BudgetType'
      /\ open' = open
      /\ misused' = misused
  BY DEF WriterErasesItself, BudgetType, handleVars, CloseAll
<1> DEFINE w == worker[i]
           v == [w EXCEPT !.writer = "join", !.life = "destroying"]
<1>3. WorkersType' /\ worker'[i] = v /\ \A j \in Ids : j # i => worker'[j] = worker[j]
  <2>1. w \in WorkerRecord /\ Becomes(i, v)
    BY DEF WriterErasesItself, Becomes, WorkersType, WorkerRecord
  <2>2. v \in WorkerRecord
    BY <2>1 DEF WorkerRecord
  <2> HIDE DEF v
  <2> QED
    BY <2>1, <2>2, BecomesFacts
<1>4. /\ v.reader = w.reader /\ v.fails = w.fails /\ v.sertop = w.sertop
      /\ v.lost = w.lost /\ v.holds = w.holds /\ v.life = "destroying"
      /\ v.writer = "join"
  BY DEF WorkersType, WorkerRecord
<1> HIDE DEF v
<1>5. /\ owner' \in OwnerRecord /\ owner'.pc = owner.pc
      /\ owner'.id = owner.id /\ owner'.lock = "writer"
      /\ owner'.waiter = owner.waiter
  BY DEF WriterErasesItself, OwnerIdle, OwnerRecord
<1>6. BornInv'
  BY <1>1, <1>2, <1>3, <1>4, <1>5 DEF ControlInv, BornInv
<1>7. OwnerInv'
  BY <1>1, <1>2, <1>3, <1>4, <1>5 DEF ControlInv, OwnerInv, LifeInv, Here
<1>8. LifeInv'
  BY <1>1, <1>2, <1>3, <1>4, <1>5 DEF ControlInv, LifeInv, OwnerInv, Here
<1>9. ThreadInv'
  BY <1>1, <1>2, <1>3, <1>4, <1>5
     DEF ControlInv, ThreadInv, OwnerInv, LifeInv, Here, Closed, Running
<1>10. EndInv'
  BY <1>1, <1>2, <1>3, <1>4, <1>5 DEF ControlInv, EndInv, OwnerInv, Here
<1>11. NoProcessLeft'
  BY <1>1, <1>2, <1>3, <1>4, <1>5 DEF ControlInv, NoProcessLeft, OwnerInv, EndInv, Here
<1>12. StepOf(i)
  BY <1>1, <1>2, <1>3, <1>4, <1>5 DEF StepOf, Here, Of, Handle, ControlInv, OwnerInv
<1>13. HandlesRight(i)'
  BY <1>1, <1>2, <1>3, <1>4, <1>5
     DEF HandlesRight, HandleInv, OpenMost, OpenLeast, MisusedOnlyAfterFailure,
     Phase, Expected, Here, Closed, Of, ControlInv, OwnerInv, LifeInv
<1>14. HeldInv'
  BY <1>1, <1>2, <1>3, <1>4, <1>5 DEF HandleInv, HeldInv
<1> QED
  BY <1>2, <1>3, <1>5, <1>6, <1>7, <1>8, <1>9, <1>10, <1>11, <1>12, <1>13, <1>14, StepOfOne
     DEF ControlInv, HandleInv, StepOf

\* The names of the handles that the constructors open.
LEMMA OpenedNames ==
  /\ EndsOf(Pipes) = {"interrupt0", "interrupt1", "stdin0", "stdin1", "stdout0", "stdout1"}
  /\ \A made \in 0 .. 3 :
       EndsOf(SubSeq(Pipes, 1, made)) \ ClosedOnError(made) \subseteq Ends("interrupt")
  /\ OpenedBy(6) \ {"thread"} =
       {"workerEnd", "sertopEnd", "process", "interruptEvent", "readEvent", "writeEvent"}
<1>1. /\ Pipes[1] = "interrupt" /\ Pipes[2] = "stdin" /\ Pipes[3] = "stdout"
      /\ DOMAIN Pipes = 1 .. 3 /\ Len(Pipes) = 3
      /\ Pipes \in Seq({"interrupt", "stdin", "stdout"})
  BY DEF Pipes
<1>2. EndsOf(Pipes) = Ends("interrupt") \union Ends("stdin") \union Ends("stdout")
  <2>1. DOMAIN Pipes = {1, 2, 3}
    BY <1>1
  <2> QED
    BY <1>1, <2>1 DEF EndsOf
<1>3. ASSUME NEW made \in 0 .. 3
      PROVE  EndsOf(SubSeq(Pipes, 1, made)) \ ClosedOnError(made) \subseteq Ends("interrupt")
  <2> DEFINE s == SubSeq(Pipes, 1, made)
  <2>1. DOMAIN s = 1 .. made /\ \A k \in 1 .. made : s[k] = Pipes[k]
    BY <1>1
  <2> HIDE DEF s
  <2>2. SUFFICES ASSUME NEW k \in 1 .. made, NEW n \in Ends(Pipes[k]), n \notin ClosedOnError(made)
                 PROVE  k = 1
    BY <1>1, <2>1 DEF EndsOf, s
  <2> QED
    BY <1>1, <2>2 DEF ClosedOnError
<1>4. OpenedBy(6) \ {"thread"} =
        {"workerEnd", "sertopEnd", "process", "interruptEvent", "readEvent", "writeEvent"}
  <2>1. 1 .. 6 = {1, 2, 3, 4, 5, 6}
    OBVIOUS
  <2>2. OpenedBy(6) = UNION {Opened[1], Opened[2], Opened[3], Opened[4], Opened[5], Opened[6]}
    BY <2>1 DEF OpenedBy
  <2> QED
    BY <2>2 DEF Opened
<1> QED
  BY <1>2, <1>3, <1>4 DEF Ends

\* A constructor of worker i returns, fails, or forks: names are those of the handles that
\* it leaves open.
BirthStep(i, names) ==
  /\ platform' = platform /\ owner.pc = "idle" /\ owner.lock = "free" /\ IsNext(i)
  /\ \A j \in Ids : j # i => worker'[j] = worker[j]
  /\ worker'[i].fails = worker[i].fails /\ worker'[i].lost = worker[i].lost
  /\ open' = open \union Of(i, names)
  /\ worker'[i].holds \subseteq worker[i].holds \union open' \union Of(i, {"sertopEnd"})
  /\ <<i, "stdin1">> \in worker'[i].holds =>
       \/ worker'[i].sertop = "forked"
       \/ worker'[i].holds = worker[i].holds /\ worker'[i].sertop = worker[i].sertop
  /\ \/ /\ worker'[i].life = "constructing" /\ platform = "posix"
        /\ worker'[i].reader = worker[i].reader /\ worker'[i].writer = worker[i].writer
        /\ owner'.pc = "forked" /\ owner'.id = i /\ owner'.lock = "owner"
        /\ owner'.waiter = owner.waiter
        /\ misused' = misused /\ names = Expected("constructing")
     \/ /\ worker'[i].life = "alive" /\ platform = "win" /\ owner' = owner
        /\ worker'[i].writer # "join"
        /\ misused' = misused /\ names = Expected("open")
     \/ /\ worker'[i].life = "failed" /\ owner' = owner
        /\ worker'[i].reader = worker[i].reader /\ worker'[i].writer = worker[i].writer
        /\ misused \subseteq misused' /\ misused' \subseteq misused \union Of(i, {"thread"})
        /\ names \subseteq Expected("failed")

\* Such a step keeps the invariant.
LEMMA BirthKeeps ==
  ASSUME IInv, NEW i \in Ids, NEW names, BirthStep(i, names),
         WorkersType', BudgetType', owner' \in OwnerRecord
  PROVE  IInv'
<1> USE DEF IInv, TypeInv
<1>1. i \in Int /\ i < MaxWorkers /\ MaxWorkers \in Nat /\ 0 <= i
  BY WorkerAssumption DEF Ids
<1>2. /\ \A j \in Ids : worker[j].life # "none" <=> j < i
      /\ worker[i].life = "none" /\ Phase(i) = "none" /\ owner.waiter = "none"
  <2>1. \A j \in Ids : worker[j].life # "none" <=> j < i
    BY NextIsFirst DEF BirthStep, ControlInv
  <2> QED
    BY <1>1, <2>1 DEF Phase, BirthStep, ControlInv, OwnerInv
<1>3. \A h \in Handle : h[1] \in Ids
  BY DEF Handle
<1>4. \A h \in open : h[1] \in Ids /\ h[1] < i
  <2> SUFFICES ASSUME NEW h \in open
               PROVE  h[1] \in Ids /\ worker[h[1]].life # "none"
    BY <1>2
  <2>1. h[1] \in Ids /\ h[2] \in Expected(Phase(h[1]))
    BY <1>3 DEF HandleInv, OpenMost
  <2>2. Phase(h[1]) # "none"
    BY <2>1 DEF Expected
  <2> QED
    BY <2>1, <2>2 DEF Phase
<1>5. BornInv'
  <2> DEFINE n == i + 1
  <2>1. n \in 0 .. MaxWorkers /\ \A j \in Ids : worker'[j].life # "none" <=> j < n
    BY <1>1, <1>2 DEF BirthStep, Ids
  <2> HIDE DEF n
  <2> QED
    BY <2>1 DEF BornInv
<1>6. OwnerInv'
  BY <1>2 DEF BirthStep, ControlInv, OwnerInv
<1>7. LifeInv'
  BY <1>2 DEF BirthStep, ControlInv, LifeInv, OwnerInv, Here
<1>8. ThreadInv'
  <2>1. \A j \in Ids : ~Here(j, Closed \union {"joinWriter"})' /\ ~Here(j, Closed)'
    BY DEF BirthStep, Here, Closed
  <2>2. worker[i].reader = "none" /\ worker[i].writer = "none"
    BY <1>2 DEF ControlInv, ThreadInv
  <2> SUFFICES ASSUME NEW j \in Ids
               PROVE  /\ worker'[j].life \in {"none", "constructing", "failed"} =>
                           worker'[j].reader = "none" /\ worker'[j].writer = "none"
                      /\ worker'[j].life = "destroyed" =>
                           ~Running(worker'[j].reader) /\ ~Running(worker'[j].writer)
    BY <2>1 DEF ThreadInv
  <2>3. CASE j = i
    BY <2>2, <2>3 DEF BirthStep
  <2>4. CASE j # i
    BY <2>4 DEF BirthStep, ControlInv, ThreadInv
  <2> QED
    BY <2>3, <2>4
<1>9. EndInv'
  BY <1>2 DEF BirthStep, ControlInv, EndInv, OwnerInv, Here
<1>10. NoProcessLeft'
  BY <1>2 DEF BirthStep, ControlInv, NoProcessLeft
<1>11. open' \subseteq Handle /\ misused' \subseteq Handle /\ platform' \in {"posix", "win"}
  <2>1. Of(i, names) \subseteq Handle
    BY DEF BirthStep, Expected, Of, Handle
  <2> QED
    BY <2>1 DEF BirthStep, Of, Handle
<1>12. StepOf(i)
  BY <1>11 DEF BirthStep, StepOf, Of
<1>13. HandlesRight(i)'
  <2>1. /\ names \subseteq Expected(Phase(i))'
        /\ (names = Expected(Phase(i))' \/ worker'[i].life = "failed")
    BY <1>2 DEF BirthStep, Expected, Phase, Here, Closed
  <2>2. \A h \in open' : h[1] = i => h[2] \in Expected(Phase(i))'
    BY <1>1, <1>4, <2>1 DEF BirthStep, Of
  <2>3. worker'[i].life # "failed" => \A n \in Expected(Phase(i))' : <<i, n>> \in open'
    BY <2>1 DEF BirthStep, Of
  <2>4. \A h \in misused' : h[1] = i =>
          \/ h[2] = "interrupt1" /\ worker'[i].fails > 0
          \/ h[2] = "thread" /\ worker'[i].life = "failed"
    BY <1>2 DEF BirthStep, HandleInv, MisusedOnlyAfterFailure, Of
  <2> QED
    BY <2>2, <2>3, <2>4 DEF HandlesRight
<1>14. HeldInv'
  <2> SUFFICES ASSUME NEW k \in Ids, NEW j \in Ids, <<k, "stdin1">> \in worker'[j].holds
               PROVE  k < j \/ (k = j /\ worker'[k].sertop = "forked")
    BY DEF HeldInv
  <2>1. CASE j # i
    BY <2>1 DEF BirthStep, HandleInv, HeldInv
  <2>2. CASE j = i
    <3>1. k < i \/ k = i
      <4>1. <<k, "stdin1">> \in worker[i].holds \/ <<k, "stdin1">> \in open \/ k = i
        BY <2>2 DEF BirthStep, Of
      <4> QED
        BY <1>4, <4>1 DEF HandleInv, HeldInv
    <3>2. CASE k = i
      BY <2>2, <3>2 DEF BirthStep, HandleInv, HeldInv
    <3> QED
      BY <2>2, <3>1, <3>2
  <2> QED
    BY <2>1, <2>2
<1> QED
  BY <1>5, <1>6, <1>7, <1>8, <1>9, <1>10, <1>11, <1>12, <1>13, <1>14, StepOfOne
     DEF ControlInv, HandleInv
\* fork() succeeds.
LEMMA ForkKeeps ==
  ASSUME IInv, NEW i \in Ids, Fork(i)
  PROVE  IInv'
<1> USE DEF IInv, TypeInv
<1> DEFINE w == worker[i]
           names == EndsOf(Pipes)
           held == open \union Of(i, names)
           v == [w EXCEPT !.life = "constructing", !.sertop = "forked", !.holds = held]
<1>1. names = {"interrupt0", "interrupt1", "stdin0", "stdin1", "stdout0", "stdout1"}
  BY OpenedNames
<1>2. w \in WorkerRecord /\ Becomes(i, v) /\ open' = held
  BY DEF Fork, Becomes, WorkersType, WorkerRecord
<1>3. held \in SUBSET Handle
  BY <1>1 DEF Of, Handle
<1> HIDE DEF held, names
<1>4. v \in WorkerRecord
  BY <1>2, <1>3 DEF WorkerRecord
<1>5. /\ v.life = "constructing" /\ v.sertop = "forked" /\ v.holds = held
      /\ v.reader = w.reader /\ v.writer = w.writer /\ v.fails = w.fails /\ v.lost = w.lost
  BY <1>2 DEF WorkerRecord
<1> HIDE DEF v
<1>6. WorkersType' /\ worker'[i] = v /\ \A j \in Ids : j # i => worker'[j] = worker[j]
  BY <1>2, <1>4, BecomesFacts
<1>7. owner' = [pc |-> "forked", id |-> i, lock |-> "owner", waiter |-> owner.waiter]
  BY DEF Fork, OwnerRecord
<1>8. /\ owner' \in OwnerRecord /\ owner'.pc = "forked" /\ owner'.id = i
      /\ owner'.lock = "owner" /\ owner'.waiter = owner.waiter
  BY <1>7 DEF OwnerRecord
<1>9. names = Expected("constructing")
  BY <1>1 DEF Fork, Expected
<1>10. BirthStep(i, names)
  BY <1>2, <1>5, <1>6, <1>8, <1>9 DEF Fork, OwnerIdle, BirthStep, held
<1>11. BudgetType'
  BY DEF Fork, BudgetType
<1> QED
  BY <1>6, <1>8, <1>10, <1>11, BirthKeeps

\* pipe() or fork() fails.
LEMMA ConstructFailsKeeps ==
  ASSUME IInv, NEW i \in Ids, ConstructFails(i)
  PROVE  IInv'
<1> USE DEF IInv, TypeInv
<1> DEFINE w == worker[i]
           v == [w EXCEPT !.life = "failed"]
<1>1. PICK made \in 0 .. 3 :
        open' = open \union Of(i, EndsOf(SubSeq(Pipes, 1, made)) \ ClosedOnError(made))
  BY DEF ConstructFails
<1> DEFINE names == EndsOf(SubSeq(Pipes, 1, made)) \ ClosedOnError(made)
<1>2. names \subseteq Expected("failed")
  BY OpenedNames DEF ConstructFails, Ends, Expected
<1> HIDE DEF names
<1>3. w \in WorkerRecord /\ Becomes(i, v)
  BY DEF ConstructFails, Becomes, WorkersType
<1>4. v \in WorkerRecord
  BY <1>3 DEF WorkerRecord
<1>5. /\ v.life = "failed" /\ v.sertop = w.sertop /\ v.holds = w.holds
      /\ v.reader = w.reader /\ v.writer = w.writer /\ v.fails = w.fails /\ v.lost = w.lost
  BY <1>3 DEF WorkerRecord
<1> HIDE DEF v
<1>6. WorkersType' /\ worker'[i] = v /\ \A j \in Ids : j # i => worker'[j] = worker[j]
  BY <1>3, <1>4, BecomesFacts
<1>7. open' = open \union Of(i, names)
  BY <1>1 DEF names
<1>8. BirthStep(i, names)
  BY <1>2, <1>5, <1>6, <1>7 DEF ConstructFails, OwnerIdle, BirthStep
<1>9. BudgetType' /\ owner' = owner
  BY SpendFacts DEF ConstructFails
<1> QED
  BY <1>6, <1>8, <1>9, BirthKeeps

\* The constructor succeeds on Windows.
LEMMA ConstructWinKeeps ==
  ASSUME IInv, NEW i \in Ids, ConstructWin(i)
  PROVE  IInv'
<1> USE DEF IInv, TypeInv
<1> DEFINE w == worker[i]
           names == OpenedBy(6) \ {"thread"}
           held == Inheritable \union Of(i, {"sertopEnd"})
           v == [w EXCEPT !.life = "alive", !.running = TRUE, !.reader = "start",
                          !.writer = "wait", !.sertop = "running", !.holds = held]
<1>1. names = Expected("open")
  BY OpenedNames DEF ConstructWin, Expected
<1> HIDE DEF names
<1>2. w \in WorkerRecord /\ Becomes(i, v) /\ open' = open \union Of(i, names)
  BY DEF ConstructWin, Becomes, WorkersType, WorkerRecord, names
<1>3. /\ held \in SUBSET Handle /\ held \subseteq open' \union Of(i, {"sertopEnd"})
      /\ <<i, "stdin1">> \notin held
  BY <1>2 DEF Inheritable, Of, Handle
<1> HIDE DEF held
<1>4. v \in WorkerRecord
  BY <1>2, <1>3 DEF WorkerRecord
<1>5. /\ v.life = "alive" /\ v.holds = held
      /\ v.writer = "wait" /\ v.fails = w.fails /\ v.lost = w.lost
  BY <1>2 DEF WorkerRecord
<1> HIDE DEF v
<1>6. WorkersType' /\ worker'[i] = v /\ \A j \in Ids : j # i => worker'[j] = worker[j]
  BY <1>2, <1>4, BecomesFacts
<1>7. BirthStep(i, names)
  BY <1>1, <1>2, <1>3, <1>5, <1>6 DEF ConstructWin, OwnerIdle, BirthStep
<1>8. BudgetType' /\ owner' = owner
  BY DEF ConstructWin, BudgetType
<1> QED
  BY <1>6, <1>7, <1>8, BirthKeeps

\* A call of the constructor fails on Windows: all that was opened is closed.
LEMMA ConstructFailsWinKeeps ==
  ASSUME IInv, NEW i \in Ids, ConstructFailsWin(i)
  PROVE  IInv'
<1> USE DEF IInv, TypeInv
<1> DEFINE w == worker[i]
<1>1. PICK calls \in 0 .. 5 :
        /\ open' = (open \union (Of(i, OpenedBy(calls)) \ Of(i, {"thread"})))
                     \ Of(i, ClosedByError(calls))
        /\ misused' = misused \union (Of(i, ClosedByError(calls)) \
                         (open \union (Of(i, OpenedBy(calls)) \ Of(i, {"thread"}))))
        /\ worker' = [worker EXCEPT ![i].life = "failed",
                           ![i].sertop = IF calls >= 3 THEN "running" ELSE @,
                           ![i].holds = IF calls >= 3 THEN Inheritable \union Of(i, {"sertopEnd"})
                                        ELSE @]
  BY DEF ConstructFailsWin
<1> DEFINE process == IF calls >= 3 THEN "running" ELSE w.sertop
           held == IF calls >= 3 THEN Inheritable \union Of(i, {"sertopEnd"}) ELSE w.holds
           v == [w EXCEPT !.life = "failed", !.sertop = process, !.holds = held]
<1>2. \A h \in open : h[1] # i
  <2>1. Phase(i) = "none"
    BY NextIsFirst, WorkerAssumption DEF ConstructFailsWin, ControlInv, Phase, Ids
  <2> QED
    BY <2>1 DEF HandleInv, OpenMost, Expected
<1>3. open' = open \union Of(i, {})
  BY <1>1, <1>2 DEF ClosedByError, Of
<1>4. misused \subseteq misused' /\ misused' \subseteq misused \union Of(i, {"thread"})
  BY <1>1 DEF ClosedByError
<1>5. w \in WorkerRecord /\ Becomes(i, v)
  BY <1>1 DEF Becomes, WorkersType, WorkerRecord
<1>6. /\ held \in SUBSET Handle /\ held \subseteq w.holds \union open' \union Of(i, {"sertopEnd"})
      /\ <<i, "stdin1">> \in held => held = w.holds /\ process = w.sertop
      /\ process \in {"none", "forked", "running", "exited", "reaped"}
  <2>1. CASE calls >= 3
    BY <1>3, <2>1 DEF Inheritable, Of, Handle
  <2>2. CASE ~(calls >= 3)
    BY <1>5, <2>2 DEF WorkerRecord
  <2> QED
    BY <2>1, <2>2
<1> HIDE DEF held, process
<1>7. v \in WorkerRecord
  <2>1. w \in WorkerRecord /\ held \in SUBSET Handle
        /\ process \in {"none", "forked", "running", "exited", "reaped"}
    BY <1>5, <1>6
  <2> QED
    BY <2>1 DEF WorkerRecord
<1>8. /\ v.life = "failed" /\ v.sertop = process /\ v.holds = held
      /\ v.reader = w.reader /\ v.writer = w.writer /\ v.fails = w.fails /\ v.lost = w.lost
  BY <1>5 DEF WorkerRecord
<1> HIDE DEF v
<1>9. WorkersType' /\ worker'[i] = v /\ \A j \in Ids : j # i => worker'[j] = worker[j]
  BY <1>5, <1>7, BecomesFacts
<1>10. BirthStep(i, {})
  BY <1>3, <1>4, <1>6, <1>8, <1>9 DEF ConstructFailsWin, OwnerIdle, BirthStep
<1>11. BudgetType' /\ owner' = owner
  BY SpendFacts DEF ConstructFailsWin
<1> QED
  BY <1>9, <1>10, <1>11, BirthKeeps

\* The destructor of the conductor begins.
LEMMA TeardownKeeps ==
  ASSUME IInv, Teardown
  PROVE  IInv'
<1> USE DEF IInv, TypeInv
<1>1. /\ UNCHANGED <<platform, worker, open, misused>> /\ BudgetType' /\ WorkersType'
      /\ owner.pc = "idle" /\ owner.lock = "free"
  BY DEF Teardown, OwnerIdle, handleVars, BudgetType, WorkersType
<1>2. owner' = [pc |-> "idle", id |-> owner.id, lock |-> "dead", waiter |-> owner.waiter]
  BY <1>1 DEF Teardown, OwnerRecord
<1>3. /\ owner' \in OwnerRecord /\ owner'.pc = "idle" /\ owner'.id = owner.id
      /\ owner'.lock = "dead" /\ owner'.waiter = owner.waiter
  BY <1>2 DEF OwnerRecord
<1>4. ControlInv'
  <2>1. BornInv' /\ OwnerInv' /\ NoProcessLeft'
    BY <1>1, <1>3 DEF ControlInv, BornInv, OwnerInv, NoProcessLeft
  <2>2. LifeInv'
    BY <1>1, <1>3 DEF ControlInv, LifeInv, Here
  <2>3. ThreadInv' /\ EndInv'
    BY <1>1, <1>3 DEF ControlInv, ThreadInv, EndInv, Here, Closed, Running
  <2> QED
    BY <2>1, <2>2, <2>3 DEF ControlInv
<1>5. HandleInv'
  <2>1. \A j \in Ids : Phase(j)' = Phase(j)
    BY <1>1, <1>3 DEF Phase, Here
  <2>2. \A p : Expected(p)' = Expected(p)
    BY <1>1 DEF Expected
  <2>3. OpenMost' /\ OpenLeast' /\ MisusedOnlyAfterFailure' /\ HeldInv'
    BY <1>1, <2>1, <2>2 DEF HandleInv, OpenMost, OpenLeast, MisusedOnlyAfterFailure,
                            HeldInv, Handle
  <2> QED
    BY <2>3 DEF HandleInv
<1> QED
  BY <1>1, <1>3, <1>4, <1>5

(***************************************************************************)
(* All steps together.                                                     *)
(***************************************************************************)

\* The two threads and sertop.
LEMMA ThreadsKeep ==
  ASSUME IInv, NEW i \in Ids,
         ReaderStep(i) \/ (WriterStep(i) /\ ~WriterKilled(i)) \/ Enqueue(i) \/ ReaderResponds(i)
           \/ FailureReturns(i) \/ ReaderFails(i) \/ ReaderFailsWin(i) \/ WriterFails(i)
           \/ WriterFailsWin(i) \/ SertopReads(i) \/ SertopPrints(i) \/ SertopReadsWin(i)
           \/ SertopPrintsWin(i)
  PROVE  IInv'
<1>1. WorkersType' /\ BudgetType' /\ ThreadStep(i)
  <2> USE DEF IInv, TypeInv
  <2>1. CASE ReaderStep(i) \/ ReaderResponds(i) \/ ReaderFails(i)
    BY <2>1, ReaderMoves DEF ReaderStep
  <2>2. CASE WriterWrites(i) \/ WriterAborted(i) \/ ReaderFailsWin(i) \/ WriterFailsWin(i)
    BY <2>2, WriterWritesMoves, FailsWinMoves
  <2>3. CASE \/ WriterPops(i) \/ WriterStops(i) \/ WriterStarts(i) \/ WriterFinishes(i)
             \/ Enqueue(i) \/ WriterFails(i)
    BY <2>3, WriterMoves
  <2>4. CASE FailureReturns(i)
    BY <2>4, FailureReturnsMoves
  <2>5. CASE SertopReads(i) \/ SertopPrints(i) \/ SertopReadsWin(i) \/ SertopPrintsWin(i)
    BY <2>5, SertopMoves
  <2> QED
    BY <2>1, <2>2, <2>3, <2>4, <2>5 DEF WriterStep
<1>2. ControlInv' /\ HandleInv'
  BY <1>1, ThreadKeeps
<1>3. TypeInv'
  BY <1>1 DEF IInv, TypeInv, ThreadStep, CloseAll, Of, Handle, handleVars
<1> QED
  BY <1>2, <1>3 DEF IInv

\* The process of a worker.
LEMMA ProcessesKeep ==
  ASSUME IInv, NEW i \in Ids,
         Exec(i) \/ ExecFails(i) \/ SertopExits(i) \/ SertopExitsWin(i)
  PROVE  IInv'
<1>1. WorkersType' /\ BudgetType' /\ ProcessStep(i)
  BY ProcessMoves DEF IInv, TypeInv
<1>2. ControlInv' /\ HandleInv'
  BY <1>1, ProcessKeeps
<1>3. TypeInv'
  BY <1>1 DEF IInv, TypeInv, ProcessStep, handleVars
<1> QED
  BY <1>2, <1>3 DEF IInv

\* Nothing changes, unless the process is terminated.
LEMMA NothingKeeps ==
  ASSUME IInv, UNCHANGED <<platform, worker, handleVars, owner, budget>>
  PROVE  IInv'
<1> USE DEF IInv, handleVars
<1>1. TypeInv'
  BY DEF TypeInv, WorkersType, BudgetType
<1>2. ControlInv'
  BY DEF ControlInv, BornInv, OwnerInv, LifeInv, ThreadInv, EndInv, NoProcessLeft, Here
<1>3. HandleInv'
  <2>1. \A j \in Ids : Phase(j)' = Phase(j)
    BY DEF Phase, Here
  <2>2. \A p : Expected(p)' = Expected(p)
    BY DEF Expected
  <2> QED
    BY <2>1, <2>2 DEF TypeInv, HandleInv, OpenMost, OpenLeast, MisusedOnlyAfterFailure,
                      HeldInv, Handle
<1> QED
  BY <1>1, <1>2, <1>3

\* No worker is constructed yet.
LEMMA InitInvariant ==
  ASSUME Init
  PROVE  IInv
<1>1. \A i \in Ids : worker[i] = Unborn
  BY DEF Init
<1>2. Unborn \in WorkerRecord
  <2>1. <<>> \in Seq(Messages) /\ <<>> \in Seq(Piece)
    BY EmptySeq
  <2> QED
    BY <2>1 DEF Unborn, WorkerRecord
<1>3. TypeInv
  <2>1. WorkersType
    BY <1>2 DEF Init, WorkersType
  <2>2. BudgetType
    <3>1. budget \in Budgets /\ budget \in [messages : Nat, prints : Nat, failures : Nat]
      BY WorkerAssumption DEF Init
    <3>2. budget.messages <= budget.messages
      BY <3>1
    <3> QED
      BY <3>1, <3>2 DEF BudgetType
  <2>3. owner \in OwnerRecord
    BY DEF Init, OwnerRecord
  <2> QED
    BY <2>1, <2>2, <2>3 DEF Init, TypeInv
<1>4. /\ owner.pc = "idle" /\ owner.waiter = "none" /\ open = {} /\ misused = {}
      /\ platform \in {"posix", "win"}
  BY DEF Init
<1>5. \A i \in Ids : /\ worker[i].life = "none" /\ worker[i].reader = "none"
                     /\ worker[i].writer = "none" /\ worker[i].holds = {}
  BY <1>1 DEF Unborn
<1>6. ControlInv
  <2>1. BornInv
    <3>1. 0 \in 0 .. MaxWorkers /\ \A i \in Ids : ~(i < 0)
      BY WorkerAssumption DEF Ids
    <3> QED
      BY <1>5, <3>1 DEF BornInv
  <2>2. OwnerInv /\ LifeInv /\ ThreadInv /\ NoProcessLeft
    BY <1>4, <1>5 DEF OwnerInv, LifeInv, ThreadInv, NoProcessLeft, Here, Closed
  <2>3. EndInv
    BY <1>4 DEF EndInv
  <2> QED
    BY <2>1, <2>2, <2>3 DEF ControlInv
<1>7. HandleInv
  <2>1. \A i \in Ids : Expected(Phase(i)) = {}
    BY <1>4, <1>5 DEF Phase, Expected
  <2> QED
    BY <1>4, <1>5, <2>1 DEF HandleInv, OpenMost, OpenLeast, MisusedOnlyAfterFailure, HeldInv
<1> QED
  BY <1>3, <1>6, <1>7 DEF IInv

\* Every step keeps the invariant.
LEMMA NextKeeps ==
  ASSUME IInv, [Next]_vars
  PROVE  IInv'
<1>1. CASE UNCHANGED vars
  BY <1>1, NothingKeeps DEF vars, handleVars
<1>2. CASE Teardown
  BY <1>2, TeardownKeeps
<1>3. ASSUME NEW i \in Ids,
             \/ Fork(i) \/ Start(i) \/ Exec(i) \/ ConstructWin(i)
             \/ Enqueue(i) \/ Destroy(i)
             \/ ReaderStep(i) \/ WriterStep(i) \/ CallbackStep(i)
             \/ DestroyStep(i) \/ Reap(i) \/ Event(i)
      PROVE  IInv'
  <2>1. CASE \/ ReaderStep(i) \/ (WriterStep(i) /\ ~WriterKilled(i)) \/ Enqueue(i)
             \/ ReaderResponds(i) \/ FailureReturns(i) \/ ReaderFails(i) \/ ReaderFailsWin(i)
             \/ WriterFails(i) \/ WriterFailsWin(i) \/ SertopReads(i) \/ SertopPrints(i)
             \/ SertopReadsWin(i) \/ SertopPrintsWin(i)
    BY <2>1, ThreadsKeep
  <2>2. CASE Exec(i) \/ ExecFails(i) \/ SertopExits(i) \/ SertopExitsWin(i)
    BY <2>2, ProcessesKeep
  <2>3. CASE \/ WriterKilled(i) \/ ReaderErasesItself(i) \/ WriterJoinsItself(i)
             \/ LateCallback(i)
    <3>1. UNCHANGED <<platform, worker, handleVars, owner, budget>>
      BY <2>3 DEF WriterKilled, ReaderErasesItself, WriterJoinsItself, LateCallback
    <3> QED
      BY <3>1, NothingKeeps
  <2>4. CASE \/ Fork(i) \/ ConstructFails(i) \/ ConstructWin(i) \/ ConstructFailsWin(i)
             \/ Start(i) \/ Destroy(i) \/ WriterErasesItself(i)
    BY <2>4, ForkKeeps, ConstructFailsKeeps, ConstructWinKeeps, ConstructFailsWinKeeps,
       StartKeeps, DestroyKeeps, WriterErasesItselfKeeps
  <2>5. CASE DestroyStep(i)
    <3>1. CASE JoinReader(i) \/ WaitReady(i) \/ WaitTimeout(i) \/ WaitExited(i) \/ WaitTimeoutWin(i)
      BY <3>1, OwnerMoves
    <3>2. CASE \/ DestroyInterrupt(i) \/ DestroySignals(i) \/ DestroyCancels(i) \/ Kill(i)
               \/ Terminate(i)
      BY <3>2, DestroyInterruptKeeps, DestroySignalsKeeps, DestroyCancelsKeeps, KillKeeps,
         TerminateKeeps
    <3>3. CASE \/ JoinWriter(i) \/ JoinWriterWin(i) \/ Cleanup(i) \/ FutureDone(i)
               \/ CleanupWin(i)
      BY <3>3, JoinWriterKeeps, JoinWriterWinKeeps, CleanupKeeps, FutureDoneKeeps,
         CleanupWinKeeps
    <3> QED
      BY <2>5, <3>1, <3>2, <3>3 DEF DestroyStep
  <2>6. CASE Reap(i) \/ ReapFails(i)
    BY <2>6, ReapKeeps, ReapFailsKeeps
  <2> QED
    BY <1>3, <2>1, <2>2, <2>3, <2>4, <2>5, <2>6 DEF CallbackStep, Event
<1> QED
  BY <1>1, <1>2, <1>3 DEF Next

\* The invariant holds in every state.
THEOREM WorkersInvariant == Spec => []IInv
<1>1. Init => IInv
  BY InitInvariant
<1>2. IInv /\ [Next]_vars => IInv'
  BY NextKeeps
<1> QED
  BY <1>1, <1>2, PTL DEF Spec

(***************************************************************************)
(* What follows.                                                           *)
(***************************************************************************)

\* How the process may have been terminated.
CrashedType == crashed \in {"no", "self_join", "sigpipe", "late_callback", "freed_buffer"}

\* The types of all variables, in particular of the records of the workers: what is in a
\* pipe or was received is made of pieces of messages, and no count is negative.
THEOREM WorkersHaveTheirTypes == Spec => []TypeOK
<1>1. Init => CrashedType
  BY DEF Init, CrashedType
<1>2. CrashedType /\ [Next]_vars => CrashedType'
  <2> SUFFICES ASSUME CrashedType, [Next]_vars
               PROVE  CrashedType'
    OBVIOUS
  <2>1. CASE UNCHANGED vars
    BY <2>1 DEF vars, CrashedType
  <2>2. CASE Teardown
    BY <2>2 DEF Teardown, CrashedType
  <2>3. ASSUME NEW i \in Ids, ReaderStep(i) \/ WriterStep(i) \/ CallbackStep(i)
        PROVE  CrashedType'
    BY <2>3 DEF CrashedType, ReaderStep, ReaderInterrupted, ReaderReads, ReaderSpins,
         ReaderStarts, ReaderSignalled, ReaderFinishes,
         WriterStep, WriterPops, WriterStops, WriterWrites, WriterKilled, WriterStarts,
         WriterFinishes, WriterAborted,
         CallbackStep, ReaderResponds, ReaderErasesItself, WriterErasesItself,
         WriterJoinsItself, FailureReturns
  <2>4. ASSUME NEW i \in Ids,
               \/ Fork(i) \/ Start(i) \/ Exec(i) \/ ConstructWin(i) \/ Enqueue(i)
               \/ Destroy(i) \/ DestroyStep(i) \/ Reap(i)
        PROVE  CrashedType'
    BY <2>4 DEF CrashedType, Fork, Start, Exec, ConstructWin, Enqueue, Destroy, Reap,
         DestroyStep, DestroyInterrupt, DestroySignals, DestroyCancels, JoinReader,
         JoinWriter, JoinWriterWin, WaitReady, WaitTimeout, Kill, Cleanup, FutureDone,
         WaitExited, WaitTimeoutWin, Terminate, CleanupWin
  <2>5. ASSUME NEW i \in Ids, Event(i)
        PROVE  CrashedType'
    BY <2>5 DEF CrashedType, Event, ConstructFails, ConstructFailsWin, ExecFails, ReapFails,
         ReaderFails, ReaderFailsWin, WriterFails, WriterFailsWin, SertopReads,
         SertopPrints, SertopExits, SertopReadsWin, SertopPrintsWin, SertopExitsWin,
         LateCallback
  <2> QED
    BY <2>1, <2>2, <2>3, <2>4, <2>5 DEF Next
<1>3. IInv /\ CrashedType => TypeOK
  BY DEF IInv, TypeInv, WorkersType, BudgetType, CrashedType, TypeOK
<1> QED
  BY <1>1, <1>2, <1>3, WorkersInvariant, PTL DEF Spec

\* A thread uses no handle that the destructor, or fail() of the other thread, has closed
\* (worker_posix.cpp:150-164, 231; worker_win.cpp:147-157).
THEOREM HandlesOutliveThreads == Spec => []ThreadsUseOpenHandles
<1>1. IInv => ThreadsUseOpenHandles
  <2> SUFFICES ASSUME IInv, NEW i \in Ids, NEW h \in UsedBy(i)
               PROVE  h \in open
    BY DEF ThreadsUseOpenHandles
  <2> USE DEF IInv, TypeInv
  <2>1. PICK n : h = <<i, n>> /\ n \in
          IF platform = "posix"
            THEN (IF worker[i].reader = "poll" THEN {"interrupt0", "stdout0"} ELSE {})
                 \union (IF worker[i].writer = "write" THEN {"stdin1"} ELSE {})
            ELSE (IF worker[i].reader \in {"start", "wait"}
                    THEN {"workerEnd", "readEvent", "interruptEvent"} ELSE {})
                 \union (IF worker[i].writer \in {"write", "blocked", "aborted"}
                           THEN {"workerEnd", "writeEvent"} ELSE {})
    BY DEF UsedBy, Of
  <2>2. Running(worker[i].reader) \/ Running(worker[i].writer)
    BY <2>1 DEF Running
  <2>3. worker[i].life \in {"alive", "destroying"}
    <3>1. worker[i].life \in
            {"none", "constructing", "alive", "destroying", "destroyed", "failed"}
      BY DEF WorkersType, WorkerRecord
    <3> QED
      BY <2>2, <3>1 DEF ControlInv, ThreadInv, Running
  <2>4. ~Here(i, Closed)
    BY <2>2 DEF ControlInv, ThreadInv, Running, Here, Closed
  <2>5. Phase(i) = "open"
    BY <2>3, <2>4 DEF Phase, Here, Closed
  <2>6. n \in Expected("open") /\ n # "interrupt1"
    BY <2>1 DEF Expected
  <2> QED
    BY <2>1, <2>3, <2>5, <2>6 DEF HandleInv, OpenLeast
<1> QED
  BY <1>1, WorkersInvariant, PTL

\* Of all that is closed or written to, only the interrupt pipe of a worker that failed and
\* the thread handle of a constructor that failed are not open (worker_posix.cpp:231, 137
\* and 217; worker_win.cpp:97).
THEOREM FewHandlesAreMisused == Spec => []MisusedOnlyAfterFailure
<1>1. IInv => MisusedOnlyAfterFailure
  BY DEF IInv, HandleInv
<1> QED
  BY <1>1, WorkersInvariant, PTL

\* Nothing is left open but the interrupt pipe of a constructor that failed on POSIX and the
\* three events on Windows (worker_posix.cpp:42-66, worker_win.cpp:186).
THEOREM LeaksAreKnown == Spec => []KnownLeaks
<1>1. IInv => KnownLeaks
  <2> SUFFICES ASSUME IInv, NEW i \in Ids
               PROVE  LET left == {h[2] : h \in {g \in open : g[1] = i}}
                      IN  CASE worker[i].life = "none" -> left = {}
                            [] worker[i].life = "failed" -> left \subseteq Ends("interrupt")
                            [] worker[i].life = "destroyed" ->
                                 left \subseteq OpenedBy(6) \ OpenedBy(3)
                            [] OTHER -> TRUE
    BY DEF KnownLeaks
  <2> DEFINE left == {h[2] : h \in {g \in open : g[1] = i}}
  <2>1. left \subseteq Expected(Phase(i))
    BY DEF IInv, HandleInv, OpenMost
  <2>2. worker[i].life \in {"none", "failed", "destroyed"} => Phase(i) = worker[i].life
    BY DEF Phase
  <2>3. /\ Expected("none") = {} /\ Expected("failed") \subseteq Ends("interrupt")
        /\ Expected("destroyed") \subseteq {"interruptEvent", "readEvent", "writeEvent"}
    BY DEF Expected, Ends
  <2>4. {"interruptEvent", "readEvent", "writeEvent"} \subseteq OpenedBy(6) \ OpenedBy(3)
    <3>1. 1 .. 3 = {1, 2, 3} /\ {4, 5, 6} \subseteq 1 .. 6
      OBVIOUS
    <3>2. Opened[4] \union Opened[5] \union Opened[6] \subseteq OpenedBy(6)
      BY <3>1 DEF OpenedBy
    <3>3. OpenedBy(3) = Opened[1] \union Opened[2] \union Opened[3]
      BY <3>1 DEF OpenedBy
    <3> QED
      BY <3>2, <3>3 DEF Opened
  <2> QED
    BY <2>1, <2>2, <2>3, <2>4
<1> QED
  BY <1>1, WorkersInvariant, PTL

\* When the destructor has returned, the process has ended, and was waited for on POSIX,
\* unless that call itself has failed (worker_posix.cpp:170-213, worker_win.cpp:161-186).
THEOREM ProcessesEnd == Spec => []NoProcessLeft
<1>1. IInv => NoProcessLeft
  BY DEF IInv, ControlInv
<1> QED
  BY <1>1, WorkersInvariant, PTL

\* Once the pipes are closed, only a sertop that was forked later keeps the input of one
\* open, or its own child before execv() (worker_posix.cpp:72-83, 163).
THEOREM InputEnds == Spec => []ClosingEndsInput
<1>1. IInv => ClosingEndsInput
  <2> SUFFICES ASSUME IInv, NEW i \in Ids, At("wait", i)
               PROVE  \/ platform = "win" /\ <<i, "workerEnd">> \notin open
                      \/ ~HeldSomewhere(<<i, "stdin1">>) \/ worker[i].sertop = "forked"
                      \/ \E j \in Ids : j > i /\ <<i, "stdin1">> \in worker[j].holds
    BY DEF ClosingEndsInput
  <2> USE DEF IInv, TypeInv
  <2>1. Phase(i) = "closed"
    BY DEF At, Phase, Here, Closed, ControlInv, OwnerInv
  <2>2. \A n : <<i, n>> \in open => n \in Expected("closed")
    BY <2>1 DEF HandleInv, OpenMost
  <2>3. "stdin1" \notin Expected("closed") /\ "workerEnd" \notin Expected("closed")
    BY DEF Expected
  <2>4. \A j \in Ids : <<i, "stdin1">> \in worker[j].holds =>
          j > i \/ worker[i].sertop = "forked"
    BY WorkerAssumption DEF HandleInv, HeldInv, Ids
  <2> QED
    BY <2>2, <2>3, <2>4 DEF HeldSomewhere
<1> QED
  BY <1>1, WorkersInvariant, PTL

(***************************************************************************)
(* What sertop reads.                                                      *)
(***************************************************************************)

\* The piece x is the one that comes when this many pieces have been.
InPlace(messages, before, x) ==
  \E n \in 1 .. Len(messages), k \in 1 .. MessageLength :
    before = (n - 1) * MessageLength + (k - 1) /\ x = <<messages[n], k>>

\* The states of a write thread that takes no more messages.
Stopped == {"aborted", "fail", "join", "done"}

\* What is in the pipe comes behind what sertop has read.
PipeInPlace(w) ==
  \A p \in 1 .. Len(w.pipe) : InPlace(w.accepted, Len(w.received) + (p - 1), w.pipe[p])

\* The writer has taken n messages, and still has the rest of the last one.
Taken(w, n) ==
  /\ n + Len(w.queue) = Len(w.accepted)
  /\ \A k \in 1 .. Len(w.queue) : w.queue[k] = w.accepted[n + k]
  /\ Len(w.received) + Len(w.pipe) + Len(w.rest) = n * MessageLength
  /\ \A p \in 1 .. Len(w.rest) :
       InPlace(w.accepted, Len(w.received) + Len(w.pipe) + (p - 1), w.rest[p])
  /\ w.writer # "write" => w.rest = <<>>

\* The write thread of a worker goes on.
WritesOn(w) == w.life # "destroyed" /\ w.writer \notin Stopped

\* Where the read thread is only on Windows.
ReadsOverlapped == {"start", "wait", "failstart"}

\* A message is, in this order, what sertop has read, what is in the pipe, the rest of
\* the write thread and its queue, for as long as that goes on; on Windows the pipe is
\* empty but during a write, since a write ends when it is read.
FlowOf(w, build) ==
  /\ PipeInPlace(w)
  /\ WritesOn(w) => \E n \in Nat : Taken(w, n)
  /\ build = "win" /\ w.writer \in {"none", "wait", "write"} => w.pipe = <<>>
  /\ w.reader \in ReadsOverlapped => build = "win"

FlowInv == \A i \in Ids : FlowOf(worker[i], platform)

\* What was enqueued, what is on its way and what was read stay.
SameFlow(w, v) ==
  /\ v.accepted = w.accepted /\ v.queue = w.queue /\ v.rest = w.rest
  /\ v.pipe = w.pipe /\ v.received = w.received

\* The threads go on elsewhere, if they do.
SameLoops(w, v) ==
  /\ v.life # "destroyed" => w.life # "destroyed"
  /\ \/ v.writer = w.writer \/ v.writer \in Stopped
     \/ w.writer = "none" /\ v.writer = "wait"
  /\ v.reader \in ReadsOverlapped => w.reader \in ReadsOverlapped \/ platform = "win"

\* A step that moves no message.
Idles == /\ platform' = platform
         /\ \A j \in Ids : SameFlow(worker[j], worker'[j]) /\ SameLoops(worker[j], worker'[j])

\* The fields of a record.
Shaped ==
  /\ worker = [j \in Ids |-> worker[j]]
  /\ \A j \in Ids : {"life", "reader", "writer", "accepted", "queue", "rest", "pipe",
                     "received"} \subseteq DOMAIN worker[j]

\* Every record has them.
LEMMA AreShaped == WorkersType => Shaped
BY DEF WorkersType, WorkerRecord, Shaped

\* The read thread, and fail() on it on POSIX.
LEMMA ReaderIdles ==
  ASSUME TypeInv, NEW i \in Ids,
         \/ ReaderInterrupted(i) \/ ReaderReads(i) \/ ReaderSpins(i) \/ ReaderStarts(i)
         \/ ReaderSignalled(i) \/ ReaderFinishes(i) \/ ReaderResponds(i) \/ ReaderFails(i)
         \/ ReaderErasesItself(i)
  PROVE  Idles
<1> USE DEF Shaped, Idles, SameFlow, SameLoops, ReadsOverlapped, Stopped
<1>0. Shaped /\ platform \in {"posix", "win"}
  BY AreShaped DEF TypeInv
<1>1. CASE ReaderInterrupted(i)
  BY <1>0, <1>1 DEF ReaderInterrupted
<1>2. CASE ReaderReads(i)
  BY <1>0, <1>2 DEF ReaderReads
<1>3. CASE ReaderSpins(i)
  BY <1>0, <1>3 DEF ReaderSpins
<1>4. CASE ReaderStarts(i)
  BY <1>0, <1>4 DEF ReaderStarts
<1>5. CASE ReaderSignalled(i)
  BY <1>0, <1>5 DEF ReaderSignalled
<1>6. CASE ReaderFinishes(i)
  BY <1>0, <1>6 DEF ReaderFinishes
<1>7. CASE ReaderResponds(i)
  BY <1>0, <1>7 DEF ReaderResponds, ReadAgain
<1>8. CASE ReaderFails(i)
  BY <1>0, <1>8 DEF ReaderFails
<1>9. CASE ReaderErasesItself(i)
  BY <1>0, <1>9 DEF ReaderErasesItself
<1> QED
    BY <1>1, <1>2, <1>3, <1>4, <1>5, <1>6, <1>7, <1>8, <1>9

\* The write thread where it ends, and what callbacks do to either.
LEMMA WriterIdles ==
  ASSUME TypeInv, NEW i \in Ids,
         \/ WriterStops(i) \/ WriterKilled(i) \/ WriterErasesItself(i)
         \/ WriterJoinsItself(i) \/ WriterFails(i) \/ FailureReturns(i) \/ LateCallback(i)
  PROVE  Idles
<1> USE DEF Shaped, Idles, SameFlow, SameLoops, ReadsOverlapped, Stopped
<1>0. Shaped /\ platform \in {"posix", "win"}
  BY AreShaped DEF TypeInv
<1>1. CASE WriterStops(i)
  BY <1>0, <1>1 DEF WriterStops
<1>2. CASE WriterKilled(i)
  BY <1>0, <1>2 DEF WriterKilled
<1>3. CASE WriterErasesItself(i)
  BY <1>0, <1>3 DEF WriterErasesItself
<1>4. CASE WriterJoinsItself(i)
  BY <1>0, <1>4 DEF WriterJoinsItself
<1>5. CASE WriterFails(i)
  BY <1>0, <1>5 DEF WriterFails
<1>6. CASE FailureReturns(i)
  BY <1>0, <1>6 DEF FailureReturns
<1>7. CASE LateCallback(i)
  BY <1>0, <1>7 DEF LateCallback
<1> QED
    BY <1>1, <1>2, <1>3, <1>4, <1>5, <1>6, <1>7

\* The destructor, but for CancelIoEx and the end.
LEMMA DestroyIdles ==
  ASSUME TypeInv, NEW i \in Ids,
         \/ Destroy(i) \/ DestroyInterrupt(i) \/ DestroySignals(i) \/ JoinReader(i)
         \/ JoinWriter(i) \/ WaitReady(i) \/ WaitTimeout(i) \/ Kill(i) \/ Cleanup(i)
         \/ WaitExited(i) \/ WaitTimeoutWin(i) \/ Terminate(i) \/ Reap(i) \/ ReapFails(i)
  PROVE  Idles
<1> USE DEF Shaped, Idles, SameFlow, SameLoops, ReadsOverlapped, Stopped
<1>0. Shaped /\ platform \in {"posix", "win"}
  BY AreShaped DEF TypeInv
<1>1. CASE Destroy(i)
  BY <1>0, <1>1 DEF Destroy
<1>2. CASE DestroyInterrupt(i)
  BY <1>0, <1>2 DEF DestroyInterrupt
<1>3. CASE DestroySignals(i)
  BY <1>0, <1>3 DEF DestroySignals
<1>4. CASE JoinReader(i)
  BY <1>0, <1>4 DEF JoinReader
<1>5. CASE JoinWriter(i)
  BY <1>0, <1>5 DEF JoinWriter
<1>6. CASE WaitReady(i)
  BY <1>0, <1>6 DEF WaitReady
<1>7. CASE WaitTimeout(i)
  BY <1>0, <1>7 DEF WaitTimeout
<1>8. CASE Kill(i)
  BY <1>0, <1>8 DEF Kill
<1>9. CASE Cleanup(i)
  BY <1>0, <1>9 DEF Cleanup
<1>10. CASE WaitExited(i)
  BY <1>0, <1>10 DEF WaitExited
<1>11. CASE WaitTimeoutWin(i)
  BY <1>0, <1>11 DEF WaitTimeoutWin
<1>12. CASE Terminate(i)
  BY <1>0, <1>12 DEF Terminate
<1>13. CASE Reap(i)
  BY <1>0, <1>13 DEF Reap
<1>14. CASE ReapFails(i)
  BY <1>0, <1>14 DEF ReapFails
<1> QED
    BY <1>1, <1>2, <1>3, <1>4, <1>5, <1>6, <1>7, <1>8, <1>9, <1>10, <1>11, <1>12, <1>13,
     <1>14

\* sertop, but for its reads.
LEMMA SertopIdles ==
  ASSUME TypeInv, NEW i \in Ids,
         \/ Exec(i) \/ ExecFails(i) \/ SertopPrints(i) \/ SertopExits(i)
         \/ SertopPrintsWin(i) \/ SertopExitsWin(i)
  PROVE  Idles
<1> USE DEF Shaped, Idles, SameFlow, SameLoops, ReadsOverlapped, Stopped
<1>0. Shaped /\ platform \in {"posix", "win"}
  BY AreShaped DEF TypeInv
<1>1. CASE Exec(i)
  BY <1>0, <1>1 DEF Exec
<1>2. CASE ExecFails(i)
  BY <1>0, <1>2 DEF ExecFails
<1>3. CASE SertopPrints(i)
  BY <1>0, <1>3 DEF SertopPrints
<1>4. CASE SertopExits(i)
  BY <1>0, <1>4 DEF SertopExits
<1>5. CASE SertopPrintsWin(i)
  BY <1>0, <1>5 DEF SertopPrintsWin
<1>6. CASE SertopExitsWin(i)
  BY <1>0, <1>6 DEF SertopExitsWin
<1> QED
    BY <1>1, <1>2, <1>3, <1>4, <1>5, <1>6

\* The constructor.
LEMMA ConstructorIdles ==
  ASSUME IInv, NEW i \in Ids,
         \/ Fork(i) \/ Start(i) \/ ConstructWin(i) \/ ConstructFails(i)
         \/ ConstructFailsWin(i)
  PROVE  Idles
<1> USE DEF Shaped, Idles, SameFlow, SameLoops, ReadsOverlapped, Stopped
<1>0. Shaped /\ platform \in {"posix", "win"}
  BY AreShaped DEF TypeInv, IInv
<1>10. IsNext(i) => worker[i].life = "none" /\ worker[i].writer = "none"
  <2> SUFFICES ASSUME IsNext(i) PROVE worker[i].life = "none" /\ worker[i].writer = "none"
    OBVIOUS
  <2>1. worker[i].life # "none" <=> i < i
    BY NextIsFirst DEF IInv, ControlInv
  <2>2. i \in Nat
    BY WorkerAssumption DEF Ids
  <2> QED
    BY <2>1, <2>2 DEF IInv, ControlInv, ThreadInv
<1>11. At("forked", i) => worker[i].life = "constructing" /\ worker[i].writer = "none"
                          /\ platform = "posix"
  BY DEF At, IInv, ControlInv, OwnerInv, ThreadInv
<1>1. CASE Fork(i)
  BY <1>0, <1>1, <1>10 DEF Fork
<1>2. CASE Start(i)
  BY <1>0, <1>2, <1>11 DEF Start
<1>3. CASE ConstructWin(i)
  BY <1>0, <1>3, <1>10 DEF ConstructWin
<1>4. CASE ConstructFails(i)
  BY <1>0, <1>4, <1>10 DEF ConstructFails
<1>5. CASE ConstructFailsWin(i)
  <2>1. PICK s, h : worker' = [worker EXCEPT ![i].life = "failed", ![i].sertop = s, ![i].holds = h]
    BY <1>5 DEF ConstructFailsWin
  <2>2. platform' = platform /\ worker[i].life = "none"
    BY <1>5, <1>10 DEF ConstructFailsWin
  <2> QED
    BY <1>0, <2>1, <2>2
<1> QED
    BY <1>1, <1>2, <1>3, <1>4, <1>5

\* Nothing happens to any worker.
LEMMA NothingIdles ==
  ASSUME TypeInv, UNCHANGED <<platform, worker>>
  PROVE  Idles
<1>1. \A j \in Ids : worker'[j] = worker[j]
  OBVIOUS
<1> QED
  BY <1>1 DEF Idles, SameFlow, SameLoops

\* Wherever the workers idle, everything stays in its place.
LEMMA IdleKeeps ==
  ASSUME FlowInv, Idles
  PROVE  FlowInv'
<1> SUFFICES ASSUME NEW i \in Ids PROVE FlowOf(worker'[i], platform')
  BY DEF FlowInv
<1> DEFINE w == worker[i]
           v == worker'[i]
<1>1. SameFlow(w, v) /\ SameLoops(w, v) /\ platform' = platform
  BY DEF Idles
<1>2. FlowOf(w, platform)
  BY DEF FlowInv
<1> HIDE DEF w, v
<1>3. PipeInPlace(v)
  BY <1>1, <1>2 DEF FlowOf, PipeInPlace, SameFlow
<1>4. WritesOn(v) => \E n \in Nat : Taken(v, n)
  <2> SUFFICES ASSUME WritesOn(v) PROVE \E n \in Nat : Taken(v, n)
    OBVIOUS
  <2>1. WritesOn(w) /\ (v.writer = w.writer \/ (v.writer = "wait" /\ w.writer = "none"))
    BY <1>1 DEF WritesOn, SameLoops, Stopped
  <2>2. PICK n \in Nat : Taken(w, n)
    BY <1>2, <2>1 DEF FlowOf
  <2>3. v.writer # "write" => w.writer # "write"
    BY <2>1
  <2>4. Taken(v, n)
    BY <1>1, <2>2, <2>3 DEF Taken, SameFlow
  <2> QED
    BY <2>4
<1>5. platform = "win" /\ v.writer \in {"none", "wait", "write"} => v.pipe = <<>>
  BY <1>1, <1>2 DEF FlowOf, SameFlow, SameLoops, Stopped
<1>6. v.reader \in ReadsOverlapped => platform = "win"
  BY <1>1, <1>2 DEF FlowOf, SameLoops
<1> QED
  BY <1>1, <1>3, <1>4, <1>5, <1>6 DEF FlowOf, v

\* It is enough to look at the worker that changes.
LEMMA FlowMoves ==
  ASSUME WorkersType, FlowInv, NEW i \in Ids, NEW v \in WorkerRecord, Becomes(i, v),
         platform' = platform, FlowOf(v, platform)
  PROVE  /\ FlowInv' /\ worker'[i] = v
         /\ \A j \in Ids : j # i => worker'[j] = worker[j]
<1>1. worker'[i] = v /\ \A j \in Ids : j # i => worker'[j] = worker[j]
  BY BecomesFacts
<1>2. ASSUME NEW j \in Ids PROVE FlowOf(worker'[j], platform')
  <2>1. CASE j = i
    BY <1>1, <2>1
  <2>2. CASE j # i
    BY <1>1, <2>2 DEF FlowInv
  <2> QED
    BY <2>1, <2>2
<1> QED
  BY <1>1, <1>2 DEF FlowInv

(***************************************************************************)
(* The steps that move messages.                                           *)
(***************************************************************************)

\* A piece keeps its place when a message is enqueued.
LEMMA PlaceKept ==
  ASSUME NEW ms \in Seq(Messages), NEW m \in Messages, NEW at, NEW x, InPlace(ms, at, x)
  PROVE  InPlace(Append(ms, m), at, x)
<1>1. PICK n \in 1 .. Len(ms), k \in 1 .. MessageLength :
        at = (n - 1) * MessageLength + (k - 1) /\ x = <<ms[n], k>>
  BY DEF InPlace
<1>2. n \in 1 .. Len(Append(ms, m)) /\ Append(ms, m)[n] = ms[n]
  BY AppendProperties, LenProperties
<1> QED
  BY <1>1, <1>2 DEF InPlace

\* The members of a record that matter here.
LEMMA FlowTypes ==
  ASSUME NEW w \in WorkerRecord
  PROVE  /\ {w.accepted, w.queue} \subseteq Seq(Messages)
         /\ {w.rest, w.pipe, w.received} \subseteq Seq(Piece)
         /\ {Len(w.accepted), Len(w.queue), Len(w.rest), Len(w.pipe), Len(w.received)}
              \subseteq Nat
<1>1. /\ w.accepted \in Seq(Messages) /\ w.queue \in Seq(Messages)
      /\ w.rest \in Seq(Piece) /\ w.pipe \in Seq(Piece) /\ w.received \in Seq(Piece)
  BY DEF WorkerRecord
<1> QED
  BY <1>1, LenProperties

\* enqueue: the message is behind all others, in the queue too.
LEMMA EnqueueFlows ==
  ASSUME TypeInv, FlowInv, NEW i \in Ids, Enqueue(i)
  PROVE  /\ FlowInv' /\ budget.messages \in Messages
         /\ worker'[i].accepted = Append(worker[i].accepted, budget.messages)
         /\ worker'[i].received = worker[i].received
         /\ \A j \in Ids : j # i => worker'[j] = worker[j]
<1> DEFINE w == worker[i]
           m == budget.messages
           q == Append(w.queue, m)
           a == Append(w.accepted, m)
           v == [w EXCEPT !.queue = q, !.accepted = a]
<1>1. w \in WorkerRecord /\ m \in Messages /\ FlowOf(w, platform)
  BY SpendFacts DEF TypeInv, WorkersType, FlowInv, Enqueue
<1>2. Becomes(i, v) /\ platform' = platform
  BY <1>1 DEF Enqueue, Becomes, TypeInv, WorkersType, WorkerRecord
<1>3. q \in Seq(Messages) /\ a \in Seq(Messages)
  BY <1>1, FlowTypes, AppendProperties
<1> HIDE DEF q, a, m
<1>4. v \in WorkerRecord
  BY <1>1, <1>3 DEF WorkerRecord
<1>5. /\ v.queue = q /\ v.accepted = a /\ v.rest = w.rest /\ v.pipe = w.pipe
      /\ v.received = w.received /\ v.writer = w.writer /\ v.reader = w.reader
      /\ v.life = w.life
  BY <1>1 DEF WorkerRecord
<1> HIDE DEF v, w
<1>6. PipeInPlace(v)
  BY <1>1, <1>5, FlowTypes, PlaceKept DEF FlowOf, PipeInPlace, a
<1>7. WritesOn(v) => \E n \in Nat : Taken(v, n)
  <2> SUFFICES ASSUME WritesOn(v) PROVE \E n \in Nat : Taken(v, n)
    OBVIOUS
  <2>1. PICK n \in Nat : Taken(w, n)
    BY <1>1, <1>5 DEF FlowOf, WritesOn
  <2>2. /\ Len(q) = Len(w.queue) + 1 /\ q[Len(w.queue) + 1] = m
        /\ \A k \in 1 .. Len(w.queue) : q[k] = w.queue[k]
        /\ Len(a) = Len(w.accepted) + 1 /\ a[Len(w.accepted) + 1] = m
        /\ \A k \in 1 .. Len(w.accepted) : a[k] = w.accepted[k]
    BY <1>1, FlowTypes, AppendProperties DEF q, a
  <2>3. Len(w.queue) \in Nat /\ Len(w.accepted) \in Nat /\ n + Len(w.queue) = Len(w.accepted)
    BY <1>1, <2>1, FlowTypes DEF Taken
  <2>4. \A k \in 1 .. Len(q) : q[k] = a[n + k]
    <3> SUFFICES ASSUME NEW k \in 1 .. Len(q) PROVE q[k] = a[n + k]
      OBVIOUS
    <3>1. CASE k = Len(w.queue) + 1
      <4>1. n + k = Len(w.accepted) + 1
        BY <2>3, <3>1
      <4> QED
        BY <2>2, <3>1, <4>1
    <3>2. CASE k \in 1 .. Len(w.queue)
      <4>1. n + k \in 1 .. Len(w.accepted)
        BY <2>3, <3>2
      <4>2. w.queue[k] = w.accepted[n + k]
        BY <2>1, <3>2 DEF Taken
      <4> QED
        BY <2>2, <3>2, <4>1, <4>2
    <3> QED
      BY <2>2, <2>3, <3>1, <3>2
  <2>5. n + Len(q) = Len(a)
    BY <2>2, <2>3
  <2>6. \A p \in 1 .. Len(w.rest) :
          InPlace(a, Len(w.received) + Len(w.pipe) + (p - 1), w.rest[p])
    BY <1>1, <2>1, FlowTypes, PlaceKept DEF Taken, a
  <2>7. Taken(v, n)
    BY <1>5, <2>1, <2>4, <2>5, <2>6 DEF Taken
  <2> QED
    BY <2>7
<1>8. FlowOf(v, platform)
  BY <1>1, <1>5, <1>6, <1>7 DEF FlowOf
<1> QED
  BY <1>1, <1>2, <1>4, <1>5, <1>8, FlowMoves DEF TypeInv, w, a, m

\* The pieces of a message: what WriterPops takes, and where they belong.
LEMMA PiecesInPlace ==
  ASSUME NEW ms \in Seq(Messages), NEW n \in Nat, n + 1 \in 1 .. Len(ms),
         NEW m, m = ms[n + 1], NEW before \in Nat, before = n * MessageLength
  PROVE  /\ before + Len(Pieces(m)) = (n + 1) * MessageLength
         /\ \A p \in 1 .. Len(Pieces(m)) : InPlace(ms, before + (p - 1), Pieces(m)[p])
<1>1. MessageLength \in Nat
  BY WorkerAssumption
<1>2. Len(Pieces(m)) = MessageLength /\ \A p \in 1 .. MessageLength : Pieces(m)[p] = <<m, p>>
  BY <1>1 DEF Pieces
<1>3. (n + 1) * MessageLength = n * MessageLength + MessageLength
  BY <1>1
<1>4. ((n + 1) - 1) * MessageLength = before
  <2>1. (n + 1) - 1 = n
    OBVIOUS
  <2> QED
    BY <2>1
<1>5. ASSUME NEW p \in 1 .. MessageLength PROVE InPlace(ms, before + (p - 1), Pieces(m)[p])
  BY <1>2, <1>4 DEF InPlace
<1> QED
  BY <1>1, <1>2, <1>3, <1>5

\* The write thread takes the next message.
LEMMA WriterPopsFlows ==
  ASSUME TypeInv, ThreadInv, FlowInv, NEW i \in Ids, WriterPops(i)
  PROVE  /\ FlowInv' /\ worker'[i].accepted = worker[i].accepted
         /\ worker'[i].received = worker[i].received
         /\ \A j \in Ids : j # i => worker'[j] = worker[j]
<1> DEFINE w == worker[i]
           m == Head(w.queue)
           q == Tail(w.queue)
           r == Pieces(m)
           v == [w EXCEPT !.rest = r, !.queue = q, !.writer = "write"]
<1>1. w \in WorkerRecord /\ FlowOf(w, platform)
  BY DEF TypeInv, WorkersType, FlowInv
<1>2. Becomes(i, v) /\ platform' = platform
  BY <1>1 DEF WriterPops, Becomes, TypeInv, WorkersType, WorkerRecord
<1>3. /\ q \in Seq(Messages) /\ Len(w.queue) > 0 /\ Len(q) = Len(w.queue) - 1
      /\ \A k \in 1 .. Len(q) : q[k] = w.queue[k + 1]
      /\ m = w.queue[1] /\ m \in Messages
  BY <1>1, FlowTypes, HeadTailProperties, EmptySeq DEF WriterPops
<1>4. r \in Seq(Piece)
  BY <1>3, PiecesType
<1> HIDE DEF q, r, m
<1>5. v \in WorkerRecord
  BY <1>1, <1>3, <1>4 DEF WorkerRecord
<1>6. /\ v.queue = q /\ v.accepted = w.accepted /\ v.rest = r /\ v.pipe = w.pipe
      /\ v.received = w.received /\ v.writer = "write" /\ v.reader = w.reader
      /\ v.life = w.life /\ w.writer = "wait"
  BY <1>1 DEF WorkerRecord, WriterPops
<1>7. w.life # "destroyed"
  BY DEF WriterPops, ThreadInv, Running
<1> HIDE DEF v, w
<1>8. PipeInPlace(v)
  BY <1>1, <1>6 DEF FlowOf, PipeInPlace
<1>9. PICK n \in Nat : Taken(w, n)
  BY <1>1, <1>6, <1>7 DEF FlowOf, WritesOn, Stopped
<1>10. /\ n + 1 \in 1 .. Len(w.accepted) /\ m = w.accepted[n + 1]
       /\ n + 1 + Len(q) = Len(w.accepted)
       /\ \A k \in 1 .. Len(q) : q[k] = w.accepted[n + 1 + k]
  <2>1. Len(w.queue) \in Nat /\ Len(w.accepted) \in Nat /\ n + Len(w.queue) = Len(w.accepted)
    BY <1>1, <1>9, FlowTypes DEF Taken
  <2>2. \A k \in 1 .. Len(w.queue) : w.queue[k] = w.accepted[n + k]
    BY <1>9 DEF Taken
  <2>3. 1 \in 1 .. Len(w.queue) /\ n + 1 \in 1 .. Len(w.accepted)
    BY <1>3, <2>1
  <2>4. ASSUME NEW k \in 1 .. Len(q) PROVE q[k] = w.accepted[n + 1 + k]
    <3>1. k + 1 \in 1 .. Len(w.queue) /\ n + (k + 1) = n + 1 + k
      BY <1>3, <2>1
    <3> QED
      BY <1>3, <2>2, <3>1
  <2>5. m = w.accepted[n + 1]
    BY <1>3, <2>2, <2>3
  <2>6. n + 1 + Len(q) = Len(w.accepted)
    <3> DEFINE a == Len(w.accepted)
               b == Len(w.queue)
               c == Len(q)
    <3>1. b \in Nat /\ n + b = a /\ c = b - 1
      BY <1>3, <2>1
    <3> HIDE DEF a, b, c
    <3>2. n + 1 + c = a
      BY <3>1
    <3> QED
      BY <3>2 DEF a, c
  <2> QED
    BY <2>3, <2>4, <2>5, <2>6
<1>11. Taken(v, n + 1)
  <2> DEFINE before == Len(w.received) + Len(w.pipe)
  <2>1. before \in Nat /\ before = n * MessageLength
    <3> DEFINE a == Len(w.received)
               b == Len(w.pipe)
               c == Len(w.rest)
               d == n * MessageLength
    <3>1. c = 0
      BY <1>6, <1>9, EmptySeq DEF Taken
    <3>2. a \in Nat /\ b \in Nat
      BY <1>1, FlowTypes
    <3>3. a + b + c = d
      BY <1>9 DEF Taken
    <3> HIDE DEF a, b, c, d
    <3>4. a + b \in Nat /\ a + b = d
      BY <3>1, <3>2, <3>3
    <3> QED
      BY <3>4 DEF a, b, d
  <2>2. w.accepted \in Seq(Messages)
    BY <1>1, FlowTypes
  <2> HIDE DEF before
  <2>3. /\ before + Len(r) = (n + 1) * MessageLength
        /\ \A p \in 1 .. Len(r) : InPlace(w.accepted, before + (p - 1), r[p])
    BY <1>10, <2>1, <2>2, PiecesInPlace DEF r
  <2> QED
    BY <1>6, <1>10, <2>3 DEF Taken, before
<1>12. FlowOf(v, platform)
  <2>1. n + 1 \in Nat /\ \E k \in Nat : Taken(v, k)
    BY <1>11
  <2> QED
    BY <1>1, <1>6, <1>8, <2>1 DEF FlowOf
<1> QED
  BY <1>2, <1>5, <1>6, <1>12, FlowMoves DEF TypeInv, w

\* The first n elements of t, moved behind s, and those that are left.
LEMMA MovedElements ==
  ASSUME NEW S, NEW s \in Seq(S), NEW t \in Seq(S), NEW n \in 1 .. Len(t)
  PROVE  /\ Len(s \o SubSeq(t, 1, n)) = Len(s) + n
         /\ \A p \in 1 .. Len(s) : (s \o SubSeq(t, 1, n))[p] = s[p]
         /\ \A p \in 1 .. n : (s \o SubSeq(t, 1, n))[Len(s) + p] = t[p]
         /\ Len(SubSeq(t, n + 1, Len(t))) = Len(t) - n
         /\ \A p \in 1 .. Len(t) - n : SubSeq(t, n + 1, Len(t))[p] = t[n + p]
<1> DEFINE u == SubSeq(t, 1, n)
           r == SubSeq(t, n + 1, Len(t))
           l == Len(t)
           h == Len(s)
<1>1. l \in Nat /\ h \in Nat /\ \A p \in 1 .. l : t[p] \in S
  BY LenProperties, ElementOfSeq
<1>2. n \in Nat /\ n >= 1 /\ n <= l
  BY <1>1
<1>3. /\ \A p \in 1 .. n : p \in 1 .. l
      /\ \A p \in n + 1 .. l : p \in 1 .. l
  <2> HIDE DEF l
  <2> QED
    BY <1>1, <1>2
<1>4. u \in Seq(S) /\ Len(u) = n /\ \A p \in 1 .. n : u[p] = t[p]
  <2>1. \A p \in 1 .. n : t[p] \in S
    BY <1>1, <1>3
  <2>2. /\ u \in Seq(S) /\ Len(u) = (IF 1 <= n THEN n - 1 + 1 ELSE 0)
        /\ \A p \in 1 .. n - 1 + 1 : u[p] = t[1 + p - 1]
    BY <1>2, <2>1, SubSeqProperties
  <2>3. n - 1 + 1 = n /\ \A p \in 1 .. n : 1 + p - 1 = p
    BY <1>2
  <2> HIDE DEF u
  <2> QED
    BY <1>2, <2>2, <2>3
<1>5. Len(r) = l - n /\ \A p \in 1 .. l - n : r[p] = t[n + p]
  <2>1. \A p \in n + 1 .. l : t[p] \in S
    BY <1>1, <1>3
  <2>2. /\ Len(r) = (IF n + 1 <= l THEN l - (n + 1) + 1 ELSE 0)
        /\ \A p \in 1 .. l - (n + 1) + 1 : r[p] = t[n + 1 + p - 1]
    BY <1>1, <1>2, <2>1, SubSeqProperties
  <2> HIDE DEF r, l
  <2>3. l - (n + 1) + 1 = l - n /\ \A p \in 1 .. l - n : n + 1 + p - 1 = n + p
    BY <1>1, <1>2
  <2>4. Len(r) = l - n
    BY <1>1, <1>2, <2>2, <2>3
  <2> QED
    BY <2>2, <2>3, <2>4
<1>6. /\ Len(s \o u) = h + n
      /\ \A p \in 1 .. h + n : (s \o u)[p] = IF p <= h THEN s[p] ELSE u[p - h]
  <2> HIDE DEF u
  <2> QED
    BY <1>4, ConcatProperties
<1> HIDE DEF u, r, l, h
<1>7. \A p \in 1 .. h : (s \o u)[p] = s[p]
  <2>1. \A p \in 1 .. h : p \in 1 .. h + n /\ p <= h
    BY <1>1, <1>2
  <2> QED
    BY <1>6, <2>1
<1>8. \A p \in 1 .. n : (s \o u)[h + p] = t[p]
  <2> SUFFICES ASSUME NEW p \in 1 .. n PROVE (s \o u)[h + p] = t[p]
    OBVIOUS
  <2> DEFINE q == h + p
  <2>1. q \in 1 .. h + n /\ ~(q <= h) /\ q - h = p
    BY <1>1, <1>2
  <2> HIDE DEF q
  <2>2. (s \o u)[q] = u[q - h]
    BY <1>6, <2>1
  <2> QED
    BY <1>4, <2>1, <2>2 DEF q
<1> QED
  BY <1>5, <1>6, <1>7, <1>8 DEF u, r, l, h

\* The write thread writes some of the rest.
LEMMA WriterWritesFlows ==
  ASSUME TypeInv, ThreadInv, FlowInv, NEW i \in Ids, WriterWrites(i)
  PROVE  /\ FlowInv' /\ worker'[i].accepted = worker[i].accepted
         /\ worker'[i].received = worker[i].received
         /\ \A j \in Ids : j # i => worker'[j] = worker[j]
<1>1. PICK n \in Int, v \in WorkerRecord : Becomes(i, v) /\ Wrote(worker[i], n, v)
  BY WriterWritesBecomes DEF TypeInv
<1> DEFINE w == worker[i]
           l == Len(w.rest)
           h == Len(w.pipe)
           c == Len(w.received)
<1>2. w \in WorkerRecord /\ FlowOf(w, platform)
  BY DEF TypeInv, WorkersType, FlowInv
<1>3. w.rest \in Seq(Piece) /\ w.pipe \in Seq(Piece) /\ l \in Nat /\ h \in Nat /\ c \in Nat
  BY <1>2, FlowTypes
<1>4. platform = "posix" /\ platform' = platform /\ w.life # "destroyed"
  BY DEF WriterWrites, Writes, ThreadInv, Running
<1>5. Wrote(w, n, v)
  BY <1>1
<1> HIDE DEF w
<1>6. n \in Nat /\ n >= 1 /\ n <= l /\ n \in 1 .. l
  BY <1>3, <1>5 DEF Wrote
<1>7. /\ Len(v.pipe) = h + n
      /\ \A p \in 1 .. h : v.pipe[p] = w.pipe[p]
      /\ \A p \in 1 .. n : v.pipe[h + p] = w.rest[p]
      /\ Len(v.rest) = l - n /\ \A p \in 1 .. l - n : v.rest[p] = w.rest[n + p]
  BY <1>3, <1>5, <1>6, MovedElements DEF Wrote
<1>8. PICK k \in Nat : Taken(w, k)
  BY <1>2, <1>4, <1>5 DEF FlowOf, WritesOn, Stopped, Wrote
<1>9. /\ v.accepted = w.accepted /\ v.queue = w.queue /\ v.received = w.received
      /\ v.reader = w.reader
  BY <1>5 DEF Wrote
<1>10. /\ \A p \in 1 .. h : InPlace(w.accepted, c + (p - 1), w.pipe[p])
       /\ \A p \in 1 .. l : InPlace(w.accepted, c + h + (p - 1), w.rest[p])
       /\ c + h + l = k * MessageLength
  BY <1>2, <1>8 DEF FlowOf, PipeInPlace, Taken
<1> HIDE DEF l, h, c
<1>11. ASSUME NEW p \in 1 .. h + n
       PROVE  InPlace(w.accepted, c + (p - 1), v.pipe[p])
  <2>1. CASE p \in 1 .. h
    BY <1>7, <1>10, <2>1
  <2>2. CASE p \notin 1 .. h
    <3> DEFINE q == p - h
    <3>1. q \in 1 .. n /\ q \in 1 .. l /\ h + q = p /\ c + h + (q - 1) = c + (p - 1)
      BY <1>3, <1>6, <2>2
    <3> HIDE DEF q
    <3>2. InPlace(w.accepted, c + h + (q - 1), w.rest[q])
      BY <1>10, <3>1
    <3>3. v.pipe[p] = w.rest[q]
      BY <1>7, <3>1
    <3> QED
      BY <3>1, <3>2, <3>3, Zenon
  <2> QED
    BY <2>1, <2>2, Zenon
<1>12. PipeInPlace(v)
  BY <1>7, <1>9, <1>11 DEF PipeInPlace, c
<1>13. Taken(v, k)
  <2>1. c + (h + n) + (l - n) = k * MessageLength
    <3> DEFINE d == k * MessageLength
    <3> HIDE DEF d
    <3>1. c + h + l = d
      BY <1>10 DEF d
    <3>2. c + (h + n) + (l - n) = d
      BY <1>3, <1>6, <3>1
    <3> QED
      BY <3>2 DEF d
  <2>2. ASSUME NEW p \in 1 .. l - n
        PROVE  InPlace(w.accepted, c + (h + n) + (p - 1), v.rest[p])
    <3> DEFINE q == n + p
    <3>1. q \in 1 .. l /\ c + h + (q - 1) = c + (h + n) + (p - 1)
      BY <1>3, <1>6
    <3>2. v.rest[p] = w.rest[q]
      BY <1>7
    <3> HIDE DEF q
    <3>3. InPlace(w.accepted, c + h + (q - 1), w.rest[q])
      BY <1>10, <3>1
    <3> QED
      BY <3>1, <3>2, <3>3, Zenon
  <2>3. v.writer # "write" => v.rest = <<>>
    <3> SUFFICES ASSUME v.writer # "write" PROVE v.rest = <<>>
      OBVIOUS
    <3>1. n = l
      BY <1>5 DEF Wrote, l
    <3>2. v.rest = SubSeq(w.rest, n + 1, l) /\ n + 1 \in Int /\ l \in Int /\ l < n + 1
      BY <1>3, <1>5, <1>6, <3>1 DEF Wrote, l
    <3> QED
      BY <3>2, SubSeqEmpty
  <2>4. /\ k + Len(v.queue) = Len(v.accepted)
        /\ \A p \in 1 .. Len(v.queue) : v.queue[p] = v.accepted[k + p]
    BY <1>8, <1>9 DEF Taken
  <2>5. Len(v.received) + Len(v.pipe) + Len(v.rest) = k * MessageLength
    BY <1>7, <1>9, <2>1 DEF c
  <2>6. \A p \in 1 .. Len(v.rest) :
          InPlace(v.accepted, Len(v.received) + Len(v.pipe) + (p - 1), v.rest[p])
    BY <1>7, <1>9, <2>2 DEF c
  <2> QED
    BY <2>3, <2>4, <2>5, <2>6 DEF Taken
<1>14. FlowOf(v, platform)
  BY <1>2, <1>4, <1>9, <1>12, <1>13 DEF FlowOf
<1> QED
  BY <1>1, <1>4, <1>9, <1>14, FlowMoves DEF TypeInv, w

\* On Windows the whole rest becomes what is pending.
LEMMA WriterStartsFlows ==
  ASSUME TypeInv, ThreadInv, FlowInv, NEW i \in Ids, WriterStarts(i)
  PROVE  /\ FlowInv' /\ worker'[i].accepted = worker[i].accepted
         /\ worker'[i].received = worker[i].received
         /\ \A j \in Ids : j # i => worker'[j] = worker[j]
<1> DEFINE w == worker[i]
           v == [w EXCEPT !.writer = "blocked", !.rest = <<>>, !.pipe = w.rest]
<1>1. w \in WorkerRecord /\ FlowOf(w, platform)
  BY DEF TypeInv, WorkersType, FlowInv
<1>2. Becomes(i, v) /\ platform' = platform /\ platform = "win"
  BY <1>1 DEF WriterStarts, Becomes, TypeInv, WorkersType, WorkerRecord
<1>3. v \in WorkerRecord
  BY <1>1, EmptySeq DEF WorkerRecord
<1>4. /\ v.queue = w.queue /\ v.accepted = w.accepted /\ v.rest = <<>> /\ v.pipe = w.rest
      /\ v.received = w.received /\ v.writer = "blocked" /\ v.reader = w.reader
      /\ v.life = w.life /\ w.writer = "write"
  BY <1>1 DEF WorkerRecord, WriterStarts
<1>5. w.life # "destroyed"
  BY DEF WriterStarts, ThreadInv, Running
<1> HIDE DEF v, w
<1>6. PICK n \in Nat : Taken(w, n)
  BY <1>1, <1>4, <1>5 DEF FlowOf, WritesOn, Stopped
<1>7. w.pipe = <<>>
  BY <1>1, <1>2, <1>4 DEF FlowOf
<1> DEFINE c == Len(w.received)
           h == Len(w.pipe)
           l == Len(w.rest)
           z == Len(v.rest)
           d == n * MessageLength
<1>8. c \in Nat /\ h = 0 /\ l \in Nat /\ z = 0 /\ c + h + l = d
  BY <1>1, <1>4, <1>6, <1>7, FlowTypes, EmptySeq DEF Taken
<1>9. \A p \in 1 .. l : InPlace(w.accepted, c + h + (p - 1), w.rest[p])
  BY <1>6 DEF Taken
<1> HIDE DEF c, h, l, d, z
<1>10. \A p \in 1 .. l : InPlace(w.accepted, c + (p - 1), w.rest[p])
  <2> SUFFICES ASSUME NEW p \in 1 .. l PROVE InPlace(w.accepted, c + (p - 1), w.rest[p])
    OBVIOUS
  <2>1. c + h + (p - 1) = c + (p - 1)
    BY <1>8
  <2> QED
    BY <1>9, <2>1
<1>11. c + l + z = d
  BY <1>8
<1>12. PipeInPlace(v)
  BY <1>4, <1>10 DEF PipeInPlace, c, l
<1>13. Taken(v, n)
  <2>1. /\ n + Len(v.queue) = Len(v.accepted)
        /\ \A k \in 1 .. Len(v.queue) : v.queue[k] = v.accepted[n + k]
    BY <1>4, <1>6 DEF Taken
  <2>2. Len(v.received) + Len(v.pipe) + Len(v.rest) = n * MessageLength
    BY <1>4, <1>11 DEF c, l, z, d
  <2>3. \A p \in 1 .. Len(v.rest) :
          InPlace(v.accepted, Len(v.received) + Len(v.pipe) + (p - 1), v.rest[p])
    <3>1. \A p \in 1 .. z : FALSE
      BY <1>8
    <3> QED
      BY <3>1 DEF z
  <2> QED
    BY <1>4, <2>1, <2>2, <2>3 DEF Taken
<1>14. FlowOf(v, platform)
  BY <1>1, <1>4, <1>12, <1>13 DEF FlowOf
<1> QED
  BY <1>2, <1>3, <1>4, <1>14, FlowMoves DEF TypeInv, w

\* The write is over: sertop has read it all.
LEMMA WriterFinishesFlows ==
  ASSUME TypeInv, FlowInv, NEW i \in Ids, WriterFinishes(i)
  PROVE  /\ FlowInv' /\ worker'[i].accepted = worker[i].accepted
         /\ worker'[i].received = worker[i].received
         /\ \A j \in Ids : j # i => worker'[j] = worker[j]
<1> DEFINE w == worker[i]
           s == WriteAgain(i)
           v == [w EXCEPT !.writer = s]
<1>1. w \in WorkerRecord /\ FlowOf(w, platform)
  BY DEF TypeInv, WorkersType, FlowInv
<1>2. Becomes(i, v) /\ platform' = platform
  BY <1>1 DEF WriterFinishes, Becomes, TypeInv, WorkersType, WorkerRecord
<1>3. s \in {"wait", "done"}
  BY DEF WriteAgain
<1> HIDE DEF s
<1>4. v \in WorkerRecord
  BY <1>1, <1>3 DEF WorkerRecord
<1>5. /\ v.queue = w.queue /\ v.accepted = w.accepted /\ v.rest = w.rest /\ v.pipe = w.pipe
      /\ v.received = w.received /\ v.writer = s /\ v.reader = w.reader
      /\ v.life = w.life /\ w.writer = "blocked" /\ w.pipe = <<>>
  BY <1>1 DEF WorkerRecord, WriterFinishes
<1> HIDE DEF v, w
<1>6. PipeInPlace(v)
  BY <1>1, <1>5 DEF FlowOf, PipeInPlace
<1>7. ASSUME WritesOn(v) PROVE \E n \in Nat : Taken(v, n)
  <2>1. PICK n \in Nat : Taken(w, n)
    BY <1>1, <1>5, <1>7 DEF FlowOf, WritesOn, Stopped
  <2>2. Taken(v, n)
    BY <1>5, <2>1 DEF Taken
  <2> QED
    BY <2>2
<1>8. FlowOf(v, platform)
  BY <1>1, <1>5, <1>6, <1>7 DEF FlowOf
<1> QED
  BY <1>2, <1>4, <1>5, <1>8, FlowMoves DEF TypeInv, w

\* sertop reads the next piece.
LEMMA SertopReadsFlows ==
  ASSUME TypeInv, FlowInv, NEW i \in Ids, SertopReads(i) \/ SertopReadsWin(i)
  PROVE  /\ FlowInv' /\ worker'[i].accepted = worker[i].accepted
         /\ \E x : /\ worker'[i].received = Append(worker[i].received, x)
                   /\ InPlace(worker[i].accepted, Len(worker[i].received), x)
         /\ \A j \in Ids : j # i => worker'[j] = worker[j]
<1> DEFINE w == worker[i]
           x == Head(w.pipe)
           t == Tail(w.pipe)
           r == Append(w.received, x)
           v == [w EXCEPT !.pipe = t, !.received = r]
<1>1. w \in WorkerRecord /\ FlowOf(w, platform)
  BY DEF TypeInv, WorkersType, FlowInv
<1>2. Becomes(i, v) /\ platform' = platform /\ w.pipe # <<>>
  BY <1>1 DEF SertopReads, SertopReadsWin, Becomes, TypeInv, WorkersType, WorkerRecord
<1>3. /\ x \in Piece /\ x = w.pipe[1] /\ t \in Seq(Piece) /\ Len(t) = Len(w.pipe) - 1
      /\ \A p \in 1 .. Len(t) : t[p] = w.pipe[p + 1]
  BY <1>1, <1>2, FlowTypes, HeadTailProperties
<1>4. r \in Seq(Piece) /\ Len(r) = Len(w.received) + 1
  BY <1>1, <1>3, FlowTypes, AppendProperties
<1> HIDE DEF x, t, r
<1>5. v \in WorkerRecord
  BY <1>1, <1>3, <1>4 DEF WorkerRecord
<1>6. /\ v.queue = w.queue /\ v.accepted = w.accepted /\ v.rest = w.rest /\ v.pipe = t
      /\ v.received = r /\ v.writer = w.writer /\ v.reader = w.reader /\ v.life = w.life
  BY <1>1 DEF WorkerRecord
<1> HIDE DEF v
<1> DEFINE c == Len(w.received)
           h == Len(w.pipe)
           l == Len(w.rest)
<1>7. c \in Nat /\ h \in Nat /\ l \in Nat
  BY <1>1, FlowTypes
<1>8. 1 <= h /\ Len(t) = h - 1 /\ Len(r) = c + 1
  BY <1>1, <1>2, <1>3, <1>4, <1>7, FlowTypes, EmptySeq
<1>9. \A p \in 1 .. h : InPlace(w.accepted, c + (p - 1), w.pipe[p])
  BY <1>1 DEF FlowOf, PipeInPlace
<1> HIDE DEF w, c, h, l
<1>10. InPlace(w.accepted, c, x)
  <2>1. 1 \in 1 .. h /\ c + (1 - 1) = c
    BY <1>7, <1>8
  <2>2. InPlace(w.accepted, c + (1 - 1), w.pipe[1])
    BY <1>9, <2>1
  <2> QED
    BY <1>3, <2>1, <2>2
<1>11. ASSUME NEW p \in 1 .. h - 1
       PROVE  InPlace(w.accepted, (c + 1) + (p - 1), t[p])
  <2> DEFINE q == p + 1
  <2>1. q \in 1 .. h /\ c + (q - 1) = (c + 1) + (p - 1)
    BY <1>7
  <2>2. t[p] = w.pipe[q]
    BY <1>3, <1>8
  <2> HIDE DEF q
  <2>3. InPlace(w.accepted, c + (q - 1), w.pipe[q])
    BY <1>9, <2>1
  <2> QED
    BY <2>1, <2>2, <2>3, Zenon
<1>12. PipeInPlace(v)
  BY <1>6, <1>8, <1>11 DEF PipeInPlace
<1>13. ASSUME WritesOn(v) PROVE \E n \in Nat : Taken(v, n)
  <2>1. PICK n \in Nat : Taken(w, n)
    BY <1>1, <1>6, <1>13 DEF FlowOf, WritesOn
  <2> DEFINE d == n * MessageLength
  <2>2. c + h + l = d
    BY <2>1 DEF Taken, c, h, l
  <2> HIDE DEF d
  <2>3. (c + 1) + (h - 1) + l = d /\ (c + 1) + (h - 1) = c + h
    BY <1>7, <2>2
  <2>4. Len(v.received) + Len(v.pipe) = c + h /\ Len(v.rest) = l
    BY <1>6, <1>8, <2>3 DEF l
  <2>5. \A p \in 1 .. l : InPlace(w.accepted, c + h + (p - 1), w.rest[p])
    BY <2>1 DEF Taken, c, h, l
  <2>6. /\ n + Len(v.queue) = Len(v.accepted)
        /\ \A k \in 1 .. Len(v.queue) : v.queue[k] = v.accepted[n + k]
        /\ v.writer # "write" => v.rest = <<>>
    BY <1>6, <2>1 DEF Taken
  <2>7. Len(v.received) + Len(v.pipe) + Len(v.rest) = n * MessageLength
    BY <2>2, <2>4 DEF d
  <2>8. \A p \in 1 .. Len(v.rest) :
          InPlace(v.accepted, Len(v.received) + Len(v.pipe) + (p - 1), v.rest[p])
    BY <1>6, <2>4, <2>5
  <2>9. Taken(v, n)
    BY <2>6, <2>7, <2>8 DEF Taken
  <2> QED
    BY <2>9
<1>14. platform = "win" /\ v.writer \in {"none", "wait", "write"} => v.pipe = <<>>
  BY <1>1, <1>2, <1>6 DEF FlowOf
<1>15. FlowOf(v, platform)
  BY <1>1, <1>6, <1>12, <1>13, <1>14 DEF FlowOf
<1>16. /\ FlowInv' /\ worker'[i] = v
       /\ \A j \in Ids : j # i => worker'[j] = worker[j]
  BY <1>2, <1>5, <1>15, FlowMoves DEF TypeInv
<1>17. worker'[i].received = Append(worker[i].received, x)
       /\ InPlace(worker[i].accepted, Len(worker[i].received), x)
  BY <1>6, <1>10, <1>16 DEF r, c, w
<1> QED
  BY <1>6, <1>16, <1>17 DEF w

(***************************************************************************)
(* The steps that take away what is on its way.                            *)
(***************************************************************************)

\* CancelIoEx, or the end of the record.
Drops(w, v) ==
  /\ v.accepted = w.accepted /\ v.received = w.received /\ v.pipe = <<>>
  /\ v.reader \in ReadsOverlapped => w.reader \in ReadsOverlapped
  /\ \/ v.life = "destroyed" \/ v.writer \in Stopped
     \/ /\ v.life = w.life /\ v.queue = w.queue /\ v.rest = w.rest
        /\ v.writer = w.writer /\ w.pipe = <<>>

\* It leaves nothing that is out of place.
LEMMA DropFlows ==
  ASSUME TypeInv, FlowInv, NEW i \in Ids, NEW v \in WorkerRecord, Becomes(i, v),
         platform' = platform, Drops(worker[i], v)
  PROVE  /\ FlowInv' /\ worker'[i].accepted = worker[i].accepted
         /\ worker'[i].received = worker[i].received
         /\ \A j \in Ids : j # i => worker'[j] = worker[j]
<1> DEFINE w == worker[i]
<1>1. w \in WorkerRecord /\ FlowOf(w, platform) /\ Drops(w, v)
  BY DEF TypeInv, WorkersType, FlowInv
<1> HIDE DEF w
<1>2. PipeInPlace(v)
  <2>1. Len(v.pipe) = 0
    BY <1>1, EmptySeq DEF Drops
  <2>2. \A p \in 1 .. 0 : FALSE
    OBVIOUS
  <2> QED
    BY <2>1, <2>2 DEF PipeInPlace
<1>3. ASSUME WritesOn(v) PROVE \E n \in Nat : Taken(v, n)
  <2>1. /\ v.life = w.life /\ v.queue = w.queue /\ v.rest = w.rest /\ v.writer = w.writer
        /\ v.pipe = w.pipe /\ v.accepted = w.accepted /\ v.received = w.received
    BY <1>1, <1>3 DEF WritesOn, Drops
  <2>2. PICK n \in Nat : Taken(w, n)
    BY <1>1, <1>3, <2>1 DEF FlowOf, WritesOn
  <2>3. Taken(v, n)
    BY <2>1, <2>2 DEF Taken
  <2> QED
    BY <2>3
<1>4. FlowOf(v, platform)
  BY <1>1, <1>2, <1>3 DEF FlowOf, Drops
<1>5. /\ FlowInv' /\ worker'[i] = v
      /\ \A j \in Ids : j # i => worker'[j] = worker[j]
  BY <1>4, FlowMoves DEF TypeInv
<1> QED
  BY <1>1, <1>5 DEF Drops, w

\* CancelIoEx, by the destructor or in fail().
LEMMA CancelFlows ==
  ASSUME TypeInv, OwnerInv, FlowInv, NEW i \in Ids,
         \/ DestroyCancels(i) \/ JoinWriterWin(i)
         \/ ReaderFailsWin(i) \/ WriterAborted(i) \/ WriterFailsWin(i)
  PROVE  /\ FlowInv' /\ worker'[i].accepted = worker[i].accepted
         /\ worker'[i].received = worker[i].received
         /\ \A j \in Ids : j # i => worker'[j] = worker[j]
<1> DEFINE w == worker[i]
<1>1. w \in WorkerRecord /\ FlowOf(w, platform) /\ WorkersType
  BY DEF TypeInv, WorkersType, FlowInv
<1>2. platform' = platform
  BY DEF DestroyCancels, JoinWriterWin, ReaderFailsWin, WriterAborted, WriterFailsWin
<1> DEFINE c == Cancelled(w)
           f == Failing(w)
<1>3. c \in WorkerRecord /\ f \in WorkerRecord
  BY <1>1, CancelledFacts, FailingFacts
<1>4. /\ c.accepted = w.accepted /\ c.received = w.received /\ c.pipe = <<>>
      /\ c.life = w.life /\ c.queue = w.queue /\ c.rest = w.rest /\ c.reader = w.reader
      /\ c.writer = IF w.writer = "blocked" /\ w.pipe # <<>> THEN "aborted" ELSE w.writer
  BY <1>1 DEF Cancelled, WorkerRecord
<1>5. /\ f.accepted = c.accepted /\ f.received = c.received /\ f.pipe = c.pipe
      /\ f.life = c.life /\ f.queue = c.queue /\ f.rest = c.rest /\ f.reader = c.reader
      /\ f.writer = c.writer
  BY <1>3 DEF Failing, WorkerRecord
<1>6. ASSUME platform = "win"
      PROVE  c.writer \in Stopped \/ (c.writer = w.writer /\ w.pipe = <<>>)
  <2>1. w.writer \in {"none", "wait", "write"} => w.pipe = <<>>
    BY <1>1, <1>6 DEF FlowOf
  <2>2. w.writer \in {"none", "wait", "write", "blocked"} \union Stopped
    BY <1>1 DEF WorkerRecord, Stopped
  <2>3. "aborted" \in Stopped
    BY DEF Stopped
  <2> QED
    BY <1>4, <2>1, <2>2, <2>3
<1>7. CASE DestroyCancels(i)
  <2>1. platform = "win"
    BY <1>7 DEF DestroyCancels, At, OwnerInv
  <2>2. Becomes(i, c)
    BY <1>1, <1>7 DEF DestroyCancels, Becomes, WorkersType
  <2> HIDE DEF c
  <2>3. Drops(w, c)
    BY <1>4, <1>6, <2>1 DEF Drops
  <2> QED
    BY <1>2, <1>3, <2>2, <2>3, DropFlows
<1>8. CASE JoinWriterWin(i)
  <2>1. platform = "win"
    BY <1>8 DEF JoinWriterWin
  <2>2. Becomes(i, c)
    BY <1>1, <1>8 DEF JoinWriterWin, Becomes, WorkersType
  <2> HIDE DEF c
  <2>3. Drops(w, c)
    BY <1>4, <1>6, <2>1 DEF Drops
  <2> QED
    BY <1>2, <1>3, <2>2, <2>3, DropFlows
<1>9. CASE ReaderFailsWin(i)
  <2> DEFINE r == IF w.reader = "start" THEN "failstart" ELSE "fail"
             v == [f EXCEPT !.reader = r]
  <2>1. w.reader \in ReadsOverlapped
    BY <1>9 DEF ReaderFailsWin, ReadsOverlapped
  <2>2. platform = "win"
    BY <1>1, <2>1 DEF FlowOf
  <2>3. Becomes(i, v)
    BY <1>1, <1>9 DEF ReaderFailsWin, Becomes, WorkersType
  <2>4. v \in WorkerRecord /\ v.accepted = f.accepted /\ v.received = f.received
        /\ v.pipe = f.pipe /\ v.life = f.life /\ v.queue = f.queue /\ v.rest = f.rest
        /\ v.writer = f.writer
    <3>1. r \in {"failstart", "fail"}
      OBVIOUS
    <3> HIDE DEF f, r
    <3> QED
      BY <1>3, <3>1 DEF WorkerRecord
  <2> HIDE DEF c, f, r, v
  <2>5. Drops(w, v)
    BY <1>4, <1>5, <1>6, <2>1, <2>2, <2>4 DEF Drops
  <2> QED
    BY <1>2, <2>3, <2>4, <2>5, DropFlows
<1>10. CASE WriterAborted(i) \/ WriterFailsWin(i)
  <2> DEFINE v == [f EXCEPT !.writer = "fail"]
  <2>1. Becomes(i, v)
    BY <1>1, <1>10 DEF WriterAborted, WriterFailsWin, Becomes, WorkersType
  <2>2. v \in WorkerRecord /\ v.accepted = f.accepted /\ v.received = f.received
        /\ v.pipe = f.pipe /\ v.reader = f.reader /\ v.writer = "fail"
    BY <1>3 DEF WorkerRecord
  <2> HIDE DEF c, f, v
  <2>3. Drops(w, v)
    BY <1>4, <1>5, <2>2 DEF Drops, Stopped
  <2> QED
    BY <1>2, <2>1, <2>2, <2>3, DropFlows
<1> QED
  BY <1>7, <1>8, <1>9, <1>10

\* The destructor returns.
LEMMA GoneFlows ==
  ASSUME TypeInv, FlowInv, NEW i \in Ids, FutureDone(i) \/ CleanupWin(i)
  PROVE  /\ FlowInv' /\ worker'[i].accepted = worker[i].accepted
         /\ worker'[i].received = worker[i].received
         /\ \A j \in Ids : j # i => worker'[j] = worker[j]
<1> DEFINE w == worker[i]
           v == Gone(w)
<1>1. w \in WorkerRecord /\ WorkersType
  BY DEF TypeInv, WorkersType
<1>2. platform' = platform /\ Becomes(i, v)
  BY <1>1 DEF FutureDone, CleanupWin, Becomes, WorkersType
<1>3. v \in WorkerRecord
  BY <1>1, GoneFacts
<1>4. Drops(w, v)
  BY <1>1 DEF Gone, WorkerRecord, Drops
<1> QED
  BY <1>2, <1>3, <1>4, DropFlows

(***************************************************************************)
(* The refinement.                                                         *)
(***************************************************************************)

\* The variables of SertopInput.
Enqueued == [i \in Ids |-> worker[i].accepted]
ReadSoFar == [i \in Ids |-> worker[i].received]

\* Nothing has been enqueued yet.
LEMMA InitFlows ==
  ASSUME Init
  PROVE  FlowInv /\ Input!Init
<1>1. \A i \in Ids : worker[i] = Unborn
  BY DEF Init
<1>2. Input!Init
  BY <1>1 DEF Input!Init, Unborn
<1>3. ASSUME NEW i \in Ids PROVE FlowOf(worker[i], platform)
  <2> DEFINE w == worker[i]
  <2>1. /\ w.accepted = <<>> /\ w.queue = <<>> /\ w.rest = <<>> /\ w.pipe = <<>>
        /\ w.received = <<>> /\ w.writer = "none" /\ w.reader = "none"
    BY <1>1 DEF Unborn
  <2> HIDE DEF w
  <2>2. /\ Len(w.accepted) = 0 /\ Len(w.queue) = 0 /\ Len(w.rest) = 0 /\ Len(w.pipe) = 0
        /\ Len(w.received) = 0
    BY <2>1, EmptySeq
  <2>3. \A p \in 1 .. 0 : FALSE
    OBVIOUS
  <2>4. 0 * MessageLength = 0
    BY WorkerAssumption
  <2>5. Taken(w, 0)
    BY <2>1, <2>2, <2>3, <2>4 DEF Taken
  <2>6. PipeInPlace(w)
    BY <2>2, <2>3 DEF PipeInPlace
  <2>7. FlowOf(w, platform)
    BY <2>1, <2>5, <2>6 DEF FlowOf, ReadsOverlapped
  <2> QED
    BY <2>7 DEF w
<1> QED
  BY <1>2, <1>3 DEF FlowInv

\* Where nothing was enqueued or read, SertopInput stutters.
LEMMA NoInput ==
  ASSUME \A j \in Ids : /\ worker'[j].accepted = worker[j].accepted
                        /\ worker'[j].received = worker[j].received
  PROVE  UNCHANGED <<Enqueued, ReadSoFar>>
BY DEF Enqueued, ReadSoFar

\* Every step keeps the flow in place, and is a step of SertopInput or none.
LEMMA StepFlows ==
  ASSUME IInv, FlowInv, [Next]_vars
  PROVE  FlowInv' /\ (Input!Next \/ UNCHANGED <<Enqueued, ReadSoFar>>)
<1> USE DEF IInv, ControlInv
<1>1. ASSUME Idles PROVE FlowInv' /\ UNCHANGED <<Enqueued, ReadSoFar>>
  <2>1. \A j \in Ids : /\ worker'[j].accepted = worker[j].accepted
                       /\ worker'[j].received = worker[j].received
    BY <1>1 DEF Idles, SameFlow
  <2> QED
    BY <1>1, <2>1, IdleKeeps, NoInput
<1>2. ASSUME NEW i \in Ids, Enqueue(i) PROVE FlowInv' /\ Input!Next
  <2>0. PICK m \in Messages : m = budget.messages
    BY <1>2, EnqueueFlows
  <2>1. /\ FlowInv'
        /\ worker'[i].accepted = Append(worker[i].accepted, m)
        /\ worker'[i].received = worker[i].received
        /\ \A j \in Ids : j # i => worker'[j] = worker[j]
    BY <1>2, <2>0, EnqueueFlows
  <2>2. Enqueued' = [Enqueued EXCEPT ![i] = Append(@, m)] /\ ReadSoFar' = ReadSoFar
    BY <2>1 DEF Enqueued, ReadSoFar
  <2>3. Input!Accept(i, m)
    BY <2>2 DEF Input!Accept, Enqueued, ReadSoFar
  <2> QED
    BY <2>1, <2>3 DEF Input!Next
<1>3. ASSUME NEW i \in Ids, SertopReads(i) \/ SertopReadsWin(i) PROVE FlowInv' /\ Input!Next
  <2>1. PICK x : /\ worker'[i].received = Append(worker[i].received, x)
                 /\ InPlace(worker[i].accepted, Len(worker[i].received), x)
    BY <1>3, SertopReadsFlows
  <2>2. /\ FlowInv' /\ worker'[i].accepted = worker[i].accepted
        /\ \A j \in Ids : j # i => worker'[j] = worker[j]
    BY <1>3, SertopReadsFlows
  <2>3. Enqueued' = Enqueued /\ ReadSoFar' = [ReadSoFar EXCEPT ![i] = Append(@, x)]
    BY <2>1, <2>2 DEF Enqueued, ReadSoFar
  <2>4. Enqueued[i] = worker[i].accepted /\ ReadSoFar[i] = worker[i].received
    BY DEF Enqueued, ReadSoFar
  <2>5. PICK n \in 1 .. Len(Enqueued[i]), k \in 1 .. MessageLength :
          /\ Len(ReadSoFar[i]) = (n - 1) * MessageLength + (k - 1)
          /\ x = <<Enqueued[i][n], k>>
    BY <2>1, <2>4 DEF InPlace
  <2>6. n \in DOMAIN Enqueued[i]
    BY <2>4, <2>5, FlowTypes DEF TypeInv, WorkersType
  <2>7. Input!Receive(i)
    BY <2>3, <2>5, <2>6 DEF Input!Receive, Enqueued, ReadSoFar
  <2> QED
    BY <2>2, <2>7 DEF Input!Next
<1>4. ASSUME NEW i \in Ids,
             \/ WriterPops(i) \/ WriterWrites(i) \/ WriterStarts(i) \/ WriterFinishes(i)
             \/ DestroyCancels(i) \/ JoinWriterWin(i) \/ ReaderFailsWin(i)
             \/ WriterAborted(i) \/ WriterFailsWin(i) \/ FutureDone(i) \/ CleanupWin(i)
      PROVE  FlowInv' /\ UNCHANGED <<Enqueued, ReadSoFar>>
  <2>1. /\ FlowInv' /\ worker'[i].accepted = worker[i].accepted
        /\ worker'[i].received = worker[i].received
        /\ \A j \in Ids : j # i => worker'[j] = worker[j]
    BY <1>4, WriterPopsFlows, WriterWritesFlows, WriterStartsFlows, WriterFinishesFlows,
       CancelFlows, GoneFlows
  <2>2. \A j \in Ids : /\ worker'[j].accepted = worker[j].accepted
                       /\ worker'[j].received = worker[j].received
    BY <2>1
  <2> QED
    BY <2>1, <2>2, NoInput
<1>5. CASE UNCHANGED vars \/ Teardown
  <2>1. UNCHANGED <<platform, worker>>
    BY <1>5 DEF vars, Teardown
  <2> QED
    BY <1>1, <2>1, NothingIdles
<1>6. ASSUME NEW i \in Ids, ReaderStep(i) \/ WriterStep(i) \/ CallbackStep(i)
      PROVE  FlowInv' /\ UNCHANGED <<Enqueued, ReadSoFar>>
  BY <1>1, <1>4, <1>6, ReaderIdles, WriterIdles DEF ReaderStep, WriterStep, CallbackStep
<1>7. ASSUME NEW i \in Ids, DestroyStep(i) \/ Reap(i) \/ Destroy(i)
      PROVE  FlowInv' /\ UNCHANGED <<Enqueued, ReadSoFar>>
  BY <1>1, <1>4, <1>7, DestroyIdles DEF DestroyStep
<1>8. ASSUME NEW i \in Ids, Fork(i) \/ Start(i) \/ ConstructWin(i) \/ Exec(i)
      PROVE  FlowInv' /\ UNCHANGED <<Enqueued, ReadSoFar>>
  BY <1>1, <1>8, ConstructorIdles, SertopIdles
<1>9. ASSUME NEW i \in Ids, Event(i), ~SertopReads(i), ~SertopReadsWin(i)
      PROVE  FlowInv' /\ UNCHANGED <<Enqueued, ReadSoFar>>
  BY <1>1, <1>4, <1>9, ReaderIdles, WriterIdles, DestroyIdles, SertopIdles, ConstructorIdles
     DEF Event
<1>10. ASSUME NEW i \in Ids,
              \/ Fork(i) \/ Start(i) \/ Exec(i) \/ ConstructWin(i)
              \/ Enqueue(i) \/ Destroy(i)
              \/ ReaderStep(i) \/ WriterStep(i) \/ CallbackStep(i)
              \/ DestroyStep(i) \/ Reap(i) \/ Event(i)
       PROVE  FlowInv' /\ (Input!Next \/ UNCHANGED <<Enqueued, ReadSoFar>>)
  BY <1>2, <1>3, <1>6, <1>7, <1>8, <1>9, <1>10
<1> QED
  BY <1>5, <1>1, <1>10 DEF Next

\* The write side of the workers implements SertopInput (worker.h:85-87, 117-120): every
\* sertop reads what was enqueued to its own worker, whole, once and in order, however
\* the writes are cut and wherever a failure or the destructor ends them.
THEOREM WorkersDeliver == Spec => SertopGetsMessages
<1>1. Init => FlowInv /\ Input!Init
  BY InitFlows
<1>2. IInv /\ FlowInv /\ [Next]_vars =>
        FlowInv' /\ (Input!Next \/ UNCHANGED <<Enqueued, ReadSoFar>>)
  BY StepFlows
<1>3. Input!Next \/ UNCHANGED <<Enqueued, ReadSoFar>> <=>
        [Input!Next]_<<Enqueued, ReadSoFar>>
  OBVIOUS
<1> QED
  BY <1>1, <1>2, <1>3, WorkersInvariant, PTL
     DEF Spec, SertopGetsMessages, Input!Spec, Enqueued, ReadSoFar
=============================================================================
