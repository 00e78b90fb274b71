-------------------------- MODULE CodexRuntimeProofs --------------------------
(***************************************************************************)
(* IInv is an invariant of CodexRuntime for every size of the payload, the *)
(* pipes, the cap and the output, and gives what a caller of execute may   *)
(* rely on: the output is complete, no agent is left running, the exit     *)
(* code is the agent's, and DONE is uncontested.  One lemma per conjunct   *)
(* of IInv, by the threads and processes that take a step.                 *)
(***************************************************************************)
EXTENDS CodexRuntime, TLAPS

\* What the steps of the harness thread do not touch, by name.
LEMMA HarnessLeavesAlone ==
  ASSUME Harness
  PROVE  /\ UNCHANGED <<total, cancel, expired, pipe, written, doing, code, child>>
         /\ pc # "launch" => UNCHANGED holders
         /\ pc # "threads" => UNCHANGED reader
BY DEF Harness, Execute, Launch, LaunchFails, WriteStdin, StdinBreaks, CloseStdin, StartReaders,
       Poll, PollCancel, PollDeadline, KillAgent, Kill, WaitReturns, WaitExpires, KillAgain,
       JoinOut, JoinErr, Join, NormalizeResult, harness, readers, pipes, process

\* The captured part of a stream is within the cap, and is the whole stream
\* unless the cap cut it (_bounded_read_bytes).
LEMMA CapturedIsBounded ==
  ASSUME NEW n \in Nat
  PROVE  /\ Captured(n) \in 0 .. Cap
         /\ Captured(n) # n <=> n > Cap
BY SizeAssumption DEF Captured

\* _normalize gives a well-formed result.
LEMMA ResultTyped ==
  ASSUME TypeOK, NEW requested \in BOOLEAN
  PROVE  StartedResult(requested) \in AgentResults /\ LaunchErrorResult \in AgentResults
<1>1. ExitCode(returncode) \in Codes \cup {Unknown}
  BY DEF TypeOK, ExitCode
<1>2. FailureClass(ExitCode(returncode))
        \in {"PROCESS_TIMEOUT", "PROCESS_STARTED_EXIT_NONZERO", "PROCESS_SUCCESS"}
  BY DEF FailureClass, TypeOK
<1>3. Status(requested, ExitCode(returncode)) \in {"DONE", "FAILED", "TIMEOUT", "CANCELLED"}
  BY DEF Status, TypeOK
<1>4. /\ total \in [Streams -> 0 .. MaxOutput]
      /\ [s \in Streams |-> Captured(total[s])] \in [Streams -> 0 .. Cap]
  <2>1. \A s \in Streams : total[s] \in Nat
    BY SizeAssumption DEF TypeOK
  <2>2. QED
    BY <2>1, CapturedIsBounded DEF TypeOK
<1>5. StartedResult(requested) \in AgentResults
  BY <1>1, <1>2, <1>3, <1>4 DEF StartedResult, AgentResults, TypeOK
<1>6. [s \in Streams |-> 0] \in [Streams -> 0 .. MaxOutput] \cap [Streams -> 0 .. Cap]
  BY SizeAssumption
<1>7. LaunchErrorResult \in AgentResults
  BY <1>6 DEF LaunchErrorResult, AgentResults, Unknown
<1>8. QED
  BY <1>5, <1>7

\* No step breaks a type: the readers read no more than was written, and a pipe
\* holds no more than its room.
LEMMA TypeStep == IInv /\ [Next]_vars => TypeOK'
<1> SUFFICES ASSUME IInv, [Next]_vars PROVE TypeOK'
  OBVIOUS
<1> USE SizeAssumption DEF IInv, TypeOK, Stops, harness, readers, pipes, process
<1>1. CASE Execute \/ LaunchFails
  BY <1>1 DEF Execute, LaunchFails
<1>2. CASE Launch
  BY <1>2 DEF Launch, Processes
<1>3. CASE WriteStdin \/ StdinBreaks \/ CloseStdin
  <2>1. stdin' \in [left : 0 .. Payload, full : 0 .. StdinRoom, closed : BOOLEAN]
    <3>1. CASE WriteStdin
      <4>1. stdin.left - 1 \in 0 .. Payload /\ stdin.full + 1 \in 0 .. StdinRoom
        BY <3>1 DEF WriteStdin
      <4>2. QED BY <3>1, <4>1 DEF WriteStdin
    <3>2. CASE StdinBreaks
      <4>1. stdin' = [left |-> 0, full |-> stdin.full, closed |-> TRUE]
        BY <3>2 DEF StdinBreaks
      <4>2. QED BY <4>1
    <3>3. CASE CloseStdin
      BY <3>3 DEF CloseStdin
    <3>4. QED BY <1>3, <3>1, <3>2, <3>3
  <2>2. pc' \in {"write", "threads"} /\ broken' \in BOOLEAN
    BY <1>3 DEF WriteStdin, StdinBreaks, CloseStdin
  <2>3. QED BY <1>3, <2>1, <2>2 DEF WriteStdin, StdinBreaks, CloseStdin
<1>4. CASE StartReaders
  BY <1>4 DEF StartReaders
<1>5. CASE Poll \/ PollCancel \/ PollDeadline
  BY <1>5 DEF Poll, PollCancel, PollDeadline, DeadlineReached
<1>6. CASE KillAgent \/ KillAgain
  BY <1>6 DEF KillAgent, KillAgain, Kill, Signalled
<1>7. CASE WaitReturns \/ WaitExpires \/ JoinOut \/ JoinErr
  BY <1>7 DEF WaitReturns, WaitExpires, JoinOut, JoinErr, Join
<1>8. CASE NormalizeResult
  <2>1. result' \in AgentResults
    BY <1>8, ResultTyped DEF NormalizeResult, Requested
  <2>2. QED BY <1>8, <2>1 DEF NormalizeResult
<1>9. ASSUME NEW s \in Streams, Read(s) PROVE TypeOK'
  <2>1. total[s] + 1 \in 0 .. MaxOutput /\ pipe[s] - 1 \in 0 .. PipeRoom
    <3>1. total[s] + pipe[s] = written[s]
      BY DEF PipesBalance
    <3>2. QED BY <1>9, <3>1 DEF Read
  <2>2. QED BY <1>9, <2>1 DEF Read
<1>10. ASSUME NEW s \in Streams, EndReader(s) PROVE TypeOK'
  BY <1>10 DEF EndReader
<1>11. CASE Cancel \/ Expire
  <2>1. cancel' \in BOOLEAN /\ expired' \in BOOLEAN
    BY <1>11 DEF Cancel, Expire
  <2>2. UNCHANGED <<pc, harness, readers, pipes, process>>
    BY <1>11 DEF Cancel, Expire
  <2>3. QED BY <2>1, <2>2
<1>12. CASE AgentBegins
  BY <1>12 DEF AgentBegins
<1>13. CASE AgentReads
  BY <1>13 DEF AgentReads
<1>14. CASE AgentWrites
  BY <1>14 DEF AgentWrites, Put
<1>15. CASE AgentClosesOutputs \/ AgentExits \/ AgentDies \/ ChildGoes
  BY <1>15 DEF AgentClosesOutputs, AgentExits, AgentDies, ChildGoes, Release, Codes
<1>16. CASE AgentStartsChild
  BY <1>16 DEF AgentStartsChild, Processes
<1>17. CASE ChildWrites
  BY <1>17 DEF ChildWrites, Put
<1>18. CASE UNCHANGED vars
  BY <1>18 DEF vars
<1>19. QED
  BY <1>1, <1>2, <1>3, <1>4, <1>5, <1>6, <1>7, <1>8, <1>9, <1>10, <1>11, <1>12, <1>13,
     <1>14, <1>15, <1>16, <1>17, <1>18
  DEF Next, Harness, Reader, Agent, Child, Finished

\* No byte is lost between a process that writes it and the reader, and no
\* process that cannot run holds a pipe: reading one moves one, and a stream
\* that ended stays ended (the two drain threads of SubprocessCodexRuntime).
LEMMA PipesBalanceStep == IInv /\ [Next]_vars => PipesBalance'
<1> SUFFICES ASSUME IInv, [Next]_vars, NEW s \in Streams
             PROVE  /\ (total[s] + pipe[s] = written[s])'
                    /\ ("agent" \in holders[s] => agent \in {"running", "killed"})'
                    /\ ("child" \in holders[s] => child = "running")'
                    /\ ((agent = "running" /\ doing = s) => "agent" \in holders[s])'
                    /\ (reader[s] = "ended" => EndOfStream(s))'
  BY DEF PipesBalance
<1> USE DEF IInv, PipesBalance, EndOfStream, harness, readers, pipes, process
<1>1. CASE Launch
  BY <1>1 DEF Launch, StagesInOrder, Unread
<1>2. CASE KillAgent \/ KillAgain
  BY <1>2 DEF KillAgent, KillAgain, Kill, Signalled, StagesInOrder
<1>3. CASE StartReaders
  BY <1>3 DEF StartReaders
<1>4. CASE Harness /\ ~Launch /\ ~KillAgent /\ ~KillAgain /\ ~StartReaders
  <2>1. UNCHANGED <<total, pipe, written, holders, reader, agent, child, doing>>
    BY <1>4 DEF Harness, Execute, LaunchFails, WriteStdin, StdinBreaks, CloseStdin, Poll,
                PollCancel, PollDeadline, WaitReturns, WaitExpires, JoinOut, JoinErr, Join,
                NormalizeResult
  <2>2. QED BY <2>1
<1>5. ASSUME NEW r \in Streams, Read(r)
      PROVE  /\ (total[s] + pipe[s] = written[s])'
             /\ UNCHANGED <<holders, agent, child, doing, reader>>
             /\ reader[s] = "ended" => pipe'[s] = pipe[s]
  <2>1. total[s] \in Int /\ pipe[s] \in Int /\ written[s] \in Int
    BY SizeAssumption DEF TypeOK
  <2>2. QED BY <1>5, <2>1 DEF Read, TypeOK
<1>6. ASSUME NEW r \in Streams, EndReader(r)
      PROVE  /\ UNCHANGED <<total, pipe, written, holders, agent, child, doing>>
             /\ reader'[s] = "ended" => reader[s] = "ended" \/ EndOfStream(s)
  BY <1>6 DEF EndReader, TypeOK
<1>7. CASE Cancel \/ Expire
  BY <1>7 DEF Cancel, Expire
<1>8. CASE AgentBegins
  BY <1>8 DEF AgentBegins, Streams
<1>9. CASE AgentReads
  BY <1>9 DEF AgentReads, Streams
<1>10. CASE AgentWrites
  <2>1. total[s] \in Int /\ pipe[s] \in Int /\ written[s] \in Int
    BY SizeAssumption DEF TypeOK
  <2>2. s # doing => pipe'[s] = pipe[s] /\ written'[s] = written[s]
    BY <1>10 DEF AgentWrites, Put, TypeOK
  <2>3. s = doing => /\ pipe'[s] = pipe[s] + 1 /\ written'[s] = written[s] + 1
                     /\ "agent" \in holders[s]
    BY <1>10 DEF AgentWrites, Put, TypeOK
  <2>4. UNCHANGED <<total, holders, agent, child, reader>> /\ doing' = "free"
    BY <1>10 DEF AgentWrites
  <2>5. QED BY <2>1, <2>2, <2>3, <2>4 DEF Streams
<1>11. CASE AgentClosesOutputs \/ AgentExits \/ AgentDies \/ ChildGoes
  BY <1>11 DEF AgentClosesOutputs, AgentExits, AgentDies, ChildGoes, Release, Streams
<1>12. CASE AgentStartsChild
  BY <1>12 DEF AgentStartsChild
<1>13. CASE ChildWrites
  <2>1. total[s] \in Int /\ pipe[s] \in Int /\ written[s] \in Int
    BY SizeAssumption DEF TypeOK
  <2>2. PICK r \in Streams : "child" \in holders[r] /\ Put(r)
    BY <1>13 DEF ChildWrites
  <2>3. s # r => pipe'[s] = pipe[s] /\ written'[s] = written[s]
    BY <2>2 DEF Put, TypeOK
  <2>4. s = r => pipe'[s] = pipe[s] + 1 /\ written'[s] = written[s] + 1
    BY <2>2 DEF Put, TypeOK
  <2>5. UNCHANGED <<total, holders, agent, child, reader, doing>>
    BY <1>13 DEF ChildWrites
  <2>6. QED BY <2>1, <2>2, <2>3, <2>4, <2>5
<1>14. CASE UNCHANGED vars
  BY <1>14 DEF vars
<1>15. CASE \E r \in Streams : Reader(r)
  BY <1>5, <1>6, <1>15 DEF Reader
<1>16. QED
  BY <1>1, <1>2, <1>3, <1>4, <1>7, <1>8, <1>9, <1>10, <1>11, <1>12, <1>13, <1>14, <1>15
  DEF Next, Agent, Child, Finished

\* The harness moves through its stages in order: it never leaves the loop with an
\* agent that runs on, nor normalizes before both readers ended, and it was told
\* to stop an agent whose returncode it does not know.
LEMMA StagesInOrderStep == IInv /\ [Next]_vars => StagesInOrder'
<1> SUFFICES ASSUME IInv, [Next]_vars PROVE StagesInOrder'
  OBVIOUS
<1> USE NoneAssumption DEF IInv, TypeOK, StagesInOrder, Stops, Unread, Ended, harness, readers,
        pipes, process
<1>1. CASE Execute \/ Launch \/ LaunchFails
  BY <1>1 DEF Execute, Launch, LaunchFails
<1>2. CASE WriteStdin \/ StdinBreaks \/ CloseStdin
  BY <1>2 DEF WriteStdin, StdinBreaks, CloseStdin
<1>3. CASE StartReaders
  BY <1>3 DEF StartReaders
<1>4. CASE Poll
  BY <1>4 DEF Poll, ReturncodeIsTrue
<1>5. CASE PollCancel \/ PollDeadline
  BY <1>5 DEF PollCancel, PollDeadline, DeadlineReached
<1>6. CASE KillAgent \/ KillAgain
  BY <1>6 DEF KillAgent, KillAgain, Kill, Signalled, ReturncodeIsTrue
<1>7. CASE WaitReturns
  BY <1>7 DEF WaitReturns, ReturncodeIsTrue
<1>8. CASE WaitExpires \/ JoinOut \/ JoinErr
  BY <1>8 DEF WaitExpires, JoinOut, JoinErr, Join, Streams
<1>9. CASE NormalizeResult
  BY <1>9 DEF NormalizeResult
<1>10. ASSUME NEW s \in Streams, Reader(s) PROVE StagesInOrder'
  BY <1>10 DEF Reader, Read, EndReader, Streams
<1>11. CASE Cancel \/ Expire
  BY <1>11 DEF Cancel, Expire
<1>12. CASE Agent \/ AgentDies
  <2>1. /\ agent # "none" /\ agent' # "none" /\ (agent' = "running" => agent = "running")
        /\ UNCHANGED <<pc, harness, readers>>
    BY <1>12 DEF Agent, AgentDies, AgentBegins, AgentReads, AgentWrites, AgentClosesOutputs,
                 AgentStartsChild, AgentExits
  <2>2. QED BY <2>1
<1>13. CASE Child
  BY <1>13 DEF Child, ChildWrites, ChildGoes
<1>14. CASE UNCHANGED vars
  BY <1>14 DEF vars
<1>15. QED
  BY <1>1, <1>2, <1>3, <1>4, <1>5, <1>6, <1>7, <1>8, <1>9, <1>10, <1>11, <1>12, <1>13, <1>14
  DEF Next, Harness, Finished

\* The harness only ever learns the code of an agent that exited, and an agent
\* exits once (Popen.poll, Popen.wait).
LEMMA ReturncodeIsTrueStep == IInv /\ [Next]_vars => ReturncodeIsTrue'
<1> SUFFICES ASSUME IInv, [Next]_vars PROVE ReturncodeIsTrue'
  OBVIOUS
<1> USE NoneAssumption DEF IInv, ReturncodeIsTrue, Codes, Killed, harness, readers, pipes, process
<1>1. CASE Launch
  BY <1>1 DEF Launch, StagesInOrder
<1>2. CASE Poll \/ WaitReturns
  BY <1>2 DEF Poll, WaitReturns
<1>3. CASE KillAgent \/ KillAgain
  BY <1>3 DEF KillAgent, KillAgain, Kill, Signalled
<1>4. CASE Harness /\ ~Launch /\ ~Poll /\ ~WaitReturns /\ ~KillAgent /\ ~KillAgain
  BY <1>4 DEF Harness, Execute, LaunchFails, WriteStdin, StdinBreaks, CloseStdin, StartReaders,
     PollCancel, PollDeadline, WaitExpires, JoinOut, JoinErr, Join, NormalizeResult
<1>5. ASSUME NEW s \in Streams, Reader(s) PROVE UNCHANGED <<agent, code, returncode>>
  BY <1>5 DEF Reader, Read, EndReader
<1>6. CASE Cancel \/ Expire
  BY <1>6 DEF Cancel, Expire
<1>7. CASE AgentExits \/ AgentDies
  BY <1>7 DEF AgentExits, AgentDies
<1>8. CASE Agent /\ ~AgentExits
  BY <1>8 DEF Agent, AgentBegins, AgentReads, AgentWrites, AgentClosesOutputs, AgentStartsChild
<1>9. CASE Child
  BY <1>9 DEF Child, ChildWrites, ChildGoes
<1>10. CASE UNCHANGED vars
  BY <1>10 DEF vars
<1>11. QED
  BY <1>1, <1>2, <1>3, <1>4, <1>5, <1>6, <1>7, <1>8, <1>9, <1>10 DEF Next, Finished

\* Nothing a result was made of changes after it was made: the readers ended, and
\* a known returncode is final (_normalize).
LEMMA ResultIsFinalStep == IInv /\ [Next]_vars => ResultIsFinal'
<1> SUFFICES ASSUME IInv, [Next]_vars PROVE ResultIsFinal'
  OBVIOUS
<1> USE DEF IInv, ResultIsFinal, harness, readers, pipes, process
<1>1. CASE NormalizeResult
  <2>1. result' \in AgentResults
    BY <1>1, ResultTyped DEF NormalizeResult, Requested, TypeOK
  <2>2. result' # None
    BY <2>1, NoneAssumption
  <2>3. QED
    BY <1>1, <2>2 DEF NormalizeResult, StartedResult, LaunchErrorResult, ExitCode
<1>2. CASE Harness /\ ~NormalizeResult
  <2>1. pc # "done" /\ pc' # "done" /\ result' = result
    BY <1>2 DEF Harness, Execute, Launch, LaunchFails, WriteStdin, StdinBreaks, CloseStdin,
       StartReaders, Poll, PollCancel, PollDeadline, KillAgent, Kill, WaitReturns, WaitExpires,
       KillAgain, JoinOut, JoinErr, Join
  <2>2. QED BY <2>1
<1>3. ASSUME NEW s \in Streams, Reader(s) PROVE ResultIsFinal'
  <2>1. UNCHANGED <<pc, agent, returncode, result>>
    BY <1>3 DEF Reader, Read, EndReader
  <2>2. (pc = "done" /\ agent # "none") => total' = total
    BY <1>3 DEF Reader, Read, EndReader, StagesInOrder
  <2>3. QED BY <2>1, <2>2 DEF ExitCode
<1>4. CASE Cancel \/ Expire
  BY <1>4 DEF Cancel, Expire, ExitCode
<1>5. CASE Agent \/ AgentDies
  <2>1. /\ UNCHANGED <<pc, result, returncode, total>>
        /\ agent # "none" /\ agent' # "none"
    BY <1>5 DEF Agent, AgentDies, AgentBegins, AgentReads, AgentWrites, AgentClosesOutputs,
                AgentStartsChild, AgentExits
  <2>2. QED BY <2>1 DEF ExitCode
<1>6. CASE Child
  BY <1>6 DEF Child, ChildWrites, ChildGoes, ExitCode
<1>7. CASE UNCHANGED vars
  BY <1>7 DEF vars, ExitCode
<1>8. QED
  BY <1>1, <1>2, <1>3, <1>4, <1>5, <1>6, <1>7 DEF Next, Finished

\* The state in which execute is called satisfies the invariant.
LEMMA InitInvariant == Init => IInv
<1> SUFFICES ASSUME Init PROVE IInv
  OBVIOUS
<1>1. TypeOK
  <2>1. stdin \in [left : 0 .. Payload, full : 0 .. StdinRoom, closed : BOOLEAN]
    BY SizeAssumption DEF Init
  <2>2. /\ total \in [Streams -> 0 .. MaxOutput] /\ pipe \in [Streams -> 0 .. PipeRoom]
        /\ written \in [Streams -> 0 .. MaxOutput] /\ holders \in [Streams -> SUBSET Processes]
        /\ reader \in [Streams -> {"none", "running", "ended"}]
    BY SizeAssumption DEF Init
  <2>3. QED
    BY <2>1, <2>2 DEF Init, TypeOK, Stops
<1>2. PipesBalance /\ StagesInOrder
  BY DEF Init, PipesBalance, StagesInOrder, Unread, Ended, Stops
<1>3. ReturncodeIsTrue /\ ResultIsFinal
  BY DEF Init, ReturncodeIsTrue, ResultIsFinal
<1>4. QED
  BY <1>1, <1>2, <1>3 DEF IInv

\* The invariant is inductive.
LEMMA Inductive == IInv /\ [Next]_vars => IInv'
BY TypeStep, PipesBalanceStep, StagesInOrderStep, ReturncodeIsTrueStep, ResultIsFinalStep
DEF IInv

\* In every state of an execution, whatever the agent and the process it leaves
\* behind do, and whenever another thread cancels, the invariant holds.
THEOREM Invariance == Spec => []IInv
BY InitInvariant, Inductive, PTL DEF Spec

\* The output of a result is complete: for any amount of output and any cap, every
\* byte written to either stream was counted, nobody can write any more, and the
\* truncation flag tells whether the cap cut anything (R2-02).
THEOREM CompleteOutput == Spec => []OutputIsComplete
<1>1. IInv => OutputIsComplete
  <2> SUFFICES ASSUME IInv, result # None, result.started
               PROVE  /\ result.original = written
                      /\ \A s \in Streams : holders[s] = {}
                      /\ result.truncated <=> \E s \in Streams : result.captured[s] # written[s]
    BY DEF OutputIsComplete
  <2>1. \A s \in Streams : pipe[s] = 0 /\ holders[s] = {}
    BY DEF IInv, ResultIsFinal, StagesInOrder, PipesBalance, EndOfStream
  <2>2. \A s \in Streams : total[s] = written[s] /\ total[s] \in Nat
    BY <2>1, SizeAssumption DEF IInv, TypeOK, PipesBalance
  <2>3. total = written
    BY <2>2 DEF IInv, TypeOK
  <2>4. \A s \in Streams : result.captured[s] # written[s] <=> total[s] > Cap
    BY <2>2, CapturedIsBounded DEF IInv, ResultIsFinal
  <2>5. QED
    BY <2>1, <2>3, <2>4 DEF IInv, ResultIsFinal
<1>2. QED
  BY <1>1, Invariance, PTL

\* invoke never returns over an agent that runs on: it exited, or a SIGKILL is
\* pending on it (SubprocessCodexRuntime.invoke).
THEOREM NoAgentLeft == Spec => []NoAgentLeftRunning
<1>1. IInv => NoAgentLeftRunning
  BY DEF IInv, ResultIsFinal, StagesInOrder, Ended, NoAgentLeftRunning
<1>2. QED
  BY <1>1, Invariance, PTL

\* The exit code of a result is the agent's own; -1 is only ever reported of an
\* agent that was stopped (_normalize).
THEOREM ExitCodeTrue == Spec => []ExitCodeIsTheAgents
<1>1. IInv => ExitCodeIsTheAgents
  <2> SUFFICES ASSUME IInv, result # None, result.started
               PROVE  \/ result.exit = code
                      \/ result.exit = Unknown /\ (timedOut \/ cancelled)
    BY DEF ExitCodeIsTheAgents
  <2>1. CASE returncode = None
    BY <2>1 DEF IInv, ResultIsFinal, ExitCode, StagesInOrder, Ended
  <2>2. CASE returncode # None
    BY <2>2 DEF IInv, ResultIsFinal, ExitCode, ReturncodeIsTrue
  <2>3. QED
    BY <2>1, <2>2
<1>2. QED
  BY <1>1, Invariance, PTL

\* Only _normalize makes a result.
LEMMA OnlyNormalizeAnswers == [Next]_vars /\ result' # result => NormalizeResult
BY DEF Next, Harness, Execute, Launch, LaunchFails, WriteStdin, StdinBreaks, CloseStdin,
       StartReaders, Poll, PollCancel, PollDeadline, KillAgent, Kill, WaitReturns, WaitExpires,
       KillAgain, JoinOut, JoinErr, Join, Reader, Read, EndReader, Cancel, Expire, Agent,
       AgentDies, AgentBegins, AgentReads, AgentWrites, AgentClosesOutputs, AgentStartsChild,
       AgentExits, Child, ChildWrites, ChildGoes, Finished, vars, harness

\* DONE is uncontested: no step answers DONE that saw a cancellation or a timeout,
\* or an agent that did not exit with 0 with all its output read (_normalize).
THEOREM UncontestedDone == Spec => DoneIsUncontested
<1>1. IInv /\ [Next]_vars => [Uncontested]_vars
  <2> SUFFICES ASSUME IInv, Next, result' # result, result'.status = "DONE"
               PROVE  /\ ~cancel /\ ~timedOut
                      /\ agent = "exited" /\ code = 0
                      /\ \A s \in Streams : reader[s] = "ended"
    BY DEF Uncontested
  <2>1. NormalizeResult
    BY OnlyNormalizeAnswers
  <2>2. agent # "none" /\ result'.status = Status(Requested, ExitCode(returncode))
    BY <2>1 DEF NormalizeResult, LaunchErrorResult, StartedResult
  <2>3. ~timedOut /\ ~cancelled /\ ~Requested /\ ExitCode(returncode) = 0
    BY <2>2 DEF Status, IInv, TypeOK, Requested
  <2>4. returncode = 0
    BY <2>3 DEF ExitCode, Unknown
  <2>5. code = 0 /\ agent = "exited"
    BY <2>4, NoneAssumption DEF IInv, ReturncodeIsTrue
  <2>6. QED
    BY <2>1, <2>2, <2>3, <2>5 DEF NormalizeResult, Requested, IInv, StagesInOrder
<1>2. Spec => [][Uncontested]_vars
  BY <1>1, Invariance, PTL DEF Spec
<1>3. QED
  BY <1>2 DEF DoneIsUncontested

\* Who is not the harness leaves where it is and what it has to write alone.
LEMMA OthersLeaveTheHarness ==
    IInv /\ [Next]_vars /\ ~Harness => HarnessSteps' = HarnessSteps
<1> SUFFICES ASSUME IInv, [Next]_vars, ~Harness PROVE HarnessSteps' = HarnessSteps
  OBVIOUS
<1>1. stdin'.left = stdin.left
  BY DEF Next, IInv, TypeOK, Reader, Read, EndReader, Cancel, Expire, Agent, AgentDies, AgentBegins,
         AgentReads, AgentWrites, AgentClosesOutputs, AgentStartsChild, AgentExits, Child,
         ChildWrites, ChildGoes, Finished, vars, pipes
<1>2. pc' = pc
  BY DEF Next, Reader, Read, EndReader, Cancel, Expire, Agent, AgentDies, AgentBegins, AgentReads,
         AgentWrites, AgentClosesOutputs, AgentStartsChild, AgentExits, Child, ChildWrites,
         ChildGoes, Finished, vars
<1>3. Ahead' = Ahead
  BY <1>2 DEF Ahead
<1> QED
  BY <1>1, <1>3 DEF HarnessSteps

\* How far each stage is from the end.
LEMMA StagesAhead ==
    /\ pc = "execute" => Ahead = 13
    /\ pc = "launch" => Ahead = 12
    /\ pc = "write" => Ahead = 11
    /\ pc = "threads" => Ahead = 10
    /\ pc = "poll" => Ahead = 9
    /\ pc = "pollCancel" => Ahead = 8
    /\ pc = "pollDeadline" => Ahead = 7
    /\ pc = "kill" => Ahead = 6
    /\ pc = "wait" => Ahead = 5
    /\ pc = "killAgain" => Ahead = 4
    /\ pc = "joinOut" => Ahead = 3
    /\ pc = "joinErr" => Ahead = 2
    /\ pc = "normalize" => Ahead = 1
    /\ pc = "done" => Ahead = 0
BY DEF Ahead

LEMMA StagesAheadNext ==
    /\ pc' = "execute" => Ahead' = 13
    /\ pc' = "launch" => Ahead' = 12
    /\ pc' = "write" => Ahead' = 11
    /\ pc' = "threads" => Ahead' = 10
    /\ pc' = "poll" => Ahead' = 9
    /\ pc' = "pollCancel" => Ahead' = 8
    /\ pc' = "pollDeadline" => Ahead' = 7
    /\ pc' = "kill" => Ahead' = 6
    /\ pc' = "wait" => Ahead' = 5
    /\ pc' = "killAgain" => Ahead' = 4
    /\ pc' = "joinOut" => Ahead' = 3
    /\ pc' = "joinErr" => Ahead' = 2
    /\ pc' = "normalize" => Ahead' = 1
    /\ pc' = "done" => Ahead' = 0
BY DEF Ahead

\* Past the deadline the poll loop is left at its next look, and everything else is
\* a way forward or a chunk less to write (SubprocessCodexRuntime.invoke).
LEMMA EveryStepIsAhead == IInv /\ Harness /\ expired => HarnessSteps' < HarnessSteps
<1> SUFFICES ASSUME IInv, Harness, expired PROVE HarnessSteps' < HarnessSteps
  OBVIOUS
<1>1. stdin.left \in Nat
  BY SizeAssumption DEF IInv, TypeOK
<1>2. CASE WriteStdin
  <2>1. Ahead = 11 /\ Ahead' = 11
    BY <1>2, StagesAhead, StagesAheadNext DEF WriteStdin
  <2>2. stdin'.left = stdin.left - 1
    BY <1>2 DEF WriteStdin, IInv, TypeOK
  <2> QED
    BY <1>1, <2>1, <2>2 DEF HarnessSteps
<1>3. CASE StdinBreaks \/ CloseStdin
  <2>1. Ahead = 11 /\ Ahead' = 10
    BY <1>3, StagesAhead, StagesAheadNext DEF StdinBreaks, CloseStdin
  <2>2. stdin'.left \in Nat /\ stdin'.left <= stdin.left
    <3>1. CASE StdinBreaks
      BY <1>1, <3>1 DEF StdinBreaks, IInv, TypeOK
    <3>2. CASE CloseStdin
      BY <1>1, <3>2 DEF CloseStdin, IInv, TypeOK
    <3> QED
      BY <1>3, <3>1, <3>2
  <2> QED
    BY <1>1, <2>1, <2>2 DEF HarnessSteps
<1>4. CASE ~(WriteStdin \/ StdinBreaks \/ CloseStdin)
  <2>1. stdin' = stdin
    BY <1>4 DEF Harness, Execute, Launch, LaunchFails, StartReaders, Poll, PollCancel, PollDeadline,
                KillAgent, WaitReturns, WaitExpires, KillAgain, Kill, JoinOut, JoinErr, Join,
                NormalizeResult, pipes
  <2>2. Ahead \in Nat /\ Ahead' \in Nat /\ Ahead' < Ahead
    <3>1. CASE Execute
      BY <3>1, StagesAhead, StagesAheadNext DEF Execute
    <3>2. CASE Launch
      BY <3>2, StagesAhead, StagesAheadNext DEF Launch
    <3>3. CASE LaunchFails
      BY <3>3, StagesAhead, StagesAheadNext DEF LaunchFails
    <3>4. CASE StartReaders
      BY <3>4, StagesAhead, StagesAheadNext DEF StartReaders
    <3>5. CASE Poll
      BY <3>5, StagesAhead, StagesAheadNext DEF Poll
    <3>6. CASE PollCancel
      BY <3>6, StagesAhead, StagesAheadNext DEF PollCancel
    <3>7. CASE PollDeadline
      BY <3>7, StagesAhead, StagesAheadNext DEF PollDeadline, DeadlineReached
    <3>8. CASE KillAgent
      BY <3>8, StagesAhead, StagesAheadNext DEF KillAgent, Kill
    <3>9. CASE KillAgain
      BY <3>9, StagesAhead, StagesAheadNext DEF KillAgain, Kill
    <3>10. CASE WaitReturns
      BY <3>10, StagesAhead, StagesAheadNext DEF WaitReturns
    <3>11. CASE WaitExpires
      BY <3>11, StagesAhead, StagesAheadNext DEF WaitExpires
    <3>12. CASE JoinOut
      BY <3>12, StagesAhead, StagesAheadNext DEF JoinOut, Join
    <3>13. CASE JoinErr
      BY <3>13, StagesAhead, StagesAheadNext DEF JoinErr, Join
    <3>14. CASE NormalizeResult
      BY <3>14, StagesAhead, StagesAheadNext DEF NormalizeResult
    <3> QED
      BY <1>4, <3>1, <3>2, <3>3, <3>4, <3>5, <3>6, <3>7, <3>8, <3>9, <3>10, <3>11, <3>12,
         <3>13, <3>14 DEF Harness
  <2> QED
    BY <1>1, <2>1, <2>2 DEF HarnessSteps
<1> QED
  BY <1>2, <1>3, <1>4

\* The poll loop does not turn after the deadline: from then on the harness has at
\* most the steps of HarnessSteps to take, whatever the agent does.
THEOREM DeadlineIsFinal == Spec => NoTurnAfterTheDeadline
<1>1. IInv /\ [Next]_vars => [/\ (Harness /\ expired) => HarnessSteps' < HarnessSteps
                              /\ ~Harness => HarnessSteps' = HarnessSteps]_vars
  BY EveryStepIsAhead, OthersLeaveTheHarness
<1> QED
  BY <1>1, Invariance, PTL DEF Spec, NoTurnAfterTheDeadline

\* No agent, however it hangs, keeps execute in the joins that have no timeout: only
\* a process that it left behind with the pipe open can (SubprocessCodexRuntime.invoke).
THEOREM JoinsAreFree == Spec => []JoinsWaitForNoAgent
<1>1. IInv => JoinsWaitForNoAgent
  BY DEF IInv, TypeOK, StagesInOrder, PipesBalance, EndOfStream, JoinsWaitForNoAgent, Unread,
         Ended, Processes
<1> QED
  BY <1>1, Invariance, PTL
=============================================================================
