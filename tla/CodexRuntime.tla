---------------------------- MODULE CodexRuntime ----------------------------
(***************************************************************************)
(* One CodexAdapter.execute (adapters/codex/contract.py) on the subprocess *)
(* backend (adapters/codex/runtime.py): the harness thread, the two reader *)
(* threads, a thread that may call cancel, the agent process, and one      *)
(* process the agent may leave behind with its output pipes open.          *)
(*                                                                         *)
(* Abstractions.  Bytes are counted in chunks: the payload, the room of a  *)
(* pipe, the cap and what a stream may carry are small numbers.  The clock *)
(* is one bit, past the deadline or not.  The agent is any program: it     *)
(* reads, writes, closes its outputs, starts another process, exits, or    *)
(* does nothing for ever.                                                  *)
(***************************************************************************)
EXTENDS Integers

CONSTANTS
    Payload,     \* chunks of stdin_payload
    StdinRoom,   \* chunks the stdin pipe holds
    PipeRoom,    \* chunks an output pipe holds
    MaxOutput,   \* bound on the chunks written to one stream
    Cap,         \* max_stdout_bytes and max_stderr_bytes
    None         \* Python's None

ASSUME SizeAssumption ==
    /\ Payload \in Nat \ {0} /\ StdinRoom \in Nat \ {0} /\ PipeRoom \in Nat \ {0}
    /\ MaxOutput \in Nat /\ Cap \in Nat \ {0}

Streams   == {"out", "err"}
Processes == {"agent", "child"}

Unknown == -1   \* exit_code when there is no returncode
Killed  == -9   \* returncode of a killed process
Codes   == {0, 1, Killed}

AgentResults ==
    [status : {"DONE", "FAILED", "TIMEOUT", "CANCELLED"}, uncertain : BOOLEAN,
     exit : Codes \cup {Unknown}, started : BOOLEAN,
     class : {"PROCESS_LAUNCH_ERROR", "PROCESS_TIMEOUT", "PROCESS_STARTED_EXIT_NONZERO",
              "PROCESS_SUCCESS"},
     original : [Streams -> 0 .. MaxOutput], captured : [Streams -> 0 .. Cap],
     truncated : BOOLEAN]

\* None is Python's None and nothing else.
ASSUME NoneAssumption == None \notin Int /\ None \notin AgentResults

VARIABLES
    \* the harness thread
    pc,          \* where execute and invoke are
    asked,       \* cancel_before
    broken,      \* a BrokenPipeError was caught
    returncode,  \* Popen.returncode
    timedOut, cancelled,
    result,      \* AgentResult
    \* the reader threads
    reader,      \* per stream: "none", "running" or "ended"
    total,       \* per stream: chunks read
    \* shared with other threads and processes
    cancel,      \* the cancel event of the attempt
    expired,     \* the deadline has passed
    stdin,       \* chunks still to write, chunks in the pipe, closed
    pipe,        \* per stream: chunks in the pipe
    holders,     \* per stream: processes that hold its write end
    written,     \* per stream: chunks ever written
    agent,       \* "none", "running", "killed" (signal pending) or "exited"
    doing,       \* what the agent is blocked in: "free", "read" or a stream
    code,        \* how it exited
    child        \* "none", "running" or "gone"

harness == <<asked, broken, returncode, timedOut, cancelled, result>>
readers == <<reader, total>>
pipes   == <<stdin, pipe, holders, written>>
process == <<agent, doing, code, child>>
vars    == <<pc, harness, readers, cancel, expired, pipes, process>>

Init ==
    /\ pc = "execute"
    /\ asked = FALSE /\ broken = FALSE
    /\ returncode = None
    /\ timedOut = FALSE /\ cancelled = FALSE
    /\ result = None
    /\ reader = [s \in Streams |-> "none"]
    /\ total = [s \in Streams |-> 0]
    /\ cancel = FALSE /\ expired = FALSE
    /\ stdin = [left |-> Payload, full |-> 0, closed |-> FALSE]
    /\ pipe = [s \in Streams |-> 0]
    /\ holders = [s \in Streams |-> {}]
    /\ written = [s \in Streams |-> 0]
    /\ agent = "none" /\ doing = "free" /\ code = None
    /\ child = "none"

-----------------------------------------------------------------------------
(* The harness thread                                                      *)

\* execute: the first snapshot of the cancel event
Execute ==
    /\ pc = "execute"
    /\ asked' = cancel
    /\ pc' = "launch"
    /\ UNCHANGED <<broken, returncode, timedOut, cancelled, result, readers, cancel,
                   expired, pipes, process>>

\* Popen
Launch ==
    /\ pc = "launch"
    /\ agent' = "running"
    /\ holders' = [s \in Streams |-> {"agent"}]
    /\ pc' = "write"
    /\ UNCHANGED <<harness, readers, cancel, expired, stdin, pipe, written, doing, code, child>>

LaunchFails ==
    /\ pc = "launch"
    /\ pc' = "normalize"
    /\ UNCHANGED <<harness, readers, cancel, expired, pipes, process>>

\* stdin_stream.write: blocks while the pipe is full
WriteStdin ==
    /\ pc = "write"
    /\ stdin.left > 0
    /\ agent # "exited"
    /\ stdin.full < StdinRoom
    /\ stdin' = [stdin EXCEPT !.left = @ - 1, !.full = @ + 1]
    /\ UNCHANGED <<pc, harness, readers, cancel, expired, pipe, holders, written, process>>

\* BrokenPipeError: nobody reads any more.  It is caught and nothing is noted
\* of it; broken is there for the properties.
StdinBreaks ==
    /\ pc = "write"
    /\ stdin.left > 0
    /\ agent = "exited"
    /\ broken' = TRUE
    /\ stdin' = [stdin EXCEPT !.left = 0, !.closed = TRUE]
    /\ pc' = "threads"
    /\ UNCHANGED <<asked, returncode, timedOut, cancelled, result, readers, cancel, expired,
                   pipe, holders, written, process>>

CloseStdin ==
    /\ pc = "write"
    /\ stdin.left = 0
    /\ stdin' = [stdin EXCEPT !.closed = TRUE]
    /\ pc' = "threads"
    /\ UNCHANGED <<harness, readers, cancel, expired, pipe, holders, written, process>>

StartReaders ==
    /\ pc = "threads"
    /\ reader' = [s \in Streams |-> "running"]
    /\ pc' = "poll"
    /\ UNCHANGED <<harness, total, cancel, expired, pipes, process>>

\* proc.poll()
Poll ==
    /\ pc = "poll"
    /\ \/ /\ agent = "exited"
          /\ returncode' = code
          /\ pc' = "wait"
       \/ /\ agent # "exited"
          /\ returncode' = returncode
          /\ pc' = "pollCancel"
    /\ UNCHANGED <<asked, broken, timedOut, cancelled, result, readers, cancel, expired,
                   pipes, process>>

PollCancel ==
    /\ pc = "pollCancel"
    /\ cancelled' = cancel
    /\ pc' = IF cancel THEN "kill" ELSE "pollDeadline"
    /\ UNCHANGED <<asked, broken, returncode, timedOut, result, readers, cancel, expired,
                   pipes, process>>

\* Mutant: the deadline is computed again in every turn of the loop.
DeadlineMoved   == FALSE
DeadlineReached == expired

PollDeadline ==
    /\ pc = "pollDeadline"
    /\ timedOut' = DeadlineReached
    /\ pc' = IF DeadlineReached THEN "kill" ELSE "poll"
    /\ UNCHANGED <<asked, broken, returncode, cancelled, result, readers, cancel, expired,
                   pipes, process>>

\* Mutant: SIGTERM, which an agent may ignore.
Terminated == agent

\* Popen.kill on a process that has not exited: SIGKILL is pending
Signalled == "killed"

\* _kill.  Popen.send_signal polls first and sends nothing to a process that
\* has exited.
Kill(next) ==
    /\ \/ /\ agent = "exited"
          /\ returncode' = code
          /\ agent' = agent
       \/ /\ agent # "exited"
          /\ agent' = Signalled
          /\ returncode' = returncode
    /\ pc' = next
    /\ UNCHANGED <<asked, broken, timedOut, cancelled, result, readers, cancel, expired,
                   pipes, doing, code, child>>

KillAgent == pc = "kill" /\ Kill("wait")

\* proc.wait(timeout=5)
WaitReturns ==
    /\ pc = "wait"
    /\ agent = "exited"
    /\ returncode' = code
    /\ pc' = "joinOut"
    /\ UNCHANGED <<asked, broken, timedOut, cancelled, result, readers, cancel, expired,
                   pipes, process>>

WaitExpires ==
    /\ pc = "wait"
    /\ agent # "exited"
    /\ pc' = "killAgain"
    /\ UNCHANGED <<harness, readers, cancel, expired, pipes, process>>

KillAgain == pc = "killAgain" /\ Kill("joinOut")

\* out_t.join(), then err_t.join(), without a timeout
Join(here, s, next) ==
    /\ pc = here
    /\ reader[s] = "ended"
    /\ pc' = next
    /\ UNCHANGED <<harness, readers, cancel, expired, pipes, process>>

JoinOut == Join("joinOut", "out", "joinErr")
JoinErr == Join("joinErr", "err", "normalize")

\* Mutant: a missing returncode is falsy, like 0.
ExitCodeOrZero(rc) == IF rc = None THEN 0 ELSE rc
ExitCode(rc) == IF rc = None THEN Unknown ELSE rc

\* Mutant: the bytes beyond the cap are kept.
CapturedAll(n) == n
Captured(n) == IF n < Cap THEN n ELSE Cap

LaunchErrorResult ==
    [status |-> "FAILED", uncertain |-> FALSE, exit |-> Unknown, started |-> FALSE,
     class |-> "PROCESS_LAUNCH_ERROR", original |-> [s \in Streams |-> 0],
     captured |-> [s \in Streams |-> 0], truncated |-> FALSE]

\* failure_class of a process that was started
FailureClass(exit) ==
    CASE timedOut               -> "PROCESS_TIMEOUT"
      [] ~timedOut /\ exit # 0  -> "PROCESS_STARTED_EXIT_NONZERO"
      [] ~timedOut /\ exit = 0  -> "PROCESS_SUCCESS"

\* The error normalization matrix
Status(requested, exit) ==
    CASE timedOut                                             -> "TIMEOUT"
      [] ~timedOut /\ cancelled                               -> "CANCELLED"
      [] ~timedOut /\ ~cancelled /\ (requested \/ exit # 0)   -> "FAILED"
      [] ~timedOut /\ ~cancelled /\ ~requested /\ exit = 0    -> "DONE"

StartedResult(requested) ==
    LET exit == ExitCode(returncode) IN
    [status    |-> Status(requested, exit),
     uncertain |-> requested /\ ~timedOut /\ ~cancelled,
     exit      |-> exit,
     started   |-> TRUE,
     class     |-> FailureClass(exit),
     original  |-> total,
     captured  |-> [s \in Streams |-> Captured(total[s])],
     truncated |-> \E s \in Streams : total[s] > Cap]

\* Mutant: the event is only looked at before the backend runs.
RequestedBefore == asked

\* cancel_before or cancel_after
Requested == asked \/ cancel

\* The second snapshot and _normalize
NormalizeResult ==
    /\ pc = "normalize"
    /\ result' = IF agent = "none" THEN LaunchErrorResult ELSE StartedResult(Requested)
    /\ pc' = "done"
    /\ UNCHANGED <<asked, broken, returncode, timedOut, cancelled, readers, cancel, expired,
                   pipes, process>>

Harness ==
    \/ Execute \/ Launch \/ LaunchFails \/ WriteStdin \/ StdinBreaks \/ CloseStdin
    \/ StartReaders \/ Poll \/ PollCancel \/ PollDeadline \/ KillAgent
    \/ WaitReturns \/ WaitExpires \/ KillAgain \/ JoinOut \/ JoinErr \/ NormalizeResult

-----------------------------------------------------------------------------
(* The reader threads                                                      *)

\* Mutant: reading stops once the cap is reached.
EndOrCap(s)    == (pipe[s] = 0 /\ holders[s] = {}) \/ total[s] >= Cap
EndOfStream(s) == pipe[s] = 0 /\ holders[s] = {}

Read(s) ==
    /\ reader[s] = "running"
    /\ ~EndOfStream(s)
    /\ pipe[s] > 0
    /\ pipe' = [pipe EXCEPT ![s] = @ - 1]
    /\ total' = [total EXCEPT ![s] = @ + 1]
    /\ UNCHANGED <<pc, harness, reader, cancel, expired, stdin, holders, written, process>>

EndReader(s) ==
    /\ reader[s] = "running"
    /\ EndOfStream(s)
    /\ reader' = [reader EXCEPT ![s] = "ended"]
    /\ UNCHANGED <<pc, harness, total, cancel, expired, pipes, process>>

Reader(s) == Read(s) \/ EndReader(s)

-----------------------------------------------------------------------------
(* Other threads and processes                                             *)

\* cancel, from another thread; before execute it creates the event
Cancel ==
    /\ ~cancel
    /\ pc # "done"
    /\ cancel' = TRUE
    /\ UNCHANGED <<pc, harness, readers, expired, pipes, process>>

Expire ==
    /\ ~expired
    /\ pc \notin {"execute", "done"}
    /\ expired' = TRUE
    /\ UNCHANGED <<pc, harness, readers, cancel, pipes, process>>

\* The agent enters a read of stdin or a write of a chunk to a stream.
AgentBegins ==
    /\ agent = "running" /\ doing = "free"
    /\ doing' \in {"read"} \cup {s \in Streams : "agent" \in holders[s]}
    /\ UNCHANGED <<pc, harness, readers, cancel, expired, pipes, agent, code, child>>

\* A read returns a chunk, or nothing at the end of the stream.
AgentReads ==
    /\ agent = "running" /\ doing = "read"
    /\ \/ /\ stdin.full > 0
          /\ stdin' = [stdin EXCEPT !.full = @ - 1]
       \/ /\ stdin.full = 0 /\ stdin.closed
          /\ UNCHANGED stdin
    /\ doing' = "free"
    /\ UNCHANGED <<pc, harness, readers, cancel, expired, pipe, holders, written,
                   agent, code, child>>

\* A write blocks while the pipe is full; MaxOutput bounds the model.
Put(s) ==
    /\ pipe[s] < PipeRoom
    /\ written[s] < MaxOutput
    /\ pipe' = [pipe EXCEPT ![s] = @ + 1]
    /\ written' = [written EXCEPT ![s] = @ + 1]

AgentWrites ==
    /\ agent = "running" /\ doing \in Streams
    /\ Put(doing)
    /\ doing' = "free"
    /\ UNCHANGED <<pc, harness, readers, cancel, expired, stdin, holders, agent, code, child>>

Release(p) == holders' = [s \in Streams |-> holders[s] \ {p}]

AgentClosesOutputs ==
    /\ agent = "running" /\ doing = "free"
    /\ \E s \in Streams : "agent" \in holders[s]
    /\ Release("agent")
    /\ UNCHANGED <<pc, harness, readers, cancel, expired, stdin, pipe, written, process>>

AgentStartsChild ==
    /\ agent = "running" /\ doing = "free" /\ child = "none"
    /\ child' = "running"
    /\ holders' = [s \in Streams |-> IF "agent" \in holders[s]
                                     THEN holders[s] \cup {"child"} ELSE holders[s]]
    /\ UNCHANGED <<pc, harness, readers, cancel, expired, stdin, pipe, written,
                   agent, doing, code>>

AgentExits ==
    /\ agent = "running" /\ doing = "free"
    /\ agent' = "exited"
    /\ code' \in {0, 1}
    /\ Release("agent")
    /\ UNCHANGED <<pc, harness, readers, cancel, expired, stdin, pipe, written, doing, child>>

\* A killed process dies, whatever it was blocked in.
AgentDies ==
    /\ agent = "killed"
    /\ agent' = "exited"
    /\ code' = Killed
    /\ Release("agent")
    /\ UNCHANGED <<pc, harness, readers, cancel, expired, stdin, pipe, written, doing, child>>

ChildWrites ==
    /\ child = "running"
    /\ \E s \in Streams :
          /\ "child" \in holders[s]
          /\ Put(s)
    /\ UNCHANGED <<pc, harness, readers, cancel, expired, stdin, holders, process>>

\* The child exits, or closes the outputs it inherited.
ChildGoes ==
    /\ child = "running"
    /\ child' = "gone"
    /\ Release("child")
    /\ UNCHANGED <<pc, harness, readers, cancel, expired, stdin, pipe, written,
                   agent, doing, code>>

Agent == \/ AgentBegins \/ AgentReads \/ AgentWrites \/ AgentClosesOutputs
         \/ AgentStartsChild \/ AgentExits
Child == ChildWrites \/ ChildGoes

Finished == pc = "done" /\ UNCHANGED vars

Next ==
    \/ Harness \/ (\E s \in Streams : Reader(s))
    \/ Cancel \/ Expire \/ Agent \/ AgentDies \/ Child \/ Finished

\* The threads of the harness run, time passes, and a killed process dies in
\* the end.  Nothing is assumed of the agent.
Spec == /\ Init /\ [][Next]_vars
        /\ WF_vars(Harness) /\ \A s \in Streams : WF_vars(Reader(s))
        /\ WF_vars(Expire) /\ WF_vars(AgentDies)

\* What the agent leaves behind gives up the pipes in the end.
SpecChildEnds == Spec /\ WF_vars(ChildGoes)

-----------------------------------------------------------------------------
(* Properties                                                              *)

Stops == {"execute", "launch", "write", "threads", "poll", "pollCancel", "pollDeadline",
          "kill", "wait", "killAgain", "joinOut", "joinErr", "normalize", "done"}

\* Every variable keeps its type; what a result has captured of a stream is
\* within the cap (_bounded_read_bytes).
TypeOK ==
    /\ pc \in Stops
    /\ asked \in BOOLEAN /\ broken \in BOOLEAN
    /\ timedOut \in BOOLEAN /\ cancelled \in BOOLEAN
    /\ returncode \in Codes \cup {None}
    /\ result \in AgentResults \cup {None}
    /\ reader \in [Streams -> {"none", "running", "ended"}]
    /\ total \in [Streams -> 0 .. MaxOutput]
    /\ cancel \in BOOLEAN /\ expired \in BOOLEAN
    /\ stdin \in [left : 0 .. Payload, full : 0 .. StdinRoom, closed : BOOLEAN]
    /\ pipe \in [Streams -> 0 .. PipeRoom]
    /\ holders \in [Streams -> SUBSET Processes]
    /\ written \in [Streams -> 0 .. MaxOutput]
    /\ agent \in {"none", "running", "killed", "exited"}
    /\ doing \in {"free", "read"} \cup Streams
    /\ code \in Codes \cup {None}
    /\ child \in {"none", "running", "gone"}

\* A result accounts for every byte the agent and what it started wrote: the
\* readers saw the end of both streams, and nobody can write to them any more,
\* however the run ended (the exact byte accounting of R2-02).
OutputIsComplete ==
    (result # None /\ result.started) =>
        /\ result.original = written
        /\ \A s \in Streams : holders[s] = {}
        /\ result.truncated <=> \E s \in Streams : result.captured[s] # written[s]

\* invoke leaves no agent running: it exited, or a SIGKILL is pending on it.
NoAgentLeftRunning ==
    (result # None) => agent # "running"

\* The exit code of a result is the agent's own, or -1 when it was killed and
\* could not be waited for; in particular 0 means that it exited with 0.
ExitCodeIsTheAgents ==
    (result # None /\ result.started) =>
        \/ result.exit = code
        \/ result.exit = Unknown /\ (timedOut \/ cancelled)

\* DONE is uncontested: at the moment execute answers DONE nobody has asked for
\* cancellation, the deadline did not fire, and the agent exited with 0 by
\* itself with all its output read; in all other cases the stronger authority
\* wins over a late success.
Uncontested ==
    (result' # result /\ result'.status = "DONE") =>
        /\ ~cancel /\ ~timedOut
        /\ agent = "exited" /\ code = 0
        /\ \A s \in Streams : reader[s] = "ended"

\* Every answer of execute is such an answer (_normalize).
DoneIsUncontested == [][Uncontested]_vars

\* execute answers, whatever the agent does: it reads its input or not, writes,
\* hangs, exits.
Termination == <>(pc = "done")

-----------------------------------------------------------------------------
(* The inductive invariant                                                 *)

Unread == {"execute", "launch", "write", "threads"}
Ended  == {"wait", "killAgain", "joinOut", "joinErr", "normalize", "done"}

\* What was written to a stream was read or is in its pipe, and only processes
\* that can still run hold its write end: at its end there is nothing to come.
PipesBalance ==
    \A s \in Streams :
        /\ total[s] + pipe[s] = written[s]
        /\ "agent" \in holders[s] => agent \in {"running", "killed"}
        /\ "child" \in holders[s] => child = "running"
        /\ (agent = "running" /\ doing = s) => "agent" \in holders[s]
        /\ reader[s] = "ended" => EndOfStream(s)

\* The harness starts its readers after the agent, leaves its loop with an agent
\* that exited or was signalled for a reason, and joins both readers.
StagesInOrder ==
    /\ pc \in {"execute", "launch"} => agent = "none"
    /\ agent = "none" => /\ pc \in {"execute", "launch", "normalize", "done"}
                         /\ doing = "free" /\ child = "none"
    /\ pc \in Unread => \A s \in Streams : reader[s] = "none"
    /\ (pc \notin Unread /\ agent # "none") => \A s \in Streams : reader[s] # "none"
    /\ pc \in (Stops \ Ended) \ {"kill"} => ~timedOut /\ ~cancelled
    /\ pc = "kill" => timedOut \/ cancelled
    /\ (pc \in Ended /\ agent # "none") =>
          /\ agent # "running"
          /\ returncode # None \/ timedOut \/ cancelled
    /\ pc = "joinErr" => reader["out"] = "ended"
    /\ (pc \in {"normalize", "done"} /\ agent # "none") =>
          \A s \in Streams : reader[s] = "ended"

\* A returncode is the code of an agent that exited.
ReturncodeIsTrue ==
    /\ code # None <=> agent = "exited"
    /\ returncode # None => returncode = code

\* A result is what _normalize read, and nothing it read has changed since.
ResultIsFinal ==
    /\ result # None <=> pc = "done"
    /\ result # None => (result.started <=> agent # "none")
    /\ (result # None /\ result.started) =>
          /\ result.exit = ExitCode(returncode)
          /\ result.original = total
          /\ result.captured = [s \in Streams |-> Captured(total[s])]
          /\ result.truncated <=> \E s \in Streams : total[s] > Cap

\* Together they are preserved by every step of the three threads, of the agent
\* and of the process it left behind (SubprocessCodexRuntime.invoke keeps them).
IInv == TypeOK /\ PipesBalance /\ StagesInOrder /\ ReturncodeIsTrue /\ ResultIsFinal

-----------------------------------------------------------------------------
(* What an invocation can wait for                                         *)

\* The steps of the harness from here, at most, if the poll loop turns no more.
Ahead ==
    CASE pc = "execute"      -> 13
      [] pc = "launch"       -> 12
      [] pc = "write"        -> 11
      [] pc = "threads"      -> 10
      [] pc = "poll"         -> 9
      [] pc = "pollCancel"   -> 8
      [] pc = "pollDeadline" -> 7
      [] pc = "kill"         -> 6
      [] pc = "wait"         -> 5
      [] pc = "killAgain"    -> 4
      [] pc = "joinOut"      -> 3
      [] pc = "joinErr"      -> 2
      [] pc = "normalize"    -> 1
      [] pc = "done"         -> 0

HarnessSteps == Ahead + stdin.left

\* After the deadline no turn of the poll loop is without progress: every step
\* of the harness is one fewer to come, and nobody else can add one (invoke).
NoTurnAfterTheDeadline ==
    [][/\ (Harness /\ expired) => HarnessSteps' < HarnessSteps
       /\ ~Harness => HarnessSteps' = HarnessSteps]_vars

\* The joins without a timeout wait for a reader that has something to read, for
\* a killed agent to die, or for a process the agent left behind that still holds
\* the pipe: never for an agent that may run on (invoke, after its poll loop).
JoinsWaitForNoAgent ==
    pc \in {"joinOut", "joinErr"} =>
        /\ agent # "running"
        /\ \A s \in Streams :
              \/ reader[s] = "ended"
              \/ reader[s] = "running"
                  /\ \/ pipe[s] > 0 \/ EndOfStream(s)
                     \/ agent = "killed"
                     \/ child = "running" /\ "child" \in holders[s]

-----------------------------------------------------------------------------
(* What the comments say and the code does not do                          *)

\* runtime.py:18-19: the two streams are drained concurrently "so a large
\* output can never deadlock the OS pipe buffer".
OutputNeverDeadlocks ==
    ~ /\ pc = "write" /\ stdin.left > 0 /\ stdin.full = StdinRoom
      /\ agent = "running" /\ doing \in Streams
      /\ pipe[doing] = PipeRoom

\* runtime.py:401-403: a BrokenPipeError is to be treated "as launch-stage
\* failure classification, not normal completion".
BrokenPipeIsNotCompletion ==
    (result # None /\ broken) => result.class # "PROCESS_SUCCESS"
=============================================================================
