---------------------------- MODULE MoveItClient ----------------------------
(***************************************************************************)
(* The client of the MoveIt sidecar, MoveItAlohaPlanner in                 *)
(* sim/moveit_aloha_planner.py: a caller's thread that writes one request  *)
(* per line and waits for the next line of a queue, a daemon thread that   *)
(* moves the sidecar's stdout into that queue, and the sidecar process,    *)
(* which answers in order but may be late, print something else, or exit.  *)
(* A line is the number of the request it answers.                         *)
(*                                                                         *)
(* Only the waits for an answer, for the process and for the thread have a *)
(* timeout.  Writing to a full pipe has none, and neither has closing the  *)
(* stdout that the thread is reading.                                      *)
(***************************************************************************)
EXTENDS Naturals, Sequences

CONSTANTS
  MaxRequests,  \* bound on the requests of a client, the shutdown included
  MaxNoise,     \* bound on the lines the sidecar prints that answer nothing
  PipeCapacity  \* requests that stdin holds unread, so that the next one waits

ASSUME ClientAssumption ==
  /\ MaxRequests \in Nat \ {0, 1}
  /\ MaxNoise \in Nat
  /\ PipeCapacity \in Nat \ {0}

VARIABLES
  pc,        \* the caller's thread
  purpose,   \* "identity", "plan" or "shutdown": the request under way
  sequence,  \* _request_sequence
  closed,    \* _closed
  unsent,    \* a request is stuck in the buffer of a broken pipe
  raised,    \* close() ended with an exception
  alive,     \* the sidecar runs
  signal,    \* sent to the sidecar
  stdin,     \* requests written and not yet read
  stdout,    \* lines printed and not yet read by the thread
  queue,     \* _responses
  drained,   \* the thread has put its None and ended
  noise,     \* lines printed that answer nothing
  accepted,  \* requests and the lines returned for them
  missed     \* a request has ended without the line that answers it

client == <<pc, purpose, sequence, closed, unsent, raised, accepted, missed>>
sidecar == <<alive, stdin, stdout, noise>>
thread == <<queue, drained>>
vars == <<client, signal, sidecar, thread>>

Invalid == [line |-> "invalid", id |-> 0]   \* not JSON
Nameless == [line |-> "error", id |-> 0]    \* an error without request_id
Answer(n) == [line |-> "answer", id |-> n]
End == [line |-> "end", id |-> 0]           \* the None of a closed stdout

-----------------------------------------------------------------------------
(* _request()                                                              *)

\* Where the caller goes when a request raises MoveItAlohaPlannerError: the
\* constructor closes, plan() raises, close() terminates the process.
Fails ==
  CASE purpose = "identity" -> pc' = "close" /\ UNCHANGED signal
    [] purpose = "plan"     -> pc' = "idle" /\ UNCHANGED signal
    [] purpose = "shutdown" -> pc' = "wait" /\ signal' = "term"

Open == ~ closed

\* _closed, then poll(), then the number.
Begin ==
  /\ pc = "request"
  /\ IF Open /\ alive
     THEN sequence' = sequence + 1 /\ pc' = "write" /\ UNCHANGED signal
     ELSE Fails /\ UNCHANGED sequence
  /\ UNCHANGED <<purpose, closed, unsent, raised, accepted, missed, sidecar, thread>>

PipeFull == Len(stdin) >= PipeCapacity

\* write() and flush() wait as long as the pipe is full and the sidecar lives.
Write ==
  /\ pc = "write" /\ alive /\ ~ PipeFull
  /\ stdin' = Append(stdin, sequence)
  /\ pc' = "get"
  /\ UNCHANGED <<purpose, sequence, closed, unsent, raised, accepted, missed, signal,
                 alive, stdout, noise, thread>>

\* The sidecar exited after poll(), or while the write was waiting for it:
\* BrokenPipeError, which close() does not catch; its finally clause still runs.
BrokenPipe ==
  /\ pc = "write" /\ ~ alive
  /\ pc' = CASE purpose = "identity" -> "close"
             [] purpose = "plan"     -> "idle"
             [] purpose = "shutdown" -> "finally"
  /\ unsent' = TRUE
  /\ raised' = (purpose = "shutdown")
  /\ UNCHANGED <<purpose, sequence, closed, accepted, missed, signal, sidecar,
                 thread>>

\* Wrong on purpose: the newest line is taken; and any answer will do.
Latest(lines) == lines[Len(lines)]
AnyAnswer(line) == line.line = "answer"

Taken(lines) == Head(lines)
Accepts(line) == line.line = "answer" /\ line.id = sequence

\* The line is an answer with the number of the request, and an identity is
\* the registered one.
Receive ==
  /\ pc = "get" /\ queue # <<>> /\ Accepts(Taken(queue))
  /\ queue' = Tail(queue)
  /\ accepted' = accepted \cup {[request |-> sequence, line |-> Taken(queue).id]}
  /\ pc' \in CASE purpose = "identity" -> {"idle", "close"}
               [] purpose = "plan"     -> {"idle"}
               [] purpose = "shutdown" -> {"wait"}
  /\ UNCHANGED <<purpose, sequence, closed, unsent, raised, missed, signal, sidecar,
                 drained>>

Refuse ==
  /\ pc = "get" /\ queue # <<>> /\ ~ Accepts(Taken(queue))
  /\ queue' = Tail(queue)
  /\ missed' = (missed \/ Taken(queue) # Nameless)
  /\ Fails
  /\ UNCHANGED <<purpose, sequence, closed, unsent, raised, accepted, sidecar, drained>>

\* Wrong on purpose: wait without a timeout.
Never == FALSE
Expires == TRUE

\* get(timeout=...) raises only when the queue is empty.
Late ==
  /\ pc = "get" /\ queue = <<>> /\ Expires
  /\ missed' = TRUE
  /\ Fails
  /\ UNCHANGED <<purpose, sequence, closed, unsent, raised, accepted, sidecar, thread>>

-----------------------------------------------------------------------------
(* close()                                                                 *)

\* poll(): a running sidecar is asked to shut down first.
Close ==
  /\ pc = "close"
  /\ IF alive THEN pc' = "request" /\ purpose' = "shutdown"
     ELSE pc' = "wait" /\ UNCHANGED purpose
  /\ UNCHANGED <<sequence, closed, unsent, raised, accepted, missed, signal, sidecar,
                 thread>>

\* Wrong on purpose: the end of the process is not awaited.
ReapedAnyhow == TRUE
Reaped == ~ alive

Wait ==
  /\ pc = "wait"
  /\ \/ Reaped /\ pc' = "finally" /\ UNCHANGED signal
     \/ alive /\ Expires /\ pc' = "killed" /\ signal' = "kill"
  /\ UNCHANGED <<purpose, sequence, closed, unsent, raised, accepted, missed, sidecar,
                 thread>>

\* The second wait() may time out as well and raises.
WaitKilled ==
  /\ pc = "killed"
  /\ \/ Reaped /\ UNCHANGED raised
     \/ alive /\ Expires /\ raised' = TRUE
  /\ pc' = "finally"
  /\ UNCHANGED <<purpose, sequence, closed, unsent, accepted, missed, signal, sidecar,
                 thread>>

\* Closing stdin flushes the buffer and raises on what could not be sent; then
\* stdout, the thread and the log stay as they are.
Finally ==
  /\ pc = "finally"
  /\ closed' = TRUE
  /\ raised' = (raised \/ unsent)
  /\ pc' = IF unsent THEN "idle" ELSE "stdout"
  /\ UNCHANGED <<purpose, sequence, unsent, accepted, missed, signal, sidecar,
                 thread>>

\* The thread holds the lock of stdout while it waits for output.
InRead == ~ drained /\ stdout = <<>>

\* Closing stdout waits for that lock, without a timeout, and the pipe may be
\* held open by a process that outlives the sidecar; the join has a timeout.
CloseStdout ==
  /\ pc = "stdout" /\ ~ InRead
  /\ pc' = "idle"
  /\ UNCHANGED <<purpose, sequence, closed, unsent, raised, accepted, missed, signal,
                 sidecar, thread>>

-----------------------------------------------------------------------------
(* The owner of the client                                                 *)

Plan ==
  /\ pc = "idle" /\ sequence < MaxRequests - 1
  /\ pc' = "request" /\ purpose' = "plan"
  /\ UNCHANGED <<sequence, closed, unsent, raised, accepted, missed, signal, sidecar,
                 thread>>

CallClose ==
  /\ pc = "idle" /\ ~ closed
  /\ pc' = "close"
  /\ UNCHANGED <<purpose, sequence, closed, unsent, raised, accepted, missed, signal,
                 sidecar, thread>>

-----------------------------------------------------------------------------
(* The thread that reads stdout, and the sidecar                           *)

\* Wrong on purpose: the None is put after each line and the loop goes on.
GoesOn == TRUE

Reading == ~ drained

ReadLine ==
  /\ Reading /\ stdout # <<>>
  /\ queue' = Append(queue, Head(stdout))
  /\ stdout' = Tail(stdout)
  /\ UNCHANGED <<client, signal, alive, stdin, noise, drained>>

\* The loop ends at the end of the output, or by an exception: output that is
\* not UTF-8, whose chunk is lost, or a stdout that close() has closed.
ReadEnd ==
  /\ Reading
  /\ stdout = <<>> => ~ alive \/ (closed /\ pc # "stdout" /\ ~ unsent)
  /\ queue' = Append(queue, End)
  /\ drained' = TRUE
  /\ UNCHANGED <<client, signal, sidecar>>

\* One line for one request, in order; an exception is reported without the
\* number of the request.
Respond ==
  /\ alive /\ stdin # <<>>
  /\ stdin' = Tail(stdin)
  /\ \/ stdout' = Append(stdout, Answer(Head(stdin)))
     \/ stdout' = Append(stdout, Nameless)
  /\ UNCHANGED <<client, signal, alive, noise, thread>>

Chatter ==
  /\ alive /\ noise < MaxNoise
  /\ noise' = noise + 1
  /\ stdout' = Append(stdout, Invalid)
  /\ UNCHANGED <<client, signal, alive, stdin, thread>>

\* It crashes, has answered a shutdown, or obeys a signal, sooner or later.
Exit ==
  /\ alive
  /\ alive' = FALSE
  /\ UNCHANGED <<client, signal, stdin, stdout, noise, thread>>

-----------------------------------------------------------------------------
\* __init__(): the process and the thread run, the identity is requested.
Init ==
  /\ pc = "request" /\ purpose = "identity" /\ sequence = 0
  /\ closed = FALSE /\ unsent = FALSE /\ raised = FALSE /\ accepted = {} /\ missed = FALSE
  /\ signal = "none"
  /\ alive = TRUE /\ stdin = <<>> /\ stdout = <<>> /\ noise = 0
  /\ queue = <<>> /\ drained = FALSE

ClientStep ==
  \/ Begin \/ Write \/ BrokenPipe \/ Receive \/ Refuse \/ Late
  \/ Close \/ Wait \/ WaitKilled \/ Finally \/ CloseStdout

Next ==
  \/ ClientStep \/ Plan \/ CallClose
  \/ ReadLine \/ ReadEnd
  \/ Respond \/ Chatter \/ Exit

Spec == Init /\ [][Next]_vars

\* The caller's thread goes on while a call is under way and does not wait for
\* a pipe, and its timeouts expire; nothing is assumed of the sidecar nor of
\* the thread that reads its output.
FairSpec == Spec /\ WF_vars(ClientStep)

-----------------------------------------------------------------------------
Lines == {Invalid, Nameless, End} \cup {Answer(n) : n \in 1..MaxRequests}

\* The thread's None is the last it puts, and no line stands for it.
EndIsLast ==
  /\ \A i \in 1..Len(stdout) : stdout[i] # End
  /\ \A i \in 1..Len(queue) : queue[i] = End => drained /\ i = Len(queue)

\* The values of the client and the lines under way.
TypeOK ==
  /\ pc \in {"request", "write", "get", "close", "wait", "killed", "finally",
            "stdout", "idle"}
  /\ purpose \in {"identity", "plan", "shutdown"}
  /\ sequence \in 0..MaxRequests
  /\ closed \in BOOLEAN /\ unsent \in BOOLEAN /\ raised \in BOOLEAN /\ alive \in BOOLEAN
  /\ missed \in BOOLEAN /\ signal \in {"none", "term", "kill"}
  /\ stdin \in Seq(1..MaxRequests) /\ stdout \in Seq(Lines) /\ queue \in Seq(Lines)
  /\ noise \in 0..MaxNoise
  /\ accepted \subseteq [request : 1..MaxRequests, line : 1..MaxRequests]
  /\ drained \in BOOLEAN
  /\ EndIsLast

\* A plan is never the answer to another request, however late the answers
\* of the sidecar arrive.
Matched == \A a \in accepted : a.line = a.request

\* A request that ended without its line leaves the client one line behind:
\* it never returns an answer again, and never a wrong one.
OneMissIsFinal == [][missed => accepted' = accepted]_vars

\* close() has seen the sidecar exit or has killed it, whichever of its
\* requests and waits failed ("Close only the process created by this client").
CloseEnds == closed => ~ alive \/ signal = "kill"

\* A client that was closed writes no further request, also when the wait for
\* the killed sidecar timed out.
SilentAfterClose == [][closed => sequence' = sequence]_vars

\* The two waits without a timeout: for room in stdin, and for the thread.
Blocked == \/ pc = "write" /\ alive /\ PipeFull
           \/ pc = "stdout" /\ InRead

\* "Own one sidecar process and serialize bounded planning requests": every
\* call returns or raises, whatever the sidecar does, unless it waits for ever
\* at a full stdin that a living sidecar does not read, or to close a stdout
\* that is silent and stays open.
CallReturns == pc # "idle" ~> (pc = "idle" \/ []Blocked)

=============================================================================
