------------------------ MODULE MoveItClient_proofs ------------------------
(***************************************************************************)
(* Proofs about MoveItClient, for every bound on its requests and on the   *)
(* lines that answer nothing.  The argument follows the lines under way:   *)
(* each of queue, stdout and stdin holds what the next one will become, so *)
(* responses are counted over the three in that order.                     *)
(***************************************************************************)
EXTENDS MoveItClient, TLAPS

-----------------------------------------------------------------------------
(* Responses in a sequence of lines.                                       *)

Response(line) == line.line \in {"answer", "error"}

One(s) == \E i \in 1..Len(s) : Response(s[i])

Two(s) == \E i, j \in 1..Len(s) : i < j /\ Response(s[i]) /\ Response(s[j])

Holds(s, n) == \E i \in 1..Len(s) : s[i] = Answer(n)

\* No response stands behind the answer to n.
LastIn(s, n) ==
  \A i, j \in 1..Len(s) : i < j /\ s[i] = Answer(n) => ~ Response(s[j])

\* The answers in s are to requests in R.
Within(s, R) == \A i \in 1..Len(s) : s[i].line = "answer" => s[i].id \in R

\* What a line at the end adds.
LEMMA AtTheEnd ==
  ASSUME NEW s \in Seq(Lines), NEW l \in Lines, NEW n \in Nat, NEW R
  PROVE  /\ Append(s, l) \in Seq(Lines)
         /\ One(Append(s, l)) <=> One(s) \/ Response(l)
         /\ Two(Append(s, l)) <=> Two(s) \/ (One(s) /\ Response(l))
         /\ Holds(Append(s, l), n) <=> Holds(s, n) \/ l = Answer(n)
         /\ LastIn(Append(s, l), n) <=>
              LastIn(s, n) /\ ~ (Holds(s, n) /\ Response(l))
         /\ Within(Append(s, l), R) <=>
              Within(s, R) /\ (l.line = "answer" => l.id \in R)
<1> DEFINE t == Append(s, l)
<1>1. /\ t \in Seq(Lines) /\ Len(t) = Len(s) + 1 /\ Len(s) \in Nat
      /\ t[Len(s) + 1] = l
      /\ \A i \in 1..Len(s) : t[i] = s[i]
  OBVIOUS
<1> HIDE DEF t
<1>2. \A i \in 1..Len(t) : i \in 1..Len(s) \/ i = Len(s) + 1
  BY <1>1
<1>3. 1..Len(s) \subseteq 1..Len(t) /\ Len(s) + 1 \in 1..Len(t)
  BY <1>1
<1>4. One(t) <=> One(s) \/ Response(l)
  BY <1>1, <1>2, <1>3 DEF One
<1>5. Two(t) <=> Two(s) \/ (One(s) /\ Response(l))
  <2>1. \A i, j \in 1..Len(t) : i < j => i \in 1..Len(s)
    BY <1>1
  <2>2. \A i \in 1..Len(s) : i < Len(s) + 1
    BY <1>1
  <2> QED BY <1>1, <1>2, <1>3, <2>1, <2>2 DEF One, Two
<1>6. Holds(t, n) <=> Holds(s, n) \/ l = Answer(n)
  BY <1>1, <1>2, <1>3 DEF Holds
<1>7. LastIn(t, n) <=> LastIn(s, n) /\ ~ (Holds(s, n) /\ Response(l))
  <2>1. \A i, j \in 1..Len(t) : i < j => i \in 1..Len(s)
    BY <1>1
  <2>2. \A i \in 1..Len(s) : i < Len(s) + 1
    BY <1>1
  <2> QED BY <1>1, <1>2, <1>3, <2>1, <2>2 DEF LastIn, Holds
<1>8. Within(t, R) <=> Within(s, R) /\ (l.line = "answer" => l.id \in R)
  BY <1>1, <1>2, <1>3 DEF Within
<1> QED BY <1>1, <1>4, <1>5, <1>6, <1>7, <1>8 DEF t

\* What the first line adds to those behind it.
LEMMA AtTheHead ==
  ASSUME NEW s \in Seq(Lines), s # <<>>, NEW n \in Nat, NEW R
  PROVE  /\ Head(s) \in Lines /\ Tail(s) \in Seq(Lines)
         /\ One(s) <=> Response(Head(s)) \/ One(Tail(s))
         /\ Two(s) <=> Two(Tail(s)) \/ (Response(Head(s)) /\ One(Tail(s)))
         /\ Holds(s, n) <=> Head(s) = Answer(n) \/ Holds(Tail(s), n)
         /\ LastIn(s, n) <=>
              LastIn(Tail(s), n) /\ ~ (Head(s) = Answer(n) /\ One(Tail(s)))
         /\ Within(s, R) <=>
              Within(Tail(s), R)
              /\ (Head(s).line = "answer" => Head(s).id \in R)
<1> DEFINE t == Tail(s)
           h == Head(s)
<1>1. /\ t \in Seq(Lines) /\ h \in Lines /\ Len(s) = Len(t) + 1
      /\ Len(t) \in Nat /\ s[1] = h
      /\ \A i \in 1..Len(t) : t[i] = s[i + 1]
  OBVIOUS
<1> HIDE DEF t, h
<1>2. \A i \in 1..Len(s) : i = 1 \/ (i - 1 \in 1..Len(t) /\ t[i - 1] = s[i])
  BY <1>1
<1>3. 1 \in 1..Len(s) /\ \A i \in 1..Len(t) : i + 1 \in 1..Len(s)
  BY <1>1
<1>4. One(s) <=> Response(h) \/ One(t)
  BY <1>1, <1>2, <1>3 DEF One
<1>5. Two(s) <=> Two(t) \/ (Response(h) /\ One(t))
  <2>1. ASSUME Two(s) PROVE Two(t) \/ (Response(h) /\ One(t))
    <3>1. PICK i, j \in 1..Len(s) : i < j /\ Response(s[i]) /\ Response(s[j])
      BY <2>1 DEF Two
    <3>2. j - 1 \in 1..Len(t) /\ t[j - 1] = s[j]
      BY <3>1, <1>1
    <3>3. CASE i = 1
      BY <3>1, <3>2, <3>3, <1>1 DEF One
    <3>4. CASE i # 1
      <4>1. i - 1 \in 1..Len(t) /\ t[i - 1] = s[i] /\ i - 1 < j - 1
        BY <3>1, <3>4, <1>1
      <4> QED BY <3>1, <3>2, <4>1 DEF Two
    <3> QED BY <3>3, <3>4
  <2>2. ASSUME Two(t) PROVE Two(s)
    <3>1. PICK i, j \in 1..Len(t) : i < j /\ Response(t[i]) /\ Response(t[j])
      BY <2>2 DEF Two
    <3>2. /\ i + 1 \in 1..Len(s) /\ j + 1 \in 1..Len(s) /\ i + 1 < j + 1
          /\ Response(s[i + 1]) /\ Response(s[j + 1])
      BY <3>1, <1>1
    <3> QED BY <3>2 DEF Two
  <2>3. ASSUME Response(h), One(t) PROVE Two(s)
    <3>1. PICK i \in 1..Len(t) : Response(t[i])
      BY <2>3 DEF One
    <3>2. /\ i + 1 \in 1..Len(s) /\ 1 \in 1..Len(s) /\ 1 < i + 1
          /\ Response(s[i + 1]) /\ Response(s[1])
      BY <3>1, <2>3, <1>1
    <3> QED BY <3>2 DEF Two
  <2> QED BY <2>1, <2>2, <2>3
<1>6. Holds(s, n) <=> h = Answer(n) \/ Holds(t, n)
  BY <1>1, <1>2, <1>3 DEF Holds
<1>7. LastIn(s, n) <=> LastIn(t, n) /\ ~ (h = Answer(n) /\ One(t))
  <2>1. ASSUME LastIn(s, n), NEW i \in 1..Len(t), NEW j \in 1..Len(t),
               i < j, t[i] = Answer(n)
        PROVE ~ Response(t[j])
    <3>1. i + 1 \in 1..Len(s) /\ j + 1 \in 1..Len(s) /\ i + 1 < j + 1
      BY <2>1, <1>1
    <3> QED BY <2>1, <3>1, <1>1 DEF LastIn
  <2>2. ASSUME LastIn(s, n), h = Answer(n), NEW j \in 1..Len(t)
        PROVE ~ Response(t[j])
    <3>1. 1 \in 1..Len(s) /\ j + 1 \in 1..Len(s) /\ 1 < j + 1
      BY <1>1
    <3> QED BY <2>2, <3>1, <1>1 DEF LastIn
  <2>3. ASSUME LastIn(t, n), ~ (h = Answer(n) /\ One(t)),
               NEW i \in 1..Len(s), NEW j \in 1..Len(s),
               i < j, s[i] = Answer(n)
        PROVE ~ Response(s[j])
    <3>1. j - 1 \in 1..Len(t) /\ t[j - 1] = s[j]
      BY <2>3, <1>1
    <3>2. CASE i = 1
      BY <2>3, <3>1, <3>2, <1>1 DEF One
    <3>3. CASE i # 1
      <4>1. i - 1 \in 1..Len(t) /\ t[i - 1] = s[i] /\ i - 1 < j - 1
        BY <2>3, <3>3, <1>1
      <4> QED BY <2>3, <3>1, <4>1 DEF LastIn
    <3> QED BY <3>2, <3>3
  <2>4. LastIn(s, n) => LastIn(t, n)
    BY <2>1 DEF LastIn
  <2>5. LastIn(s, n) => ~ (h = Answer(n) /\ One(t))
    BY <2>2 DEF One
  <2>6. LastIn(t, n) /\ ~ (h = Answer(n) /\ One(t)) => LastIn(s, n)
    BY <2>3 DEF LastIn
  <2> QED BY <2>4, <2>5, <2>6
<1>8. Within(s, R) <=> Within(t, R) /\ (h.line = "answer" => h.id \in R)
  BY <1>1, <1>2, <1>3 DEF Within
<1> QED BY <1>1, <1>4, <1>5, <1>6, <1>7, <1>8 DEF t, h

\* What holds of any sequence of lines.
LEMMA OfLines ==
  ASSUME NEW s \in Seq(Lines), NEW n \in Nat, NEW R
  PROVE  /\ Two(s) => One(s)
         /\ s = <<>> => ~ One(s)
         /\ ~ One(s) => ~ Holds(s, n) /\ Within(s, R)
         /\ ~ Holds(s, n) => LastIn(s, n)
         /\ n \notin R /\ Within(s, R) => ~ Holds(s, n)
<1>1. Two(s) => One(s)
  BY DEF One, Two
<1>2. s = <<>> => ~ One(s)
  BY DEF One
<1>3. ~ One(s) => ~ Holds(s, n) /\ Within(s, R)
  BY DEF One, Holds, Within, Response, Answer
<1>4. ~ Holds(s, n) => LastIn(s, n)
  BY DEF Holds, LastIn
<1>5. n \notin R /\ Within(s, R) => ~ Holds(s, n)
  BY DEF Holds, Within, Answer
<1> QED BY <1>1, <1>2, <1>3, <1>4, <1>5

-----------------------------------------------------------------------------
(* The inductive invariant.                                                *)

\* Where the number of the request stands, and that only an open client is
\* under way with anything but a plan.
Numbered ==
  /\ pc = "request" /\ purpose = "identity" => sequence = 0
  /\ pc = "request" /\ purpose = "plan" => sequence <= MaxRequests - 2
  /\ pc \in {"write", "get"} => sequence >= 1
  /\ pc \in {"write", "get"} /\ purpose # "shutdown" =>
       sequence <= MaxRequests - 1
  /\ pc \in {"idle", "close", "request"} /\ ~ closed =>
       sequence <= MaxRequests - 1
  /\ pc = "request" /\ purpose # "plan" => ~ closed
  /\ pc \in {"write", "get", "close", "wait", "killed", "finally"} => ~ closed
  /\ pc = "stdout" => closed

\* How far close() has got with the process.
Ended ==
  /\ pc = "killed" => signal = "kill"
  /\ pc = "finally" => ~ alive \/ signal = "kill"

\* A response is under way; two of them are.
Some == One(queue) \/ One(stdout) \/ stdin # <<>>
Several ==
  \/ Two(queue) \/ Two(stdout) \/ Len(stdin) >= 2
  \/ One(queue) /\ One(stdout)
  \/ (One(queue) \/ One(stdout)) /\ stdin # <<>>

\* One response is under way for the request that waits for it, and after a
\* miss there is one more, for ever.
Counted ==
  IF pc = "get" THEN Some /\ (missed <=> Several) ELSE missed <=> Some

\* Nothing is under way for a request that is not yet written.
Known == IF pc = "write" THEN 1..(sequence - 1) ELSE 1..sequence
Earlier ==
  /\ Within(queue, Known) /\ Within(stdout, Known)
  /\ \A i \in 1..Len(stdin) : stdin[i] \in Known

\* The response to the request that waits is the last one.
Latter ==
  pc = "get" =>
    /\ LastIn(queue, sequence) /\ LastIn(stdout, sequence)
    /\ Holds(queue, sequence) => ~ One(stdout) /\ stdin = <<>>
    /\ Holds(stdout, sequence) => stdin = <<>>
    /\ \A i \in 1..Len(stdin) : stdin[i] = sequence => i = Len(stdin)

\* Before a miss it is the only one.
Own ==
  pc = "get" /\ ~ missed =>
    /\ Within(queue, {sequence}) /\ Within(stdout, {sequence})
    /\ \A i \in 1..Len(stdin) : stdin[i] = sequence

Pipeline == Counted /\ Earlier /\ Latter /\ Own

IInv == TypeOK /\ Matched /\ CloseEnds /\ Numbered /\ Ended /\ Pipeline

\* The thread puts its None once and stops.
LEMMA EndKept ==
  TypeOK /\ [Next]_vars => EndIsLast'
<1> SUFFICES ASSUME TypeOK, [Next]_vars PROVE EndIsLast'
  OBVIOUS
<1>1. /\ queue \in Seq(Lines) /\ stdout \in Seq(Lines) /\ stdin \in Seq(1..MaxRequests)
      /\ EndIsLast
  BY DEF TypeOK
<1>2. CASE UNCHANGED <<queue, stdout, drained>>
  BY <1>1, <1>2 DEF EndIsLast
<1>3. CASE Receive \/ Refuse
  <2>1. UNCHANGED <<stdout, drained>> /\ queue # <<>> /\ queue' = Tail(queue)
    BY <1>3 DEF Receive, Refuse, sidecar
  <2>2. /\ Len(queue') = Len(queue) - 1 /\ Len(queue) \in Nat
        /\ \A i \in 1..Len(queue') : i + 1 \in 1..Len(queue) /\ queue'[i] = queue[i + 1]
    BY <1>1, <2>1
  <2>3. \A i \in 1..Len(queue') : queue'[i] = End => drained /\ i = Len(queue')
    BY <1>1, <2>2 DEF EndIsLast
  <2> QED BY <1>1, <2>1, <2>3 DEF EndIsLast
<1>4. CASE ReadLine
  <2>1. /\ ~ drained /\ drained' = drained /\ stdout # <<>>
        /\ queue' = Append(queue, Head(stdout)) /\ stdout' = Tail(stdout)
    BY <1>4 DEF ReadLine, Reading
  <2>2. /\ Len(stdout') = Len(stdout) - 1 /\ Len(stdout) \in Nat /\ Len(stdout) >= 1
        /\ \A i \in 1..Len(stdout') : i + 1 \in 1..Len(stdout) /\ stdout'[i] = stdout[i + 1]
        /\ Head(stdout) = stdout[1]
    BY <1>1, <2>1
  <2>3. Head(stdout) # End /\ \A i \in 1..Len(stdout') : stdout'[i] # End
    BY <1>1, <2>2 DEF EndIsLast
  <2>4. /\ Len(queue') = Len(queue) + 1 /\ Len(queue) \in Nat
        /\ queue'[Len(queue) + 1] = Head(stdout)
        /\ \A i \in 1..Len(queue) : queue'[i] = queue[i]
    <3>1. Head(stdout) \in Lines
      BY <1>1, <2>1
    <3> QED BY <1>1, <2>1, <3>1
  <2>5. \A i \in 1..Len(queue') : queue'[i] # End
    BY <1>1, <2>1, <2>3, <2>4 DEF EndIsLast
  <2> QED BY <2>3, <2>5 DEF EndIsLast
<1>5. CASE ReadEnd
  <2>1. /\ ~ drained /\ drained' /\ queue' = Append(queue, End) /\ stdout' = stdout
    BY <1>5 DEF ReadEnd, Reading, sidecar
  <2>2. /\ Len(queue') = Len(queue) + 1 /\ Len(queue) \in Nat
        /\ \A i \in 1..Len(queue) : queue'[i] = queue[i]
    BY <1>1, <2>1
  <2>3. \A i \in 1..Len(queue') : queue'[i] = End => i = Len(queue')
    BY <1>1, <2>1, <2>2 DEF EndIsLast
  <2> QED BY <1>1, <2>1, <2>3 DEF EndIsLast
<1>6. CASE Respond \/ Chatter
  <2>1. PICK l \in Lines \ {End} : stdout' = Append(stdout, l)
    <3>1. Invalid # End /\ Nameless # End /\ Invalid \in Lines /\ Nameless \in Lines
      BY DEF Invalid, Nameless, End, Lines
    <3>2. stdin # <<>> => Answer(Head(stdin)) \in Lines
      <4>1. \A S : stdin \in Seq(S) /\ stdin # <<>> => Head(stdin) \in S
        OBVIOUS
      <4>2. stdin # <<>> => Head(stdin) \in 1..MaxRequests
        BY <1>1, <4>1
      <4> QED BY <4>2 DEF Lines
    <3>3. \A n : Answer(n) # End
      BY DEF Answer, End
    <3> QED BY <1>6, <3>1, <3>2, <3>3 DEF Respond, Chatter
  <2>2. UNCHANGED <<queue, drained>>
    BY <1>6 DEF Respond, Chatter, thread
  <2>3. /\ Len(stdout') = Len(stdout) + 1 /\ Len(stdout) \in Nat
        /\ stdout'[Len(stdout) + 1] = l
        /\ \A i \in 1..Len(stdout) : stdout'[i] = stdout[i]
    BY <1>1, <2>1
  <2>4. \A i \in 1..Len(stdout') : stdout'[i] # End
    BY <1>1, <2>1, <2>3 DEF EndIsLast
  <2> QED BY <1>1, <2>2, <2>4 DEF EndIsLast
<1>7. CASE Begin \/ Write \/ BrokenPipe \/ Late \/ Close \/ Wait \/ WaitKilled
             \/ Finally \/ CloseStdout \/ Plan \/ CallClose \/ Exit
             \/ UNCHANGED vars
  BY <1>2, <1>7 DEF Begin, Write, BrokenPipe, Late, Close, Wait, WaitKilled,
       Finally, CloseStdout, Plan, CallClose, Exit, sidecar, thread, vars
<1> QED BY <1>3, <1>4, <1>5, <1>6, <1>7 DEF Next, ClientStep

\* The client's part, which the sidecar and the thread do not touch.
LEMMA ClientKept ==
  TypeOK /\ Matched /\ CloseEnds /\ Numbered /\ Ended /\ [Next]_vars =>
    TypeOK' /\ Matched' /\ CloseEnds' /\ Numbered' /\ Ended'
<1> SUFFICES ASSUME TypeOK, Matched, CloseEnds, Numbered, Ended, [Next]_vars
             PROVE  (TypeOK /\ Matched /\ CloseEnds /\ Numbered /\ Ended)'
  OBVIOUS
<1>0. EndIsLast'
  BY EndKept
<1> USE <1>0, ClientAssumption
    DEF TypeOK, Matched, CloseEnds, Numbered, Ended, client, sidecar, thread
<1>1. CASE Begin
  <2>1. CASE ~ (Open /\ alive)
    <3>1. \/ purpose = "identity" /\ pc' = "close" /\ signal' = signal
          \/ purpose = "plan" /\ pc' = "idle" /\ signal' = signal
          \/ purpose = "shutdown" /\ pc' = "wait" /\ signal' = "term"
      BY <1>1, <2>1 DEF Begin, Fails
    <3> QED BY <1>1, <2>1, <3>1 DEF Begin
  <2>2. CASE Open /\ alive
    <3>1. sequence' \in 1..MaxRequests
      BY <1>1, <2>2 DEF Begin, Open
    <3>2. TypeOK'
      BY <1>1, <2>2, <3>1 DEF Begin
    <3>3. (Matched /\ CloseEnds /\ Ended)'
      BY <1>1, <2>2 DEF Begin
    <3>4. Numbered'
      BY <1>1, <2>2, <3>1 DEF Begin, Open
    <3> QED BY <3>2, <3>3, <3>4
  <2> QED BY <2>1, <2>2
<1>2. CASE Write
  <2>1. stdin' \in Seq(1..MaxRequests)
    BY <1>2 DEF Write
  <2> QED BY <1>2, <2>1 DEF Write
<1>3. CASE BrokenPipe
  BY <1>3 DEF BrokenPipe
<1>4. CASE Receive
  <2>1. queue' \in Seq(Lines) /\ Head(queue) \in Lines
    BY <1>4 DEF Receive
  <2>2. Head(queue).id = sequence
    BY <1>4 DEF Receive, Accepts, Taken
  <2>3. /\ accepted' \subseteq [request : 1..MaxRequests, line : 1..MaxRequests]
        /\ Matched'
    BY <1>4, <2>2 DEF Receive, Taken
  <2>4. pc' \in {"idle", "close", "wait"} /\ (pc' = "wait" <=> purpose = "shutdown")
    BY <1>4 DEF Receive
  <2>5. TypeOK'
    BY <1>4, <2>1, <2>3, <2>4 DEF Receive
  <2>6. (CloseEnds /\ Numbered /\ Ended)'
    BY <1>4, <2>4 DEF Receive
  <2> QED BY <2>3, <2>5, <2>6
<1>5. CASE Refuse
  <2>1. queue' \in Seq(Lines) /\ missed' \in BOOLEAN
    BY <1>5 DEF Refuse
  <2> QED BY <1>5, <2>1 DEF Refuse, Fails
<1>6. CASE Late
  BY <1>6 DEF Late, Fails
<1>7. CASE Close \/ CallClose \/ Plan
  BY <1>7 DEF Close, CallClose, Plan
<1>8. CASE Wait \/ WaitKilled \/ Finally \/ CloseStdout
  <2>1. CASE Wait
    BY <2>1 DEF Wait, Reaped
  <2>2. CASE WaitKilled
    BY <2>2 DEF WaitKilled, Reaped
  <2>3. CASE Finally
    BY <2>3 DEF Finally
  <2>4. CASE CloseStdout
    BY <2>4 DEF CloseStdout
  <2> QED BY <1>8, <2>1, <2>2, <2>3, <2>4
<1>9. CASE ReadLine
  <2>1. Head(stdout) \in Lines /\ stdout' \in Seq(Lines)
    BY <1>9 DEF ReadLine
  <2>2. queue' \in Seq(Lines)
    BY <1>9, <2>1 DEF ReadLine
  <2>3. TypeOK'
    BY <1>9, <2>1, <2>2 DEF ReadLine
  <2> QED BY <1>9, <2>3 DEF ReadLine
<1>10. CASE ReadEnd
  <2>1. queue' \in Seq(Lines)
    BY <1>10 DEF ReadEnd, Lines
  <2> QED BY <1>10, <2>1 DEF ReadEnd
<1>11. CASE Respond
  <2>1. Head(stdin) \in 1..MaxRequests /\ stdin' \in Seq(1..MaxRequests)
    BY <1>11 DEF Respond
  <2>2. Answer(Head(stdin)) \in Lines /\ Nameless \in Lines
    BY <2>1 DEF Lines
  <2>3. stdout' \in Seq(Lines)
    <3>1. stdout' \in {Append(stdout, Answer(Head(stdin))), Append(stdout, Nameless)}
      BY <1>11 DEF Respond
    <3>2. \A l \in Lines : Append(stdout, l) \in Seq(Lines)
      OBVIOUS
    <3> QED BY <2>2, <3>1, <3>2
  <2> QED BY <1>11, <2>1, <2>3 DEF Respond
<1>12. CASE Chatter
  <2>1. stdout' \in Seq(Lines) /\ noise' \in 0..MaxNoise
    BY <1>12 DEF Chatter, Lines
  <2> QED BY <1>12, <2>1 DEF Chatter
<1>13. CASE Exit
  <2>1. TypeOK'
    BY <1>13 DEF Exit
  <2>2. Matched' /\ CloseEnds'
    BY <1>13 DEF Exit
  <2>3. Numbered' /\ Ended'
    BY <1>13 DEF Exit
  <2> QED BY <2>1, <2>2, <2>3
<1>14. CASE UNCHANGED vars
  BY <1>14 DEF vars
<1> QED BY <1>1, <1>2, <1>3, <1>4, <1>5, <1>6, <1>7, <1>8, <1>9, <1>10,
           <1>11, <1>12, <1>13, <1>14 DEF Next, ClientStep

\* The lines under way, and the misses they explain.
LEMMA PipelineKept ==
  TypeOK /\ Numbered /\ Pipeline /\ [Next]_vars => Pipeline'
<1> SUFFICES ASSUME TypeOK, Numbered, Pipeline, [Next]_vars PROVE Pipeline'
  OBVIOUS
<1>1. /\ queue \in Seq(Lines) /\ stdout \in Seq(Lines)
      /\ stdin \in Seq(1..MaxRequests) /\ sequence \in Nat
      /\ missed \in BOOLEAN
  BY ClientAssumption DEF TypeOK
<1>2. /\ Counted /\ Earlier /\ Latter /\ Own
  BY DEF Pipeline
<1>3. ASSUME UNCHANGED <<queue, stdout, stdin, missed>>, pc # "get", pc' # "get",
             Known \subseteq Known'
      PROVE  Pipeline'
  <2>1. /\ Within(queue, Known) => Within(queue, Known')
        /\ Within(stdout, Known) => Within(stdout, Known')
    BY <1>3 DEF Within
  <2>2. Earlier'
    BY <1>2, <1>3, <2>1 DEF Earlier
  <2>3. (One(queue))' = One(queue) /\ (One(stdout))' = One(stdout)
    BY <1>3
  <2>4. Counted'
    BY <1>2, <1>3, <2>3 DEF Counted, Some
  <2> QED BY <1>3, <2>2, <2>4 DEF Pipeline, Latter, Own
<1>4. CASE Begin
  <2>1. UNCHANGED <<queue, stdout, stdin, missed>> /\ pc = "request"
    BY <1>4 DEF Begin, thread, sidecar
  <2>2. pc' # "get" /\ Known \subseteq Known'
    <3>1. CASE Open /\ alive
      BY <1>1, <1>4, <3>1 DEF Begin, Known
    <3>2. CASE ~ (Open /\ alive)
      BY <1>4, <3>2, <2>1 DEF Begin, Fails, Known, TypeOK
    <3> QED BY <3>1, <3>2
  <2> QED BY <1>3, <2>1, <2>2
<1>5. CASE BrokenPipe
  <2>1. UNCHANGED <<queue, stdout, stdin, missed, sequence>> /\ pc = "write"
    BY <1>5 DEF BrokenPipe, thread, sidecar
  <2>2. pc' \in {"close", "idle", "finally"}
    BY <1>5 DEF BrokenPipe, TypeOK
  <2>3. Known \subseteq Known'
    BY <1>1, <2>1, <2>2 DEF Known
  <2> QED BY <1>3, <2>1, <2>2, <2>3
<1>6. CASE Close \/ CallClose \/ Plan \/ Wait \/ WaitKilled \/ Finally
             \/ CloseStdout
  <2>1. /\ UNCHANGED <<queue, stdout, stdin, missed, sequence>>
        /\ pc \notin {"get", "write"} /\ pc' \notin {"get", "write"}
    BY <1>6 DEF Close, CallClose, Plan, Wait, WaitKilled, Finally, CloseStdout,
                thread, sidecar
  <2>2. Known \subseteq Known'
    BY <2>1 DEF Known
  <2> QED BY <1>3, <2>1, <2>2
<1>7. CASE Exit \/ UNCHANGED vars
  <2>1. UNCHANGED <<queue, stdout, stdin, missed, sequence, pc>>
    BY <1>7 DEF Exit, client, thread, vars, sidecar
  <2> QED BY <1>2, <2>1
          DEF Pipeline, Counted, Some, Several, Earlier, Known, Latter, Own
<1>8. CASE Write
  <2>1. /\ UNCHANGED <<queue, stdout, missed, sequence>>
        /\ stdin' = Append(stdin, sequence) /\ pc = "write" /\ pc' = "get"
    BY <1>8 DEF Write, thread
  <2>2. sequence \in 1..MaxRequests
    BY <2>1 DEF Numbered, TypeOK
  <2>3. /\ Len(stdin') = Len(stdin) + 1 /\ Len(stdin) \in Nat
        /\ stdin'[Len(stdin) + 1] = sequence
        /\ \A i \in 1..Len(stdin) : stdin'[i] = stdin[i]
        /\ stdin' # <<>> /\ (stdin # <<>> <=> Len(stdin) >= 1)
    BY <1>1, <2>1
  <2>4. \A i \in 1..Len(stdin') : i \in 1..Len(stdin) \/ i = Len(stdin')
    BY <2>3
  <2>5. /\ Within(queue, 1..(sequence - 1)) /\ Within(stdout, 1..(sequence - 1))
        /\ \A i \in 1..Len(stdin) : stdin[i] \in 1..(sequence - 1)
    BY <1>2, <2>1 DEF Earlier, Known
  <2>6. Counted'
    <3>1. missed <=> Some
      BY <1>2, <2>1 DEF Counted
    <3>2. Two(queue) => One(queue)
      BY <1>1, OfLines
    <3>3. Two(stdout) => One(stdout)
      BY <1>1, OfLines
    <3>4. Some'
      BY <2>3 DEF Some
    <3>5. Len(stdin') >= 2 <=> stdin # <<>>
      BY <2>3
    <3>6. Several' <=> Some
      BY <2>1, <2>3, <3>2, <3>3, <3>5 DEF Some, Several
    <3> QED BY <2>1, <3>1, <3>4, <3>6 DEF Counted
  <2>7. Earlier'
    <3>1. 1..(sequence - 1) \subseteq 1..sequence /\ sequence \in 1..sequence
      BY <2>2
    <3>2. Within(queue, 1..sequence) /\ Within(stdout, 1..sequence)
      BY <2>5, <3>1 DEF Within
    <3>3. Known' = 1..sequence
      BY <2>1 DEF Known
    <3>4. \A i \in 1..Len(stdin') : stdin'[i] \in 1..sequence
      BY <2>3, <2>4, <2>5, <3>1
    <3> QED BY <2>1, <3>2, <3>3, <3>4 DEF Earlier
  <2>8. sequence \notin 1..(sequence - 1)
    BY <2>2
  <2>9. ~ Holds(queue, sequence) /\ ~ Holds(stdout, sequence)
    BY <1>1, <2>5, <2>8, OfLines
  <2>10. LastIn(queue, sequence) /\ LastIn(stdout, sequence)
    BY <1>1, <2>9, OfLines
  <2>11. \A i \in 1..Len(stdin') : stdin'[i] = sequence => i = Len(stdin')
    BY <2>3, <2>4, <2>5, <2>8
  <2>12. Latter'
    BY <2>1, <2>9, <2>10, <2>11 DEF Latter
  <2>13. Own'
    <3> SUFFICES ASSUME ~ missed PROVE Own'
      BY <2>1 DEF Own
    <3>1. ~ One(queue) /\ ~ One(stdout) /\ stdin = <<>>
      BY <1>2, <2>1 DEF Counted, Some
    <3>2. Within(queue, {sequence}) /\ Within(stdout, {sequence})
      BY <1>1, <3>1, OfLines
    <3>3. \A i \in 1..Len(stdin') : stdin'[i] = sequence
      BY <2>3, <3>1
    <3> QED BY <2>1, <3>2, <3>3 DEF Own
  <2> QED BY <2>6, <2>7, <2>12, <2>13 DEF Pipeline
<1>9. CASE Late
  <2>1. UNCHANGED <<queue, stdout, stdin, sequence>> /\ missed' /\ pc = "get"
    BY <1>9 DEF Late, sidecar, thread
  <2>2. pc' \in {"close", "idle", "wait"}
    BY <1>9 DEF Late, Fails, TypeOK
  <2>3. Some'
    BY <1>2, <2>1 DEF Counted, Some
  <2>4. Earlier'
    BY <1>2, <2>1, <2>2 DEF Earlier, Known
  <2> QED BY <2>1, <2>2, <2>3, <2>4 DEF Pipeline, Counted, Latter, Own
<1>10. ASSUME Receive \/ Refuse PROVE Pipeline'
  <2>1. /\ UNCHANGED <<stdout, stdin, sequence>>
        /\ queue # <<>> /\ queue' = Tail(queue) /\ pc = "get"
    BY <1>10 DEF Receive, Refuse, sidecar
  <2>2. pc' \in {"close", "idle", "wait"}
    BY <1>10 DEF Receive, Refuse, Fails, TypeOK
  <2>3. /\ Head(queue) \in Lines /\ queue' \in Seq(Lines)
        /\ One(queue) <=> Response(Head(queue)) \/ One(queue')
        /\ Two(queue) <=> Two(queue') \/ (Response(Head(queue)) /\ One(queue'))
        /\ LastIn(queue, sequence) =>
             ~ (Head(queue) = Answer(sequence) /\ One(queue'))
        /\ Within(queue, Known) => Within(queue', Known)
        /\ Within(queue, {sequence}) =>
             (Head(queue).line = "answer" => Head(queue).id = sequence)
    <3>1. \A R : Within(queue, R) <=>
            Within(queue', R) /\ (Head(queue).line = "answer" => Head(queue).id \in R)
      BY <1>1, <2>1, AtTheHead
    <3>2. /\ Head(queue) \in Lines /\ queue' \in Seq(Lines)
          /\ One(queue) <=> Response(Head(queue)) \/ One(queue')
          /\ Two(queue) <=> Two(queue') \/ (Response(Head(queue)) /\ One(queue'))
      BY <1>1, <2>1, AtTheHead
    <3>3. LastIn(queue, sequence) =>
             ~ (Head(queue) = Answer(sequence) /\ One(queue'))
      BY <1>1, <2>1, AtTheHead
    <3> QED BY <3>1, <3>2, <3>3
  <2>4. Earlier'
    BY <1>2, <2>1, <2>2, <2>3 DEF Earlier, Known
  <2>5. /\ Two(queue') => One(queue')
        /\ Two(stdout) => One(stdout)
        /\ Two(queue) => One(queue)
    BY <1>1, <2>3, OfLines
  <2>6. Some /\ (missed <=> Several)
    BY <1>2, <2>1 DEF Counted
  <2>7. missed' <=> Some'
    <3>1. (One(stdout))' = One(stdout) /\ stdin' = stdin
      BY <2>1
    <3>2. Len(stdin) >= 2 => stdin # <<>>
      BY <1>1
    <3>3. CASE Receive
      <4>1. Head(queue) = Answer(sequence)
        BY <2>3, <3>3 DEF Receive, Accepts, Taken, Lines, Answer, Invalid, Nameless, End
      <4>2. Holds(queue, sequence) /\ Response(Head(queue))
        <5>1. Holds(queue, sequence)
          BY <1>1, <2>1, <4>1, AtTheHead
        <5> QED BY <4>1, <5>1 DEF Response, Answer
      <4>3. ~ One(stdout) /\ stdin = <<>> /\ ~ One(queue')
        BY <1>2, <2>1, <2>3, <4>1, <4>2 DEF Latter
      <4>4. ~ Several
        BY <2>3, <2>5, <3>2, <4>3 DEF Several
      <4>5. ~ Some'
        BY <3>1, <4>3 DEF Some
      <4> QED BY <2>6, <3>3, <4>4, <4>5 DEF Receive
    <3>4. CASE Refuse
      <4>1. missed' <=> missed \/ Head(queue) # Nameless
        BY <1>1, <3>4 DEF Refuse, Taken
      <4>2. CASE missed
        <5>1. Several => Some'
          BY <2>3, <2>5, <3>1, <3>2 DEF Several, Some
        <5> QED BY <2>6, <4>1, <4>2, <5>1
      <4>3. CASE ~ missed /\ Head(queue) = Nameless
        <5>1. Response(Head(queue)) /\ One(queue)
          BY <2>3, <4>3 DEF Response, Nameless
        <5>2. ~ One(queue') /\ ~ One(stdout) /\ stdin = <<>>
          BY <2>3, <2>6, <4>3, <5>1 DEF Several
        <5>3. ~ Some'
          BY <3>1, <5>2 DEF Some
        <5> QED BY <4>1, <4>3, <5>3
      <4>4. CASE ~ missed /\ Head(queue) # Nameless
        <5>1. Head(queue).line # "answer"
          BY <1>2, <2>1, <2>3, <3>4, <4>4 DEF Own, Refuse, Accepts, Taken
        <5>2. ~ Response(Head(queue))
          BY <2>3, <4>4, <5>1 DEF Lines, Response, Invalid, Nameless, End, Answer
        <5>3. One(queue) <=> One(queue')
          BY <2>3, <5>2
        <5>4. Some'
          BY <2>6, <3>1, <5>3 DEF Some
        <5> QED BY <4>1, <4>4, <5>4
      <4> QED BY <4>2, <4>3, <4>4
    <3> QED BY <1>10, <3>3, <3>4
  <2> QED BY <2>2, <2>4, <2>7 DEF Pipeline, Counted, Latter, Own
<1>11. CASE ReadLine
  <2>1. /\ UNCHANGED <<pc, missed, stdin, sequence>>
        /\ stdout # <<>> /\ stdout' = Tail(stdout)
        /\ queue' = Append(queue, Head(stdout))
    BY <1>11 DEF ReadLine, client
  <2> DEFINE h == Head(stdout)
  <2>2. /\ h \in Lines /\ stdout' \in Seq(Lines) /\ queue' \in Seq(Lines)
        /\ One(stdout) <=> Response(h) \/ One(stdout')
        /\ Two(stdout) <=> Two(stdout') \/ (Response(h) /\ One(stdout'))
        /\ Holds(stdout, sequence) <=> h = Answer(sequence) \/ Holds(stdout', sequence)
        /\ LastIn(stdout, sequence) <=>
             LastIn(stdout', sequence) /\ ~ (h = Answer(sequence) /\ One(stdout'))
        /\ \A R : Within(stdout, R) <=>
             Within(stdout', R) /\ (h.line = "answer" => h.id \in R)
    BY <1>1, <2>1, AtTheHead, AtTheEnd
  <2>3. /\ One(queue') <=> One(queue) \/ Response(h)
        /\ Two(queue') <=> Two(queue) \/ (One(queue) /\ Response(h))
        /\ Holds(queue', sequence) <=> Holds(queue, sequence) \/ h = Answer(sequence)
        /\ LastIn(queue', sequence) <=>
             LastIn(queue, sequence) /\ ~ (Holds(queue, sequence) /\ Response(h))
        /\ \A R : Within(queue', R) <=>
             Within(queue, R) /\ (h.line = "answer" => h.id \in R)
    BY <1>1, <2>1, <2>2, AtTheEnd
  <2> HIDE DEF h
  <2>4. /\ Two(queue) => One(queue)
        /\ Two(stdout) => One(stdout)
        /\ Two(stdout') => One(stdout')
    BY <1>1, <2>2, OfLines
  <2>5. Some' <=> Some
    BY <2>1, <2>2, <2>3 DEF Some
  <2>6. Several' <=> Several
    BY <2>1, <2>2, <2>3, <2>4 DEF Several
  <2>7. Counted'
    BY <1>2, <2>1, <2>5, <2>6 DEF Counted
  <2>8. Earlier'
    BY <1>2, <2>1, <2>2, <2>3 DEF Earlier, Known
  <2>9. Latter'
    BY <1>2, <2>1, <2>2, <2>3 DEF Latter
  <2>10. Own'
    BY <1>2, <2>1, <2>2, <2>3 DEF Own
  <2> QED BY <2>7, <2>8, <2>9, <2>10 DEF Pipeline
<1>12. CASE ReadEnd
  <2>1. /\ UNCHANGED <<pc, missed, stdin, stdout, sequence>>
        /\ queue' = Append(queue, End)
    BY <1>12 DEF ReadEnd, client, sidecar
  <2>2. End \in Lines /\ ~ Response(End) /\ End.line # "answer" /\ End # Answer(sequence)
    BY DEF Lines, End, Response, Answer
  <2>3. /\ One(queue') <=> One(queue)
        /\ Two(queue') <=> Two(queue)
        /\ Holds(queue', sequence) <=> Holds(queue, sequence)
        /\ LastIn(queue', sequence) <=> LastIn(queue, sequence)
        /\ \A R : Within(queue', R) <=> Within(queue, R)
    BY <1>1, <2>1, <2>2, AtTheEnd
  <2>4. Counted'
    BY <1>2, <2>1, <2>3 DEF Counted, Some, Several
  <2>5. Earlier'
    BY <1>2, <2>1, <2>3 DEF Earlier, Known
  <2>6. Latter' /\ Own'
    BY <1>2, <2>1, <2>3 DEF Latter, Own
  <2> QED BY <2>4, <2>5, <2>6 DEF Pipeline
<1>13. CASE Chatter
  <2>1. /\ UNCHANGED <<pc, missed, stdin, queue, sequence>>
        /\ stdout' = Append(stdout, Invalid)
    BY <1>13 DEF Chatter, client, thread
  <2>2. /\ Invalid \in Lines /\ ~ Response(Invalid) /\ Invalid.line # "answer"
        /\ Invalid # Answer(sequence)
    BY DEF Lines, Invalid, Response, Answer
  <2>3. /\ One(stdout') <=> One(stdout)
        /\ Two(stdout') <=> Two(stdout)
        /\ Holds(stdout', sequence) <=> Holds(stdout, sequence)
        /\ LastIn(stdout', sequence) <=> LastIn(stdout, sequence)
        /\ \A R : Within(stdout', R) <=> Within(stdout, R)
    BY <1>1, <2>1, <2>2, AtTheEnd
  <2>4. Counted'
    BY <1>2, <2>1, <2>3 DEF Counted, Some, Several
  <2>5. Earlier'
    BY <1>2, <2>1, <2>3 DEF Earlier, Known
  <2>6. Latter' /\ Own'
    BY <1>2, <2>1, <2>3 DEF Latter, Own
  <2> QED BY <2>4, <2>5, <2>6 DEF Pipeline
<1>14. CASE Respond
  <2> DEFINE h == Head(stdin)
  <2>1. /\ UNCHANGED <<pc, missed, queue, sequence>>
        /\ stdin # <<>> /\ stdin' = Tail(stdin)
        /\ stdout' \in {Append(stdout, Answer(h)), Append(stdout, Nameless)}
    BY <1>14 DEF Respond, client, thread
  <2>2. /\ Len(stdin) \in Nat /\ Len(stdin) >= 1 /\ Len(stdin') = Len(stdin) - 1
        /\ h = stdin[1] /\ h \in 1..MaxRequests /\ stdin' \in Seq(1..MaxRequests)
        /\ \A i \in 1..Len(stdin') : i + 1 \in 1..Len(stdin) /\ stdin'[i] = stdin[i + 1]
        /\ stdin' # <<>> <=> Len(stdin) >= 2
        /\ 1 \in 1..Len(stdin)
    <3>1. /\ Len(stdin) \in Nat /\ Len(stdin) >= 1 /\ Len(stdin') = Len(stdin) - 1
          /\ h = stdin[1] /\ stdin' \in Seq(1..MaxRequests)
          /\ \A i \in 1..Len(stdin') : stdin'[i] = stdin[i + 1]
      BY <1>1, <2>1
    <3>2. h \in 1..MaxRequests
      <4>1. \A S : stdin \in Seq(S) => Head(stdin) \in S
        BY <2>1
      <4> QED BY <1>1, <4>1
    <3>3. stdin' # <<>> <=> Len(stdin') >= 1
      BY <3>1
    <3> HIDE DEF h
    <3> QED BY <3>1, <3>2, <3>3
  <2> HIDE DEF h
  <2>3. PICK l \in Lines : stdout' = Append(stdout, l) /\ l \in {Answer(h), Nameless}
    BY <2>1, <2>2 DEF Lines
  <2>4. /\ Response(l) /\ (l = Answer(sequence) => h = sequence)
        /\ (l.line = "answer" => l.id = h)
    BY <2>3 DEF Response, Answer, Nameless
  <2>5. /\ One(stdout')
        /\ Two(stdout') <=> Two(stdout) \/ One(stdout)
        /\ Holds(stdout', sequence) <=> Holds(stdout, sequence) \/ l = Answer(sequence)
        /\ LastIn(stdout', sequence) <=>
             LastIn(stdout, sequence) /\ ~ Holds(stdout, sequence)
        /\ \A R : Within(stdout', R) <=>
             Within(stdout, R) /\ (l.line = "answer" => l.id \in R)
    BY <1>1, <2>3, <2>4, AtTheEnd
  <2>6. /\ Two(queue) => One(queue)
        /\ Two(stdout) => One(stdout)
    BY <1>1, OfLines
  <2>7. Some /\ Some'
    BY <2>1, <2>5 DEF Some
  <2>8. Several' <=> Several
    <3>1. Len(stdin') >= 2 => stdin' # <<>>
      BY <2>2
    <3> QED BY <2>1, <2>2, <2>5, <2>6, <3>1 DEF Several
  <2>9. Counted'
    BY <1>2, <2>1, <2>7, <2>8 DEF Counted
  <2>10. Earlier'
    <3>1. Known' = Known
      BY <2>1 DEF Known
    <3>2. h \in Known
      BY <1>2, <2>2 DEF Earlier
    <3> QED BY <1>2, <2>1, <2>2, <2>4, <2>5, <3>1, <3>2 DEF Earlier
  <2>11. Latter'
    <3> SUFFICES ASSUME pc = "get" PROVE Latter'
      BY <2>1 DEF Latter
    <3>1. ~ Holds(queue, sequence) /\ ~ Holds(stdout, sequence)
      BY <1>2, <2>1 DEF Latter
    <3>2. LastIn(queue, sequence) /\ LastIn(stdout', sequence)
      BY <1>2, <2>5, <3>1 DEF Latter
    <3>3. h = sequence => stdin' = <<>>
      <4>1. h = sequence => 1 = Len(stdin)
        BY <1>2, <2>2 DEF Latter
      <4>2. Len(stdin) = 1 => ~ (Len(stdin) >= 2)
        OBVIOUS
      <4> QED BY <2>2, <4>1, <4>2
    <3>4. \A i \in 1..Len(stdin') : stdin'[i] = sequence => i = Len(stdin')
      <4> SUFFICES ASSUME NEW i \in 1..Len(stdin'), stdin'[i] = sequence
                   PROVE  i = Len(stdin')
        OBVIOUS
      <4>1. i + 1 \in 1..Len(stdin) /\ stdin[i + 1] = sequence
        BY <2>2
      <4>2. i + 1 = Len(stdin)
        BY <1>2, <4>1 DEF Latter
      <4> QED BY <2>2, <4>2
    <3> QED BY <2>1, <2>4, <2>5, <3>1, <3>2, <3>3, <3>4 DEF Latter
  <2>12. Own'
    <3> SUFFICES ASSUME pc = "get", ~ missed PROVE Own'
      BY <2>1 DEF Own
    <3>1. h = sequence /\ \A i \in 1..Len(stdin') : stdin'[i] = sequence
      BY <1>2, <2>2 DEF Own
    <3> QED BY <1>2, <2>1, <2>4, <2>5, <3>1 DEF Own
  <2> QED BY <2>9, <2>10, <2>11, <2>12 DEF Pipeline
<1> QED BY <1>4, <1>5, <1>6, <1>7, <1>8, <1>9, <1>10, <1>11, <1>12, <1>13,
           <1>14 DEF Next, ClientStep

-----------------------------------------------------------------------------
\* Every reachable state satisfies the inductive invariant.
THEOREM Inductive == Spec => []IInv
<1>1. Init => IInv
  <2> SUFFICES ASSUME Init PROVE IInv
    OBVIOUS
  <2>1. TypeOK
    <3>1. 0 \in 0..MaxRequests /\ 0 \in 0..MaxNoise
      BY ClientAssumption
    <3>2. <<>> \in Seq(Lines) /\ <<>> \in Seq(1..MaxRequests)
      OBVIOUS
    <3>3. Init => EndIsLast
      BY DEF Init, EndIsLast
    <3> QED BY <3>1, <3>2, <3>3 DEF Init, TypeOK
  <2>2. Matched /\ CloseEnds /\ Numbered /\ Ended
    BY ClientAssumption DEF Init, Matched, CloseEnds, Numbered, Ended
  <2>3. Pipeline
    BY DEF Init, Pipeline, Counted, Some, One, Earlier, Within, Latter, Own
  <2> QED BY <2>1, <2>2, <2>3 DEF IInv
<1>2. IInv /\ [Next]_vars => IInv'
  BY ClientKept, PipelineKept DEF IInv
<1> QED BY <1>1, <1>2, PTL DEF Spec

\* The values of the client keep their type, and the None of the thread that
\* reads stdout is the last it puts, for any number of requests.
THEOREM TypeCorrect == Spec => []TypeOK
<1>1. IInv => TypeOK
  BY DEF IInv
<1> QED BY <1>1, Inductive, PTL

\* No plan is the answer to another request.
THEOREM NeverMixedUp == Spec => []Matched
<1>1. IInv => Matched
  BY DEF IInv
<1> QED BY <1>1, Inductive, PTL

\* A closed client has seen the sidecar exit or has killed it.
THEOREM CloseIsFinal == Spec => []CloseEnds
<1>1. IInv => CloseEnds
  BY DEF IInv
<1> QED BY <1>1, Inductive, PTL

\* A client that was closed writes no further request.
THEOREM ClosedIsSilent == Spec => SilentAfterClose
<1>1. [Next]_vars => [closed => sequence' = sequence]_vars
  <2> SUFFICES ASSUME Next, closed PROVE sequence' = sequence
    OBVIOUS
  <2>1. CASE Begin
    BY <2>1 DEF Begin, Open
  <2>2. CASE Write \/ BrokenPipe \/ Receive \/ Refuse \/ Late \/ Close \/ Wait
               \/ WaitKilled \/ Finally \/ CloseStdout \/ Plan \/ CallClose
    BY <2>2 DEF Write, BrokenPipe, Receive, Refuse, Late, Close, Wait,
                WaitKilled, Finally, CloseStdout, Plan, CallClose
  <2>3. CASE ReadLine \/ ReadEnd \/ Respond \/ Chatter \/ Exit
    BY <2>3 DEF ReadLine, ReadEnd, Respond, Chatter, Exit, client
  <2> QED BY <2>1, <2>2, <2>3 DEF Next, ClientStep
<1> QED BY <1>1, PTL DEF Spec, SilentAfterClose

\* One request that ended without its line is the last the client ever
\* returned an answer for: a response too many is then under way for ever.
THEOREM OneMissEndsAll == Spec => OneMissIsFinal
<1>1. IInv /\ [Next]_vars => [missed => accepted' = accepted]_vars
  <2> SUFFICES ASSUME IInv, Next, missed PROVE accepted' = accepted
    OBVIOUS
  <2>1. CASE Receive
    <3>1. /\ queue \in Seq(Lines) /\ stdout \in Seq(Lines) /\ sequence \in Nat
          /\ stdin \in Seq(1..MaxRequests)
      BY ClientAssumption DEF IInv, TypeOK
    <3>2. /\ pc = "get" /\ queue # <<>> /\ Head(queue) = Answer(sequence)
      BY <2>1, <3>1
         DEF Receive, Accepts, Taken, Lines, Answer, Invalid, Nameless, End
    <3>3. /\ Holds(queue, sequence) /\ ~ (LastIn(queue, sequence) /\ One(Tail(queue)))
          /\ Two(queue) => Two(Tail(queue)) \/ One(Tail(queue))
          /\ Tail(queue) \in Seq(Lines)
      BY <3>1, <3>2, AtTheHead
    <3>4. /\ ~ One(stdout) /\ stdin = <<>> /\ ~ One(Tail(queue))
      BY <3>2, <3>3 DEF IInv, Pipeline, Latter
    <3>5. ~ Two(Tail(queue)) /\ ~ Two(stdout)
      BY <3>1, <3>3, <3>4, OfLines
    <3>6. ~ Several
      BY <3>3, <3>4, <3>5 DEF Several
    <3> QED BY <3>2, <3>6 DEF IInv, Pipeline, Counted
  <2>2. CASE Begin \/ Write \/ BrokenPipe \/ Refuse \/ Late \/ Close \/ Wait
               \/ WaitKilled \/ Finally \/ CloseStdout \/ Plan \/ CallClose
    BY <2>2 DEF Begin, Write, BrokenPipe, Refuse, Late, Close, Wait,
                WaitKilled, Finally, CloseStdout, Plan, CallClose
  <2>3. CASE ReadLine \/ ReadEnd \/ Respond \/ Chatter \/ Exit
    BY <2>3 DEF ReadLine, ReadEnd, Respond, Chatter, Exit, client
  <2> QED BY <2>1, <2>2, <2>3 DEF Next, ClientStep
<1> QED BY <1>1, Inductive, PTL DEF Spec, OneMissIsFinal

=============================================================================
