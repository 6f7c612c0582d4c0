------------------------------ MODULE McpStdio ------------------------------
(***************************************************************************)
(* The stdio transport of the MCP client (mcp/transport_stdio.py): threads *)
(* of the agent send requests to a server process over its stdin, one      *)
(* reader thread takes what comes back on its stdout and hands each answer *)
(* to the thread that waits for it.                                        *)
(*                                                                         *)
(* An answer goes through three stages: the reader tells the waiter that   *)
(* it was observed, holds it back (deferred) until stdout has been quiet,  *)
(* and then releases it.  Both the reader and the waiter may give up on    *)
(* it, each by its own clock; an answer that comes after that is dropped.  *)
(*                                                                         *)
(* Time is left out: a deadline may pass, and stdout may have been quiet,  *)
(* whenever the code looks.  So are the content of messages, stderr, and   *)
(* notifications, which the reader only puts into a queue.                 *)
(***************************************************************************)
EXTENDS Integers, Sequences, FiniteSets, SequencesExt

CONSTANTS
    Thread,       \* those that call request()
    MaxRequests,  \* bound: the requests of a behaviour
    MaxDeeds,     \* bound: how many of the things in Conduct it does, once each
    Retain,       \* _RETIRED_REQUEST_STATE_RETENTION_LIMIT
    StdinRoom,    \* what the pipe to the server holds, in messages
    StdoutRoom,   \* what the pipe from the server holds
    Conduct       \* what the server may do beyond answering

\* It may answer what it should not, send requests of its own, write what is not
\* JSON-RPC, and end.
AllConduct == {"strays", "asks", "garbles", "exits"}

ASSUME McpAssumption ==
    /\ MaxRequests \in Nat
    /\ MaxDeeds \in Nat
    /\ Retain \in Nat
    /\ StdinRoom \in Nat \ {0}
    /\ StdoutRoom \in Nat \ {0}
    /\ Conduct \subseteq AllConduct

Id == 1 .. MaxRequests      \* JsonRpcIdGenerator counts up and uses no id twice

\* _REQUEST_STATES_DISCARD_LATE_RESPONSES.
Discard == {"response_timed_out", "follow_up_timed_out", "cancelled"}
RequestState == Discard \cup {"none", "awaiting_response", "awaiting_follow_up"}

\* What a waiter may find in its queue: _ObservedResponse, _QueuedResponse,
\* _DeferredResponseFollowUpTimeout and _FatalTransportState.
Item == {"observed", "answer", "follow_up_timeout", "fatal"}

\* What the server writes: the answer to a request (its id), a request of its
\* own, or a line that is not JSON-RPC.
Ask == 0
Garbage == -1
Reply == 0                  \* on stdin: the answer to such a request
Output == Id \cup {Ask, Garbage}

VARIABLES
    \* The requesting threads.
    at,         \* where each one is in request()
    mine,       \* its request_id
    queue,      \* its response_queue
    seen,       \* its observed_response
    \* The transport.
    issued,     \* how many ids were given out
    pending,    \* the ids in _pending (the queue is that of the thread whose id it is)
    states,     \* _request_states, "none" where it has no entry
    retired,    \* _retired_request_state_ids
    fatal,      \* _fatal_state: why the connection is dead
    closing,    \* how far close() has come
    \* The reader thread.
    reader,     \* where it is
    deferred,   \* deferred_responses, in the order of the dict
    telling,    \* the requests whose queue is still to get the fatal state
    \* The server and the pipes.
    server, stdin, stdout,
    todo,       \* the requests it has read and not answered
    deeds       \* what of Conduct it has done

threadVars == <<at, mine, queue, seen>>
tableVars == <<issued, pending, states, retired>>
readerVars == <<reader, deferred, telling>>
serverVars == <<server, stdin, stdout, todo, deeds>>
vars == <<threadVars, tableVars, fatal, closing, readerVars, serverVars>>

TypeOK ==
    /\ at \in [Thread -> {"idle", "begun", "write", "wait", "retire", "check"}]
    /\ mine \in [Thread -> 0 .. MaxRequests]
    /\ queue \in [Thread -> Seq(Item)]
    /\ seen \in [Thread -> BOOLEAN]
    /\ issued \in 0 .. MaxRequests
    /\ pending \subseteq Id
    /\ states \in [Id -> RequestState]
    /\ retired \in Seq(Id)
    /\ Len(retired) <= Retain
    /\ fatal \in {"none", "stray", "refused", "malformed", "ended"}
    /\ closing \in {"open", "flagged", "cleared", "stdin", "closed"}
    /\ reader \in {"loop", "stray", "malformed", "answering", "refusing", "refused",
                   "ended", "done"}
    /\ deferred \in Seq(Id)
    /\ telling \subseteq Id
    /\ server \in {"up", "gone"}
    /\ stdin \in Seq(Id \cup {Reply})
    /\ stdout \in Seq(Output)
    /\ todo \subseteq Id
    /\ deeds \subseteq AllConduct

Init ==
    /\ at = [c \in Thread |-> "idle"]
    /\ mine = [c \in Thread |-> 0]
    /\ queue = [c \in Thread |-> <<>>]
    /\ seen = [c \in Thread |-> FALSE]
    /\ issued = 0
    /\ pending = {}
    /\ states = [i \in Id |-> "none"]
    /\ retired = <<>>
    /\ fatal = "none"
    /\ closing = "open"
    /\ reader = "loop"
    /\ deferred = <<>>
    /\ telling = {}
    /\ server = "up"
    /\ stdin = <<>>
    /\ stdout = <<>>
    /\ todo = {}
    /\ deeds = {}

-----------------------------------------------------------------------------
\* Helpers.

\* The queue of each request of `ids` gets `item`, if a thread still has it.
Put(ids, item) == [c \in Thread |-> IF mine[c] \in ids THEN Append(queue[c], item) ELSE queue[c]]

\* Mutant of SetStates: the retired requests are never forgotten.
SetStatesForGood(over, state, done) ==
    /\ retired' = retired \o over
    /\ states' = [i \in Id |-> CASE i \in done -> "none"
                                [] i \in ToSet(over) -> state
                                [] OTHER -> states[i]]

\* _set_request_state_locked: the requests `over` end in a state of Discard, in
\* this order, and the oldest retired ones are forgotten beyond Retain; the
\* requests `done` are completed, which leaves no entry.
SetStates(over, state, done) ==
    LET all == retired \o over
        extra == IF Len(all) > Retain THEN Len(all) - Retain ELSE 0
        gone == done \cup ToSet(SubSeq(all, 1, extra))
        marked(i) == IF i \in ToSet(over) THEN state ELSE states[i]
    IN  /\ retired' = SubSeq(all, extra + 1, Len(all))
        /\ states' = [i \in Id |-> IF i \in gone /\ (i \in done \/ marked(i) \in Discard)
                                     THEN "none" ELSE marked(i)]

\* The list of S in which the members come in the order of s.
InOrderOf(s, S) ==
    {r \in [1 .. Cardinality(S) -> S] :
       /\ ToSet(r) = S
       /\ \A i, j \in DOMAIN r : i < j =>
            \E k, l \in DOMAIN s : k < l /\ s[k] = r[i] /\ s[l] = r[j]}

Broken == server = "gone" \/ closing \in {"stdin", "closed"}
Writable == ~Broken /\ Len(stdin) < StdinRoom

\* The server ends: what it has not read is lost, what it has written is not.
Dies == server' = "gone" /\ stdin' = <<>> /\ todo' = {}

\* request() ends in thread c, with an answer or an exception.
Leave(c) ==
    /\ at' = [at EXCEPT ![c] = "idle"]
    /\ mine' = [mine EXCEPT ![c] = 0]
    /\ queue' = [queue EXCEPT ![c] = <<>>]
    /\ seen' = [seen EXCEPT ![c] = FALSE]

-----------------------------------------------------------------------------
\* request(), by thread c.

\* start() and _raise_if_fatal() find nothing wrong.
Call(c) ==
    /\ at[c] = "idle"
    /\ issued < MaxRequests
    /\ fatal = "none"
    /\ at' = [at EXCEPT ![c] = "begun"]
    /\ UNCHANGED <<mine, queue, seen, tableVars, fatal, closing, readerVars, serverVars>>

\* A new id, and the request enters the tables.
Register(c) ==
    /\ at[c] = "begun"
    /\ issued < MaxRequests
    /\ issued' = issued + 1
    /\ mine' = [mine EXCEPT ![c] = issued + 1]
    /\ pending' = pending \cup {issued + 1}
    /\ states' = [states EXCEPT ![issued + 1] = "awaiting_response"]
    /\ at' = [at EXCEPT ![c] = "write"]
    /\ UNCHANGED <<queue, seen, retired, fatal, closing, readerVars, serverVars>>

\* _send_serialized: it waits for room in the pipe as long as it takes.
Write(c) ==
    /\ at[c] = "write"
    /\ Writable
    /\ stdin' = Append(stdin, mine[c])
    /\ at' = [at EXCEPT ![c] = "wait"]
    /\ UNCHANGED <<mine, queue, seen, tableVars, fatal, closing, readerVars, server, stdout,
                   todo, deeds>>

WriteFails(c) ==
    /\ at[c] = "write"
    /\ Broken
    /\ pending' = pending \ {mine[c]}
    /\ SetStates(<<mine[c]>>, "cancelled", {})
    /\ Leave(c)
    /\ UNCHANGED <<issued, fatal, closing, readerVars, serverVars>>

\* The answer was observed: the deadline is now that of the follow-up.
GetObserved(c) ==
    /\ at[c] = "wait"
    /\ queue[c] # <<>>
    /\ Head(queue[c]) = "observed"
    /\ queue' = [queue EXCEPT ![c] = Tail(@)]
    /\ seen' = [seen EXCEPT ![c] = TRUE]
    /\ UNCHANGED <<at, mine, tableVars, fatal, closing, readerVars, serverVars>>

\* The answer itself; the last _raise_if_fatal is still to come.
GetAnswer(c) ==
    /\ at[c] = "wait"
    /\ queue[c] # <<>>
    /\ Head(queue[c]) = "answer"
    /\ queue' = [queue EXCEPT ![c] = Tail(@)]
    /\ at' = [at EXCEPT ![c] = "check"]
    /\ UNCHANGED <<mine, seen, tableVars, fatal, closing, readerVars, serverVars>>

\* The reader gave up, or the connection is dead.
GetFailure(c) ==
    /\ at[c] = "wait"
    /\ queue[c] # <<>>
    /\ Head(queue[c]) \in {"follow_up_timeout", "fatal"}
    /\ Leave(c)
    /\ UNCHANGED <<tableVars, fatal, closing, readerVars, serverVars>>

\* It returns the answer, or raises what killed the connection in the meantime.
Return(c) ==
    /\ at[c] = "check"
    /\ Leave(c)
    /\ UNCHANGED <<tableVars, fatal, closing, readerVars, serverVars>>

\* The deadline has passed and get_nowait finds nothing.
Expire(c) ==
    /\ at[c] = "wait"
    /\ queue[c] = <<>>
    /\ at' = [at EXCEPT ![c] = "retire"]
    /\ UNCHANGED <<mine, queue, seen, tableVars, fatal, closing, readerVars, serverVars>>

\* _retire_request_on_timeout.  An answer released since get_nowait is lost.
Retire(c) ==
    /\ at[c] = "retire"
    /\ pending' = pending \ {mine[c]}
    /\ SetStates(<<mine[c]>>,
                 IF seen[c] \/ states[mine[c]] = "awaiting_follow_up"
                   THEN "follow_up_timed_out" ELSE "response_timed_out", {})
    /\ Leave(c)
    /\ UNCHANGED <<issued, fatal, closing, readerVars, serverVars>>

-----------------------------------------------------------------------------
\* The reader thread.

\* Between two messages, with a stdout to read from.
Reading == reader = "loop" /\ telling = {} /\ closing # "closed"
Reads(kind) == Reading /\ stdout # <<>> /\ Head(stdout) \in kind /\ stdout' = Tail(stdout)

\* _handle_response_message: the first answer to an open request is observed,
\* an answer to one that is over is dropped, any other kills the connection.
First(i) == i \notin ToSet(deferred) /\ i \in pending /\ states[i] = "awaiting_response"
Late(i) == i \notin ToSet(deferred) /\ states[i] \in Discard

Observe(i) ==
    /\ queue' = Put({i}, "observed")
    /\ states' = [states EXCEPT ![i] = "awaiting_follow_up"]
    /\ deferred' = Append(deferred, i)

ReadAnswer ==
    /\ Reads(Id)
    /\ LET i == Head(stdout)
       IN  \/ First(i) /\ Observe(i) /\ UNCHANGED <<pending, reader>>
           \/ Late(i) /\ pending' = pending \ {i} /\ UNCHANGED <<queue, states, deferred, reader>>
           \/ ~First(i) /\ ~Late(i) /\ reader' = "stray"
              /\ UNCHANGED <<queue, pending, states, deferred>>
    /\ UNCHANGED <<at, mine, seen, issued, retired, fatal, closing, telling, server, stdin, todo,
                   deeds>>

\* _handle_server_request_message: the handler has a result, or refuses.
ReadAsk ==
    /\ Reads({Ask})
    /\ reader' \in {"answering", "refusing"}
    /\ UNCHANGED <<threadVars, tableVars, fatal, closing, deferred, telling, server, stdin, todo,
                   deeds>>

\* The reader writes the reply itself, and reads nothing until it is through.
SendReply ==
    /\ reader \in {"answering", "refusing"}
    /\ Writable \/ Broken
    /\ stdin' = IF Writable THEN Append(stdin, Reply) ELSE stdin
    /\ reader' = IF reader = "answering" /\ Writable THEN "loop" ELSE "refused"
    /\ UNCHANGED <<threadVars, tableVars, fatal, closing, deferred, telling, server, stdout,
                   todo, deeds>>

\* A line that cannot be parsed ends the reader.
ReadGarbage ==
    /\ Reads({Garbage})
    /\ reader' = "malformed"
    /\ UNCHANGED <<threadVars, tableVars, fatal, closing, deferred, telling, server, stdin, todo,
                   deeds>>

\* _flush_deferred_responses, when the first n answers are over their follow-up
\* budget (they came in the order in which their budgets end): these requests
\* time out, and if stdout was quiet the others are released.  An id that is no
\* longer known stops it.
Held(i) == i \in pending /\ states[i] = "awaiting_follow_up"
\* Mutant of Unknown: the waiter may not have given up in the meantime.
UnknownUnlessHeld(i) == ~Held(i)

Unknown(i) == ~Held(i) /\ states[i] \notin Discard

Flush ==
    /\ Reading
    /\ fatal = "none"
    /\ \E n \in 0 .. Len(deferred), quiet \in BOOLEAN :
         LET due == IF quiet THEN Len(deferred) ELSE n
             settled == {k \in 1 .. due : \A j \in 1 .. k : ~Unknown(deferred[j])}
             held == {k \in settled : Held(deferred[k])}
             expired == {deferred[k] : k \in held \cap (1 .. n)}
             released == {deferred[k] : k \in held \ (1 .. n)}
         IN  /\ due > 0
             /\ queue' = [c \in Thread |->
                            CASE mine[c] \in expired -> Append(queue[c], "follow_up_timeout")
                              [] mine[c] \in released -> Append(queue[c], "answer")
                              [] OTHER -> queue[c]]
             /\ pending' = pending \ {deferred[k] : k \in settled}
             /\ \E over \in InOrderOf(deferred, expired) :
                  SetStates(over, "follow_up_timed_out", released)
             /\ IF settled = 1 .. due
                  THEN /\ deferred' = SubSeq(deferred, due + 1, Len(deferred))
                       /\ UNCHANGED reader
                  ELSE /\ reader' = "stray"
                       /\ UNCHANGED deferred
    /\ UNCHANGED <<at, mine, seen, issued, fatal, closing, telling, serverVars>>

\* stdout is at its end, or close() has closed it.
ReadEnd ==
    /\ reader = "loop"
    /\ telling = {}
    /\ closing = "closed" \/ (server = "gone" /\ stdout = <<>>)
    /\ reader' = "ended"
    /\ UNCHANGED <<threadVars, tableVars, fatal, closing, deferred, telling, serverVars>>

\* Mutant of Condemn: the table is emptied before the queues are taken from it.
CondemnTheEmptied ==
    /\ \/ reader \in {"stray", "refused", "malformed"}
       \/ reader = "ended" /\ closing = "open"
    /\ reader' = IF reader \in {"stray", "refused"} THEN "loop" ELSE "done"
    /\ fatal' = IF fatal = "none" THEN reader ELSE fatal
    /\ pending' = IF fatal = "none" THEN {} ELSE pending
    /\ UNCHANGED <<threadVars, issued, states, retired, closing, deferred, telling, serverVars>>

\* _set_fatal_error: the first reason stays, and the open requests are to be told.
Condemn ==
    /\ \/ reader \in {"stray", "refused", "malformed"}
       \/ reader = "ended" /\ closing = "open"
    /\ reader' = IF reader \in {"stray", "refused"} THEN "loop" ELSE "done"
    /\ fatal' = IF fatal = "none" THEN reader ELSE fatal
    /\ telling' = IF fatal = "none" THEN pending ELSE {}
    /\ pending' = IF fatal = "none" THEN {} ELSE pending
    /\ UNCHANGED <<threadVars, issued, states, retired, closing, deferred, serverVars>>

\* The last part of _set_fatal_error, one queue after the other.
Tell ==
    /\ \E i \in telling :
         /\ queue' = Put({i}, "fatal")
         /\ telling' = telling \ {i}
    /\ UNCHANGED <<at, mine, seen, tableVars, fatal, closing, reader, deferred, serverVars>>

\* Mutant of EndQuietly: the end of stdout is never a failure.
EndQuietlyAlways ==
    /\ reader = "ended"
    /\ reader' = "done"
    /\ UNCHANGED <<threadVars, tableVars, fatal, closing, deferred, telling, serverVars>>

\* The end of stdout is no failure when close() brought it about.
EndQuietly ==
    /\ reader = "ended"
    /\ closing # "open"
    /\ reader' = "done"
    /\ UNCHANGED <<threadVars, tableVars, fatal, closing, deferred, telling, serverVars>>

-----------------------------------------------------------------------------
\* close(): it sets its flags, empties the tables, closes stdin, and ends the
\* process (by waiting, terminate() or kill()) before it closes the streams.

CloseStep(from, to) ==
    /\ closing = from
    /\ closing' = to
    /\ UNCHANGED <<threadVars, issued, fatal, readerVars, stdout, deeds>>

CloseFlags ==
    CloseStep("open", "flagged") /\ UNCHANGED <<pending, states, retired, server, stdin, todo>>
CloseTables ==
    /\ CloseStep("flagged", "cleared")
    /\ pending' = {}
    /\ states' = [i \in Id |-> "none"]
    /\ retired' = <<>>
    /\ UNCHANGED <<server, stdin, todo>>
CloseStdin ==
    CloseStep("cleared", "stdin") /\ UNCHANGED <<pending, states, retired, server, stdin, todo>>
CloseProcess ==
    /\ CloseStep("stdin", "closed")
    /\ Dies
    /\ UNCHANGED <<pending, states, retired>>

-----------------------------------------------------------------------------
\* The server.

Serving ==
    /\ server = "up"
    /\ UNCHANGED <<threadVars, tableVars, fatal, closing, readerVars>>

ServerWrites(message) ==
    /\ Len(stdout) < StdoutRoom
    /\ stdout' = Append(stdout, message)
    /\ UNCHANGED <<server, stdin>>

Does(deed) ==
    /\ deed \in Conduct \ deeds
    /\ Cardinality(deeds) < MaxDeeds
    /\ deeds' = deeds \cup {deed}

ServerTakes ==
    /\ Serving
    /\ stdin # <<>>
    /\ stdin' = Tail(stdin)
    /\ todo' = todo \cup ({Head(stdin)} \cap Id)
    /\ UNCHANGED <<server, stdout, deeds>>

\* In any order, and as late as it likes.
ServerAnswers ==
    /\ Serving
    /\ \E i \in todo : ServerWrites(i) /\ todo' = todo \ {i}
    /\ UNCHANGED deeds

\* An answer to a request that it has answered, or not read, or that is none.
ServerStrays ==
    /\ Serving
    /\ Does("strays")
    /\ \E i \in Id \ todo : ServerWrites(i)
    /\ UNCHANGED todo

ServerAsks == Serving /\ Does("asks") /\ ServerWrites(Ask) /\ UNCHANGED todo
ServerGarbles == Serving /\ Does("garbles") /\ ServerWrites(Garbage) /\ UNCHANGED todo

ServerExits == Serving /\ Does("exits") /\ Dies /\ UNCHANGED stdout

-----------------------------------------------------------------------------
Gets(c) == GetObserved(c) \/ GetAnswer(c) \/ GetFailure(c)
Requests(c) ==
    Call(c) \/ Register(c) \/ Write(c) \/ WriteFails(c) \/ Gets(c) \/ Return(c) \/ Expire(c) \/ Retire(c)
Reader ==
    \/ ReadAnswer \/ ReadAsk \/ SendReply \/ ReadGarbage \/ Flush
    \/ ReadEnd \/ Condemn \/ Tell \/ EndQuietly
Closes == CloseFlags \/ CloseTables \/ CloseStdin \/ CloseProcess
Server ==
    \/ ServerTakes \/ ServerAnswers \/ ServerStrays \/ ServerAsks \/ ServerGarbles \/ ServerExits

Next == (\E c \in Thread : Requests(c)) \/ Reader \/ Closes \/ Server

\* Threads run; deadlines need not pass, and the server need not do anything.
Fairness == WF_vars(Reader) /\ \A c \in Thread : WF_vars(Gets(c))

Spec == Init /\ [][Next]_vars /\ Fairness

-----------------------------------------------------------------------------
\* Properties.

\* A server that answers each request at most once, however late and in
\* whatever order, is never accused of a stray answer: no interleaving of a
\* waiter that gives up, the reader that holds its answer back and the flush
\* that drops it makes a late answer kill the connection for everybody.
LateAnswersTolerated == fatal = "stray" => "strays" \in deeds \/ closing # "open"

\* Unless the transport is being closed, a thread that waits is in the tables,
\* has what ends its wait in its queue, or is about to be told that the
\* connection is dead; and an answer that was observed is in the hands of the
\* reader as long as this one can release it.
NobodyForgotten ==
    closing \in {"open", "flagged"} =>
        \A c \in Thread : at[c] = "wait" =>
            /\ \/ mine[c] \in pending \cup telling
               \/ ToSet(queue[c]) \cap {"answer", "follow_up_timeout", "fatal"} # {}
            /\ fatal = "none" /\ Held(mine[c]) => mine[c] \in ToSet(deferred)

\* When the server dies, each request that waits for it ends before its
\* deadline (test_stdio_client_fails_promptly_when_subprocess_crashes_mid_call).
ExitIsTold ==
    (server = "gone" /\ fatal = "none" /\ closing = "open")
        ~> (closing # "open" \/ \A c \in Thread : at[c] # "wait")
=============================================================================
