--------------------------- MODULE TcpCmdInterface ---------------------------
(***************************************************************************)
(* The telecommand interface of tcp_cmd_interface.cc: the session loop of  *)
(* run_cmd_server, the command handlers it dispatches to through           *)
(* functions_, the control queue they push events on, and the stored time  *)
(* and position that hotstart/warmstart write.                             *)
(*                                                                         *)
(* A client line is a record: the command word and, for hotstart and       *)
(* warmstart, either NoArgs (six tokens missing) or the time and the three  *)
(* position tokens.  A time token is a time or "malformed"; a position     *)
(* token is a number, "nan" (stof returns NaN) or "junk" (stof throws).   *)
(***************************************************************************)
EXTENDS Integers, Sequences

CONSTANTS
    Times,              \* well-formed time tokens
    LatArgs,            \* latitude tokens a client may send
    LonArgs,            \* longitude tokens
    AltArgs,            \* altitude tokens
    UnknownCommands,    \* command words that are not registered
    InboxBound,         \* lines the client leaves unanswered at most
    QueueBound          \* events in the control queue at most

\* The names register_functions() puts in functions_.
Registered == {"status", "standby", "reset", "hotstart", "warmstart",
               "coldstart", "set_ch_satellite"}

\* The arguments of a line with fewer than six tokens.
NoArgs == [full |-> FALSE, time |-> "none", lat |-> "none", lon |-> "none", alt |-> "none"]

StartArgs == {NoArgs} \cup
    [full : {TRUE}, time : Times \cup {"malformed"}, lat : LatArgs, lon : LonArgs, alt : AltArgs]

Lines ==
    [cmd : (Registered \ {"hotstart", "warmstart"}) \cup UnknownCommands \cup {"exit", ""},
     args : {NoArgs}]
    \cup [cmd : {"hotstart", "warmstart"}, args : StartArgs]

VARIABLES
    server,             \* "listening" or "connected" (the accept loop)
    sock,               \* the client side: "none", "connecting", "open",
                        \* "closed" (shut down its end), "reset"
    inbox,              \* lines sent by the client, not yet read
    pending,            \* lines the client has sent and not had answered
    response,           \* the last response written
    functions,          \* the keys of functions_
    control_queue,      \* events pushed to the control thread (what codes)
    control_queue_set,  \* control_queue_ != nullptr
    rx,                 \* rx_latitude_, rx_longitude_, rx_altitude_
    utc                 \* receiver_utc_time_

vars == <<server, sock, inbox, pending, response, functions, control_queue,
          control_queue_set, rx, utc>>

Positions == <<"lat", "lon", "alt">>

-----------------------------------------------------------------------------
(* The command handlers.  Each sets response' and what it changes.        *)

\* Push a command event if the control queue is set: "OK", else "ERROR".
push_event(what) ==
    IF control_queue_set
    THEN control_queue' = Append(control_queue, what) /\ response' = "OK"
    ELSE UNCHANGED control_queue /\ response' = "ERROR"

reset == push_event(1) /\ UNCHANGED <<rx, utc>>
standby == push_event(10) /\ UNCHANGED <<rx, utc>>
coldstart == push_event(11) /\ UNCHANGED <<rx, utc>>

\* status reads the PVT solution only.
status == response' = "STATUS" /\ UNCHANGED <<control_queue, rx, utc>>

set_ch_satellite ==
    response' = "NOT_IMPLEMENTED" /\ UNCHANGED <<control_queue, rx, utc>>

\* Mutation: the position tokens parsed without rejecting junk.
FirstJunk_never(a) == 4

\* The index of the first position token stof rejects (4 if none): the
\* fields before it are stored before the exception leaves the handler.
FirstJunk(a) ==
    LET bad == {i \in 1 .. 3 : a[Positions[i]] = "junk"}
    IN  IF bad = {} THEN 4 ELSE CHOOSE i \in bad : \A j \in bad : i <= j

\* hotstart and warmstart: check the token count and the time, store the
\* time, parse and store latitude, longitude and altitude in turn, then
\* reject a NaN or push the start event.  An exception from stof is answered
\* by run_cmd_server's catch.
start_command(a, what) ==
    IF ~a.full
    THEN response' = "ERROR_USAGE" /\ UNCHANGED <<control_queue, rx, utc>>
    ELSE IF a.time = "malformed"
    THEN response' = "ERROR_TIME" /\ UNCHANGED <<control_queue, rx, utc>>
    ELSE LET j == FirstJunk(a)
         IN  /\ utc' = a.time
             /\ rx' = [f \in {"lat", "lon", "alt"} |->
                         IF \E i \in 1 .. j - 1 : Positions[i] = f
                         THEN a[f] ELSE rx[f]]
             /\ IF j < 4
                THEN response' = "ERROR_EXEC" /\ UNCHANGED control_queue
                ELSE IF "nan" \in {a.lat, a.lon, a.alt}
                THEN response' = "ERROR_POS" /\ UNCHANGED control_queue
                ELSE push_event(what)

hotstart(a) == start_command(a, 12)

\* Mutation: warmstart copied from hotstart with its event code.
warmstart_as_hot(a) == start_command(a, 12)

warmstart(a) == start_command(a, 13)

\* The body of the session loop for one line: empty, exit, a registered
\* command, or an unknown one (functions_[name] inserts an empty function,
\* whose call throws bad_function_call).
dispatch(line) ==
    CASE line.cmd = "" ->
            response' = "ERROR_EMPTY" /\ UNCHANGED <<control_queue, rx, utc, functions>>
      [] line.cmd = "exit" ->
            response' = "OK" /\ UNCHANGED <<control_queue, rx, utc, functions>>
      [] line.cmd \in UnknownCommands ->
            /\ functions' = functions \cup {line.cmd}
            /\ response' = "ERROR_NOT_FOUND"
            /\ UNCHANGED <<control_queue, rx, utc>>
      [] OTHER ->
            /\ UNCHANGED functions
            /\ CASE line.cmd = "status" -> status
                 [] line.cmd = "standby" -> standby
                 [] line.cmd = "reset" -> reset
                 [] line.cmd = "coldstart" -> coldstart
                 [] line.cmd = "set_ch_satellite" -> set_ch_satellite
                 [] line.cmd = "hotstart" -> hotstart(line.args)
                 [] line.cmd = "warmstart" -> warmstart(line.args)

-----------------------------------------------------------------------------
(* run_cmd_server.                                                         *)

\* acceptor.accept: a connection, or an error and the loop continues.
Accept ==
    /\ server = "listening"
    /\ sock = "connecting"
    /\ \/ server' = "connected" /\ sock' = "open"
       \/ sock' = "none" /\ UNCHANGED server
    /\ UNCHANGED <<inbox, pending, response, functions, control_queue,
                   control_queue_set, rx, utc>>

\* The session ends: socket.close(), back to accept.
CloseSession ==
    /\ server' = "listening"
    /\ sock' = "none"
    /\ inbox' = <<>>
    /\ pending' = 0

\* read_until returns the first line and possibly lines after it (k in all);
\* the streambuf holding them is local to the iteration, so only the first
\* line is handled.  The response is written; "exit" ends the session.
ReadLine ==
    /\ server = "connected"
    /\ sock \in {"open", "closed"}
    /\ inbox # <<>>
    /\ \E k \in 1 .. Len(inbox) :
         /\ dispatch(Head(inbox))
         /\ IF Head(inbox).cmd = "exit"
            THEN CloseSession
            ELSE /\ inbox' = SubSeq(inbox, k + 1, Len(inbox))
                 /\ pending' = pending - 1
                 /\ UNCHANGED <<server, sock>>
    /\ UNCHANGED control_queue_set

\* Mutation: the loop does not leave on eof.
ReadEof_stay ==
    /\ server = "connected"
    /\ sock = "closed"
    /\ inbox = <<>>
    /\ response' = "ERROR_EMPTY"
    /\ UNCHANGED <<server, sock, inbox, pending>>
    /\ UNCHANGED <<functions, control_queue, control_queue_set, rx, utc>>

\* The client has shut down its end and everything was read: read_until
\* returns 0 with eof; "ERROR: empty command" is written and the loop ends.
ReadEof ==
    /\ server = "connected"
    /\ sock = "closed"
    /\ inbox = <<>>
    /\ response' = "ERROR_EMPTY"
    /\ CloseSession
    /\ UNCHANGED <<functions, control_queue, control_queue_set, rx, utc>>

\* The connection was reset: the read fails, the write of the response
\* fails, and the loop breaks.
ReadError ==
    /\ server = "connected"
    /\ sock = "reset"
    /\ response' = "ERROR_EMPTY"
    /\ CloseSession
    /\ UNCHANGED <<functions, control_queue, control_queue_set, rx, utc>>

\* set_msg_queue: the control queue becomes available.
set_msg_queue ==
    /\ ~control_queue_set
    /\ control_queue_set' = TRUE
    /\ UNCHANGED <<server, sock, inbox, pending, response, functions,
                   control_queue, rx, utc>>

-----------------------------------------------------------------------------
(* The client and the control thread.                                     *)

Connect ==
    /\ sock = "none"
    /\ sock' = "connecting"
    /\ UNCHANGED <<server, inbox, pending, response, functions, control_queue,
                   control_queue_set, rx, utc>>

Send ==
    /\ sock = "open"
    /\ pending < InboxBound
    /\ Len(control_queue) + Len(inbox) < QueueBound
    /\ \E line \in Lines : inbox' = Append(inbox, line)
    /\ pending' = pending + 1
    /\ UNCHANGED <<server, sock, response, functions, control_queue,
                   control_queue_set, rx, utc>>

Hangup ==
    /\ sock = "open"
    /\ sock' \in {"closed", "reset"}
    /\ inbox' = IF sock' = "reset" THEN <<>> ELSE inbox
    /\ UNCHANGED <<server, pending, response, functions, control_queue,
                   control_queue_set, rx, utc>>

\* The control thread takes the next event.
ControlPop ==
    /\ control_queue # <<>>
    /\ control_queue' = Tail(control_queue)
    /\ UNCHANGED <<server, sock, inbox, pending, response, functions,
                   control_queue_set, rx, utc>>

\* get_utc_time() and get_LLH(): what the control thread reads back.
get_utc_time == utc
get_LLH == <<rx["lat"], rx["lon"], rx["alt"]>>

-----------------------------------------------------------------------------
\* TcpCmdInterface(): position and time zero, functions registered, no queue.
Init ==
    /\ server = "listening"
    /\ sock = "none"
    /\ inbox = <<>>
    /\ pending = 0
    /\ response = "none"
    /\ functions = Registered
    /\ control_queue = <<>>
    /\ control_queue_set = FALSE
    /\ rx = [f \in {"lat", "lon", "alt"} |-> "zero"]
    /\ utc = "zero"

Server == Accept \/ ReadLine \/ ReadEof \/ ReadError

Next ==
    \/ Server \/ set_msg_queue
    \/ Connect \/ Send \/ Hangup \/ ControlPop

\* The server thread runs whenever it can; the client and the control
\* thread need not act.
Spec == Init /\ [][Next]_vars /\ WF_vars(Server)

-----------------------------------------------------------------------------
(* Properties.                                                             *)

\* The values the stored position can hold: zero, a parsed number, NaN.
StoredValues == {"zero"} \cup ((LatArgs \cup LonArgs \cup AltArgs) \ {"junk"})

\* Every variable has its type; in particular a token stof rejects is
\* never stored as a position (hotstart/warmstart).
TypeOK ==
    /\ server \in {"listening", "connected"}
    /\ sock \in {"none", "connecting", "open", "closed", "reset"}
    /\ inbox \in Seq(Lines) /\ Len(inbox) <= InboxBound
    /\ pending \in 0 .. InboxBound
    /\ functions \subseteq Registered \cup UnknownCommands
    /\ control_queue \in Seq({1, 10, 11, 12, 13})
    /\ control_queue_set \in BOOLEAN
    /\ rx \in [{"lat", "lon", "alt"} -> StoredValues]
    /\ utc \in {"zero"} \cup Times

\* The event each command is documented to push (the comments at the
\* command_event_make calls of reset, standby, coldstart, hotstart and
\* warmstart).
CommandEvent == [reset |-> 1, standby |-> 10, coldstart |-> 11,
                 hotstart |-> 12, warmstart |-> 13]

\* A line answered "OK" (other than exit) has pushed exactly one event, and
\* an event is pushed only for a line answered "OK", with the code of the
\* command on that line: the client's "OK" is the receiver's commitment.
EventOnlyForAcceptedCommand ==
    [][ReadLine =>
         /\ (response' = "OK" /\ Head(inbox).cmd # "exit")
               => Len(control_queue') = Len(control_queue) + 1
         /\ control_queue' # control_queue =>
               /\ response' = "OK"
               /\ Head(inbox).cmd \in DOMAIN CommandEvent
               /\ control_queue' = Append(control_queue, CommandEvent[Head(inbox).cmd])
      ]_vars

\* A command the interface rejects (any response but "OK") leaves the
\* receiver time and position that get_utc_time/get_LLH report unchanged
\* (hotstart/warmstart).
RejectedCommandLeavesStateUnchanged ==
    [][ReadLine /\ response' # "OK" =>
          get_utc_time' = get_utc_time /\ get_LLH' = get_LLH]_vars

\* Every line the client sends on a live connection is either still to be
\* read or has been answered (run_cmd_server's read loop).
EveryLineAnswered ==
    (server = "connected" /\ sock \in {"open", "closed"}) => pending = Len(inbox)

\* Once the client closes or resets the connection, the session ends and
\* the server accepts again (the do ... while (error != eof) loop).
SessionEnds == \A s \in {"closed", "reset"} : (sock = s) ~> (server = "listening")
=============================================================================
