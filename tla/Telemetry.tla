----------------------------- MODULE Telemetry -----------------------------
(***************************************************************************)
(* The telemetry link: once a second the meter sends a text message over   *)
(* TCP (send_data of main.cpp); the datalogger accepts the connection and  *)
(* gives it a thread, which appends a row to site_meter.dat for every      *)
(* input it understands (datalogger.py).                                   *)
(*                                                                         *)
(* TCP delivers bytes, not messages, and nothing marks the end of one.  A  *)
(* message is represented by four pieces, named for where an input that    *)
(* ends behind them ends, which is all that process_input distinguishes:   *)
(*   1  in a label ("$bbb")                   3  in the last value         *)
(*   2  behind a value that is not the last   4  at the end                *)
(* recv(500) returns at most a message (387 to 441 bytes) and the first    *)
(* two pieces of the next.                                                 *)
(*                                                                         *)
(* A connection stands for the meter process that opened it.               *)
(***************************************************************************)
EXTENDS Integers, Sequences, FiniteSetsExt

CONSTANTS MaxConns,     \* bound on connections
          MaxMsgs,      \* bound on the messages of all connections
          MaxRecv,      \* max_buffer_size, in pieces
          SockBuf       \* socket buffers between the two ends, in pieces

ASSUME TelemetryAssumption ==
    /\ MaxConns \in Nat \ {0} /\ MaxMsgs \in Nat /\ MaxRecv \in Nat \ {0}
    /\ SockBuf \in Nat

Conns == 1 .. MaxConns
Pieces == 1 .. 4

VARIABLES
  link,        \* state of a connection, seen from the meter
  sent,        \* messages the meter has sent on it
  wire,        \* pieces on their way, each with the number of its message
  evt_exit,    \* the operator has typed "exit"
  server,      \* start_server: "accept" or "ended"
  accepted,    \* the socket start_server's variable connection refers to
  thread,      \* where the client_thread of a connection is
  input,       \* what receive_input has returned
  f,           \* f is not None
  file,        \* rows of site_meter.dat
  split        \* history: some input was not exactly one message

meterVars == <<link, sent>>
loggerVars == <<server, accepted, evt_exit>>
telVars == <<meterVars, wire, loggerVars, thread, input, f, file, split>>

Inputs == [msg : Nat, how : {"whole", "cut", "glued", "missing"}]
Rows == [conn : Conns, msg : Nat, how : {"whole", "cut", "glued"}]
None == [msg |-> 0, how |-> "whole"]

(* Every variable keeps its type. *)
TelTypeOK ==
    /\ link \in [Conns -> {"none", "up", "fin", "silent", "closed", "reset", "killed"}]
    /\ sent \in [Conns -> Nat]
    /\ wire \in [Conns -> Seq(Nat \X Pieces)]
    /\ \A c \in Conns : Len(wire[c]) <= SockBuf
    /\ evt_exit \in BOOLEAN /\ split \in BOOLEAN
    /\ server \in {"accept", "ended"} /\ accepted \in 0 .. MaxConns
    /\ thread \in [Conns -> {"none", "check", "recv", "open", "truncated",
                             "append", "closing", "ended", "died"}]
    /\ input \in [Conns -> Inputs]
    /\ f \in [Conns -> BOOLEAN]
    /\ file \in Seq(Rows)

TelInit ==
    /\ link = [c \in Conns |-> "none"] /\ sent = [c \in Conns |-> 0]
    /\ wire = [c \in Conns |-> <<>>]
    /\ evt_exit = FALSE /\ server = "accept" /\ accepted = 0
    /\ thread = [c \in Conns |-> "none"]
    /\ input = [c \in Conns |-> None]
    /\ f = [c \in Conns |-> FALSE]
    /\ file = <<>> /\ split = FALSE

-----------------------------------------------------------------------------
(* The meter                                                               *)

Alive(c) == link[c] \in {"up", "closed", "reset"}

(* A meter process connects; it is the only one. *)
Meter_Connect(c) ==
    /\ server = "accept"
    /\ link[c] = "none" /\ \A d \in Conns : d < c => link[d] # "none" /\ ~Alive(d)
    /\ link' = [link EXCEPT ![c] = "up"]
    /\ UNCHANGED <<sent, wire, loggerVars, thread, input, f, file, split>>

(* Slip: a message is sent although it does not fit the buffers. *)
Full_Meter_Send(c) ==
    /\ MapThenSumSet(LAMBDA d : sent[d], Conns) < MaxMsgs
    /\ link[c] = "up"
    /\ wire' = [wire EXCEPT ![c] = @ \o [p \in Pieces |-> <<sent[c] + 1, p>>]]
    /\ sent' = [sent EXCEPT ![c] = @ + 1]
    /\ UNCHANGED <<link, loggerVars, thread, input, f, file, split>>

(* send_data.  With full buffers send() blocks.  On a connection the       *)
(* logger has closed, the first message draws a reset and the next one     *)
(* SIGPIPE: MSG_NOSIGNAL is not given and nobody handles the signal.       *)
Meter_Send(c) ==
    /\ MapThenSumSet(LAMBDA d : sent[d], Conns) < MaxMsgs
    /\ \/ /\ link[c] = "up" /\ Len(wire[c]) + 4 <= SockBuf
          /\ wire' = [wire EXCEPT ![c] = @ \o [p \in Pieces |-> <<sent[c] + 1, p>>]]
          /\ UNCHANGED link
       \/ /\ link[c] = "closed"
          /\ link' = [link EXCEPT ![c] = "reset"]
          /\ UNCHANGED wire
       \/ /\ link[c] = "reset"
          /\ link' = [link EXCEPT ![c] = "killed"]
          /\ UNCHANGED wire
    /\ sent' = [sent EXCEPT ![c] = @ + 1]
    /\ UNCHANGED <<loggerVars, thread, input, f, file, split>>

(* The process ends (FIN), or the board loses power (nothing). *)
Meter_Stops(c) ==
    /\ Alive(c)
    /\ link' = [link EXCEPT ![c] = IF @ = "up" THEN "fin" ELSE "killed"]
    /\ UNCHANGED <<sent, wire, loggerVars, thread, input, f, file, split>>

Meter_PowerFails(c) ==
    /\ Alive(c)
    /\ link' = [link EXCEPT ![c] = "silent"]
    /\ UNCHANGED <<sent, wire, loggerVars, thread, input, f, file, split>>

-----------------------------------------------------------------------------
(* The datalogger                                                          *)

(* The logger's end of a connection is closed. *)
Closed(c) == IF link[c] = "up" THEN "closed" ELSE link[c]

User_Exit ==
    /\ evt_exit = FALSE
    /\ evt_exit' = TRUE
    /\ UNCHANGED <<meterVars, wire, server, accepted, thread, input, f, file, split>>

(* start_server: a connection gets its thread.  The variable connection    *)
(* now refers to it; a socket whose thread has died is collected.          *)
Server_Accept(c) ==
    /\ server = "accept" /\ ~evt_exit
    /\ link[c] # "none" /\ thread[c] = "none"
    /\ \A d \in Conns : d < c => thread[d] # "none"
    /\ thread' = [thread EXCEPT ![c] = "check"]
    /\ accepted' = c
    /\ link' = [d \in Conns |->
                  IF d = accepted /\ thread[d] = "died" THEN Closed(d) ELSE link[d]]
    /\ UNCHANGED <<sent, wire, server, evt_exit, input, f, file, split>>

(* start_server leaves its loop: what was not accepted is reset, and the   *)
(* last socket of a dead thread is collected.                              *)
Server_Exit ==
    /\ server = "accept" /\ evt_exit
    /\ server' = "ended" /\ accepted' = 0
    /\ link' = [d \in Conns |->
                  IF \/ thread[d] = "none"
                     \/ d = accepted /\ thread[d] = "died"
                    THEN Closed(d) ELSE link[d]]
    /\ UNCHANGED <<sent, wire, evt_exit, thread, input, f, file, split>>

(* Slip: the exit event is not looked at. *)
Deaf_Thread_Check(c) ==
    /\ thread[c] = "check"
    /\ thread' = [thread EXCEPT ![c] = "recv"]
    /\ UNCHANGED <<meterVars, wire, loggerVars, input, f, file, split>>

(* while not ev_exit.is_set() *)
Thread_Check(c) ==
    /\ thread[c] = "check"
    /\ thread' = [thread EXCEPT ![c] = IF evt_exit THEN "closing" ELSE "recv"]
    /\ UNCHANGED <<meterVars, wire, loggerVars, input, f, file, split>>

(* What process_input makes of an input of pieces. *)
How(chunk) ==
    LET first == chunk[1]
        last == chunk[Len(chunk)]
    IN  IF first[2] # 1 THEN "none"                              \* no '$'
        ELSE CASE first[1] = last[1] /\ last[2] = 1 -> "none"    \* no ':'
               [] first[1] = last[1] /\ last[2] = 2 -> "missing" \* columns
               [] first[1] = last[1] /\ last[2] = 3 -> "cut"
               [] first[1] = last[1] /\ last[2] = 4 -> "whole"
               [] first[1] # last[1] /\ last[2] = 1 -> "glued"   \* "0.98$bbb"
               [] first[1] # last[1] /\ last[2] # 1 -> "none"    \* two ':'

(* Slip: what does not fit the buffer is thrown away. *)
Drain_Thread_Recv(c) ==
    /\ thread[c] = "recv"
    /\ \/ \E n \in 1 .. Len(wire[c]) :
            LET chunk == SubSeq(wire[c], 1, n)
            IN  /\ n <= MaxRecv
                /\ wire' = [wire EXCEPT ![c] = <<>>]
                /\ split' = (split \/ n # 4 \/ How(chunk) # "whole")
                /\ IF How(chunk) = "none"
                     THEN thread' = [thread EXCEPT ![c] = "check"] /\ UNCHANGED input
                     ELSE /\ thread' = [thread EXCEPT ![c] = "open"]
                          /\ input' = [input EXCEPT ![c] =
                                         [msg |-> chunk[1][1], how |-> How(chunk)]]
       \/ /\ wire[c] = <<>> /\ link[c] = "fin"
          /\ thread' = [thread EXCEPT ![c] = "check"]
          /\ UNCHANGED <<wire, input, split>>
    /\ UNCHANGED <<meterVars, loggerVars, f, file>>

(* Slip: an input that is not understood leaves the one before in place. *)
Stale_Thread_Recv(c) ==
    /\ thread[c] = "recv"
    /\ \E n \in 1 .. Len(wire[c]) :
         LET chunk == SubSeq(wire[c], 1, n)
         IN  /\ n <= MaxRecv
             /\ wire' = [wire EXCEPT ![c] = SubSeq(@, n + 1, Len(@))]
             /\ thread' = [thread EXCEPT ![c] = "open"]
             /\ input' = IF How(chunk) = "none" THEN input
                         ELSE [input EXCEPT ![c] = [msg |-> chunk[1][1], how |-> How(chunk)]]
    /\ split' = TRUE
    /\ UNCHANGED <<meterVars, loggerVars, f, file>>

(* receive_input: recv blocks while there is nothing, returns any part of  *)
(* what has arrived, and an empty string for ever after the meter's FIN.   *)
Thread_Recv(c) ==
    /\ thread[c] = "recv"
    /\ \/ \E n \in 1 .. Len(wire[c]) :
            LET chunk == SubSeq(wire[c], 1, n)
            IN  /\ n <= MaxRecv
                /\ wire' = [wire EXCEPT ![c] = SubSeq(@, n + 1, Len(@))]
                /\ split' = (split \/ How(chunk) # "whole")
                /\ IF How(chunk) = "none"
                     THEN thread' = [thread EXCEPT ![c] = "check"] /\ UNCHANGED input
                     ELSE /\ thread' = [thread EXCEPT ![c] = "open"]
                          /\ input' = [input EXCEPT ![c] =
                                         [msg |-> chunk[1][1], how |-> How(chunk)]]
       \/ /\ wire[c] = <<>> /\ link[c] = "fin"
          /\ thread' = [thread EXCEPT ![c] = "check"]
          /\ UNCHANGED <<wire, input, split>>
    /\ UNCHANGED <<meterVars, loggerVars, f, file>>

(* The first input of a connection truncates the file ("w+"), a later one  *)
(* opens it for appending.                                                 *)
Thread_Open(c) ==
    /\ thread[c] = "open"
    /\ IF f[c] THEN /\ thread' = [thread EXCEPT ![c] = "append"]
                    /\ UNCHANGED <<f, file>>
               ELSE /\ thread' = [thread EXCEPT ![c] = "truncated"]
                    /\ f' = [f EXCEPT ![c] = TRUE]
                    /\ file' = <<>>
    /\ UNCHANGED <<meterVars, wire, loggerVars, input, split>>

(* What may be left of rows when something is written over the file that   *)
(* ends before or in the first of them: the lengths of rows vary.          *)
Remains(rows) ==
    IF rows = <<>> THEN {rows}
    ELSE {rows, Tail(rows), <<[Head(rows) EXCEPT !.how = "cut"]>> \o Tail(rows)}

(* The row is written and the file closed.  Opened with "w+", the header   *)
(* and the row are written at the start, over one or two rows that another *)
(* thread may have appended meanwhile.  A missing column is a KeyError,    *)
(* which ends the thread; its file is closed (a new one gets its header)   *)
(* and its socket too unless start_server still refers to it.              *)
Thread_Write(c) ==
    /\ thread[c] \in {"truncated", "append"}
    /\ \/ /\ input[c].how = "missing"
          /\ thread' = [thread EXCEPT ![c] = "died"]
          /\ link' = [link EXCEPT ![c] = IF accepted = c THEN @ ELSE Closed(c)]
          /\ file' \in IF thread[c] = "append" THEN {file} ELSE Remains(file)
       \/ /\ input[c].how # "missing"
          /\ thread' = [thread EXCEPT ![c] = "check"]
          /\ file' \in
               LET row == [conn |-> c, msg |-> input[c].msg, how |-> input[c].how]
               IN  IF thread[c] = "append" \/ file = <<>>
                     THEN {Append(file, row)}
                     ELSE {<<row>> \o rest : rest \in Remains(Tail(file))}
          /\ UNCHANGED link
    /\ UNCHANGED <<sent, wire, loggerVars, input, f, split>>

(* "close" is sent and the connection closed. *)
Thread_Close(c) ==
    /\ thread[c] = "closing"
    /\ thread' = [thread EXCEPT ![c] = "ended"]
    /\ link' = [link EXCEPT ![c] = Closed(c)]
    /\ UNCHANGED <<sent, wire, loggerVars, input, f, file, split>>

Thread(c) == \/ Thread_Check(c) \/ Thread_Recv(c) \/ Thread_Open(c)
             \/ Thread_Write(c) \/ Thread_Close(c)

TelNext ==
    \/ \E c \in Conns : \/ Meter_Connect(c) \/ Meter_Send(c) \/ Meter_Stops(c)
                        \/ Meter_PowerFails(c) \/ Server_Accept(c) \/ Thread(c)
    \/ User_Exit \/ Server_Exit

TelSpec == TelInit /\ [][TelNext]_telVars /\ WF_telVars(Server_Exit)
                   /\ \A c \in Conns : WF_telVars(Thread(c))

-----------------------------------------------------------------------------
(* Properties                                                              *)

(* The rows of a connection come in the order of its messages, none twice, *)
(* however recv cuts the stream and the threads share the file.            *)
RowsInOrder ==
    \A i, k \in 1 .. Len(file) :
        i < k /\ file[i].conn = file[k].conn => file[i].msg < file[k].msg

(* While every recv happens to return one message, the rows of a           *)
(* connection have no gap.                                                 *)
NoGapWhenFramed ==
    ~split => \A i, k \in 1 .. Len(file) :
                /\ i < k /\ file[i].conn = file[k].conn
                /\ \A l \in i + 1 .. k - 1 : file[l].conn # file[i].conn
                => file[k].msg = file[i].msg + 1

(* After "exit" a thread that has something to read, or whose meter has    *)
(* closed the connection, ends.                                            *)
ThreadsEnd ==
    \A c \in Conns :
        evt_exit /\ thread[c] # "none" /\ (wire[c] # <<>> \/ link[c] = "fin")
            ~> thread[c] \in {"ended", "died"}

(* What datalogger.py says of an input: "decode and strip end of line" -   *)
(* an input is a line, and so every row comes from one whole message.      *)
InputIsLine == \A i \in 1 .. Len(file) : file[i].how = "whole"

(* What datalogger.py tells the operator: "Enter 'exit' to stop daq".      *)
ExitStopsDaq ==
    evt_exit ~> \A c \in Conns : thread[c] \in {"none", "ended", "died"}
=============================================================================
