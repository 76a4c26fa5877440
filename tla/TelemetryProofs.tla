-------------------------- MODULE TelemetryProofs ---------------------------
(***************************************************************************)
(* Proofs about Telemetry, for any number of connections and messages, any *)
(* size of recv and of the socket buffers, and any way TCP cuts the stream.*)
(*                                                                         *)
(* The rows of a connection are in order because the pieces on its wire    *)
(* are: an input begins with the first piece of its message, or it is not  *)
(* understood, and so what is still on the wire begins no message that has *)
(* a row or an input already.  A thread that is about to write over the    *)
(* file has no row in it.                                                  *)
(*                                                                         *)
(* While no recv has split a message, pieces on a wire are consecutive and *)
(* whole messages, and the message after the newest row is held by the     *)
(* thread or is the next one on the wire: rows have no gap.                *)
(***************************************************************************)
EXTENDS Telemetry, TLAPS

(* The thread has an input and will write it. *)
Holding(c) == thread[c] \in {"open", "truncated", "append"}

(* x is behind y in the stream of a connection. *)
Behind(x, y) == y[1] < x[1] \/ (y[1] = x[1] /\ y[2] < x[2])

(* The pieces on a wire are in the order they were sent. *)
WireOrdered ==
    \A c \in Conns :
       /\ \A i, k \in 1 .. Len(wire[c]) : i < k => Behind(wire[c][k], wire[c][i])
       /\ \A i \in 1 .. Len(wire[c]) : wire[c][i][1] <= sent[c]

(* No message that begins in the pieces of w is m or older. *)
LaterThan(m, w) == \A j \in 1 .. Len(w) : w[j][2] = 1 => m < w[j][1]

(* A row, and an input, is of a message whose beginning has been received. *)
Received ==
    /\ \A i \in 1 .. Len(file) : file[i].msg <= sent[file[i].conn]
    /\ \A i \in 1 .. Len(file) : LaterThan(file[i].msg, wire[file[i].conn])
    /\ \A c \in Conns : Holding(c) => input[c].msg <= sent[c]
    /\ \A c \in Conns : Holding(c) => LaterThan(input[c].msg, wire[c])

(* An input is newer than the rows of its connection; a thread that has    *)
(* truncated the file has none.                                            *)
InputNewer ==
    \A c \in Conns : \A i \in 1 .. Len(file) :
       /\ Holding(c) /\ file[i].conn = c => file[i].msg < input[c].msg
       /\ thread[c] = "truncated" => file[i].conn # c

LinkInv == TelTypeOK /\ WireOrdered /\ Received /\ InputNewer /\ RowsInOrder

-----------------------------------------------------------------------------
(* Every step keeps the types.                                             *)
LEMMA TypesInit == TelInit => TelTypeOK
<1> SUFFICES ASSUME TelInit PROVE TelTypeOK
  OBVIOUS
<1> USE TelemetryAssumption DEF TelInit
<1>1. /\ None \in Inputs
      /\ \A c \in Conns : Len(wire[c]) <= SockBuf
      /\ wire \in [Conns -> Seq(Nat \X Pieces)]
  BY DEF None, Inputs
<1>2. accepted \in 0 .. MaxConns /\ file \in Seq(Rows)
  OBVIOUS
<1>3. /\ link \in [Conns -> {"none", "up", "fin", "silent", "closed", "reset", "killed"}]
      /\ thread \in [Conns -> {"none", "check", "recv", "open", "truncated",
                                "append", "closing", "ended", "died"}]
      /\ sent \in [Conns -> Nat] /\ input \in [Conns -> Inputs] /\ f \in [Conns -> BOOLEAN]
  BY <1>1
<1> QED
  BY <1>1, <1>2, <1>3 DEF TelTypeOK

(* What recv leaves of the wire is a wire. *)
LEMMA RestOfWire ==
    ASSUME NEW w \in Seq(Nat \X Pieces), NEW n \in 1 .. Len(w)
    PROVE  /\ SubSeq(w, n + 1, Len(w)) \in Seq(Nat \X Pieces)
           /\ Len(SubSeq(w, n + 1, Len(w))) = Len(w) - n
           /\ \A j \in 1 .. Len(w) - n : SubSeq(w, n + 1, Len(w))[j] = w[j + n]
           /\ SubSeq(w, 1, n)[1] = w[1] /\ w[1] \in Nat \X Pieces
<1>1. n + 1 \in Nat /\ Len(w) \in Nat /\ n \in Nat /\ 1 \in 1 .. Len(w) /\ 1 <= n
  OBVIOUS
<1>2. \A j \in n + 1 .. Len(w) : w[j] \in Nat \X Pieces
  OBVIOUS
<1>3. SubSeq(w, n + 1, Len(w)) = [j \in 1 .. Len(w) - n |-> w[j + n]]
  OBVIOUS
<1>4. SubSeq(w, 1, n) = [j \in 1 .. n |-> w[j]]
  OBVIOUS
<1> QED
  BY <1>1, <1>2, <1>3, <1>4

(* Two sequences one behind the other. *)
LEMMA Joined ==
    ASSUME NEW S, NEW a \in Seq(S), NEW b \in Seq(S)
    PROVE  /\ a \o b \in Seq(S)
           /\ Len(a \o b) = Len(a) + Len(b)
           /\ \A j \in 1 .. Len(a) : (a \o b)[j] = a[j]
           /\ \A j \in Len(a) + 1 .. Len(a) + Len(b) : (a \o b)[j] = b[j - Len(a)]
  OBVIOUS

(* A message is four pieces behind what is on the wire. *)
LEMMA MessageOnWire ==
    ASSUME NEW w \in Seq(Nat \X Pieces), NEW m \in Nat
    PROVE  LET v == w \o [p \in Pieces |-> <<m, p>>]
           IN  /\ v \in Seq(Nat \X Pieces)
               /\ Len(v) = Len(w) + 4
               /\ \A j \in 1 .. Len(w) : v[j] = w[j]
               /\ \A j \in Len(w) + 1 .. Len(w) + 4 : v[j] = <<m, j - Len(w)>>
<1> DEFINE msg == [p \in Pieces |-> <<m, p>>]
<1>1. msg \in Seq(Nat \X Pieces) /\ Len(msg) = 4
  BY DEF Pieces
<1>2. \A p \in 1 .. 4 : msg[p] = <<m, p>>
  BY DEF Pieces
<1> HIDE DEF msg
<1>3. /\ w \o msg \in Seq(Nat \X Pieces)
      /\ Len(w \o msg) = Len(w) + Len(msg)
      /\ \A j \in 1 .. Len(w) : (w \o msg)[j] = w[j]
      /\ \A j \in Len(w) + 1 .. Len(w) + Len(msg) : (w \o msg)[j] = msg[j - Len(w)]
  BY <1>1, Joined
<1>4. \A j \in Len(w) + 1 .. Len(w) + 4 : j - Len(w) \in 1 .. 4
  OBVIOUS
<1>5. \A j \in Len(w) + 1 .. Len(w) + 4 : (w \o msg)[j] = <<m, j - Len(w)>>
  BY <1>1, <1>2, <1>3, <1>4
<1> QED
  BY <1>1, <1>3, <1>5 DEF msg

(* What is left of rows are rows, in their order, of the same messages. *)
LEMMA RemainingRows ==
    ASSUME NEW rows \in Seq(Rows), NEW r \in Remains(rows)
    PROVE  /\ r \in Seq(Rows)
           /\ \E d \in {0, 1} :
                 /\ Len(r) = Len(rows) - d
                 /\ \A i \in 1 .. Len(r) : /\ i + d \in 1 .. Len(rows)
                                           /\ r[i].conn = rows[i + d].conn
                                           /\ r[i].msg = rows[i + d].msg
<1>1. CASE r = rows
  BY <1>1
<1>2. CASE rows # <<>> /\ r = Tail(rows)
  <2>1. r \in Seq(Rows) /\ Len(r) = Len(rows) - 1 /\ \A i \in 1 .. Len(r) : r[i] = rows[i + 1]
    BY <1>2
  <2> QED
    BY <2>1
<1>3. CASE rows # <<>> /\ r = <<[Head(rows) EXCEPT !.how = "cut"]>> \o Tail(rows)
  <2> DEFINE first == [rows[1] EXCEPT !.how = "cut"]
  <2>1. rows[1] \in Rows /\ Head(rows) = rows[1]
    BY <1>3
  <2>2. first \in Rows /\ first.conn = rows[1].conn /\ first.msg = rows[1].msg
    BY <2>1 DEF Rows
  <2> HIDE DEF first
  <2>3. r = <<first>> \o Tail(rows)
    BY <1>3, <2>1 DEF first
  <2>7. /\ Tail(rows) \in Seq(Rows) /\ Len(Tail(rows)) = Len(rows) - 1
        /\ \A i \in 1 .. Len(rows) - 1 : Tail(rows)[i] = rows[i + 1]
    BY <1>3
  <2>8. <<first>> \in Seq(Rows) /\ Len(<<first>>) = 1 /\ <<first>>[1] = first
    BY <2>2
  <2>4. r \in Seq(Rows) /\ Len(r) = Len(rows)
    BY <2>3, <2>7, <2>8, Joined
  <2>5. r[1] = first /\ \A i \in 2 .. Len(r) : r[i] = rows[i]
    <3>1. r[1] = first
      BY <2>3, <2>7, <2>8, Joined
    <3>2. ASSUME NEW i \in 2 .. Len(r) PROVE r[i] = rows[i]
      <4>1. i \in Len(<<first>>) + 1 .. Len(<<first>>) + Len(Tail(rows))
        BY <2>4, <2>7, <2>8
      <4>2. r[i] = Tail(rows)[i - Len(<<first>>)]
        BY <4>1, <2>3, <2>7, <2>8, Joined
      <4>3. i - 1 \in 1 .. Len(rows) - 1 /\ (i - 1) + 1 = i
        BY <2>4
      <4> QED
        BY <4>2, <4>3, <2>7, <2>8
    <3> QED
      BY <3>1, <3>2
  <2>6. \A i \in 1 .. Len(r) : r[i].conn = rows[i].conn /\ r[i].msg = rows[i].msg
    <3> TAKE i \in 1 .. Len(r)
    <3>1. CASE i = 1
      BY <3>1, <2>5, <2>2
    <3>2. CASE i # 1
      BY <3>2, <2>5
    <3> QED
      BY <3>1, <3>2
  <2> QED
    BY <2>4, <2>6
<1> QED
  BY <1>1, <1>2, <1>3 DEF Remains

-----------------------------------------------------------------------------
LinkStates == {"none", "up", "fin", "silent", "closed", "reset", "killed"}

(* A connection whose logger's end is closed has a state. *)
LEMMA ClosedLink ==
    ASSUME TelTypeOK, NEW c \in Conns PROVE Closed(c) \in LinkStates /\ link[c] \in LinkStates
BY DEF TelTypeOK, Closed, LinkStates

(* The row of an input that is written. *)
LEMMA RowOfInput ==
    ASSUME TelTypeOK, NEW c \in Conns, input[c].how # "missing"
    PROVE  [conn |-> c, msg |-> input[c].msg, how |-> input[c].how] \in Rows
BY DEF TelTypeOK, Inputs, Rows

LEMMA TypesWrite ==
    ASSUME TelTypeOK, NEW c \in Conns, Thread_Write(c) PROVE TelTypeOK'
<1>1. thread' \in [Conns -> {"none", "check", "recv", "open", "truncated",
                             "append", "closing", "ended", "died"}]
  BY DEF TelTypeOK, Thread_Write
<1>2. link' \in [Conns -> LinkStates]
  BY ClosedLink DEF TelTypeOK, Thread_Write, LinkStates
<1>3. file' \in Seq(Rows)
  <2>0. file \in Seq(Rows)
    BY DEF TelTypeOK
  <2>1. CASE input[c].how = "missing"
    <3>1. file' = file \/ file' \in Remains(file)
      BY <2>1 DEF Thread_Write
    <3> QED
      BY <2>0, <3>1, RemainingRows
  <2>2. CASE input[c].how # "missing"
    <3> DEFINE row == [conn |-> c, msg |-> input[c].msg, how |-> input[c].how]
    <3>1. row \in Rows
      BY <2>2, RowOfInput
    <3>2. file' = Append(file, row) \/ (file # <<>> /\ \E rest \in Remains(Tail(file)) : file' = <<row>> \o rest)
      BY <2>2 DEF Thread_Write
    <3> HIDE DEF row
    <3>3. CASE file' = Append(file, row)
      BY <2>0, <3>1, <3>3
    <3>4. CASE file # <<>> /\ \E rest \in Remains(Tail(file)) : file' = <<row>> \o rest
      <4>1. PICK rest \in Remains(Tail(file)) : file' = <<row>> \o rest
        BY <3>4
      <4>2. Tail(file) \in Seq(Rows)
        BY <2>0, <3>4
      <4>3. rest \in Seq(Rows)
        BY <4>2, RemainingRows
      <4> QED
        BY <3>1, <4>1, <4>3
    <3> QED
      BY <3>2, <3>3, <3>4
  <2> QED
    BY <2>1, <2>2
<1>4. UNCHANGED <<sent, wire, evt_exit, server, accepted, input, f, split>>
  BY DEF Thread_Write, loggerVars
<1> QED
  BY <1>1, <1>2, <1>3, <1>4 DEF TelTypeOK, LinkStates

LEMMA TypesSend ==
    ASSUME TelTypeOK, NEW c \in Conns, Meter_Send(c) PROVE TelTypeOK'
<1>0. wire[c] \in Seq(Nat \X Pieces) /\ sent[c] \in Nat /\ sent[c] + 1 \in Nat
  BY DEF TelTypeOK
<1>1. link' \in [Conns -> LinkStates]
  BY DEF TelTypeOK, Meter_Send, LinkStates
<1>2. /\ wire' \in [Conns -> Seq(Nat \X Pieces)]
      /\ \A d \in Conns : Len(wire'[d]) <= SockBuf
  <2>1. CASE UNCHANGED wire
    BY <2>1 DEF TelTypeOK
  <2>2. CASE /\ Len(wire[c]) + 4 <= SockBuf
             /\ wire' = [wire EXCEPT ![c] = @ \o [p \in Pieces |-> <<sent[c] + 1, p>>]]
    <3> DEFINE v == wire[c] \o [p \in Pieces |-> <<sent[c] + 1, p>>]
    <3>1. v \in Seq(Nat \X Pieces) /\ Len(v) = Len(wire[c]) + 4
      BY <1>0, MessageOnWire
    <3>2. wire' = [wire EXCEPT ![c] = v]
      BY <2>2 DEF TelTypeOK
    <3> HIDE DEF v
    <3> QED
      BY <2>2, <3>1, <3>2 DEF TelTypeOK
  <2> QED
    BY <2>1, <2>2 DEF Meter_Send
<1>3. sent' \in [Conns -> Nat]
  BY <1>0 DEF TelTypeOK, Meter_Send
<1>4. UNCHANGED <<evt_exit, server, accepted, thread, input, f, file, split>>
  BY DEF Meter_Send, loggerVars
<1> QED
  BY <1>1, <1>2, <1>3, <1>4 DEF TelTypeOK, LinkStates

LEMMA TypesRecv ==
    ASSUME TelTypeOK, NEW c \in Conns, Thread_Recv(c) PROVE TelTypeOK'
<1>1. CASE wire[c] = <<>> /\ thread' = [thread EXCEPT ![c] = "check"] /\ UNCHANGED <<wire, input, split>>
  BY <1>1 DEF TelTypeOK, Thread_Recv, meterVars, loggerVars
<1>2. ASSUME NEW n \in 1 .. Len(wire[c]),
             LET chunk == SubSeq(wire[c], 1, n)
             IN  /\ wire' = [wire EXCEPT ![c] = SubSeq(@, n + 1, Len(@))]
                 /\ split' = (split \/ How(chunk) # "whole")
                 /\ IF How(chunk) = "none"
                      THEN thread' = [thread EXCEPT ![c] = "check"] /\ UNCHANGED input
                      ELSE /\ thread' = [thread EXCEPT ![c] = "open"]
                           /\ input' = [input EXCEPT ![c] =
                                          [msg |-> chunk[1][1], how |-> How(chunk)]]
      PROVE TelTypeOK'
  <2> DEFINE chunk == SubSeq(wire[c], 1, n)
             rest == SubSeq(wire[c], n + 1, Len(wire[c]))
  <2>0. wire[c] \in Seq(Nat \X Pieces)
    BY DEF TelTypeOK
  <2>1. rest \in Seq(Nat \X Pieces) /\ Len(rest) = Len(wire[c]) - n
    BY <2>0, RestOfWire
  <2>2. chunk[1][1] \in Nat
    BY <2>0, RestOfWire
  <2>3. wire' = [wire EXCEPT ![c] = rest]
    BY <1>2 DEF TelTypeOK
  <2>4. \/ input' = input
        \/ /\ input' = [input EXCEPT ![c] = [msg |-> chunk[1][1], how |-> How(chunk)]]
           /\ How(chunk) # "none"
    BY <1>2
  <2>5. thread' = [thread EXCEPT ![c] = "check"] \/ thread' = [thread EXCEPT ![c] = "open"]
    BY <1>2
  <2>6. split' \in BOOLEAN
    BY <1>2 DEF TelTypeOK
  <2>7. How(chunk) # "none" => How(chunk) \in {"whole", "cut", "glued", "missing"}
    <3>1. chunk \in Seq(Nat \X Pieces) /\ Len(chunk) = n
      BY <2>0
    <3> HIDE DEF chunk
    <3>2. chunk[1] \in Nat \X Pieces /\ chunk[Len(chunk)] \in Nat \X Pieces
      BY <3>1
    <3>3. chunk[1][2] \in Pieces /\ chunk[Len(chunk)][2] \in Pieces
      BY <3>2
    <3> QED
      BY <3>3 DEF How, Pieces
  <2> HIDE DEF chunk, rest
  <2>8. wire' \in [Conns -> Seq(Nat \X Pieces)] /\ \A d \in Conns : Len(wire'[d]) <= SockBuf
    BY <2>0, <2>1, <2>3, TelemetryAssumption DEF TelTypeOK
  <2>9. input' \in [Conns -> Inputs]
    <3>1. How(chunk) # "none" => [msg |-> chunk[1][1], how |-> How(chunk)] \in Inputs
      BY <2>2, <2>7 DEF Inputs
    <3> QED
      BY <2>4, <3>1 DEF TelTypeOK
  <2>10. UNCHANGED <<link, sent, evt_exit, server, accepted, f, file>>
    BY DEF Thread_Recv, meterVars, loggerVars
  <2>11. thread' \in [Conns -> {"none", "check", "recv", "open", "truncated",
                                "append", "closing", "ended", "died"}]
    BY <2>5 DEF TelTypeOK
  <2> QED
    BY <2>6, <2>8, <2>9, <2>10, <2>11 DEF TelTypeOK
<1> QED
  BY <1>1, <1>2 DEF Thread_Recv

LEMMA TypesStep == TelTypeOK /\ [TelNext]_telVars => TelTypeOK'
<1> SUFFICES ASSUME TelTypeOK, [TelNext]_telVars PROVE TelTypeOK'
  OBVIOUS
<1> USE DEF meterVars, loggerVars
<1>1. ASSUME NEW c \in Conns, Meter_Connect(c) PROVE TelTypeOK'
  BY <1>1 DEF TelTypeOK, Meter_Connect
<1>2. ASSUME NEW c \in Conns, Meter_Send(c) PROVE TelTypeOK'
  BY <1>2, TypesSend
<1>3. ASSUME NEW c \in Conns, Meter_Stops(c) PROVE TelTypeOK'
  BY <1>3 DEF TelTypeOK, Meter_Stops
<1>4. ASSUME NEW c \in Conns, Meter_PowerFails(c) PROVE TelTypeOK'
  BY <1>4 DEF TelTypeOK, Meter_PowerFails
<1>5. ASSUME NEW c \in Conns, Server_Accept(c) PROVE TelTypeOK'
  <2>1. link' \in [Conns -> LinkStates]
    BY <1>5, ClosedLink DEF Server_Accept
  <2>2. accepted' \in 0 .. MaxConns
    BY <1>5, TelemetryAssumption DEF Server_Accept, Conns
  <2> QED
    BY <1>5, <2>1, <2>2 DEF TelTypeOK, Server_Accept, LinkStates
<1>6. ASSUME NEW c \in Conns, Thread(c) PROVE TelTypeOK'
  <2>1. CASE Thread_Check(c)
    BY <2>1 DEF TelTypeOK, Thread_Check
  <2>2. CASE Thread_Recv(c)
    BY <2>2, TypesRecv
  <2>3. CASE Thread_Open(c)
    <3>1. file' \in Seq(Rows)
      <4>1. file' = file \/ file' = <<>>
        BY <2>3, Zenon DEF Thread_Open
      <4>2. <<>> \in Seq(Rows) /\ file \in Seq(Rows)
        BY DEF TelTypeOK
      <4> QED
        BY <4>1, <4>2, Zenon
    <3>2. f' \in [Conns -> BOOLEAN]
      <4>1. f' = f \/ f' = [f EXCEPT ![c] = TRUE]
        BY <2>3, Zenon DEF Thread_Open
      <4>2. f \in [Conns -> BOOLEAN]
        BY DEF TelTypeOK
      <4> QED
        BY <4>1, <4>2
    <3>3. thread' \in [Conns -> {"none", "check", "recv", "open", "truncated",
                                 "append", "closing", "ended", "died"}]
      <4>1. \/ thread' = [thread EXCEPT ![c] = "append"]
            \/ thread' = [thread EXCEPT ![c] = "truncated"]
        BY <2>3, Zenon DEF Thread_Open
      <4> QED
        BY <4>1 DEF TelTypeOK
    <3>4. UNCHANGED <<link, sent, wire, evt_exit, server, accepted, input, split>>
      BY <2>3 DEF Thread_Open
    <3> QED
      BY <3>1, <3>2, <3>3, <3>4 DEF TelTypeOK
  <2>4. CASE Thread_Write(c)
    BY <2>4, TypesWrite
  <2>5. CASE Thread_Close(c)
    <3>1. link' \in [Conns -> LinkStates]
      BY <2>5, ClosedLink DEF Thread_Close, TelTypeOK, LinkStates
    <3> QED
      BY <2>5, <3>1 DEF TelTypeOK, Thread_Close, LinkStates
  <2> QED
    BY <1>6, <2>1, <2>2, <2>3, <2>4, <2>5 DEF Thread
<1>7. CASE User_Exit
  BY <1>7 DEF TelTypeOK, User_Exit
<1>8. CASE Server_Exit
  <2>1. link' \in [Conns -> LinkStates]
    BY <1>8, ClosedLink DEF Server_Exit
  <2>2. accepted' \in 0 .. MaxConns
    BY <1>8, TelemetryAssumption DEF Server_Exit
  <2> QED
    BY <1>8, <2>1, <2>2 DEF TelTypeOK, Server_Exit, LinkStates
<1>9. CASE UNCHANGED telVars
  BY <1>9 DEF TelTypeOK, telVars
<1> QED
  BY <1>1, <1>2, <1>3, <1>4, <1>5, <1>6, <1>7, <1>8, <1>9 DEF TelNext

-----------------------------------------------------------------------------
(* The order of pieces, inputs and rows                                    *)

(* Nothing on a wire or in the file changes, and nobody gets an input.     *)
LEMMA QuietStep ==
    ASSUME LinkInv, TelTypeOK', UNCHANGED <<sent, wire, input, file>>,
           \A c \in Conns : /\ Holding(c)' => Holding(c)
                            /\ thread'[c] = "truncated" => thread[c] = "truncated"
    PROVE  LinkInv'
<1> USE DEF LinkInv
<1>1. WireOrdered'
  BY DEF WireOrdered, Behind
<1>2. Received'
  BY DEF Received, LaterThan, Holding
<1>3. InputNewer'
  BY DEF InputNewer, Holding
<1>4. RowsInOrder'
  BY DEF RowsInOrder
<1> QED
  BY <1>1, <1>2, <1>3, <1>4

LEMMA SendKeepsOrder ==
    ASSUME LinkInv, TelTypeOK', NEW c \in Conns, Meter_Send(c) PROVE LinkInv'
<1> DEFINE w == wire[c]
           m == sent[c] + 1
           v == w \o [p \in Pieces |-> <<m, p>>]
<1>0. /\ w \in Seq(Nat \X Pieces) /\ sent[c] \in Nat /\ m \in Nat
      /\ sent \in [Conns -> Nat] /\ wire \in [Conns -> Seq(Nat \X Pieces)]
      /\ file \in Seq(Rows) /\ input \in [Conns -> Inputs]
  BY DEF LinkInv, TelTypeOK
<1>1. UNCHANGED <<thread, input, file>> /\ sent' = [sent EXCEPT ![c] = m]
  BY <1>0 DEF Meter_Send
<1>2. wire' = wire \/ wire' = [wire EXCEPT ![c] = v]
  BY <1>0 DEF Meter_Send
<1>3. /\ v \in Seq(Nat \X Pieces) /\ Len(v) = Len(w) + 4
      /\ \A j \in 1 .. Len(w) : v[j] = w[j]
      /\ \A j \in Len(w) + 1 .. Len(w) + 4 : v[j] = <<m, j - Len(w)>>
  BY <1>0, MessageOnWire
<1>4. \A d \in Conns : sent[d] <= sent'[d] /\ sent'[d] \in Nat
  BY <1>0, <1>1
<1>5. /\ \A i, k \in 1 .. Len(w) : i < k => Behind(w[k], w[i])
      /\ \A i \in 1 .. Len(w) : w[i][1] <= sent[c]
  BY DEF LinkInv, WireOrdered
<1>6. \A i \in 1 .. Len(w) : w[i] \in Nat \X Pieces
  BY <1>0
<1>7. Len(w) \in Nat
  BY <1>0
<1> HIDE DEF v, w, m
<1>8. \A j \in 1 .. Len(v) : \/ j \in 1 .. Len(w)
                            \/ /\ j \in Len(w) + 1 .. Len(w) + 4
                               /\ j - Len(w) \in 1 .. 4
  <2>1. Len(v) = Len(w) + 4
    BY <1>3
  <2> QED
    BY <2>1, <1>7
<1>9. ASSUME NEW i \in 1 .. Len(v), NEW k \in 1 .. Len(v), i < k PROVE Behind(v[k], v[i])
  <2>1. CASE k \in 1 .. Len(w)
    <3>1. i \in 1 .. Len(w)
      BY <1>9, <1>7, <2>1
    <3> QED
      BY <1>3, <1>5, <1>9, <2>1, <3>1
  <2>2. CASE i \in 1 .. Len(w) /\ k \in Len(w) + 1 .. Len(w) + 4
    <3>1. v[i] = w[i] /\ v[k][1] = m /\ w[i][1] \in Nat
      BY <1>3, <1>6, <2>2
    <3>2. w[i][1] <= sent[c]
      BY <1>5, <2>2
    <3>3. w[i][1] < m
      BY <1>0, <3>1, <3>2 DEF m
    <3> QED
      BY <3>1, <3>3 DEF Behind
  <2>3. CASE i \in Len(w) + 1 .. Len(w) + 4 /\ k \in Len(w) + 1 .. Len(w) + 4
    <3>1. v[i] = <<m, i - Len(w)>> /\ v[k] = <<m, k - Len(w)>>
      BY <1>3, <2>3
    <3>2. i - Len(w) < k - Len(w)
      BY <1>7, <1>9
    <3> QED
      BY <3>1, <3>2 DEF Behind
  <2> QED
    BY <1>8, <2>1, <2>2, <2>3, <1>7, <1>9
<1>10. ASSUME NEW i \in 1 .. Len(v) PROVE v[i][1] <= m
  <2>1. CASE i \in 1 .. Len(w)
    <3>1. v[i] = w[i] /\ w[i][1] \in Nat /\ w[i][1] <= sent[c]
      BY <1>3, <1>5, <1>6, <2>1
    <3> QED
      BY <1>0, <3>1 DEF m
  <2>2. CASE i \in Len(w) + 1 .. Len(w) + 4
    BY <1>0, <1>3, <2>2
  <2> QED
    BY <1>8, <2>1, <2>2
<1>11. WireOrdered'
  <2> SUFFICES ASSUME NEW d \in Conns
               PROVE  /\ \A i, k \in 1 .. Len(wire'[d]) : i < k => Behind(wire'[d][k], wire'[d][i])
                      /\ \A i \in 1 .. Len(wire'[d]) : wire'[d][i][1] <= sent'[d]
    BY DEF WireOrdered, Behind
  <2>1. CASE wire'[d] = wire[d]
    <3>1. /\ \A i, k \in 1 .. Len(wire[d]) : i < k => Behind(wire[d][k], wire[d][i])
          /\ \A i \in 1 .. Len(wire[d]) : wire[d][i][1] <= sent[d]
      BY DEF LinkInv, WireOrdered
    <3>2. \A i \in 1 .. Len(wire[d]) : wire[d][i] \in Nat \X Pieces
      BY <1>0
    <3>3. ASSUME NEW i \in 1 .. Len(wire[d]) PROVE wire[d][i][1] <= sent'[d]
      <4>1. wire[d][i][1] \in Nat /\ wire[d][i][1] <= sent[d]
        BY <3>1, <3>2
      <4>2. sent[d] \in Nat /\ sent[d] <= sent'[d] /\ sent'[d] \in Nat
        BY <1>0, <1>4
      <4> QED
        BY <4>1, <4>2
    <3> QED
      BY <2>1, <3>1, <3>3
  <2>2. CASE d = c /\ wire'[d] = v
    <3>1. sent'[c] = m
      BY <1>0, <1>1
    <3> QED
      BY <2>2, <3>1, <1>9, <1>10
  <2> QED
    BY <1>0, <1>2, <2>1, <2>2
<1>12. ASSUME NEW d \in Conns, NEW n \in Nat, n <= sent[d], LaterThan(n, wire[d])
       PROVE  LaterThan(n, wire'[d])
  <2>1. CASE wire'[d] = wire[d]
    BY <1>12, <2>1
  <2>2. CASE d = c /\ wire'[d] = v
    <3> SUFFICES ASSUME NEW j \in 1 .. Len(v), v[j][2] = 1 PROVE n < v[j][1]
      BY <2>2 DEF LaterThan
    <3>1. CASE j \in 1 .. Len(w)
      BY <1>3, <1>12, <2>2, <3>1 DEF LaterThan, w
    <3>2. CASE j \in Len(w) + 1 .. Len(w) + 4
      BY <1>0, <1>3, <1>12, <2>2, <3>2 DEF m
    <3> QED
      BY <1>8, <3>1, <3>2
  <2> QED
    BY <1>0, <1>2, <2>1, <2>2
<1>13. Received'
  <2>1. \A i \in 1 .. Len(file) : file[i].conn \in Conns /\ file[i].msg \in Nat
    <3>1. \A i \in 1 .. Len(file) : file[i] \in Rows
      BY <1>0
    <3> QED
      BY <3>1 DEF Rows
  <2>2. \A d \in Conns : input[d].msg \in Nat
    BY <1>0 DEF Inputs
  <2>3. ASSUME NEW i \in 1 .. Len(file')
        PROVE  /\ file'[i].msg <= sent'[file'[i].conn]
               /\ LaterThan(file'[i].msg, wire'[file'[i].conn])
    <3>1. file'[i] = file[i] /\ i \in 1 .. Len(file)
      BY <1>1
    <3>2. file[i].msg <= sent[file[i].conn] /\ LaterThan(file[i].msg, wire[file[i].conn])
      BY <3>1 DEF LinkInv, Received
    <3>3. file[i].msg <= sent'[file[i].conn]
      BY <1>0, <1>4, <2>1, <3>1, <3>2
    <3>4. LaterThan(file[i].msg, wire'[file[i].conn])
      BY <1>12, <2>1, <3>1, <3>2
    <3> QED
      BY <1>1, <3>1, <3>3, <3>4
  <2>4. ASSUME NEW d \in Conns, Holding(d)'
        PROVE  input'[d].msg <= sent'[d] /\ LaterThan(input'[d].msg, wire'[d])
    <3>1. Holding(d) /\ input' = input
      BY <1>1, <2>4 DEF Holding
    <3>2. input[d].msg <= sent[d] /\ LaterThan(input[d].msg, wire[d])
      BY <3>1 DEF LinkInv, Received
    <3>3. input[d].msg <= sent'[d]
      BY <1>0, <1>4, <2>2, <3>2
    <3>4. LaterThan(input[d].msg, wire'[d])
      BY <1>12, <2>2, <3>2
    <3> QED
      BY <1>1, <3>1, <3>3, <3>4
  <2> QED
    BY <2>3, <2>4 DEF Received
<1>14. InputNewer' /\ RowsInOrder'
  BY <1>1 DEF LinkInv, InputNewer, Holding, RowsInOrder
<1> QED
  BY <1>11, <1>13, <1>14 DEF LinkInv

LEMMA RecvKeepsOrder ==
    ASSUME LinkInv, TelTypeOK', NEW c \in Conns, Thread_Recv(c) PROVE LinkInv'
<1>1. CASE wire[c] = <<>> /\ thread' = [thread EXCEPT ![c] = "check"] /\ UNCHANGED <<wire, input, split>>
  <2>1. UNCHANGED <<sent, wire, input, file>>
    BY <1>1 DEF Thread_Recv, meterVars
  <2>2. \A d \in Conns : /\ Holding(d)' => Holding(d)
                         /\ thread'[d] = "truncated" => thread[d] = "truncated"
    BY <1>1 DEF Holding, LinkInv, TelTypeOK
  <2> QED
    BY <2>1, <2>2, QuietStep
<1>2. ASSUME NEW n \in 1 .. Len(wire[c]),
             LET chunk == SubSeq(wire[c], 1, n)
             IN  /\ wire' = [wire EXCEPT ![c] = SubSeq(@, n + 1, Len(@))]
                 /\ split' = (split \/ How(chunk) # "whole")
                 /\ IF How(chunk) = "none"
                      THEN thread' = [thread EXCEPT ![c] = "check"] /\ UNCHANGED input
                      ELSE /\ thread' = [thread EXCEPT ![c] = "open"]
                           /\ input' = [input EXCEPT ![c] =
                                          [msg |-> chunk[1][1], how |-> How(chunk)]]
      PROVE LinkInv'
  <2> DEFINE w == wire[c]
             chunk == SubSeq(w, 1, n)
             rest == SubSeq(w, n + 1, Len(w))
  <2>0. /\ w \in Seq(Nat \X Pieces)
        /\ sent \in [Conns -> Nat] /\ wire \in [Conns -> Seq(Nat \X Pieces)]
        /\ input \in [Conns -> Inputs] /\ file \in Seq(Rows)
        /\ thread \in [Conns -> {"none", "check", "recv", "open", "truncated",
                                 "append", "closing", "ended", "died"}]
    BY DEF LinkInv, TelTypeOK
  <2>1. UNCHANGED <<sent, file>>
    BY DEF Thread_Recv, meterVars
  <2>2. wire' = [wire EXCEPT ![c] = rest]
    BY <1>2, <2>0
  <2>3. \/ thread' = [thread EXCEPT ![c] = "check"] /\ UNCHANGED input
        \/ /\ How(chunk) # "none"
           /\ thread' = [thread EXCEPT ![c] = "open"]
           /\ input' = [input EXCEPT ![c] = [msg |-> chunk[1][1], how |-> How(chunk)]]
    BY <1>2
  <2>4. How(chunk) # "none" => chunk[1][2] = 1
    BY DEF How
  <2>5. /\ Len(rest) = Len(w) - n
        /\ \A j \in 1 .. Len(w) - n : rest[j] = w[j + n]
        /\ chunk[1] = w[1]
    BY <2>0, RestOfWire
  <2>6. Len(w) \in Nat /\ n \in Nat /\ n >= 1 /\ 1 \in 1 .. Len(w)
    BY <2>0
  <2>7. \A j \in 1 .. Len(w) : w[j] \in Nat \X Pieces
    BY <2>0
  <2>8. /\ \A i, k \in 1 .. Len(w) : i < k => Behind(w[k], w[i])
        /\ \A i \in 1 .. Len(w) : w[i][1] <= sent[c]
    BY DEF LinkInv, WireOrdered
  <2> HIDE DEF chunk, rest, w
  <2>9. \A j \in 1 .. Len(rest) : j + n \in 2 .. Len(w) /\ j + n \in 1 .. Len(w) /\ rest[j] = w[j + n]
    BY <2>5, <2>6
  <2>10. WireOrdered'
    <3> SUFFICES ASSUME NEW d \in Conns
                 PROVE  /\ \A i, k \in 1 .. Len(wire'[d]) : i < k => Behind(wire'[d][k], wire'[d][i])
                        /\ \A i \in 1 .. Len(wire'[d]) : wire'[d][i][1] <= sent'[d]
      BY DEF WireOrdered, Behind
    <3>1. CASE d # c
      BY <2>0, <2>1, <2>2, <3>1 DEF LinkInv, WireOrdered
    <3>2. CASE d = c
      <4>1. wire'[d] = rest /\ sent'[d] = sent[c]
        BY <2>0, <2>1, <2>2, <3>2
      <4>2. ASSUME NEW i \in 1 .. Len(rest), NEW k \in 1 .. Len(rest), i < k
            PROVE  Behind(rest[k], rest[i])
        <5>1. i + n < k + n
          BY <2>5, <2>6, <4>2
        <5> QED
          BY <2>8, <2>9, <5>1
      <4>3. \A i \in 1 .. Len(rest) : rest[i][1] <= sent[c]
        BY <2>8, <2>9
      <4> QED
        BY <4>1, <4>2, <4>3
    <3> QED
      BY <3>1, <3>2
  <2>11. ASSUME NEW d \in Conns, NEW m \in Nat, LaterThan(m, wire[d])
         PROVE  LaterThan(m, wire'[d])
    <3>1. CASE d # c
      BY <2>0, <2>2, <2>11, <3>1
    <3>2. CASE d = c
      <4>1. wire'[d] = rest /\ wire[d] = w
        BY <2>0, <2>2, <3>2 DEF w
      <4> QED
        BY <2>9, <2>11, <4>1 DEF LaterThan
    <3> QED
      BY <3>1, <3>2
  <2>12. ASSUME How(chunk) # "none"
         PROVE  /\ w[1][1] <= sent[c] /\ LaterThan(w[1][1], rest)
                /\ chunk[1][1] = w[1][1] /\ w[1][1] \in Nat /\ w[1][2] = 1
    <3>1. w[1][2] = 1 /\ w[1][1] \in Nat /\ w[1][1] <= sent[c] /\ chunk[1][1] = w[1][1]
      BY <2>4, <2>5, <2>6, <2>7, <2>8, <2>12
    <3>2. ASSUME NEW j \in 1 .. Len(rest), rest[j][2] = 1 PROVE w[1][1] < rest[j][1]
      <4>1. j + n \in 1 .. Len(w) /\ 1 < j + n /\ rest[j] = w[j + n]
        BY <2>9, <2>6
      <4>2. Behind(w[j + n], w[1])
        BY <2>6, <2>8, <4>1
      <4> QED
        BY <3>1, <3>2, <4>1, <4>2 DEF Behind
    <3> QED
      BY <3>1, <3>2 DEF LaterThan
  <2>13. \A i \in 1 .. Len(file) : file[i].conn \in Conns /\ file[i].msg \in Nat
    <3>1. \A i \in 1 .. Len(file) : file[i] \in Rows
      BY <2>0
    <3> QED
      BY <3>1 DEF Rows
  <2>14. \A d \in Conns : input[d].msg \in Nat
    BY <2>0 DEF Inputs
  <2>15. \A d \in Conns : Holding(d)' =>
            \/ Holding(d) /\ d # c /\ input'[d] = input[d] /\ (thread'[d] = "truncated" => thread[d] = "truncated")
            \/ /\ d = c /\ How(chunk) # "none" /\ input'[c].msg = chunk[1][1]
               /\ thread'[c] = "open"
    BY <2>0, <2>3 DEF Holding
  <2>16. ASSUME NEW d \in Conns, Holding(d)'
         PROVE  input'[d].msg <= sent'[d] /\ LaterThan(input'[d].msg, wire'[d])
    <3>1. CASE Holding(d) /\ d # c /\ input'[d] = input[d]
      <4>1. input[d].msg <= sent[d] /\ LaterThan(input[d].msg, wire[d])
        BY <3>1 DEF LinkInv, Received
      <4> QED
        BY <2>0, <2>1, <2>2, <3>1, <4>1
    <3>2. CASE d = c /\ How(chunk) # "none" /\ input'[c].msg = chunk[1][1]
      <4>1. wire'[d] = rest
        BY <2>0, <2>2, <3>2
      <4> QED
        BY <2>1, <2>12, <3>2, <4>1
    <3> QED
      BY <2>15, <2>16, <3>1, <3>2
  <2>17. Received'
    <3>1. ASSUME NEW i \in 1 .. Len(file')
          PROVE  /\ file'[i].msg <= sent'[file'[i].conn]
                 /\ LaterThan(file'[i].msg, wire'[file'[i].conn])
      <4>1. file' = file /\ sent' = sent /\ i \in 1 .. Len(file)
        BY <2>1
      <4>2. file[i].msg <= sent[file[i].conn] /\ LaterThan(file[i].msg, wire[file[i].conn])
        BY <4>1 DEF LinkInv, Received
      <4>3. LaterThan(file[i].msg, wire'[file[i].conn])
        BY <2>11, <2>13, <4>1, <4>2
      <4> QED
        BY <4>1, <4>2, <4>3
    <3> QED
      BY <2>16, <3>1 DEF Received
  <2>18. InputNewer'
    <3> SUFFICES ASSUME NEW d \in Conns, NEW i \in 1 .. Len(file)
                 PROVE  /\ Holding(d)' /\ file[i].conn = d => file[i].msg < input'[d].msg
                        /\ thread'[d] = "truncated" => file[i].conn # d
      BY <2>1 DEF InputNewer
    <3>0. /\ Holding(d) /\ file[i].conn = d => file[i].msg < input[d].msg
          /\ thread[d] = "truncated" => file[i].conn # d
      BY DEF LinkInv, InputNewer
    <3>1. ASSUME Holding(d)', file[i].conn = d PROVE file[i].msg < input'[d].msg
      <4>1. CASE Holding(d) /\ input'[d] = input[d]
        BY <3>0, <3>1, <4>1
      <4>2. CASE d = c /\ How(chunk) # "none" /\ input'[c].msg = chunk[1][1]
        <5>1. LaterThan(file[i].msg, w)
          BY <3>1, <4>2 DEF LinkInv, Received, w
        <5>2. file[i].msg < w[1][1]
          BY <2>6, <2>12, <4>2, <5>1 DEF LaterThan
        <5> QED
          BY <2>12, <4>2, <5>2
      <4> QED
        BY <2>15, <3>1, <4>1, <4>2
    <3>2. ASSUME thread'[d] = "truncated" PROVE file[i].conn # d
      <4>1. Holding(d)'
        BY <3>2 DEF Holding
      <4>2. thread[d] = "truncated"
        BY <2>15, <3>2, <4>1
      <4> QED
        BY <3>0, <4>2
    <3> QED
      BY <3>1, <3>2
  <2>19. RowsInOrder'
    BY <2>1 DEF LinkInv, RowsInOrder
  <2> QED
    BY <2>10, <2>17, <2>18, <2>19 DEF LinkInv
<1> QED
  BY <1>1, <1>2 DEF Thread_Recv

LEMMA OpenKeepsOrder ==
    ASSUME LinkInv, TelTypeOK', NEW c \in Conns, Thread_Open(c) PROVE LinkInv'
<1>0. /\ UNCHANGED <<sent, wire, input>>
      /\ thread \in [Conns -> {"none", "check", "recv", "open", "truncated",
                               "append", "closing", "ended", "died"}]
  BY DEF Thread_Open, meterVars, LinkInv, TelTypeOK
<1>1. CASE f[c]
  <2>1. file' = file /\ thread' = [thread EXCEPT ![c] = "append"] /\ thread[c] = "open"
    BY <1>1 DEF Thread_Open
  <2>2. \A d \in Conns : /\ Holding(d)' => Holding(d)
                         /\ thread'[d] = "truncated" => thread[d] = "truncated"
    BY <1>0, <2>1 DEF Holding
  <2> QED
    BY <1>0, <2>1, <2>2, QuietStep
<1>2. CASE ~f[c]
  <2>1. file' = <<>> /\ thread' = [thread EXCEPT ![c] = "truncated"] /\ thread[c] = "open"
    BY <1>2 DEF Thread_Open
  <2>2. \A d \in Conns : Holding(d)' => Holding(d)
    BY <1>0, <2>1 DEF Holding
  <2>3. 1 .. Len(file') = {}
    BY <2>1
  <2>4. WireOrdered'
    BY <1>0 DEF LinkInv, WireOrdered, Behind
  <2>5. Received'
    BY <1>0, <2>2, <2>3 DEF LinkInv, Received, LaterThan
  <2>6. InputNewer' /\ RowsInOrder'
    BY <2>3 DEF InputNewer, RowsInOrder
  <2> QED
    BY <2>4, <2>5, <2>6 DEF LinkInv
<1> QED
  BY <1>1, <1>2

(* Where the rows of a new content of the file come from: they were in it, *)
(* or are the one the thread of c has written.                             *)
FromFile(g, c) ==
    \A i \in 1 .. Len(g) :
       \/ \E j \in 1 .. Len(file) : g[i].conn = file[j].conn /\ g[i].msg = file[j].msg
       \/ /\ Holding(c) /\ input[c].how # "missing"
          /\ g[i].conn = c /\ g[i].msg = input[c].msg

InOrder(g) == \A i, k \in 1 .. Len(g) :
                 i < k /\ g[i].conn = g[k].conn => g[i].msg < g[k].msg

(* What is left of rows in order is in order, of the same messages.        *)
LEMMA RemainsInOrder ==
    ASSUME NEW rows \in Seq(Rows), InOrder(rows), NEW r \in Remains(rows)
    PROVE  /\ InOrder(r)
           /\ \A i \in 1 .. Len(r) : \E j \in 1 .. Len(rows) :
                 r[i].conn = rows[j].conn /\ r[i].msg = rows[j].msg
<1>1. PICK d \in {0, 1} :
         /\ Len(r) = Len(rows) - d
         /\ \A i \in 1 .. Len(r) : /\ i + d \in 1 .. Len(rows)
                                   /\ r[i].conn = rows[i + d].conn
                                   /\ r[i].msg = rows[i + d].msg
  BY RemainingRows
<1>2. ASSUME NEW i \in 1 .. Len(r), NEW k \in 1 .. Len(r), i < k, r[i].conn = r[k].conn
      PROVE  r[i].msg < r[k].msg
  <2>1. i + d < k + d
    BY <1>1, <1>2
  <2>2. rows[i + d].conn = rows[k + d].conn
    BY <1>1, <1>2
  <2>3. rows[i + d].msg < rows[k + d].msg
    BY <1>1, <2>1, <2>2 DEF InOrder
  <2> QED
    BY <1>1, <2>3
<1> QED
  BY <1>1, <1>2 DEF InOrder

(* The thread of c appends its row.                                        *)
Appended(c, g) ==
    /\ Len(g) = Len(file) + 1
    /\ \A i \in 1 .. Len(file) : g[i] = file[i]
    /\ g[Len(g)].conn = c /\ g[Len(g)].msg = input[c].msg

(* It writes its row over the first one, or over the first two.            *)
Overwritten(c, g) ==
    /\ g[1].conn = c /\ g[1].msg = input[c].msg
    /\ \E d \in {0, 1} :
          /\ Len(g) = Len(file) - d
          /\ \A i \in 2 .. Len(g) : /\ i + d \in 2 .. Len(file)
                                    /\ g[i].conn = file[i + d].conn
                                    /\ g[i].msg = file[i + d].msg

LEMMA RowWritten ==
    ASSUME TelTypeOK, NEW c \in Conns, Thread_Write(c), input[c].how # "missing"
    PROVE  /\ Len(file) \in Nat /\ Len(file') \in Nat \ {0}
           /\ \/ Appended(c, file') /\ (thread[c] = "append" \/ file = <<>>)
              \/ Overwritten(c, file') /\ thread[c] = "truncated"
<1> DEFINE row == [conn |-> c, msg |-> input[c].msg, how |-> input[c].how]
<1>1. row.conn = c /\ row.msg = input[c].msg /\ row \in Rows
  BY RowOfInput
<1>2. file \in Seq(Rows) /\ Len(file) \in Nat
  BY DEF TelTypeOK
<1>3. \/ file' = Append(file, row) /\ (thread[c] = "append" \/ file = <<>>)
      \/ /\ thread[c] = "truncated" /\ file # <<>>
         /\ \E rest \in Remains(Tail(file)) : file' = <<row>> \o rest
  BY DEF Thread_Write
<1> HIDE DEF row
<1>4. CASE file' = Append(file, row) /\ (thread[c] = "append" \/ file = <<>>)
  <2>1. /\ Len(file') = Len(file) + 1
        /\ \A i \in 1 .. Len(file) : file'[i] = file[i]
        /\ file'[Len(file) + 1] = row
    BY <1>1, <1>2, <1>4
  <2> QED
    BY <1>1, <1>2, <1>4, <2>1 DEF Appended
<1>5. CASE /\ thread[c] = "truncated" /\ file # <<>>
           /\ \E rest \in Remains(Tail(file)) : file' = <<row>> \o rest
  <2>1. PICK rest \in Remains(Tail(file)) : file' = <<row>> \o rest
    BY <1>5
  <2>2. /\ Tail(file) \in Seq(Rows) /\ Len(Tail(file)) = Len(file) - 1
        /\ \A i \in 1 .. Len(file) - 1 : Tail(file)[i] = file[i + 1]
    BY <1>2, <1>5
  <2>3. rest \in Seq(Rows) /\ Len(rest) \in Nat
    <3>1. rest \in Seq(Rows)
      BY <2>2, RemainingRows
    <3> QED
      BY <3>1
  <2>4. PICK d \in {0, 1} :
           /\ Len(rest) = Len(Tail(file)) - d
           /\ \A i \in 1 .. Len(rest) : /\ i + d \in 1 .. Len(Tail(file))
                                        /\ rest[i].conn = Tail(file)[i + d].conn
                                        /\ rest[i].msg = Tail(file)[i + d].msg
    BY <2>2, RemainingRows
  <2>5. <<row>> \in Seq(Rows) /\ Len(<<row>>) = 1 /\ <<row>>[1] = row
    BY <1>1
  <2>6. Len(file') = 1 + Len(rest) /\ file'[1] = row
    BY <2>1, <2>3, <2>5, Joined
  <2>7. \A i \in 1 + 1 .. 1 + Len(rest) : file'[i] = rest[i - 1]
    BY <2>1, <2>3, <2>5, Joined
  <2>8. Len(file') = Len(file) - d
    BY <1>2, <2>2, <2>4, <2>6
  <2>9. ASSUME NEW i \in 2 .. Len(file')
        PROVE  /\ i + d \in 2 .. Len(file)
               /\ file'[i].conn = file[i + d].conn
               /\ file'[i].msg = file[i + d].msg
    <3>1. i - 1 \in 1 .. Len(rest) /\ i \in 1 + 1 .. 1 + Len(rest)
      BY <2>3, <2>6
    <3>2. i - 1 + d \in 1 .. Len(file) - 1
      BY <2>2, <2>4, <3>1
    <3>3. Tail(file)[i - 1 + d] = file[(i - 1 + d) + 1]
      BY <2>2, <3>2
    <3>4. (i - 1 + d) + 1 = i + d /\ i + d \in 2 .. Len(file)
      BY <1>2, <3>2
    <3>5. file'[i] = rest[i - 1]
      BY <2>7, <3>1
    <3> QED
      BY <2>4, <3>1, <3>3, <3>4, <3>5
  <2>10. Len(file') \in Nat \ {0}
    BY <2>3, <2>6
  <2>11. Overwritten(c, file')
    BY <1>1, <2>6, <2>8, <2>9 DEF Overwritten
  <2> QED
    BY <1>2, <1>5, <2>10, <2>11
<1> QED
  BY <1>3, <1>4, <1>5

(* What a thread writes into the file, in all its cases.                   *)
LEMMA WrittenFile ==
    ASSUME LinkInv, NEW c \in Conns, Thread_Write(c)
    PROVE  InOrder(file') /\ FromFile(file', c)
<1>0. file \in Seq(Rows) /\ Len(file) \in Nat /\ InOrder(file) /\ Holding(c) /\ TelTypeOK
  BY DEF LinkInv, TelTypeOK, RowsInOrder, InOrder, Thread_Write, Holding
<1>1. CASE input[c].how = "missing"
  <2>1. file' = file \/ file' \in Remains(file)
    BY <1>1 DEF Thread_Write
  <2> QED
    BY <1>0, <2>1, RemainsInOrder DEF FromFile
<1>2. CASE input[c].how # "missing" /\ Appended(c, file')
  <2>1. /\ Len(file') = Len(file) + 1
        /\ \A i \in 1 .. Len(file) : file'[i] = file[i]
        /\ file'[Len(file) + 1].conn = c /\ file'[Len(file) + 1].msg = input[c].msg
    BY <1>2 DEF Appended
  <2>2. \A i \in 1 .. Len(file') : i \in 1 .. Len(file) \/ i = Len(file) + 1
    BY <1>0, <2>1
  <2>3. \A i \in 1 .. Len(file) : file[i].conn = c => file[i].msg < input[c].msg
    BY <1>0 DEF LinkInv, InputNewer
  <2>4. FromFile(file', c)
    BY <1>0, <1>2, <2>1, <2>2 DEF FromFile
  <2>5. ASSUME NEW i \in 1 .. Len(file'), NEW k \in 1 .. Len(file'), i < k,
               file'[i].conn = file'[k].conn
        PROVE  file'[i].msg < file'[k].msg
    <3>0. i \in 1 .. Len(file)
      BY <1>0, <2>1, <2>5
    <3>1. CASE k \in 1 .. Len(file)
      BY <1>0, <2>1, <2>5, <3>0, <3>1 DEF InOrder
    <3>2. CASE k = Len(file) + 1
      BY <2>1, <2>3, <2>5, <3>0, <3>2
    <3> QED
      BY <2>2, <3>1, <3>2
  <2> QED
    BY <2>4, <2>5 DEF InOrder
<1>3. CASE input[c].how # "missing" /\ Overwritten(c, file') /\ thread[c] = "truncated"
  <2>1. PICK d \in {0, 1} :
           /\ Len(file') = Len(file) - d
           /\ \A i \in 2 .. Len(file') : /\ i + d \in 2 .. Len(file)
                                         /\ file'[i].conn = file[i + d].conn
                                         /\ file'[i].msg = file[i + d].msg
    BY <1>3 DEF Overwritten
  <2>2. file'[1].conn = c /\ file'[1].msg = input[c].msg
    BY <1>3 DEF Overwritten
  <2>3. \A j \in 1 .. Len(file) : file[j].conn # c
    BY <1>3 DEF LinkInv, InputNewer
  <2>4. \A i \in 1 .. Len(file') : i = 1 \/ i \in 2 .. Len(file')
    BY <1>0, <2>1
  <2>5. \A i \in 2 .. Len(file) : i \in 1 .. Len(file)
    BY <1>0
  <2>6. FromFile(file', c)
    BY <1>0, <1>3, <2>1, <2>2, <2>4, <2>5 DEF FromFile
  <2>7. ASSUME NEW i \in 1 .. Len(file'), NEW k \in 1 .. Len(file'), i < k,
               file'[i].conn = file'[k].conn
        PROVE  file'[i].msg < file'[k].msg
    <3>1. k \in 2 .. Len(file')
      BY <1>0, <2>1, <2>7
    <3>2. CASE i = 1
      BY <2>1, <2>2, <2>3, <2>5, <2>7, <3>1, <3>2
    <3>3. CASE i \in 2 .. Len(file')
      <4>1. i + d \in 1 .. Len(file) /\ k + d \in 1 .. Len(file) /\ i + d < k + d
        BY <2>1, <2>5, <2>7, <3>1, <3>3
      <4> QED
        BY <1>0, <2>1, <2>7, <3>1, <3>3, <4>1 DEF InOrder
    <3> QED
      BY <2>4, <3>2, <3>3
  <2> QED
    BY <2>6, <2>7 DEF InOrder
<1> QED
  BY <1>0, <1>1, <1>2, <1>3, RowWritten

LEMMA WriteKeepsOrder ==
    ASSUME LinkInv, TelTypeOK', NEW c \in Conns, Thread_Write(c) PROVE LinkInv'
<1>1. /\ UNCHANGED <<sent, wire, input>>
      /\ file \in Seq(Rows)
      /\ thread \in [Conns -> {"none", "check", "recv", "open", "truncated",
                               "append", "closing", "ended", "died"}]
  BY DEF Thread_Write, LinkInv, TelTypeOK
<1>2. thread' = [thread EXCEPT ![c] = "died"] \/ thread' = [thread EXCEPT ![c] = "check"]
  BY DEF Thread_Write
<1>3. \A d \in Conns : Holding(d)' => Holding(d) /\ d # c /\ thread'[d] = thread[d]
  BY <1>1, <1>2 DEF Holding
<1>4. InOrder(file') /\ FromFile(file', c)
  BY WrittenFile
<1>5. WireOrdered'
  BY <1>1 DEF LinkInv, WireOrdered, Behind
<1>6. ASSUME NEW i \in 1 .. Len(file')
      PROVE  file'[i].msg <= sent'[file'[i].conn] /\ LaterThan(file'[i].msg, wire'[file'[i].conn])
  <2>1. CASE \E j \in 1 .. Len(file) : file'[i].conn = file[j].conn /\ file'[i].msg = file[j].msg
    BY <1>1, <2>1 DEF LinkInv, Received
  <2>2. CASE Holding(c) /\ file'[i].conn = c /\ file'[i].msg = input[c].msg
    BY <1>1, <2>2 DEF LinkInv, Received
  <2> QED
    BY <1>4, <2>1, <2>2 DEF FromFile
<1>7. ASSUME NEW d \in Conns, Holding(d)'
      PROVE  input'[d].msg <= sent'[d] /\ LaterThan(input'[d].msg, wire'[d])
  BY <1>1, <1>3, <1>7 DEF LinkInv, Received
<1>8. Received'
  BY <1>6, <1>7 DEF Received
<1>9. ASSUME NEW d \in Conns, NEW i \in 1 .. Len(file')
      PROVE  /\ Holding(d)' /\ file'[i].conn = d => file'[i].msg < input'[d].msg
             /\ thread'[d] = "truncated" => file'[i].conn # d
  <2>1. ASSUME Holding(d)', file'[i].conn = d PROVE file'[i].msg < input'[d].msg
    <3>1. PICK j \in 1 .. Len(file) : file'[i].conn = file[j].conn /\ file'[i].msg = file[j].msg
      BY <1>3, <1>4, <2>1 DEF FromFile
    <3> QED
      BY <1>1, <1>3, <2>1, <3>1 DEF LinkInv, InputNewer
  <2>2. ASSUME thread'[d] = "truncated" PROVE file'[i].conn # d
    <3>1. d # c /\ thread[d] = "truncated"
      BY <1>3, <2>2 DEF Holding
    <3> QED
      BY <1>4, <3>1 DEF FromFile, LinkInv, InputNewer
  <2> QED
    BY <2>1, <2>2
<1>10. InputNewer'
  BY <1>9 DEF InputNewer
<1>11. RowsInOrder'
  BY <1>4 DEF InOrder, RowsInOrder
<1> QED
  BY <1>5, <1>8, <1>10, <1>11 DEF LinkInv

-----------------------------------------------------------------------------
(* Every variable keeps its type, for any bounds.                          *)
THEOREM TypesKept == TelSpec => []TelTypeOK
<1> QED
  BY TypesInit, TypesStep, PTL DEF TelSpec

LEMMA LinkInvInit == TelInit => LinkInv
<1> SUFFICES ASSUME TelInit PROVE LinkInv
  OBVIOUS
<1>1. TelTypeOK
  BY TypesInit
<1>2. /\ \A c \in Conns : 1 .. Len(wire[c]) = {} /\ ~Holding(c)
      /\ 1 .. Len(file) = {}
  BY DEF TelInit, Holding
<1>3. WireOrdered /\ Received /\ InputNewer /\ RowsInOrder
  BY <1>2 DEF WireOrdered, Received, InputNewer, RowsInOrder
<1> QED
  BY <1>1, <1>3 DEF LinkInv

LEMMA LinkInvStep == LinkInv /\ [TelNext]_telVars => LinkInv'
<1> SUFFICES ASSUME LinkInv, [TelNext]_telVars PROVE LinkInv'
  OBVIOUS
<1>0. TelTypeOK'
  BY TypesStep DEF LinkInv
<1>1. thread \in [Conns -> {"none", "check", "recv", "open", "truncated",
                            "append", "closing", "ended", "died"}]
  BY DEF LinkInv, TelTypeOK
<1>2. ASSUME UNCHANGED <<sent, wire, input, file>>,
             \/ UNCHANGED thread
             \/ \E c \in Conns, s \in {"check", "recv", "closing", "ended"} :
                   thread' = [thread EXCEPT ![c] = s]
      PROVE  LinkInv'
  <2>1. \A d \in Conns : /\ Holding(d)' => Holding(d)
                         /\ thread'[d] = "truncated" => thread[d] = "truncated"
    BY <1>1, <1>2 DEF Holding
  <2> QED
    BY <1>0, <1>2, <2>1, QuietStep
<1>3. ASSUME NEW c \in Conns, Thread(c) PROVE LinkInv'
  <2>1. CASE Thread_Check(c)
    BY <1>2, <2>1 DEF Thread_Check, meterVars
  <2>2. CASE Thread_Recv(c)
    BY <1>0, <2>2, RecvKeepsOrder
  <2>3. CASE Thread_Open(c)
    BY <1>0, <2>3, OpenKeepsOrder
  <2>4. CASE Thread_Write(c)
    BY <1>0, <2>4, WriteKeepsOrder
  <2>5. CASE Thread_Close(c)
    BY <1>2, <2>5 DEF Thread_Close
  <2> QED
    BY <1>3, <2>1, <2>2, <2>3, <2>4, <2>5 DEF Thread
<1>4. ASSUME NEW c \in Conns, Meter_Send(c) PROVE LinkInv'
  BY <1>0, <1>4, SendKeepsOrder
<1>5. ASSUME NEW c \in Conns,
             Meter_Connect(c) \/ Meter_Stops(c) \/ Meter_PowerFails(c) \/ Server_Accept(c)
      PROVE  LinkInv'
  BY <1>2, <1>5 DEF Meter_Connect, Meter_Stops, Meter_PowerFails, Server_Accept
<1>6. CASE User_Exit \/ Server_Exit
  BY <1>2, <1>6 DEF User_Exit, Server_Exit, meterVars
<1>7. CASE UNCHANGED telVars
  BY <1>2, <1>7 DEF telVars, meterVars
<1> QED
  BY <1>3, <1>4, <1>5, <1>6, <1>7 DEF TelNext

(* The rows of a connection in site_meter.dat are in the order of its      *)
(* messages, none twice: for any number of connections and messages, any   *)
(* size of recv and of the buffers, however TCP cuts the stream and the    *)
(* threads of datalogger.py share the file.                                *)
THEOREM RowsStayInOrder == TelSpec => []RowsInOrder
<1>1. LinkInv => RowsInOrder
  BY DEF LinkInv
<1> QED
  BY <1>1, LinkInvInit, LinkInvStep, PTL DEF TelSpec

-----------------------------------------------------------------------------
(* While every input is one message: what is on a wire begins with the     *)
(* message after the last one taken.                                       *)

(* y comes next after x in the stream of a connection. *)
NextPiece(x, y) == y = IF x[2] = 4 THEN <<x[1] + 1, 1>> ELSE <<x[1], x[2] + 1>>

(* A connection that is not yet there has no pieces, and no thread, and one *)
(* without a thread no rows.                                               *)
Fresh ==
    \A c \in Conns :
       /\ link[c] = "none" => wire[c] = <<>> /\ thread[c] = "none"
       /\ thread[c] = "none" => \A i \in 1 .. Len(file) : file[i].conn # c

(* A wire has all pieces up to the end of a message, the last one sent if  *)
(* the connection is up.                                                   *)
WireWhole ==
    \A c \in Conns :
       /\ \A j \in 1 .. Len(wire[c]) : j + 1 \in 1 .. Len(wire[c]) =>
             NextPiece(wire[c][j], wire[c][j + 1])
       /\ wire[c] # <<>> => /\ wire[c][Len(wire[c])][2] = 4
                            /\ link[c] = "up" => wire[c][Len(wire[c])][1] = sent[c]

(* The message after m is the next one on the wire, or the next to be sent *)
Follows(c, m) ==
    /\ wire[c] # <<>> => wire[c][1] = <<m + 1, 1>>
    /\ wire[c] = <<>> /\ link[c] = "up" => sent[c] = m

(* Row i is the last one of its connection. *)
Newest(g, i) == \A l \in i + 1 .. Len(g) : g[l].conn # g[i].conn

(* The input follows the newest row, and the wire the input. *)
TakenInTurn ==
    \A c \in Conns :
       /\ Holding(c) => input[c].how = "whole" /\ Follows(c, input[c].msg)
       /\ \A i \in 1 .. Len(file) : file[i].conn = c /\ Newest(file, i) =>
             IF Holding(c) THEN input[c].msg = file[i].msg + 1
                           ELSE Follows(c, file[i].msg)

Gapless(g) ==
    \A i, k \in 1 .. Len(g) :
       /\ i < k /\ g[i].conn = g[k].conn
       /\ \A l \in i + 1 .. k - 1 : g[l].conn # g[i].conn
       => g[k].msg = g[i].msg + 1

FramedInv == Fresh /\ (~split => WireWhole /\ TakenInTurn /\ Gapless(file))

ThreadStates == {"none", "check", "recv", "open", "truncated", "append",
                 "closing", "ended", "died"}

(* Steps that neither send nor receive, and leave the file alone. *)
LEMMA QuietFrame ==
    ASSUME LinkInv, FramedInv, UNCHANGED <<sent, wire, input, file, split>>,
           \A c \in Conns :
              /\ link'[c] = "up" => link[c] \in {"up", "none"}
              /\ link'[c] = "none" => link[c] = "none" /\ thread'[c] = "none"
              /\ thread'[c] = "none" => thread[c] = "none"
              /\ Holding(c)' <=> Holding(c)
    PROVE  FramedInv'
<1>1. Fresh'
  BY DEF FramedInv, Fresh
<1> SUFFICES ASSUME ~split PROVE WireWhole' /\ TakenInTurn' /\ Gapless(file)'
  BY <1>1 DEF FramedInv
<1>2. WireWhole /\ TakenInTurn /\ Gapless(file) /\ Fresh
  BY DEF FramedInv
<1>3. WireWhole'
  BY <1>2 DEF WireWhole, NextPiece, Fresh
<1>4. ASSUME NEW c \in Conns, NEW m, Follows(c, m), link[c] = "up" \/ link'[c] # "up"
      PROVE  Follows(c, m)'
  BY <1>4 DEF Follows
<1>5. ASSUME NEW c \in Conns, link[c] # "up", link'[c] = "up"
      PROVE  ~Holding(c) /\ \A i \in 1 .. Len(file) : file[i].conn # c
  BY <1>2, <1>5 DEF Fresh, Holding
<1>6. TakenInTurn'
  <2> SUFFICES ASSUME NEW c \in Conns
               PROVE  /\ Holding(c)' => input[c].how = "whole" /\ Follows(c, input[c].msg)'
                      /\ \A i \in 1 .. Len(file) : file[i].conn = c /\ Newest(file, i) =>
                           IF Holding(c)' THEN input[c].msg = file[i].msg + 1
                                          ELSE Follows(c, file[i].msg)'
    BY DEF TakenInTurn, Newest, Follows
  <2>1. CASE link[c] # "up" /\ link'[c] = "up"
    BY <1>5, <2>1
  <2>2. CASE ~(link[c] # "up" /\ link'[c] = "up")
    BY <1>2, <1>4, <2>2 DEF TakenInTurn
  <2> QED
    BY <2>1, <2>2
<1>7. Gapless(file)'
  BY <1>2 DEF Gapless
<1> QED
  BY <1>3, <1>6, <1>7

(* A message that is sent is the next one, behind the last one. *)
LEMMA SendFrame ==
    ASSUME LinkInv, FramedInv, NEW c \in Conns, Meter_Send(c) PROVE FramedInv'
<1> DEFINE w == wire[c]
           m == sent[c] + 1
           v == w \o [p \in Pieces |-> <<m, p>>]
<1>0. /\ w \in Seq(Nat \X Pieces) /\ m \in Nat /\ sent[c] \in Nat /\ Len(w) \in Nat
      /\ sent \in [Conns -> Nat] /\ wire \in [Conns -> Seq(Nat \X Pieces)]
      /\ link \in [Conns -> LinkStates]
  BY DEF LinkInv, TelTypeOK, LinkStates
<1>1. /\ UNCHANGED <<thread, input, file, split>>
      /\ sent' = [sent EXCEPT ![c] = m]
  BY DEF Meter_Send
<1>2. CASE link[c] # "up" /\ UNCHANGED wire /\ link'[c] \notin {"up", "none"}
           /\ link' = [link EXCEPT ![c] = link'[c]]
  <2>1. \A d \in Conns : d # c => link'[d] = link[d] /\ sent'[d] = sent[d]
    BY <1>0, <1>1, <1>2
  <2>2. Fresh'
    BY <1>0, <1>1, <1>2, <2>1 DEF FramedInv, Fresh
  <2>3. WireWhole => WireWhole'
    BY <1>2, <2>1 DEF WireWhole, NextPiece
  <2>4. ASSUME NEW d \in Conns, NEW n, Follows(d, n) PROVE Follows(d, n)'
    BY <1>2, <2>1, <2>4 DEF Follows
  <2>5. TakenInTurn => TakenInTurn'
    <3> SUFFICES ASSUME TakenInTurn, NEW d \in Conns
                 PROVE  /\ Holding(d)' => input[d].how = "whole" /\ Follows(d, input[d].msg)'
                        /\ \A i \in 1 .. Len(file) : file[i].conn = d /\ Newest(file, i) =>
                             IF Holding(d)' THEN input[d].msg = file[i].msg + 1
                                            ELSE Follows(d, file[i].msg)'
      BY <1>1 DEF TakenInTurn, Newest, Follows
    <3>1. Holding(d)' <=> Holding(d)
      BY <1>1 DEF Holding
    <3> QED
      BY <1>1, <2>4, <3>1 DEF TakenInTurn
  <2> QED
    BY <1>1, <2>2, <2>3, <2>5 DEF FramedInv, Gapless
<1>3. CASE link[c] = "up" /\ wire' = [wire EXCEPT ![c] = v] /\ UNCHANGED link
  <2>1. /\ v \in Seq(Nat \X Pieces) /\ Len(v) = Len(w) + 4
        /\ \A j \in 1 .. Len(w) : v[j] = w[j]
        /\ \A j \in Len(w) + 1 .. Len(w) + 4 : v[j] = <<m, j - Len(w)>>
    BY <1>0, MessageOnWire
  <2>2. /\ wire'[c] = v /\ sent'[c] = m /\ wire[c] = w /\ link'[c] = "up"
        /\ \A d \in Conns : d # c => wire'[d] = wire[d] /\ sent'[d] = sent[d] /\ link'[d] = link[d]
    BY <1>0, <1>1, <1>3
  <2>3. m = sent[c] + 1 /\ (w = <<>> <=> Len(w) = 0)
    BY <1>0
  <2> HIDE DEF v, w, m
  <2>4. Fresh'
    BY <1>1, <1>3, <2>2 DEF FramedInv, Fresh
  <2>5. v # <<>> /\ v[Len(v)] = <<m, 4>>
    <3>1. Len(v) \in Len(w) + 1 .. Len(w) + 4 /\ Len(v) - Len(w) = 4 /\ Len(v) # 0
      BY <1>0, <2>1
    <3>2. v[Len(v)] = <<m, Len(v) - Len(w)>>
      BY <2>1, <3>1
    <3>3. v # <<>>
      BY <3>1
    <3> QED
      BY <3>1, <3>2, <3>3
  <2>6. ASSUME WireWhole PROVE WireWhole'
    <3> SUFFICES ASSUME NEW d \in Conns
                 PROVE  /\ \A j \in 1 .. Len(wire'[d]) : j + 1 \in 1 .. Len(wire'[d]) =>
                             NextPiece(wire'[d][j], wire'[d][j + 1])
                        /\ wire'[d] # <<>> =>
                             /\ wire'[d][Len(wire'[d])][2] = 4
                             /\ link'[d] = "up" => wire'[d][Len(wire'[d])][1] = sent'[d]
      BY DEF WireWhole, NextPiece
    <3>1. CASE d # c
      BY <2>2, <2>6, <3>1 DEF WireWhole
    <3>2. ASSUME NEW j \in 1 .. Len(v), j + 1 \in 1 .. Len(v)
          PROVE  NextPiece(v[j], v[j + 1])
      <4>1. CASE j + 1 \in 1 .. Len(w)
        <5>1. j \in 1 .. Len(w)
          BY <1>0, <3>2, <4>1
        <5>2. NextPiece(w[j], w[j + 1])
          BY <2>2, <2>6, <4>1, <5>1 DEF WireWhole
        <5> QED
          BY <2>1, <4>1, <5>1, <5>2
      <4>2. CASE j = Len(w) /\ j \in 1 .. Len(w)
        <5>1. v[j] = w[Len(w)] /\ v[j + 1] = <<m, 1>>
          <6>1. j + 1 \in Len(w) + 1 .. Len(w) + 4 /\ j + 1 - Len(w) = 1
            BY <1>0, <4>2
          <6>2. v[j + 1] = <<m, (j + 1) - Len(w)>>
            BY <2>1, <6>1
          <6>3. v[j] = w[j]
            BY <2>1, <4>2
          <6> QED
            BY <4>2, <6>1, <6>2, <6>3
        <5>2. w[Len(w)][2] = 4 /\ w[Len(w)][1] = sent[c]
          BY <1>0, <1>3, <2>2, <2>3, <2>6, <4>2 DEF WireWhole
        <5> QED
          BY <2>3, <5>1, <5>2 DEF NextPiece
      <4>3. CASE j \in Len(w) + 1 .. Len(w) + 3
        <5>1. /\ j \in Len(w) + 1 .. Len(w) + 4 /\ j + 1 \in Len(w) + 1 .. Len(w) + 4
              /\ j - Len(w) # 4 /\ (j + 1) - Len(w) = (j - Len(w)) + 1
          BY <1>0, <4>3
        <5>2. v[j] = <<m, j - Len(w)>> /\ v[j + 1] = <<m, (j - Len(w)) + 1>>
          BY <2>1, <5>1
        <5> QED
          BY <5>1, <5>2 DEF NextPiece
      <4> QED
        BY <1>0, <2>1, <3>2, <4>1, <4>2, <4>3
    <3>3. v[Len(v)][2] = 4 /\ v[Len(v)][1] = m
      BY <2>5
    <3>4. CASE d = c
      <4>1. wire'[d] = v /\ sent'[d] = m
        BY <2>2, <3>4
      <4>2. \A j \in 1 .. Len(wire'[d]) : j + 1 \in 1 .. Len(wire'[d]) =>
                NextPiece(wire'[d][j], wire'[d][j + 1])
        BY <3>2, <4>1
      <4>3. wire'[d][Len(wire'[d])][2] = 4 /\ wire'[d][Len(wire'[d])][1] = sent'[d]
        BY <3>3, <4>1
      <4> QED
        BY <4>2, <4>3
    <3> QED
      BY <3>1, <3>4
  <2>7. ASSUME NEW d \in Conns, NEW n, Follows(d, n) PROVE Follows(d, n)'
    <3>1. CASE d # c
      BY <2>2, <2>7, <3>1 DEF Follows
    <3>2. CASE d = c /\ w = <<>>
      <4>1. n = sent[c] /\ 1 \in Len(w) + 1 .. Len(w) + 4 /\ 1 - Len(w) = 1
        BY <1>0, <1>3, <2>2, <2>3, <2>7, <3>2 DEF Follows
      <4>2. v[1] = <<m, 1>>
        BY <2>1, <4>1
      <4> QED
        BY <2>2, <2>3, <2>5, <3>2, <4>1, <4>2 DEF Follows
    <3>3. CASE d = c /\ w # <<>>
      <4>1. 1 \in 1 .. Len(w) /\ w[1] = <<n + 1, 1>>
        BY <1>0, <2>2, <2>3, <2>7, <3>3 DEF Follows
      <4> QED
        BY <2>1, <2>2, <2>5, <3>3, <4>1 DEF Follows
    <3> QED
      BY <3>1, <3>2, <3>3
  <2>8. TakenInTurn => TakenInTurn'
    <3> SUFFICES ASSUME TakenInTurn, NEW d \in Conns
                 PROVE  /\ Holding(d)' => input[d].how = "whole" /\ Follows(d, input[d].msg)'
                        /\ \A i \in 1 .. Len(file) : file[i].conn = d /\ Newest(file, i) =>
                             IF Holding(d)' THEN input[d].msg = file[i].msg + 1
                                            ELSE Follows(d, file[i].msg)'
      BY <1>1 DEF TakenInTurn, Newest, Follows
    <3>1. Holding(d)' <=> Holding(d)
      BY <1>1 DEF Holding
    <3> QED
      BY <1>1, <2>7, <3>1 DEF TakenInTurn
  <2> QED
    BY <1>1, <2>4, <2>6, <2>8 DEF FramedInv, Gapless
<1> QED
  BY <1>0, <1>2, <1>3 DEF Meter_Send

(* An input is understood as a message when it is one.                     *)
LEMMA WholeInput ==
    ASSUME NEW chunk, chunk[Len(chunk)][2] \in Pieces, How(chunk) = "whole"
    PROVE  /\ chunk[1][2] = 1 /\ chunk[1][1] = chunk[Len(chunk)][1]
           /\ chunk[Len(chunk)][2] = 4
<1> DEFINE first == chunk[1]
           last == chunk[Len(chunk)]
<1>1. first[2] = 1
  BY DEF How
<1>2. last[2] \in {1, 2, 3, 4}
  BY DEF Pieces
<1>3. "whole" = CASE first[1] = last[1] /\ last[2] = 1 -> "none"
                  [] first[1] = last[1] /\ last[2] = 2 -> "missing"
                  [] first[1] = last[1] /\ last[2] = 3 -> "cut"
                  [] first[1] = last[1] /\ last[2] = 4 -> "whole"
                  [] first[1] # last[1] /\ last[2] = 1 -> "glued"
                  [] first[1] # last[1] /\ last[2] # 1 -> "none"
  BY <1>1 DEF How
<1> HIDE DEF first, last
<1>4. first[1] = last[1] /\ last[2] = 4
  BY <1>2, <1>3
<1> QED
  BY <1>1, <1>4 DEF first, last

(* An input that is one message leaves the next one on the wire.           *)
LEMMA RecvFrame ==
    ASSUME LinkInv, FramedInv, NEW c \in Conns, Thread_Recv(c) PROVE FramedInv'
<1>0. /\ UNCHANGED <<link, sent, file>> /\ thread[c] = "recv"
      /\ thread \in [Conns -> ThreadStates] /\ input \in [Conns -> Inputs]
      /\ wire \in [Conns -> Seq(Nat \X Pieces)]
  BY DEF Thread_Recv, meterVars, LinkInv, TelTypeOK, ThreadStates
<1>1. CASE /\ wire[c] = <<>> /\ thread' = [thread EXCEPT ![c] = "check"]
           /\ UNCHANGED <<wire, input, split>>
  <2>1. \A d \in Conns : /\ Holding(d)' <=> Holding(d)
                         /\ thread'[d] = "none" <=> thread[d] = "none"
    BY <1>0, <1>1 DEF Holding
  <2>2. \A d \in Conns : link'[d] = "none" => link[d] = "none" /\ thread'[d] = "none"
    BY <1>0, <2>1 DEF FramedInv, Fresh
  <2> QED
    BY <1>0, <1>1, <2>1, <2>2, QuietFrame
<1>2. ASSUME NEW n \in 1 .. Len(wire[c]),
             LET chunk == SubSeq(wire[c], 1, n)
             IN  /\ wire' = [wire EXCEPT ![c] = SubSeq(@, n + 1, Len(@))]
                 /\ split' = (split \/ How(chunk) # "whole")
                 /\ IF How(chunk) = "none"
                      THEN thread' = [thread EXCEPT ![c] = "check"] /\ UNCHANGED input
                      ELSE /\ thread' = [thread EXCEPT ![c] = "open"]
                           /\ input' = [input EXCEPT ![c] =
                                          [msg |-> chunk[1][1], how |-> How(chunk)]]
      PROVE FramedInv'
  <2> DEFINE w == wire[c]
             chunk == SubSeq(w, 1, n)
             rest == SubSeq(w, n + 1, Len(w))
  <2>1. /\ w \in Seq(Nat \X Pieces) /\ Len(w) \in Nat /\ n \in Nat /\ 1 <= n /\ n <= Len(w)
        /\ w # <<>> /\ \A j \in 1 .. Len(w) : w[j] \in Nat \X Pieces
    BY <1>0
  <2>2. /\ Len(rest) = Len(w) - n /\ rest \in Seq(Nat \X Pieces)
        /\ \A j \in 1 .. Len(w) - n : rest[j] = w[j + n]
        /\ chunk[1] = w[1]
    BY <2>1, RestOfWire
  <2>3. Len(chunk) = n /\ chunk[n] = w[n]
    BY <2>1
  <2>4. /\ wire' = [wire EXCEPT ![c] = rest]
        /\ \A d \in Conns : d # c => /\ wire'[d] = wire[d] /\ thread'[d] = thread[d]
                                     /\ input'[d] = input[d]
        /\ wire'[c] = rest /\ thread'[c] \in {"check", "open"}
    BY <1>0, <1>2
  <2>5. Fresh'
    BY <1>0, <2>1, <2>4 DEF FramedInv, Fresh
  <2> SUFFICES ASSUME ~split' PROVE (WireWhole /\ TakenInTurn /\ Gapless(file))'
    BY <2>5 DEF FramedInv
  <2>6. /\ ~split /\ How(chunk) = "whole"
        /\ WireWhole /\ TakenInTurn /\ Gapless(file)
    BY <1>2 DEF FramedInv
  <2>7. thread'[c] = "open" /\ input'[c] = [msg |-> w[1][1], how |-> "whole"]
    BY <1>0, <1>2, <2>2, <2>6
  <2>8. /\ w[n] = <<w[1][1], 4>> /\ w[1][2] = 1
    <3> HIDE DEF chunk, rest, w
    <3>1. w[1][2] = 1 /\ w[1][1] = w[n][1] /\ w[n][2] = 4
      <4>1. chunk[Len(chunk)] = w[n] /\ w[n][2] \in Pieces
        BY <2>1, <2>3
      <4> QED
        BY <2>2, <2>6, <4>1, WholeInput
    <3>2. w[n] \in Nat \X Pieces
      BY <2>1
    <3> QED
      BY <3>1, <3>2
  <2>9. /\ \A j \in 1 .. Len(w) : j + 1 \in 1 .. Len(w) => NextPiece(w[j], w[j + 1])
        /\ w[Len(w)][2] = 4 /\ (link[c] = "up" => w[Len(w)][1] = sent[c])
    BY <2>1, <2>6 DEF WireWhole
  <2> HIDE DEF w, chunk, rest
  <2>10. rest = <<>> <=> n = Len(w)
    BY <2>1, <2>2
  <2>11. rest # <<>> => /\ rest[1] = <<w[1][1] + 1, 1>>
                        /\ Len(rest) \in 1 .. Len(w) - n /\ Len(rest) + n = Len(w)
    <3> SUFFICES ASSUME rest # <<>>
                 PROVE  /\ rest[1] = <<w[1][1] + 1, 1>>
                        /\ Len(rest) \in 1 .. Len(w) - n /\ Len(rest) + n = Len(w)
      OBVIOUS
    <3>1. n + 1 \in 1 .. Len(w) /\ n \in 1 .. Len(w) /\ 1 \in 1 .. Len(w) - n
          /\ Len(rest) \in 1 .. Len(w) - n /\ Len(rest) + n = Len(w)
      BY <2>1, <2>2, <2>10
    <3>2. NextPiece(w[n], w[n + 1])
      BY <2>9, <3>1
    <3>3. rest[1] = w[n + 1]
      BY <2>1, <2>2, <3>1
    <3> QED
      BY <2>8, <3>1, <3>2, <3>3 DEF NextPiece
  <2>12. WireWhole'
    <3> SUFFICES ASSUME NEW d \in Conns
                 PROVE  /\ \A j \in 1 .. Len(wire'[d]) : j + 1 \in 1 .. Len(wire'[d]) =>
                             NextPiece(wire'[d][j], wire'[d][j + 1])
                        /\ wire'[d] # <<>> =>
                             /\ wire'[d][Len(wire'[d])][2] = 4
                             /\ link'[d] = "up" => wire'[d][Len(wire'[d])][1] = sent'[d]
      BY DEF WireWhole, NextPiece
    <3>1. CASE d # c
      BY <1>0, <2>4, <2>6, <3>1 DEF WireWhole
    <3>2. ASSUME NEW j \in 1 .. Len(rest), j + 1 \in 1 .. Len(rest)
          PROVE  NextPiece(rest[j], rest[j + 1])
      <4>1. /\ j + n \in 1 .. Len(w) /\ (j + n) + 1 \in 1 .. Len(w) /\ (j + 1) + n = (j + n) + 1
            /\ j \in 1 .. Len(w) - n /\ j + 1 \in 1 .. Len(w) - n
        BY <2>1, <2>2, <3>2
      <4>2. rest[j] = w[j + n] /\ rest[j + 1] = w[(j + 1) + n]
        BY <2>2, <4>1
      <4> QED
        BY <2>9, <4>1, <4>2
    <3>3. rest # <<>> => rest[Len(rest)] = w[Len(w)]
      BY <2>2, <2>11
    <3> QED
      BY <1>0, <2>4, <2>9, <3>1, <3>2, <3>3
  <2>13. Follows(c, input[c].msg)'
    <3>1. rest # <<>> => rest[1] = <<w[1][1] + 1, 1>>
      BY <2>11
    <3>2. rest = <<>> /\ link'[c] = "up" => sent'[c] = w[1][1]
      BY <1>0, <2>8, <2>9, <2>10
    <3> QED
      BY <2>4, <2>7, <3>1, <3>2 DEF Follows
  <2>14. TakenInTurn'
    <3> SUFFICES ASSUME NEW d \in Conns
                 PROVE  /\ Holding(d)' => input'[d].how = "whole" /\ Follows(d, input[d].msg)'
                        /\ \A i \in 1 .. Len(file) : file[i].conn = d /\ Newest(file, i) =>
                             IF Holding(d)' THEN input'[d].msg = file[i].msg + 1
                                            ELSE Follows(d, file[i].msg)'
      BY <1>0 DEF TakenInTurn, Newest, Follows
    <3>1. CASE d # c
      <4>1. (Holding(d)' <=> Holding(d)) /\ input'[d] = input[d]
        BY <2>4, <3>1 DEF Holding
      <4>2. \A m : Follows(d, m) => (wire'[d] # <<>> => wire'[d][1] = <<m + 1, 1>>)
                                    /\ (wire'[d] = <<>> /\ link'[d] = "up" => sent'[d] = m)
        BY <1>0, <2>4, <3>1 DEF Follows
      <4>3. Holding(d) => input[d].how = "whole" /\ Follows(d, input[d].msg)
        BY <2>6 DEF TakenInTurn
      <4>4. \A i \in 1 .. Len(file) : file[i].conn = d /\ Newest(file, i) =>
               IF Holding(d) THEN input[d].msg = file[i].msg + 1 ELSE Follows(d, file[i].msg)
        BY <2>6 DEF TakenInTurn
      <4> QED
        BY <1>0, <4>1, <4>2, <4>3, <4>4 DEF Follows
    <3>2. CASE d = c
      <4>1. Holding(d)' /\ ~Holding(c) /\ input'[d].msg = w[1][1] /\ input'[d].how = "whole"
        BY <1>0, <2>7, <3>2 DEF Holding
      <4>2. ASSUME NEW i \in 1 .. Len(file), file[i].conn = d, Newest(file, i)
            PROVE  input'[d].msg = file[i].msg + 1
        <5>1. Follows(c, file[i].msg)
          BY <2>6, <3>2, <4>1, <4>2 DEF TakenInTurn
        <5>2. w[1] = <<file[i].msg + 1, 1>>
          BY <2>1, <5>1 DEF Follows, w
        <5> QED
          BY <4>1, <5>2
      <4> QED
        BY <2>13, <3>2, <4>1, <4>2 DEF Follows
    <3> QED
      BY <3>1, <3>2
  <2>15. Gapless(file)'
    BY <1>0, <2>6 DEF Gapless
  <2> QED
    BY <2>12, <2>14, <2>15
<1> QED
  BY <1>1, <1>2 DEF Thread_Recv

LEMMA OpenFrame ==
    ASSUME LinkInv, FramedInv, NEW c \in Conns, Thread_Open(c) PROVE FramedInv'
<1>1. /\ UNCHANGED <<link, sent, wire, input, split>>
      /\ thread \in [Conns -> ThreadStates]
      /\ thread' = [thread EXCEPT ![c] = thread'[c]]
      /\ thread[c] = "open" /\ thread'[c] \in {"append", "truncated"}
      /\ file' = file \/ file' = <<>>
  BY DEF Thread_Open, meterVars, LinkInv, TelTypeOK, ThreadStates
<1>2. \A d \in Conns : /\ Holding(d)' <=> Holding(d)
                       /\ thread'[d] = "none" <=> thread[d] = "none"
  BY <1>1 DEF Holding
<1>3. CASE file' = file
  <2>1. \A d \in Conns : link'[d] = "none" => link[d] = "none" /\ thread'[d] = "none"
    BY <1>1, <1>2 DEF FramedInv, Fresh
  <2> QED
    BY <1>1, <1>2, <1>3, <2>1, QuietFrame
<1>4. CASE file' = <<>>
  <2>1. 1 .. Len(file') = {}
    BY <1>4
  <2>2. Fresh'
    BY <1>1, <1>2, <2>1 DEF FramedInv, Fresh
  <2>3. WireWhole => WireWhole'
    BY <1>1 DEF WireWhole, NextPiece
  <2>4. TakenInTurn => TakenInTurn'
    BY <1>1, <1>2, <2>1 DEF TakenInTurn, Follows
  <2>5. Gapless(file)'
    BY <2>1 DEF Gapless
  <2> QED
    BY <1>1, <2>2, <2>3, <2>4, <2>5 DEF FramedInv
<1> QED
  BY <1>1, <1>3, <1>4

(* A row that is written follows the newest of its connection. *)
LEMMA WriteFrame ==
    ASSUME LinkInv, FramedInv, NEW c \in Conns, Thread_Write(c) PROVE FramedInv'
<1>0. /\ UNCHANGED <<sent, wire, input, split>> /\ Holding(c) /\ TelTypeOK
      /\ thread \in [Conns -> ThreadStates] /\ file \in Seq(Rows) /\ Len(file) \in Nat
  BY DEF Thread_Write, LinkInv, TelTypeOK, Holding, ThreadStates
<1>1. /\ thread'[c] \in {"check", "died"}
      /\ \A d \in Conns : d # c => thread'[d] = thread[d]
      /\ \A d \in Conns : Holding(d)' <=> Holding(d) /\ d # c
      /\ \A d \in Conns : link'[d] = "up" => link[d] = "up"
      /\ \A d \in Conns : link'[d] = "none" => link[d] = "none" /\ d # c
  <2>1. thread' = [thread EXCEPT ![c] = "check"] \/ thread' = [thread EXCEPT ![c] = "died"]
    BY Zenon DEF Thread_Write
  <2>2. \/ link' = link
        \/ \E s \in {link[c], Closed(c)} : link' = [link EXCEPT ![c] = s]
    BY DEF Thread_Write
  <2>3. link[c] # "none" /\ link \in [Conns -> LinkStates]
    BY <1>0 DEF FramedInv, Fresh, Holding, TelTypeOK, LinkStates
  <2>4. \A d \in Conns : /\ link'[d] = "up" => link[d] = "up"
                         /\ link'[d] = "none" => link[d] = "none" /\ d # c
    BY <2>2, <2>3 DEF Closed
  <2> QED
    BY <1>0, <2>1, <2>4 DEF Holding
<1>2. FromFile(file', c)
  BY WrittenFile
<1>3. Fresh'
  <2> SUFFICES ASSUME NEW d \in Conns
               PROVE  /\ link'[d] = "none" => wire'[d] = <<>> /\ thread'[d] = "none"
                      /\ thread'[d] = "none" => \A i \in 1 .. Len(file') : file'[i].conn # d
    BY DEF Fresh
  <2>1. link'[d] = "none" => wire'[d] = <<>> /\ thread'[d] = "none"
    BY <1>0, <1>1 DEF FramedInv, Fresh
  <2>2. thread'[d] = "none" => thread[d] = "none" /\ d # c
    BY <1>1
  <2>3. thread[d] = "none" => \A i \in 1 .. Len(file) : file[i].conn # d
    BY DEF FramedInv, Fresh
  <2> QED
    BY <1>2, <2>1, <2>2, <2>3 DEF FromFile
<1> SUFFICES ASSUME ~split PROVE (WireWhole /\ TakenInTurn /\ Gapless(file))'
  BY <1>0, <1>3 DEF FramedInv
<1>4. WireWhole /\ TakenInTurn /\ Gapless(file)
  BY DEF FramedInv
<1>5. WireWhole'
  BY <1>0, <1>1, <1>4 DEF WireWhole, NextPiece
<1>6. input[c].how = "whole" /\ Follows(c, input[c].msg)
  BY <1>0, <1>4 DEF TakenInTurn
<1>7. ASSUME NEW d \in Conns, NEW m, Follows(d, m)
      PROVE  /\ wire'[d] # <<>> => wire'[d][1] = <<m + 1, 1>>
             /\ wire'[d] = <<>> /\ link'[d] = "up" => sent'[d] = m
  BY <1>0, <1>1, <1>7 DEF Follows
<1>8. ASSUME NEW i \in 1 .. Len(file), NEW d \in Conns, file[i].conn = d, Newest(file, i)
      PROVE  IF Holding(d) THEN input[d].msg = file[i].msg + 1 ELSE Follows(d, file[i].msg)
  BY <1>4, <1>8 DEF TakenInTurn
(* It is enough to know the newest rows, and the rows that follow others.  *)
<1>9. ASSUME \A i \in 1 .. Len(file') : Newest(file', i) =>
                \/ /\ file'[i].conn = c /\ file'[i].msg = input[c].msg
                \/ /\ file'[i].conn # c
                   /\ \E j \in 1 .. Len(file) : /\ Newest(file, j) /\ file[j].conn = file'[i].conn
                                                /\ file[j].msg = file'[i].msg
      PROVE  TakenInTurn'
  <2> SUFFICES ASSUME NEW d \in Conns
               PROVE  /\ Holding(d)' => input[d].how = "whole" /\ Follows(d, input[d].msg)'
                      /\ \A i \in 1 .. Len(file') : file'[i].conn = d /\ Newest(file', i) =>
                           IF Holding(d)' THEN input[d].msg = file'[i].msg + 1
                                          ELSE Follows(d, file[i].msg)'
    BY <1>0 DEF TakenInTurn, Newest, Follows
  <2>1. Holding(d)' => input[d].how = "whole" /\ Follows(d, input[d].msg)'
    <3>1. Holding(d) => input[d].how = "whole" /\ Follows(d, input[d].msg)
      BY <1>4 DEF TakenInTurn
    <3> QED
      BY <1>0, <1>1, <1>7, <3>1 DEF Follows
  <2>2. ASSUME NEW i \in 1 .. Len(file'), file'[i].conn = d, Newest(file', i)
        PROVE  IF Holding(d)' THEN input[d].msg = file'[i].msg + 1
                              ELSE Follows(d, file[i].msg)'
    <3>1. CASE d = c /\ file'[i].msg = input[c].msg
      <4>1. ~Holding(d)'
        BY <1>1, <3>1
      <4> QED
        BY <1>6, <1>7, <3>1, <4>1 DEF Follows
    <3>2. CASE d # c
      <4>1. PICK j \in 1 .. Len(file) : /\ Newest(file, j) /\ file[j].conn = d
                                        /\ file[j].msg = file'[i].msg
        BY <1>9, <2>2, <3>2
      <4>2. IF Holding(d) THEN input[d].msg = file'[i].msg + 1 ELSE Follows(d, file'[i].msg)
        BY <1>8, <4>1
      <4>3. Holding(d)' <=> Holding(d)
        BY <1>1, <3>2
      <4> QED
        BY <1>7, <4>2, <4>3 DEF Follows
    <3> QED
      BY <1>9, <2>2, <3>1, <3>2
  <2> QED
    BY <2>1, <2>2
<1>10. CASE Appended(c, file')
  <2>1. /\ Len(file') = Len(file) + 1
        /\ \A i \in 1 .. Len(file) : file'[i] = file[i]
        /\ file'[Len(file) + 1].conn = c /\ file'[Len(file) + 1].msg = input[c].msg
        /\ \A i \in 1 .. Len(file') : i \in 1 .. Len(file) \/ i = Len(file) + 1
    BY <1>0, <1>10 DEF Appended
  <2>2. ASSUME NEW i \in 1 .. Len(file), Newest(file', i)
        PROVE  file'[i].conn # c /\ Newest(file, i)
    <3>1. \A l \in i + 1 .. Len(file) : l \in i + 1 .. Len(file') /\ l \in 1 .. Len(file)
      BY <1>0, <2>1
    <3>2. Len(file) + 1 \in i + 1 .. Len(file')
      BY <1>0, <2>1
    <3> QED
      BY <2>1, <2>2, <3>1, <3>2 DEF Newest
  <2>3. TakenInTurn'
    <3>1. ASSUME NEW i \in 1 .. Len(file'), Newest(file', i)
          PROVE  \/ /\ file'[i].conn = c /\ file'[i].msg = input[c].msg
                 \/ /\ file'[i].conn # c
                    /\ \E j \in 1 .. Len(file) : /\ Newest(file, j) /\ file[j].conn = file'[i].conn
                                                 /\ file[j].msg = file'[i].msg
      BY <2>1, <2>2, <3>1
    <3> QED
      BY <1>9, <3>1
  <2>4. ASSUME NEW i \in 1 .. Len(file'), NEW k \in 1 .. Len(file'), i < k,
               file'[i].conn = file'[k].conn,
               \A l \in i + 1 .. k - 1 : file'[l].conn # file'[i].conn
        PROVE  file'[k].msg = file'[i].msg + 1
    <3>1. i \in 1 .. Len(file)
      BY <1>0, <2>1, <2>4
    <3>2. CASE k \in 1 .. Len(file)
      <4>1. \A l \in i + 1 .. k - 1 : l \in 1 .. Len(file)
        BY <1>0, <3>1, <3>2
      <4> QED
        BY <1>4, <2>1, <2>4, <3>1, <3>2, <4>1 DEF Gapless
    <3>3. CASE k = Len(file) + 1
      <4>1. file[i].conn = c
        BY <2>1, <2>4, <3>1, <3>3
      <4>2. Newest(file, i)
        <5>1. \A l \in i + 1 .. Len(file) : l \in i + 1 .. k - 1 /\ l \in 1 .. Len(file)
          BY <1>0, <3>1, <3>3
        <5> QED
          BY <2>1, <2>4, <3>1, <5>1 DEF Newest
      <4> QED
        BY <1>0, <1>8, <2>1, <3>1, <3>3, <4>1, <4>2
    <3> QED
      BY <2>1, <3>2, <3>3
  <2>5. Gapless(file)'
    BY <2>4 DEF Gapless
  <2> QED
    BY <1>5, <2>3, <2>5
<1>11. CASE Overwritten(c, file') /\ thread[c] = "truncated" /\ Len(file') \in Nat
  <2>1. PICK d \in {0, 1} :
           /\ Len(file') = Len(file) - d
           /\ \A i \in 2 .. Len(file') : /\ i + d \in 2 .. Len(file)
                                         /\ file'[i].conn = file[i + d].conn
                                         /\ file'[i].msg = file[i + d].msg
    BY <1>11 DEF Overwritten
  <2>2. file'[1].conn = c /\ file'[1].msg = input[c].msg
    BY <1>11 DEF Overwritten
  <2>3. \A j \in 1 .. Len(file) : file[j].conn # c
    BY <1>11 DEF LinkInv, InputNewer
  <2>4. /\ \A i \in 1 .. Len(file') : i = 1 \/ i \in 2 .. Len(file')
        /\ \A i \in 2 .. Len(file) : i \in 1 .. Len(file)
    BY <1>0, <2>1
  <2>5. TakenInTurn'
    <3>1. ASSUME NEW i \in 2 .. Len(file'), Newest(file', i)
          PROVE  /\ i + d \in 1 .. Len(file) /\ file'[i].conn # c
                 /\ file[i + d].conn = file'[i].conn /\ file[i + d].msg = file'[i].msg
                 /\ Newest(file, i + d)
      <4>1. /\ i + d \in 1 .. Len(file) /\ file'[i].conn # c
            /\ file[i + d].conn = file'[i].conn /\ file[i + d].msg = file'[i].msg
        BY <2>1, <2>3, <2>4
      <4>2. ASSUME NEW l \in (i + d) + 1 .. Len(file) PROVE file[l].conn # file[i + d].conn
        <5>1. l - d \in i + 1 .. Len(file') /\ l - d \in 2 .. Len(file') /\ (l - d) + d = l
          BY <1>0, <2>1
        <5>2. file'[l - d].conn = file[l].conn
          BY <2>1, <5>1
        <5> QED
          BY <3>1, <4>1, <5>1, <5>2 DEF Newest
      <4> QED
        BY <4>1, <4>2 DEF Newest
    <3>2. ASSUME NEW i \in 1 .. Len(file'), Newest(file', i)
          PROVE  \/ /\ file'[i].conn = c /\ file'[i].msg = input[c].msg
                 \/ /\ file'[i].conn # c
                    /\ \E j \in 1 .. Len(file) : /\ Newest(file, j) /\ file[j].conn = file'[i].conn
                                                 /\ file[j].msg = file'[i].msg
      BY <2>2, <2>4, <3>1, <3>2
    <3> QED
      BY <1>9, <3>2
  <2>6. ASSUME NEW i \in 1 .. Len(file'), NEW k \in 1 .. Len(file'), i < k,
               file'[i].conn = file'[k].conn,
               \A l \in i + 1 .. k - 1 : file'[l].conn # file'[i].conn
        PROVE  file'[k].msg = file'[i].msg + 1
    <3>1. k \in 2 .. Len(file')
      BY <1>0, <2>1, <2>6
    <3>2. CASE i = 1
      BY <2>1, <2>2, <2>3, <2>4, <2>6, <3>1, <3>2
    <3>3. CASE i \in 2 .. Len(file')
      <4>1. i + d \in 1 .. Len(file) /\ k + d \in 1 .. Len(file) /\ i + d < k + d
        BY <2>1, <2>4, <2>6, <3>1, <3>3
      <4>2. ASSUME NEW l \in (i + d) + 1 .. (k + d) - 1 PROVE file[l].conn # file[i + d].conn
        <5>1. l - d \in i + 1 .. k - 1 /\ l - d \in 2 .. Len(file') /\ (l - d) + d = l
          BY <1>0, <2>1, <3>1, <3>3
        <5>2. file'[l - d].conn = file[l].conn
          BY <2>1, <5>1
        <5> QED
          BY <2>1, <2>6, <3>3, <5>1, <5>2
      <4>3. file[k + d].msg = file[i + d].msg + 1
        <5>1. file[i + d].conn = file[k + d].conn
          BY <2>1, <2>6, <3>1, <3>3
        <5> QED
          BY <1>4, <4>1, <4>2, <5>1 DEF Gapless
      <4> QED
        BY <2>1, <3>1, <3>3, <4>3
    <3> QED
      BY <2>4, <3>2, <3>3
  <2>7. Gapless(file)'
    BY <2>6 DEF Gapless
  <2> QED
    BY <1>5, <2>5, <2>7
<1> QED
  BY <1>0, <1>6, <1>10, <1>11, RowWritten

(* While every recv returns one message, the rows of a connection have no  *)
(* gap: no message of it is lost between send_data and site_meter.dat, for *)
(* any number of connections and messages.                                 *)
THEOREM NoGapInFramedRows == TelSpec => []NoGapWhenFramed
<1>1. TelInit => LinkInv /\ FramedInv
  <2> SUFFICES ASSUME TelInit PROVE LinkInv /\ FramedInv
    OBVIOUS
  <2>1. /\ \A c \in Conns : wire[c] = <<>> /\ 1 .. Len(wire[c]) = {} /\ ~Holding(c)
        /\ \A c \in Conns : thread[c] = "none"
        /\ 1 .. Len(file) = {}
    BY DEF TelInit, Holding
  <2>2. FramedInv
    BY <2>1 DEF FramedInv, Fresh, WireWhole, TakenInTurn, Gapless
  <2> QED
    BY <2>2, LinkInvInit
<1>2. LinkInv /\ FramedInv /\ [TelNext]_telVars => LinkInv' /\ FramedInv'
  <2> SUFFICES ASSUME LinkInv, FramedInv, [TelNext]_telVars PROVE FramedInv'
    BY LinkInvStep
  <2>0. /\ thread \in [Conns -> ThreadStates] /\ link \in [Conns -> LinkStates]
        /\ \A d \in Conns : link[d] = "none" => thread[d] = "none"
    BY DEF LinkInv, TelTypeOK, ThreadStates, LinkStates, FramedInv, Fresh
  <2>1. ASSUME UNCHANGED <<sent, wire, input, file, split>>,
               \/ UNCHANGED thread
               \/ \E c \in Conns, s \in {"check", "recv", "closing", "ended"} :
                     /\ thread' = [thread EXCEPT ![c] = s]
                     /\ ~Holding(c) /\ link[c] # "none",
               \A d \in Conns : /\ link'[d] = "up" => link[d] \in {"up", "none"}
                                /\ link'[d] = "none" => link[d] = "none"
        PROVE  FramedInv'
    <3>1. \A d \in Conns : /\ Holding(d)' <=> Holding(d)
                           /\ thread'[d] = "none" => thread[d] = "none"
                           /\ link[d] = "none" => thread'[d] = "none"
      BY <2>0, <2>1 DEF Holding
    <3> QED
      BY <2>1, <3>1, QuietFrame
  <2>2. ASSUME NEW c \in Conns, Thread(c) PROVE FramedInv'
    <3>1. CASE Thread_Check(c)
      BY <2>0, <2>1, <3>1 DEF Thread_Check, meterVars, Holding
    <3>2. CASE Thread_Recv(c)
      BY <3>2, RecvFrame
    <3>3. CASE Thread_Open(c)
      BY <3>3, OpenFrame
    <3>4. CASE Thread_Write(c)
      BY <3>4, WriteFrame
    <3>5. CASE Thread_Close(c)
      BY <2>0, <2>1, <3>5 DEF Thread_Close, Closed, Holding
    <3> QED
      BY <2>2, <3>1, <3>2, <3>3, <3>4, <3>5 DEF Thread
  <2>3. ASSUME NEW c \in Conns, Meter_Send(c) PROVE FramedInv'
    BY <2>3, SendFrame
  <2>4. ASSUME NEW c \in Conns, Meter_Connect(c) \/ Meter_Stops(c) \/ Meter_PowerFails(c)
        PROVE  FramedInv'
    BY <2>0, <2>1, <2>4 DEF Meter_Connect, Meter_Stops, Meter_PowerFails, Alive
  <2>5. ASSUME NEW c \in Conns, Server_Accept(c) PROVE FramedInv'
    BY <2>0, <2>1, <2>5 DEF Server_Accept, Closed, Holding
  <2>6. CASE Server_Exit
    BY <2>0, <2>1, <2>6 DEF Server_Exit, Closed
  <2>7. CASE User_Exit
    BY <2>1, <2>7 DEF User_Exit, meterVars
  <2>8. CASE UNCHANGED telVars
    BY <2>1, <2>8 DEF telVars, meterVars
  <2> QED
    BY <2>2, <2>3, <2>4, <2>5, <2>6, <2>7, <2>8 DEF TelNext
<1>3. FramedInv => NoGapWhenFramed
  BY DEF FramedInv, NoGapWhenFramed, Gapless
<1> QED
  BY <1>1, <1>2, <1>3, PTL DEF TelSpec
=============================================================================
