----------------------------- MODULE ClientSocket -----------------------------
(* TC_TCPClient, TC_UDPClient and the reading loop of                         *)
(* TC_HttpRequest::doRequest(): one thread calls a server through one socket. *)
(* An epoll object tells when the socket can be read, by edges: a wait takes  *)
(* the edge, and reports what is true of the socket then, which is that it    *)
(* can be written and perhaps that it can be read.                            *)
(*                                                                            *)
(* Answer i is a sequence of units <<i, 1>> ... of which the last is the end  *)
(* that recvBySep() looks for.                                                *)
EXTENDS Integers, Sequences, SequencesExt, FiniteSetsExt, TLC

CONSTANTS
  SocketCalls,     \* [op, size, units]: an operation, its room or length, the answer it is for
  MaxSocketCalls,  \* bound: calls
  MaxRecv          \* LEN_MAXRECV, the units one recv() may return

VARIABLES
  transport,  \* "tcp" or "udp"
  sock,       \* _socket: 0 while it is not valid, and otherwise which one it is
  edge,       \* of the socket, that no wait has taken
  inbox,      \* what has come and was not read: units, or whole answers with UDP
  end,        \* what came after it: "none", "closed" or "reset"
  coming,       \* what the server has sent and has not come
  sentHere,   \* all it has sent through this socket so far
  calls,      \* [op, size, sock, code, got] of each call so far
  stage       \* of the last of them: "wait", "read" or "done"

socketVars == <<transport, sock, edge, inbox, end, coming, sentHere, calls, stage>>

Fin == <<0, 0>>

\* size is the room for recv() and the length for recvLength().  "http" is doRequest(), which
\* asks the server to close; recvAll() is for a server that does.
Closing(op) == op \in {"all", "http"}

AnswerTo(i, n) == [k \in 1..n |-> <<i, k>>]
IsEnd(unit)  == unit[2] = calls[unit[1]].units
Call         == Last(calls)
Here         == IF sock # 0 THEN sock ELSE Max({0} \cup {calls[i].sock : i \in DOMAIN calls}) + 1
Tcp          == transport = "tcp"
Closed       == Tcp /\ (end = "closed" \/ Fin \in ToSet(coming))

SocketInit ==
  /\ transport \in {"tcp", "udp"} /\ calls = <<>> /\ stage = "done"
  /\ sock = 0 /\ edge = FALSE /\ inbox = <<>> /\ end = "none" /\ coming = <<>> /\ sentHere = <<>>

-----------------------------------------------------------------------------
(* The client *)

\* What was not read, and what has not come yet, is lost with the socket.
Close   == /\ sock' = 0 /\ edge' = FALSE /\ inbox' = <<>> /\ end' = "none"
           /\ coming' = <<>> /\ sentHere' = <<>>
KeepNet == UNCHANGED <<sock, edge, inbox, end, coming, sentHere>>

\* The last call ends; got is what it returns or, when it fails, leaves in the caller's buffer.
Return(code, got) ==
  /\ calls' = [calls EXCEPT ![Len(calls)].code = code, ![Len(calls)].got = got]
  /\ stage' = "done"

BeginCall(c, s, code) ==
  /\ stage = "done" /\ Len(calls) < MaxSocketCalls
  /\ calls' = Append(calls, c @@ [sock |-> s, code |-> code, got |-> <<>>])
  /\ stage' = IF code = "none" THEN "wait" ELSE "done"
  /\ UNCHANGED transport

\* checkSocket() makes a socket if there is none, and closes it again if the server cannot be
\* reached, or with TCP does not answer in time or cannot be waited for.
OpenFails(c) ==
  /\ sock = 0
  /\ \E code \in {"connect", "socket"} \cup (IF Tcp THEN {"timeout", "select"} ELSE {}) : BeginCall(c, 0, code)
  /\ KeepNet

\* send() of a socket of which an error is known: EM_SEND, which closes it with TCP.
SendFails(c) ==
  /\ end = "reset"
  /\ BeginCall(c, sock, "send")
  /\ IF Tcp THEN Close ELSE end' = "none" /\ UNCHANGED <<sock, edge, inbox, coming, sentHere>>

\* checkSocket() and send(), and what the server does: it answers if it has not closed, and
\* closes then if it is asked to.  The wait for a TCP connection takes the edge that says that
\* the socket can be written; a UDP socket has one when it is made, and may have one when
\* a datagram has left, which may be lost.
SendAndWait(c) ==
  /\ end # "reset"
  /\ sock' = Here
  /\ BeginCall(c, Here, "none")
  /\ LET answer == AnswerTo(Len(calls) + 1, c.units) IN
       \/ /\ Tcp /\ ~Closed
          /\ coming' = coming \o answer \o (IF Closing(c.op) THEN <<Fin>> ELSE <<>>)
          /\ sentHere' = sentHere \o answer
       \/ ~Tcp /\ coming' = Append(coming, answer) /\ UNCHANGED sentHere
       \/ (~Tcp \/ Closed) /\ UNCHANGED <<coming, sentHere>>
  /\ edge' \in IF Tcp THEN {edge} ELSE {TRUE, edge \/ sock = 0}
  /\ UNCHANGED <<inbox, end>>

\* A TC_UDPClient has no other operation to receive than recv().
Ask == \E c \in SocketCalls :
         (Tcp \/ c.op = "recv") /\ (OpenFails(c) \/ SendFails(c) \/ SendAndWait(c))

\* EM_TIMEOUT: with TCP the socket is closed, and what was received is lost with it (wrong: it
\* stays open).
GiveUpOpen == KeepNet
GiveUp     == IF Tcp THEN Close ELSE KeepNet

WaitTimesOut ==
  /\ stage = "wait" /\ ~edge
  /\ Return("timeout", Call.got)
  /\ GiveUp
  /\ UNCHANGED transport

\* EM_SELECT of a wait that fails itself, which leaves the socket as EM_TIMEOUT does.
WaitFails ==
  /\ stage = "wait"
  /\ Return("select", Call.got)
  /\ GiveUp
  /\ UNCHANGED transport

\* EM_CLOSE, which is success to doRequest(), and to recvAll() unless it is an error.
ServerGone(error) ==
  /\ Return(IF Call.op = "http" \/ (Call.op = "all" /\ ~error) THEN "success" ELSE "close", Call.got)
  /\ Close

\* The wait takes the edge.  If there is nothing to read recv() returns EM_SELECT and leaves
\* the socket open; the others wait again.
WaitReturns ==
  /\ stage = "wait" /\ edge
  /\ IF end = "reset" THEN ServerGone(TRUE)
     ELSE /\ edge' = FALSE
          /\ IF inbox # <<>> \/ end = "closed" THEN stage' = "read" /\ UNCHANGED calls
             ELSE IF Call.op \in {"recv", "http"} THEN Return("select", Call.got)
             ELSE UNCHANGED <<stage, calls>>
          /\ UNCHANGED <<sock, inbox, end, coming, sentHere>>
  /\ UNCHANGED transport

\* What one recv() of the socket asks for at most.
Room == CASE Call.op = "recv"   -> Call.size
          [] Call.op = "length" -> Call.size - Len(Call.got)
          [] OTHER              -> MaxRecv

Finished(got) ==
  CASE Call.op = "recv"            -> TRUE
    [] Call.op = "length"          -> Len(got) = Call.size
    [] Call.op \in {"sep", "http"} -> IsEnd(Last(got))
    [] Call.op = "all"             -> FALSE

ReadUnits(piece) ==
  /\ IF Finished(Call.got \o piece) THEN Return("success", Call.got \o piece)
     ELSE /\ calls' = [calls EXCEPT ![Len(calls)].got = @ \o piece]
          /\ stage' = "wait"
  /\ UNCHANGED <<sock, edge, end, coming, sentHere>>

ReadStream ==
  IF inbox # <<>>
  THEN LET n == Min({Room, Len(inbox)}) IN
       ReadUnits(SubSeq(inbox, 1, n)) /\ inbox' = SubSeq(inbox, n + 1, Len(inbox))
  ELSE IF end = "closed" THEN ServerGone(FALSE)
  ELSE Return("recv", Call.got) /\ Close

\* recvfrom() cuts an answer that is longer than the room for it; an error it returns is not
\* an error of the socket any more, which stays open.
ReadDatagram ==
  IF end = "reset"
  THEN Return("send", <<>>) /\ end' = "none" /\ UNCHANGED <<sock, edge, inbox, coming, sentHere>>
  ELSE ReadUnits(SubSeq(Head(inbox), 1, Min({Room, Len(Head(inbox))}))) /\ inbox' = Tail(inbox)

ReadSocket == stage = "read" /\ (IF Tcp THEN ReadStream ELSE ReadDatagram) /\ UNCHANGED transport

-----------------------------------------------------------------------------
(* The server and the network *)

Edge == edge' = TRUE /\ UNCHANGED <<transport, sock, sentHere, calls, stage>>

\* A stream comes in pieces, and datagrams in any order.
DataComes ==
  /\ \/ /\ Tcp
        /\ \E n \in DOMAIN coming :
             /\ Fin \notin ToSet(SubSeq(coming, 1, n))
             /\ inbox' = inbox \o SubSeq(coming, 1, n)
             /\ coming' = SubSeq(coming, n + 1, Len(coming))
     \/ /\ ~Tcp
        /\ \E i \in DOMAIN coming : inbox' = Append(inbox, coming[i]) /\ coming' = RemoveAt(coming, i)
  /\ UNCHANGED end /\ Edge

FinComes == Tcp /\ coming # <<>> /\ Head(coming) = Fin /\ end' = "closed" /\ coming' = <<>> /\ UNCHANGED inbox /\ Edge

\* The server dies, or a connection it has closed is written to; the port of a UDP server is closed.
ResetComes == sock # 0 /\ end # "reset" /\ end' = "reset" /\ coming' = (IF Tcp THEN <<>> ELSE coming) /\ UNCHANGED inbox /\ Edge

\* A server may close a connection that is not used.
ServerCloses ==
  /\ Tcp /\ sock # 0 /\ stage = "done" /\ end = "none" /\ ~Closed
  /\ coming' = Append(coming, Fin)
  /\ UNCHANGED <<transport, sock, edge, inbox, end, sentHere, calls, stage>>

SocketNext ==
  \/ Ask \/ WaitTimesOut \/ WaitFails \/ WaitReturns \/ ReadSocket
  \/ DataComes \/ FinComes \/ ResetComes \/ ServerCloses

SocketSpec == SocketInit /\ [][SocketNext]_socketVars

-----------------------------------------------------------------------------

\* A call that left an answer, or a part of one, in an open socket: recv() with less room than
\* the answer, EM_SELECT, and with UDP any call that failed.
LeftBehind(i) ==
  \/ calls[i].op = "recv" /\ calls[i].code = "success"
  \/ calls[i].code = "select"
  \/ ~Tcp

TakenHere == FlattenSeq([i \in DOMAIN calls |-> IF calls[i].sock = sock THEN calls[i].got ELSE <<>>])

\* What the calls on a connection take of it is what the server has sent, in order and without
\* a gap, whatever pieces it came in; a call that fails with a part of an answer in hand closes
\* the connection.  So a call that ends well with a whole answer by its end or its length has
\* that of its own request and not one an earlier call gave up waiting for, but for the calls of
\* LeftBehind; and no datagram is taken for two answers.
AnswersThisCall ==
  /\ Tcp /\ sock # 0 /\ end # "reset" =>
       TakenHere \o inbox \o SelectSeq(coming, LAMBDA u : u # Fin) = sentHere
  /\ \A i \in DOMAIN calls : calls[i].code = "success" =>
       \/ calls[i].op \in {"sep", "length"} /\ calls[i].got = AnswerTo(i, calls[i].units)
       \/ calls[i].op \in {"all", "http"} /\ IsPrefix(calls[i].got, AnswerTo(i, calls[i].units))
       \/ calls[i].op = "recv" /\ \A j \in 1..(i - 1) :
            ~Tcp /\ calls[j].code = "success" => Head(calls[i].got) # Head(calls[j].got)
       \/ \E j \in 1..(i - 1) : calls[j].sock = calls[i].sock /\ LeftBehind(j)
===============================================================================
