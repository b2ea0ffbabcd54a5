----------------------------- MODULE PingServer -----------------------------
(***************************************************************************)
(* The server of zad1/main.cpp and the clients it meets: one thread that   *)
(* accepts a connection, reads until the end of an HTTP header, writes a   *)
(* fixed response and closes, forever, with one handler around it all that *)
(* turns any error of any connection into the end of the process.          *)
(*                                                                         *)
(* accept, read_until and write are those of the Boost.Asio copy in        *)
(* zad1/boost; the sockets under them and the clients are external.  A     *)
(* request is a sequence of bytes of which only CR and LF are told apart.  *)
(***************************************************************************)
EXTENDS Integers, Sequences

CONSTANTS Clients,
          Polite,     \* clients that send all of their request and stay
          Requests,   \* byte sequences
          ReadSize,   \* how much one read_some takes at most
          Nobody

ASSUME ServerAssumption ==
  /\ Polite \subseteq Clients
  /\ Requests \subseteq Seq({"CR", "LF", "other"})
  /\ ReadSize \in Nat \ {0}
  /\ Nobody \notin Clients

Delimiter == <<"CR", "LF", "CR", "LF">>

(* RESPONSE: its header, in one piece, and the bytes of its body.          *)
RESPONSE == <<"header", "p", "o", "n", "g">>
ContentLength == 5

VARIABLES
  request,             \* per client: what it is going to send
  sent,                \*   how many bytes of it have arrived at the server
  conn,                \*   "none", "open", "closed" (by the server)
  end,                 \*   "open", "half" (it will send no more), "gone"
  written,             \*   how much of RESPONSE the server has sent
  received,            \*   how much of that it got
  reset,               \*   the server's host has reset the connection
  backlog,             \* connections waiting to be accepted
  phase,
  socket,              \* the client being served
  buffer,              \* the streambuf
  search_position      \* of read_until

clientVars == <<request, sent, conn, end, received>>
serverVars == <<request, sent, conn, end, written, received, reset, backlog, phase,
                socket, buffer, search_position>>

ServerInit ==
  /\ request \in [Clients -> Requests]
  /\ sent = [c \in Clients |-> 0]
  /\ conn = [c \in Clients |-> "none"]
  /\ end = [c \in Clients |-> "open"]
  /\ written = [c \in Clients |-> 0]
  /\ received = [c \in Clients |-> 0]
  /\ reset = [c \in Clients |-> FALSE]
  /\ backlog = <<>>
  /\ phase = "accept"
  /\ socket = Nobody
  /\ buffer = <<>> /\ search_position = 0

-----------------------------------------------------------------------------
(* The clients and the hosts' TCP.                                         *)

Connect(c) ==
  /\ conn[c] = "none" /\ phase # "exit"
  /\ conn' = [conn EXCEPT ![c] = "open"]
  /\ backlog' = Append(backlog, c)
  /\ UNCHANGED <<request, sent, end, written, received, reset, phase, socket, buffer,
                 search_position>>

(* A byte that reaches a closed socket is answered by a reset.             *)
Send(c) ==
  /\ conn[c] # "none" /\ end[c] = "open" /\ ~reset[c]
  /\ sent[c] < Len(request[c])
  /\ sent' = [sent EXCEPT ![c] = @ + 1]
  /\ reset' = [reset EXCEPT ![c] = (conn[c] = "closed")]
  /\ UNCHANGED <<request, conn, end, written, received, backlog, phase, socket, buffer,
                 search_position>>

(* A client that is not polite may stop sending, or leave, at any time.    *)
Quit(c) ==
  /\ c \notin Polite
  /\ conn[c] = "open" /\ end[c] # "gone"
  /\ \E e \in {"half", "gone"} \ {end[c]} : end' = [end EXCEPT ![c] = e]
  /\ UNCHANGED <<request, sent, conn, written, received, reset, backlog, phase, socket,
                 buffer, search_position>>

(* A reset makes what is still under way worthless.                        *)
Deliver(c) ==
  /\ received[c] < written[c] /\ ~reset[c] /\ end[c] # "gone"
  /\ received' = [received EXCEPT ![c] = @ + 1]
  /\ UNCHANGED <<request, sent, conn, end, written, reset, backlog, phase, socket,
                 buffer, search_position>>

-----------------------------------------------------------------------------
(* The server.                                                             *)

(* Connections are accepted in the order of their arrival, even those the  *)
(* client has left meanwhile.                                              *)
Accept ==
  /\ phase = "accept" /\ backlog # <<>>
  /\ socket' = Head(backlog)
  /\ backlog' = Tail(backlog)
  /\ buffer' = <<>> /\ search_position' = 0
  /\ phase' = "search"
  /\ UNCHANGED <<clientVars, written, reset>>

MatchesAt(i, s) == \A k \in 1..Len(s) : i + k <= Len(buffer) => buffer[i + k] = s[k]

FullMatch(i) == i + Len(Delimiter) <= Len(buffer) /\ MatchesAt(i, Delimiter)

(* Variant of Candidate: a partial match is not kept for the next search.  *)
CandidateForgotten ==
  LET I == { i \in search_position..(Len(buffer) - 1) : FullMatch(i) }
  IN  IF I = {} THEN Len(buffer) ELSE CHOOSE i \in I : \A j \in I : i <= j

(* partial_search: the first offset from which the buffer agrees with the  *)
(* delimiter as far as it goes; its end if there is none.                  *)
Candidate ==
  LET I == { i \in search_position..(Len(buffer) - 1) : MatchesAt(i, Delimiter) }
  IN  IF I = {} THEN Len(buffer) ELSE CHOOSE i \in I : \A j \in I : i <= j

(* Variant of Search: a partial match is taken for a match.                *)
SearchAnyMatch ==
  /\ phase = "search"
  /\ IF Candidate < Len(buffer)
     THEN phase' = "write" /\ UNCHANGED search_position
     ELSE phase' = "read" /\ search_position' = Candidate
  /\ UNCHANGED <<clientVars, written, reset, backlog, socket, buffer>>

Search ==
  /\ phase = "search"
  /\ IF FullMatch(Candidate)
     THEN phase' = "write" /\ UNCHANGED search_position
     ELSE phase' = "read" /\ search_position' = Candidate
  /\ UNCHANGED <<clientVars, written, reset, backlog, socket, buffer>>

Arrived == SubSeq(request[socket], Len(buffer) + 1, sent[socket])

(* read_some blocks until something has arrived, and takes what is there.  *)
Read ==
  /\ phase = "read" /\ Arrived # <<>>
  /\ LET n == IF Len(Arrived) < ReadSize THEN Len(Arrived) ELSE ReadSize
     IN  buffer' = buffer \o SubSeq(Arrived, 1, n)
  /\ phase' = "search"
  /\ UNCHANGED <<clientVars, written, reset, backlog, socket, search_position>>

(* Variant of ReadFails: nothing to read is taken for the end of the file. *)
ReadFailsWhenEmpty ==
  /\ phase = "read" /\ Arrived = <<>>
  /\ phase' = "exit"
  /\ UNCHANGED <<clientVars, written, reset, backlog, socket, buffer, search_position>>

(* End of file, or a reset by a client that has left: the exception passes *)
(* the loop and main returns 1.                                            *)
ReadFails ==
  /\ phase = "read"
  /\ end[socket] = "gone" \/ (end[socket] = "half" /\ Arrived = <<>>)
  /\ phase' = "exit"
  /\ UNCHANGED <<clientVars, written, reset, backlog, socket, buffer, search_position>>

(* write calls write_some until everything is out.                         *)
Write ==
  /\ phase = "write" /\ written[socket] < Len(RESPONSE)
  /\ \E n \in (written[socket] + 1)..Len(RESPONSE) :
       written' = [written EXCEPT ![socket] = n]
  /\ UNCHANGED <<clientVars, reset, backlog, phase, socket, buffer, search_position>>

WriteFails ==
  /\ phase = "write" /\ written[socket] < Len(RESPONSE)
  /\ end[socket] = "gone"
  /\ phase' = "exit"
  /\ UNCHANGED <<clientVars, written, reset, backlog, socket, buffer, search_position>>

(* Variant of Close: what the first write_some has sent is enough.         *)
CloseAfterSome ==
  /\ phase = "write" /\ written[socket] > 0
  /\ conn' = [conn EXCEPT ![socket] = "closed"]
  /\ reset' = [reset EXCEPT ![socket] = (Arrived # <<>>)]
  /\ phase' = "accept"
  /\ socket' = Nobody
  /\ buffer' = <<>> /\ search_position' = 0
  /\ UNCHANGED <<request, sent, end, written, received, backlog>>

(* Variant of Close: the socket outlives the iteration.                    *)
CloseTooLate ==
  /\ phase = "write" /\ written[socket] = Len(RESPONSE)
  /\ phase' = "accept"
  /\ UNCHANGED <<clientVars, written, reset, backlog, socket, buffer, search_position>>

(* The socket goes out of scope.  Closing it while bytes of the client are *)
(* unread resets the connection instead of ending it.                      *)
Close ==
  /\ phase = "write" /\ written[socket] = Len(RESPONSE)
  /\ conn' = [conn EXCEPT ![socket] = "closed"]
  /\ reset' = [reset EXCEPT ![socket] = (Arrived # <<>>)]
  /\ phase' = "accept"
  /\ socket' = Nobody
  /\ buffer' = <<>> /\ search_position' = 0
  /\ UNCHANGED <<request, sent, end, written, received, backlog>>

Serve == Accept \/ Search \/ Read \/ ReadFails \/ Write \/ WriteFails \/ Close

ServerNext ==
  \/ Serve
  \/ \E c \in Clients : Connect(c) \/ Send(c) \/ Quit(c) \/ Deliver(c)

(* The server is one thread that runs whenever it is not blocked; the      *)
(* network delivers; only polite clients are known to go on.               *)
Fairness ==
  /\ WF_serverVars(Serve)
  /\ \A c \in Clients : WF_serverVars(Deliver(c))
  /\ \A c \in Polite : WF_serverVars(Connect(c)) /\ WF_serverVars(Send(c))

ServerSpec == ServerInit /\ [][ServerNext]_serverVars /\ Fairness

-----------------------------------------------------------------------------

ServerTypeOK ==
  /\ request \in [Clients -> Requests]
  /\ conn \in [Clients -> {"none", "open", "closed"}]
  /\ end \in [Clients -> {"open", "half", "gone"}]
  /\ reset \in [Clients -> BOOLEAN]
  /\ \A c \in Clients : /\ sent[c] \in 0..Len(request[c])
                        /\ written[c] \in 0..Len(RESPONSE)
                        /\ received[c] \in 0..written[c]
  /\ backlog \in Seq(Clients)
  /\ phase \in {"accept", "search", "read", "write", "exit"}
  /\ (phase = "accept") <=> (socket = Nobody)
  /\ search_position \in 0..Len(buffer)

HasHeader(s) ==
  \E i \in 0..(Len(s) - Len(Delimiter)) :
    SubSeq(s, i + 1, i + Len(Delimiter)) = Delimiter

(* However the bytes of a request are cut into reads, the resumed searches *)
(* of read_until find the end of the header exactly when it has been read: *)
(* the server neither waits for more once it has it, nor answers without.  *)
HeaderFoundAtOnce ==
  /\ phase = "read" => ~HasHeader(buffer)
  /\ phase = "write" => HasHeader(buffer)

(* The process ends only by a client that quits, either before it has sent *)
(* its header or without waiting for its answer: polite clients, however   *)
(* their bytes are spread over time, never bring the server down.          *)
EndedOnlyByAQuitter ==
  phase = "exit" =>
    /\ socket \notin Polite
    /\ \/ end[socket] = "gone"
       \/ end[socket] = "half" /\ ~HasHeader(SubSeq(request[socket], 1, sent[socket]))

Header(c) == CHOOSE n \in 0..Len(request[c]) :
               /\ HasHeader(SubSeq(request[c], 1, n))
               /\ ~HasHeader(SubSeq(request[c], 1, n - 1))

(* The server answers after the header and closes: of the clients it has   *)
(* answered, only one whose request goes on beyond the header (a body) can *)
(* have the connection reset under it, and lose part of the response.      *)
ResetOnlyWithABody ==
  \A c \in Clients : reset[c] => /\ HasHeader(request[c])
                                 /\ sent[c] > Header(c)

(* One thread serves everybody: unless somebody ends the process, or the   *)
(* server waits forever in read_until for a client that is not polite,     *)
(* every client that sends just a header and stays gets the response.      *)
Exact(c) == HasHeader(request[c]) /\ Header(c) = Len(request[c])

AnsweredUnlessBlocked ==
  \/ \A c \in Polite : <>(Exact(c) => received[c] = Len(RESPONSE))
  \/ <>(phase = "exit")
  \/ <>[](phase = "read" /\ ~(socket \in Polite /\ HasHeader(request[socket])))

(* The response announces the length of its body: a client that has got    *)
(* all of it has got that many bytes after the header.                     *)
ContentLengthHonoured ==
  \A c \in Clients :
    (conn[c] = "closed" /\ received[c] = Len(RESPONSE)) => received[c] - 1 = ContentLength

=============================================================================
