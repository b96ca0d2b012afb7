------------------------------ MODULE Transport ------------------------------
(* A telnet connection to a device (transport.py): the answers to the       *)
(* options the server opens with, which arrive in pieces of any size, and   *)
(* the socket wrapper through which a terminal bridge reads, writes and     *)
(* closes afterwards.                                                       *)
EXTENDS Naturals, SequencesExt

CONSTANTS
    Scripts,     \* what the server may say: sequences of bytes
    Sizes        \* sizes of a read

VARIABLES
    script,    \* what the server says in this behaviour
    said,      \* how many bytes of it are on their way
    line,      \* "up", "fin": the server has closed, "reset": the connection broke
    socket,    \* bytes the kernel holds
    phase,     \* "negotiating", "open"
    pendingIac, out, answers,   \* _telnet_negotiate
    wrapper,   \* _SocketWrapper: _buf, _eof, is_open; whether its socket is closed
    got,       \* history: bytes a reader has taken
    raised,    \* history: the reader was told that the connection is closed
    heard,     \* history: bytes the negotiation has received
    initial,   \* history: what it returned
    torn       \* history: a piece ended inside an option or a subnegotiation

vars == <<script, said, line, socket, phase, pendingIac, out, answers, wrapper,
          got, raised, heard, initial, torn>>

telnet == <<pendingIac, out, answers, heard, initial, torn>>
peer   == <<script, said, line>>
reader == <<got, raised>>

-----------------------------------------------------------------------------
(* _telnet_negotiate on one piece of input.                                *)

Refused == {"WILL", "WONT", "DO", "DONT"}

\* WILL and DO are answered, with the option that follows or 0.
Answer(cmd, opt) == CASE cmd = "WILL" -> << <<"DONT", opt>> >>
                      [] cmd = "DO"   -> << <<"WONT", opt>> >>
                      [] OTHER        -> << >>

OptionAt(d, i) == IF i <= Len(d) THEN d[i] ELSE "0"

\* Behind the first IAC SE, or the end of the piece.
AfterSub(d, i) ==
    LET ends == {k \in i .. Len(d) - 1 : d[k] = "IAC" /\ d[k + 1] = "SE"}
    IN  IF ends = {} THEN Len(d) + 1 ELSE Min(ends) + 2

\* The command at place i, whose IAC came before it in this piece or at the end
\* of the one before.
Command(d, i) ==
    IF d[i] = "IAC" THEN [out |-> <<"IAC">>, answers |-> << >>, next |-> i + 1]
    ELSE IF d[i] \in Refused
         THEN [out |-> << >>, answers |-> Answer(d[i], OptionAt(d, i + 1)), next |-> i + 2]
    ELSE IF d[i] = "SB" THEN [out |-> << >>, answers |-> << >>, next |-> AfterSub(d, i + 1)]
    ELSE [out |-> << >>, answers |-> << >>, next |-> i + 1]

\* What the loop makes of the piece from place i on.
Scan(d) ==
    LET from[i \in 1 .. Len(d) + 2] ==
            IF i > Len(d) THEN [out |-> << >>, answers |-> << >>, pending |-> FALSE]
            ELSE IF d[i] # "IAC" THEN [from[i + 1] EXCEPT !.out = <<d[i]>> \o @]
            ELSE IF i = Len(d) THEN [out |-> << >>, answers |-> << >>, pending |-> TRUE]
            ELSE LET c == Command(d, i + 1)
                 IN  [from[c.next] EXCEPT !.out = c.out \o @, !.answers = c.answers \o @]
    IN  from

\* Mutant: the byte after a pending IAC is taken for an escaped one.
Piece_AnyEscaped(d, pending) ==
    IF pending
    THEN [Scan(d)[2] EXCEPT !.out = <<"IAC">> \o @]
    ELSE Scan(d)[1]

\* The pending IAC is dealt with first.
Piece(d, pending) ==
    LET c == Command(d, 1)
    IN  IF pending
        THEN [Scan(d)[c.next] EXCEPT !.out = c.out \o @, !.answers = c.answers \o @]
        ELSE Scan(d)[1]

-----------------------------------------------------------------------------
(* The protocol, one byte after the other.                                 *)

Byte(s, b) ==
    CASE s.in = "data" /\ b = "IAC"     -> [s EXCEPT !.in = "iac"]
      [] s.in = "data" /\ b # "IAC"     -> [s EXCEPT !.out = Append(@, b)]
      [] s.in = "iac" /\ b = "IAC"      -> [s EXCEPT !.in = "data", !.out = Append(@, b)]
      [] s.in = "iac" /\ b = "SB"       -> [s EXCEPT !.in = "sub"]
      [] s.in = "iac" /\ b \in Refused  -> [s EXCEPT !.in = b]
      [] s.in = "sub" /\ b = "IAC"      -> [s EXCEPT !.in = "subiac"]
      [] s.in = "subiac" /\ b = "SE"    -> [s EXCEPT !.in = "data"]
      [] s.in = "subiac" /\ b \notin {"IAC", "SE"} -> [s EXCEPT !.in = "sub"]
      [] s.in \in Refused -> [s EXCEPT !.in = "data", !.answers = @ \o Answer(s.in, b)]
      [] s.in = "iac" /\ b \notin Refused \cup {"IAC", "SB"} -> [s EXCEPT !.in = "data"]
      [] OTHER -> s

Protocol(bytes) ==
    FoldLeft(Byte, [in |-> "data", out |-> << >>, answers |-> << >>], bytes)

-----------------------------------------------------------------------------
(* The server and the network.                                             *)

Init ==
    /\ script \in Scripts
    /\ said = 0 /\ line = "up" /\ socket = << >>
    /\ phase = "negotiating"
    /\ pendingIac = FALSE /\ out = << >> /\ answers = << >>
    /\ wrapper = [buf |-> << >>, eof |-> FALSE, open |-> TRUE, closed |-> FALSE]
    /\ got = << >> /\ raised = FALSE
    /\ heard = << >> /\ initial = << >> /\ torn = FALSE

Arrive(n) ==
    /\ line = "up"
    /\ said < n /\ n <= Len(script)
    /\ said' = n
    /\ socket' = socket \o SubSeq(script, said + 1, n)
    /\ UNCHANGED <<script, line, phase, telnet, wrapper, reader>>

\* The server closes, in order, or the connection breaks.
Hangup == /\ \/ line = "up" /\ line' = "fin"
             \/ line # "reset" /\ line' = "reset"
          /\ UNCHANGED <<script, said, socket, phase, telnet, wrapper, reader>>

-----------------------------------------------------------------------------
(* _telnet_negotiate.                                                      *)

Receive ==
    LET r == Piece(socket, pendingIac)
    IN  /\ phase = "negotiating"
        /\ socket # << >>
        /\ r.answers = << >> \/ line # "reset"
        /\ out' = out \o r.out
        /\ answers' = answers \o r.answers
        /\ pendingIac' = r.pending
        /\ heard' = heard \o socket
        /\ torn' = (torn \/ Protocol(heard \o socket).in \notin {"data", "iac"})
        /\ socket' = << >>
        /\ UNCHANGED <<peer, phase, wrapper, reader, initial>>

\* The wrapper starts with what the negotiation returns.
OpenWith(buf) ==
    /\ phase' = "open"
    /\ wrapper' = [wrapper EXCEPT !.buf = buf]
    /\ initial' = buf
    /\ UNCHANGED <<peer, reader, pendingIac, out, answers, heard, torn>>

\* Nothing has come for a while, or the deadline is over, or the line is down.
Settle == /\ phase = "negotiating"
          /\ OpenWith(out)
          /\ UNCHANGED socket

\* An answer cannot be sent any more: what was gathered is dropped.
AnswerFails == /\ phase = "negotiating"
               /\ socket # << >> /\ line = "reset"
               /\ Piece(socket, pendingIac).answers # << >>
               /\ OpenWith(<< >>)
               /\ socket' = << >>

-----------------------------------------------------------------------------
(* _SocketWrapper.                                                         *)

Closed == [wrapper EXCEPT !.eof = TRUE, !.open = FALSE]

\* Mutant: the end is reported before what came ahead of it.
Recv_EndFirst(n) == IF wrapper.closed THEN "error"
                    ELSE CASE line = "up" /\ socket # << >> -> "data"
                           [] line = "up" /\ socket = << >> -> "nothing"
                           [] line = "fin" -> "eof"
                           [] line = "reset" -> "error"

\* What one recv of at most n bytes gives: data, "eof", "error" or "nothing".
Recv(n) == IF wrapper.closed THEN "error"
           ELSE IF socket # << >> THEN "data"
           ELSE CASE line = "up" -> "nothing"
                  [] line = "fin" -> "eof"
                  [] line = "reset" -> "error"

\* in_waiting: fills an empty buffer, or notices the end.
InWaiting ==
    /\ phase = "open" /\ ~raised
    /\ wrapper.buf = << >>
    /\ \/ /\ wrapper.eof \/ Recv(Len(socket)) \in {"eof", "error"}
          /\ wrapper' = Closed
          /\ raised' = TRUE
          /\ UNCHANGED socket
       \/ /\ ~wrapper.eof /\ Recv(Len(socket)) = "data"
          /\ wrapper' = [wrapper EXCEPT !.buf = socket]
          /\ socket' = << >>
          /\ UNCHANGED raised
    /\ UNCHANGED <<peer, phase, telnet, got>>

\* Mutant: the buffer is not cut.
ReadBuffered_KeepsBuffer(n) ==
    LET data == SubSeq(wrapper.buf, 1, IF n <= Len(wrapper.buf) THEN n ELSE Len(wrapper.buf))
    IN  /\ phase = "open" /\ ~raised /\ ~wrapper.eof
        /\ data # << >>
        /\ n <= Len(wrapper.buf) \/ Recv(n) = "nothing"
        /\ got' = got \o data
        /\ UNCHANGED <<peer, socket, phase, telnet, raised, wrapper>>

\* read when the buffer has enough, or nothing more is to be had.
ReadBuffered(n) ==
    LET data == SubSeq(wrapper.buf, 1, IF n <= Len(wrapper.buf) THEN n ELSE Len(wrapper.buf))
    IN  /\ phase = "open" /\ ~raised /\ ~wrapper.eof
        /\ data # << >>
        /\ n <= Len(wrapper.buf) \/ Recv(n) = "nothing"
        /\ got' = got \o data
        /\ wrapper' = [wrapper EXCEPT !.buf = SubSeq(@, Len(data) + 1, Len(@))]
        /\ UNCHANGED <<peer, socket, phase, telnet, raised>>

\* read when it takes the rest, if any, from the socket.
ReadSocket(n) ==
    LET want == n - Len(wrapper.buf)
    IN  /\ phase = "open" /\ ~raised /\ ~wrapper.eof
        /\ want > 0 /\ Recv(want) = "data"
        /\ got' = got \o wrapper.buf
                      \o SubSeq(socket, 1, IF want <= Len(socket) THEN want ELSE Len(socket))
        /\ socket' = SubSeq(socket, want + 1, Len(socket))
        /\ wrapper' = [wrapper EXCEPT !.buf = << >>]
        /\ UNCHANGED <<peer, phase, telnet, raised>>

\* read at the end: what is left is returned first.
ReadLast(n) ==
    /\ phase = "open" /\ ~raised /\ ~wrapper.eof
    /\ wrapper.buf # << >>
    /\ n > Len(wrapper.buf) /\ Recv(n) = "eof"
    /\ got' = got \o wrapper.buf
    /\ wrapper' = [wrapper EXCEPT !.buf = << >>, !.eof = TRUE]
    /\ UNCHANGED <<peer, socket, phase, telnet, raised>>

\* read tells the reader of the end, or of an error, to which the buffer is lost.
\* If the socket is closed here the exception is select's, and notes nothing.
ReadRaises(n) ==
    /\ phase = "open" /\ ~raised
    /\ raised' = TRUE
    /\ \/ wrapper.eof /\ wrapper' = Closed
       \/ /\ ~wrapper.eof /\ n > Len(wrapper.buf)
          /\ Recv(n) = "error" \/ (wrapper.buf = << >> /\ Recv(n) = "eof")
          /\ wrapper' = [(IF wrapper.closed THEN wrapper ELSE Closed) EXCEPT !.buf = << >>]
    /\ UNCHANGED <<peer, socket, phase, telnet, got>>

\* Another thread writes; only a failure changes anything here.
WriteFails == /\ phase = "open" /\ ~wrapper.eof
              /\ line = "reset" \/ wrapper.closed
              /\ wrapper' = Closed
              /\ UNCHANGED <<peer, socket, phase, telnet, reader>>

\* Another thread closes; once the end was noticed that does nothing.
Close == /\ phase = "open" /\ wrapper.open
         /\ wrapper' = [wrapper EXCEPT !.open = FALSE, !.closed = TRUE]
         /\ UNCHANGED <<peer, socket, phase, telnet, reader>>

Next == \/ \E n \in 1 .. Len(script) : Arrive(n)
        \/ Hangup \/ Receive \/ Settle \/ AnswerFails
        \/ InWaiting \/ WriteFails \/ Close
        \/ \E n \in Sizes : ReadBuffered(n) \/ ReadSocket(n) \/ ReadLast(n) \/ ReadRaises(n)

Spec == Init /\ [][Next]_vars

-----------------------------------------------------------------------------
(* Properties.                                                             *)

\* However the input is cut into pieces, unless one ends inside an option or a
\* subnegotiation, the data that is kept and the answers that are sent are those
\* of the protocol, also when an IAC is the last byte of a piece
\* (_telnet_negotiate, transport.py:186-248).
NegotiationExact ==
    phase = "negotiating" /\ ~torn =>
        LET ref == Protocol(heard)
        IN  /\ out = ref.out
            /\ answers = ref.answers
            /\ pendingIac <=> ref.in = "iac"

\* The bytes a reader takes are what the negotiation returned and what followed,
\* in order, without a gap and without a repetition, whichever mixture of
\* in_waiting and read it uses, while others write and close (_SocketWrapper,
\* transport.py:300-383).
ReadInOrder ==
    LET stream == initial \o SubSeq(script, Len(heard) + 1, said)
    IN  phase = "open" => IsPrefix(got, stream)

\* If the server closes in order and nobody else closes or fails, the reader is
\* told so only when it has every byte the server sent (read, 344-350).
NothingLostAtEnd ==
    raised /\ line = "fin" /\ ~wrapper.closed =>
        got = initial \o SubSeq(script, Len(heard) + 1, said)
=============================================================================
