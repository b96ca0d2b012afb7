----------------------------- MODULE OutputTail -----------------------------
(* The end of a log as the output endpoint shows it (read_output_tail):      *)
(* read backwards in blocks and split, where the log is any mixture of the   *)
(* line ends that devices send, and grows.                                   *)
EXTENDS Naturals, SequencesExt

CONSTANTS
    Blocks,     \* block sizes; the code has one, 8192
    Requests,   \* values of the tail parameter; 0 stands for one that is no number
    MaxTail,    \* MAX_OUTPUT_TAIL
    MaxLog      \* bound of the runs: bytes of the log

VARIABLE bytes     \* the log

Byte == {"x", "CR", "LF"}

Init == bytes = << >>

\* The worker appends what the device sent and a line end of its own.
WriteByte(b) == /\ Len(bytes) < MaxLog
                /\ bytes' = Append(bytes, b)

Next == \E b \in Byte : WriteByte(b)

Spec == Init /\ [][Next]_bytes

-----------------------------------------------------------------------------
(* The code.                                                               *)

LineFeeds(f, pos) == Cardinality({i \in pos + 1 .. Len(f) : f[i] = "LF"})

\* Mutant: the loop stops with as many line feeds as lines are wanted.
StartOf_OneTooFew(f, tail, block) ==
    LET back[pos \in 0 .. Len(f)] ==
            IF pos = 0 \/ LineFeeds(f, pos) >= tail THEN pos
            ELSE back[IF pos <= block THEN 0 ELSE pos - block]
    IN  back[Len(f)]

\* Where the backward loop stops: at the beginning, or with enough line feeds.
StartOf(f, tail, block) ==
    LET back[pos \in 0 .. Len(f)] ==
            IF pos = 0 \/ LineFeeds(f, pos) > tail THEN pos
            ELSE back[IF pos <= block THEN 0 ELSE pos - block]
    IN  back[Len(f)]

\* CR LF and CR become LF.
Universal(f) ==
    LET from[i \in 1 .. Len(f) + 1] ==
            IF i > Len(f) THEN << >>
            ELSE IF f[i] = "CR" /\ i < Len(f) /\ f[i + 1] = "LF" THEN from[i + 1]
            ELSE <<IF f[i] = "CR" THEN "LF" ELSE f[i]>> \o from[i + 1]
    IN  from[1]

SplitLines(text) ==
    LET from[i \in 1 .. Len(text) + 1] ==
            IF i > Len(text) THEN << << >> >>
            ELSE IF text[i] = "LF" THEN << << >> >> \o from[i + 1]
            ELSE [from[i + 1] EXCEPT ![1] = <<text[i]>> \o @]
    IN  from[1]

\* The first line is partial unless the log was read from its beginning; what
\* follows the last line end is no line if it is empty.
Lines(f, tail, block) ==
    LET pos   == StartOf(f, tail, block)
        text  == Universal(SubSeq(f, pos + 1, Len(f)))
        whole == IF pos > 0 THEN Tail(SplitLines(text)) ELSE SplitLines(text)
        lines == IF whole # << >> /\ Last(whole) = << >> /\ Last(text) = "LF"
                 THEN Front(whole) ELSE whole
    IN  IF f = << >> THEN << >>
        ELSE IF Len(lines) > tail THEN SubSeq(lines, Len(lines) - tail + 1, Len(lines))
        ELSE lines

\* job_output; a parameter out of range means the maximum.
TailOf(request) == IF request \in 1 .. MaxTail THEN request ELSE MaxTail

Output(f, request, block) == Lines(f, TailOf(request), block)

-----------------------------------------------------------------------------
(* What it should show: one byte after the other, a line ends at LF, at CR,  *)
(* or at both in a row.                                                      *)

Scanned(f) ==
    LET upTo[i \in 0 .. Len(f)] ==
            IF i = 0 THEN [lines |-> << >>, line |-> << >>, cr |-> FALSE]
            ELSE LET s == upTo[i - 1]
                 IN  IF f[i] = "LF" /\ s.cr THEN [s EXCEPT !.cr = FALSE]
                     ELSE IF f[i] \in {"CR", "LF"}
                          THEN [lines |-> Append(s.lines, s.line), line |-> << >>,
                                cr |-> f[i] = "CR"]
                     ELSE [s EXCEPT !.line = Append(@, f[i]), !.cr = FALSE]
    IN  upTo[Len(f)]

AllLines(f) == LET s == Scanned(f)
               IN  IF s.line = << >> THEN s.lines ELSE Append(s.lines, s.line)

\* The lines shown are the last ones of the log, as many as were asked for and
\* no more than allowed, whole, wherever the blocks begin and whichever line
\* ends the log has (read_output_tail, jobs/utils.py:320-350).
TailExact ==
    \A request \in Requests, block \in Blocks :
        LET all == AllLines(bytes)
            n   == IF request \in 1 .. MaxTail THEN request ELSE MaxTail
        IN  Output(bytes, request, block)
              = SubSeq(all, IF Len(all) > n THEN Len(all) - n + 1 ELSE 1, Len(all))
=============================================================================
