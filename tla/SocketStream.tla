---------------------------- MODULE SocketStream ----------------------------
(***************************************************************************)
(* Reading and writing a stream socket (Socket/src/SocketImpl): the lines, *)
(* the telnet decoder, the wait for a text and the wait for readiness,     *)
(* over a network that cuts the stream wherever it likes and a system that *)
(* interrupts the calls.                                                   *)
(*                                                                         *)
(* A byte is a symbol: the end of line characters, those of the telnet     *)
(* protocol, and letters.                                                  *)
(***************************************************************************)
EXTENDS Integers, Sequences

CONSTANTS Streams,     \* what the peer may send, per use of the socket
          BufferSize,  \* ulBufferLength - 1: the most that readLine peeks
          Pattern,     \* pBufferToWait, not empty: waitForBuffer would take any
                       \* byte for an empty one
          Reply,       \* what this side writes
          WaitTime     \* the timeout of isReadyForReading, in ticks

\* The bytes of a stream.
Symbols == STRING

ASSUME StreamAssumption ==
    /\ BufferSize \in Nat \ {0} /\ WaitTime \in Nat
    /\ \A use \in DOMAIN Streams : Streams[use] \subseteq Seq(Symbols)
    /\ Pattern \in Seq(Symbols) \ {<<>>} /\ Reply \in Seq(Symbols)

VARIABLES stUse,       \* what this side does with the socket
          stSent,      \* what the peer sent, once and for all
          stArrived,   \* how much of it has arrived in the kernel
          stRead,      \* how much of it has been taken from the kernel
          stPeeked,    \* the bytes that readLine has yet to take
          stLine,      \* the characters of the lines returned so far
          stIAC,       \* _lIAC_State
          stDecoded,   \* what telnetDecoder let through
          stAnswers,   \* the answers of telnetDecoder
          stWindow,    \* pBufferRead of waitForBuffer
          stFound,     \* bIsBufferRead
          stWritten,   \* the bytes of Reply that sendto has taken
          stWait       \* the wait for readiness

streamVars == <<stUse, stSent, stArrived, stRead, stPeeked, stLine, stIAC, stDecoded,
                stAnswers, stWindow, stFound, stWritten, stWait>>
wireVars == <<stUse, stSent, stArrived>>
lineVars == <<stPeeked, stLine>>
telnetVars == <<stIAC, stDecoded, stAnswers>>
windowVars == <<stWindow, stFound>>
waitVars == <<stWritten, stWait>>

NoWait == [what |-> "none", elapsed |-> 0, called |-> 0, left |-> 0]

Uses == {"line", "telnet", "wait", "write", "ready"}

StreamInit ==
    /\ stUse \in Uses
    /\ stSent \in IF stUse \in DOMAIN Streams THEN Streams[stUse] ELSE {<<>>}
    /\ stArrived = 0 /\ stRead = 0
    /\ stPeeked = 0 /\ stLine = <<>>
    /\ stIAC = "RESET" /\ stDecoded = <<>> /\ stAnswers = <<>>
    /\ stWindow = <<>> /\ stFound = FALSE
    /\ stWritten = 0
    /\ stWait = NoWait

\* The network delivers some more bytes.
BytesArrive ==
    /\ \E n \in stArrived + 1..Len(stSent) : stArrived' = n
    /\ UNCHANGED <<stUse, stSent, stRead, lineVars, telnetVars, windowVars, waitVars>>

Arrived == SubSeq(stSent, stRead + 1, stArrived)

-----------------------------------------------------------------------------
(* readLine *)

\* The position of the first CR LF, and else of the first LF; how many bytes
\* make the line and how many are taken.
LineLimits(peek) ==
    LET crlf == {k \in 1..Len(peek) - 1 : peek[k] = "CR" /\ peek[k + 1] = "LF"}
        lf == {k \in 1..Len(peek) : peek[k] = "LF"}
        first(S) == CHOOSE k \in S : \A j \in S : k <= j
    IN IF crlf # {} THEN [chars |-> first(crlf) - 1, taken |-> first(crlf) + 1]
       ELSE IF lf # {} THEN [chars |-> first(lf) - 1, taken |-> first(lf)]
       ELSE [chars |-> Len(peek), taken |-> Len(peek)]

\* The first read peeks at what is there, as much as the buffer holds, ...
PeekLine ==
    /\ stUse \in {"line", "telnet"}
    /\ stPeeked = 0 /\ Arrived # <<>>
    /\ LET peek == SubSeq(stSent, stRead + 1,
                          IF stArrived < stRead + BufferSize THEN stArrived
                          ELSE stRead + BufferSize)
       IN /\ stPeeked' = LineLimits(peek).taken
          /\ stLine' = stLine \o SubSeq(peek, 1, LineLimits(peek).chars)
    /\ UNCHANGED <<wireVars, stRead, telnetVars, windowVars, waitVars>>

-----------------------------------------------------------------------------
(* telnetDecoder *)

\* One byte: the next state, what the byte lets through and what is answered.
DecodeByte(state, byte) ==
    LET to(s) == [state |-> s, out |-> <<>>, answer |-> <<>>]
        answer(a) == [state |-> "RESET", out |-> <<>>, answer |-> <<a>>]
    IN CASE state = "RESET" ->
              IF byte = "IAC" THEN to("OPCODE")
              ELSE [to("RESET") EXCEPT !.out = <<byte>>]
         [] state = "OPCODE" ->
              IF byte \in {"WILL", "DO", "SB"} THEN to(byte)
              ELSE IF byte = "IAC" THEN [to("RESET") EXCEPT !.out = <<"IAC">>]
              ELSE to("RESET")
         [] state = "SB" -> to(IF byte = "TERMTYPE" THEN "TERMTYPE" ELSE "RESET")
         [] state = "TERMTYPE" -> to(IF byte = "SEND" THEN "SEND" ELSE "RESET")
         [] state = "SEND" -> to(IF byte = "IAC" THEN "IAC" ELSE "RESET")
         [] state = "IAC" -> IF byte = "SE" THEN answer(<<"IS", "dumb">>) ELSE to("RESET")
         [] state = "WILL" -> answer(<<"DONT", byte>>)
         [] state = "DO" -> answer(<<IF byte = "TERMTYPE" THEN "WILL" ELSE "WONT", byte>>)

Decoded(state) == [state |-> state, out |-> <<>>, answer |-> <<>>]

\* The bytes of a buffer, one after the other.
DecodeFrom(first, bytes) ==
    LET after[k \in 0..Len(bytes)] ==
          IF k = 0 THEN first
          ELSE LET before == after[k - 1]
                   d == DecodeByte(before.state, bytes[k])
               IN [state |-> d.state, out |-> before.out \o d.out,
                   answer |-> before.answer \o d.answer]
    IN after[Len(bytes)]

\* Mutant: every buffer begins outside a command.
telnetDecoderForgets(state, bytes) == DecodeFrom(Decoded("RESET"), bytes)

\* The state survives from one buffer to the next.
telnetDecoder(state, bytes) == DecodeFrom(Decoded(state), bytes)

\* ... and the second one takes the line and its end, which are still there.
\* readLineByTelnet then decodes the characters of the line.
TakeLine ==
    LET bytes == SubSeq(Arrived, 1, stPeeked)
        d == telnetDecoder(stIAC, SubSeq(bytes, 1, LineLimits(bytes).chars))
    IN /\ stPeeked > 0
       /\ stRead' = stRead + stPeeked
       /\ stPeeked' = 0
       /\ IF stUse = "telnet"
          THEN /\ stIAC' = d.state
               /\ stDecoded' = stDecoded \o d.out
               /\ stAnswers' = stAnswers \o d.answer
          ELSE UNCHANGED telnetVars
       /\ UNCHANGED <<wireVars, stLine, windowVars, waitVars>>

-----------------------------------------------------------------------------
(* waitForBuffer *)

\* One byte at a time goes to the end of the window, which is as long as the
\* text that is waited for.
waitForBuffer ==
    /\ stUse = "wait" /\ ~stFound /\ Arrived # <<>>
    /\ LET window == Append(stWindow, Head(Arrived))
       IN /\ stFound' = (window = Pattern)
          /\ stWindow' = IF window # Pattern /\ Len(window) >= Len(Pattern)
                         THEN Tail(window) ELSE window
    /\ stRead' = stRead + 1
    /\ UNCHANGED <<wireVars, lineVars, telnetVars, waitVars>>

-----------------------------------------------------------------------------
(* write and the wait for readiness *)

\* sendto takes as much as it likes, until everything is written.
write ==
    /\ stUse = "write"
    /\ \E n \in stWritten + 1..Len(Reply) : stWritten' = n
    /\ UNCHANGED <<wireVars, stRead, lineVars, telnetVars, windowVars, stWait>>

BeginWait(what) ==
    /\ stWait = NoWait
    /\ stWait' = [NoWait EXCEPT !.what = what, !.left = WaitTime]

\* poll is interrupted: the time since the first call is taken from the time
\* that was left at the last one.
WaitInterrupted ==
    /\ stWait.what # "none"
    /\ stWait' = IF stWait.elapsed >= stWait.left THEN NoWait
                 ELSE [stWait EXCEPT !.left = @ - stWait.elapsed, !.called = stWait.elapsed]

WaitTicks ==
    /\ stWait.what # "none" /\ stWait.elapsed - stWait.called < stWait.left
    /\ stWait' = [stWait EXCEPT !.elapsed = @ + 1]

\* poll returns, with or without a result.
WaitReturns ==
    /\ stWait.what # "none"
    /\ stWait' = NoWait

isReadyForReading == BeginWait("reading") \/ WaitInterrupted \/ WaitReturns

isReadyForWriting == BeginWait("writing") \/ WaitInterrupted \/ WaitReturns

isThereException == BeginWait("exception") \/ WaitInterrupted \/ WaitReturns

WaitNext ==
    /\ stUse = "ready"
    /\ isReadyForReading \/ isReadyForWriting \/ isThereException \/ WaitTicks
    /\ UNCHANGED <<wireVars, stRead, lineVars, telnetVars, windowVars, stWritten>>

StreamNext ==
    BytesArrive \/ PeekLine \/ TakeLine \/ waitForBuffer \/ write \/ WaitNext

StreamSpec == StreamInit /\ [][StreamNext]_streamVars

-----------------------------------------------------------------------------

\* The variables have the values the code gives them.
StreamTypeOK ==
    /\ stArrived \in 0..Len(stSent) /\ stRead \in 0..stArrived
    /\ stPeeked \in 0..BufferSize
    /\ stIAC \in {"RESET", "OPCODE", "SB", "TERMTYPE", "SEND", "IAC", "WILL", "DO"}
    /\ stFound \in BOOLEAN
    /\ stWritten \in 0..Len(Reply)

LineEnds == {"CR", "LF"}

\* A text without its line ends.
Text(s) ==
    LET upTo[k \in 0..Len(s)] ==
          IF k = 0 THEN <<>>
          ELSE IF s[k] \in LineEnds THEN upTo[k - 1] ELSE Append(upTo[k - 1], s[k])
    IN upTo[Len(s)]

\* However the network cuts the stream, the lines that readLine returns
\* together hold the characters that were taken, each once and in order.
LinesKeepText ==
    stUse = "line" /\ stPeeked = 0 => Text(stLine) = Text(SubSeq(stSent, 1, stRead))

\* The bytes of the telnet command that begins at k.
CommandLength(s, k) ==
    CASE s[k + 1] = "SB" -> 6
      [] s[k + 1] \in {"WILL", "DO"} -> 3
      [] OTHER -> 2

\* By the shape of the commands, the text of the first n bytes of a telnet
\* stream, and the byte after the last command or character that began there.
Plain(s) ==
    LET upTo[n \in 0..Len(s)] ==
          IF n = 0 THEN [text |-> <<>>, next |-> 1]
          ELSE LET before == upTo[n - 1]
               IN IF n < before.next THEN before
                  ELSE IF s[n] # "IAC"
                  THEN [text |-> Append(before.text, s[n]), next |-> n + 1]
                  ELSE [text |-> before.text \o IF s[n + 1] = "IAC" THEN <<"IAC">> ELSE <<>>,
                        next |-> n + CommandLength(s, n)]
    IN upTo

\* What a telnet peer sends: whole commands, without a byte inside that
\* readLine would take for a line end, and the only one with parameters is
\* the question for the terminal type, which is the only one that
\* telnetDecoder knows.
Session(s) ==
    \A k \in 1..Len(s) :
        s[k] = "IAC" /\ Plain(s)[k - 1].next = k =>
            /\ k < Len(s) /\ k + CommandLength(s, k) <= Len(s) + 1
            /\ \A i \in 1..CommandLength(s, k) - 1 : s[k + i] \notin LineEnds
            /\ s[k + 1] = "SB" =>
                 s[k + 2] = "TERMTYPE" /\ s[k + 3] = "SEND" /\ s[k + 4] = "IAC" /\ s[k + 5] = "SE"

ASSUME TelnetAssumption ==
    "telnet" \in DOMAIN Streams => \A s \in Streams["telnet"] : Session(s)

\* A telnet command that the network cuts into several reads leaves no trace
\* in the text: between two commands the decoder has let through exactly the
\* plain text of what was read.
TelnetTextIsPlain ==
    stUse = "telnet" /\ stPeeked = 0 /\ stIAC = "RESET"
        => Text(stDecoded) = Text(Plain(stSent)[stRead].text)

\* waitForBuffer stops at the first occurrence of the text and at no other
\* place: it neither misses one that begins inside a failed match nor sees
\* one that is not there.
FindsFirstOccurrence ==
    LET endsAt(k) == k >= Len(Pattern)
                     /\ SubSeq(stSent, k - Len(Pattern) + 1, k) = Pattern
    IN stUse = "wait" =>
         /\ stFound => endsAt(stRead)
         /\ \A k \in 1..stRead - 1 : ~endsAt(k)
         /\ stRead > 0 /\ endsAt(stRead) => stFound

\* Signals do not make a wait for readiness longer than it was asked for.
WaitNeverLonger == stWait.elapsed <= WaitTime

\* However the network cuts the stream and signals interrupt the waits,
\* readLine keeps the text of the lines, telnetDecoder takes out the commands
\* and nothing else, waitForBuffer finds the first occurrence, and no wait of
\* isReadyForReading and its kind lasts longer than asked.
TextKept ==
    StreamTypeOK /\ LinesKeepText /\ TelnetTextIsPlain /\ FindsFirstOccurrence /\ WaitNeverLonger
=============================================================================
