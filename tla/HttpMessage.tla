---------------------------- MODULE HttpMessage ----------------------------
(***************************************************************************)
(* WebTools/src/WebUtility: how a message is read from a socket, and how   *)
(* the parts of a URL are encoded, decoded and found.                      *)
(***************************************************************************)
EXTENDS Integers, Sequences

CONSTANTS HmStreams,   \* the streams: bytes, and the Content-Length announced
          HmNoLength,  \* a header without Content-Length
          HmBuffer,    \* WEBTOOLS_MAXHTTPHEADERBUFFERSIZE and ...BODYBUFFERSIZE
          UrlChars,    \* the characters of a URL
          UrlLength    \* the longest URL

ASSUME HttpMessageAssumption ==
    /\ HmStreams \subseteq [bytes : Seq(STRING), length : Nat \cup {HmNoLength}]
    /\ HmBuffer \in Nat \ {0} /\ UrlLength \in Nat

\* Characters that encodeURL leaves as they are, of all that isalnum accepts.
Plain == {"a", "b", "2", "0", "5", "6", "B"}

ASSUME UrlAssumption == UrlChars \subseteq Plain \cup {"space", "+", "%", "&"}

VARIABLES hmStream,  \* what the peer sends: the message and the next one
          hmArrived, \* the bytes the kernel has
          hmTaken,   \* the bytes read
          hmHeader,  \* the bytes of pbHttpHeader
          hmBody,    \* ullCurrentBodyLength
          hmPc,
          hmSplit,   \* history: a peek ended inside the blank line
          hmUrl      \* a URL for the operators below

messageVars == <<hmStream, hmArrived, hmTaken, hmHeader, hmBody, hmPc, hmSplit, hmUrl>>

BlankLine == <<"r", "n", "r", "n">>

MessageInit ==
    /\ hmStream \in HmStreams
    /\ hmArrived = 0 /\ hmTaken = 0 /\ hmHeader = 0 /\ hmBody = 0
    /\ hmSplit = FALSE
    /\ \/ hmPc = "header" /\ hmUrl = <<>>
       \/ hmPc = "url" /\ hmUrl \in UNION {[1..n -> UrlChars] : n \in 0..UrlLength}

MessageArrives ==
    /\ hmPc \in {"header", "body"} /\ hmArrived < Len(hmStream.bytes)
    /\ \E n \in (hmArrived + 1)..Len(hmStream.bytes) : hmArrived' = n
    /\ UNCHANGED <<hmStream, hmTaken, hmHeader, hmBody, hmPc, hmSplit, hmUrl>>

Least(a, b) == IF a <= b THEN a ELSE b

\* What a peek of the header sees.
Peeked == SubSeq(hmStream.bytes, hmTaken + 1, hmTaken + Least(hmArrived - hmTaken, HmBuffer))
EndsIn(s) == {i \in 1..(Len(s) - 3) : SubSeq(s, i, i + 3) = BlankLine}

\* The blank line of the stream ends here.
HeaderLength == (CHOOSE i \in EndsIn(hmStream.bytes) :
                    \A j \in EndsIn(hmStream.bytes) : i <= j) + 3

\* The peek finds the blank line, and the bytes up to it are read.
HeaderFound(taken) ==
    /\ hmPc = "header" /\ hmArrived > hmTaken /\ EndsIn(Peeked) # {}
    /\ hmTaken' = hmTaken + taken
    /\ hmHeader' = hmHeader + taken
    /\ hmPc' = "body"
    /\ UNCHANGED <<hmStream, hmArrived, hmBody, hmSplit, hmUrl>>

EndHeader ==
    EndsIn(Peeked) # {}
    /\ HeaderFound((CHOOSE i \in EndsIn(Peeked) : \A j \in EndsIn(Peeked) : i <= j) + 3)

\* No blank line in what has arrived: all of it is header.
MoreHeader ==
    /\ hmPc = "header" /\ hmArrived > hmTaken /\ EndsIn(Peeked) = {}
    /\ hmTaken' = hmTaken + Len(Peeked)
    /\ hmHeader' = hmHeader + Len(Peeked)
    /\ hmSplit' = (hmSplit \/ hmTaken + Len(Peeked) \in (HeaderLength - 3)..(HeaderLength - 1))
    /\ UNCHANGED <<hmStream, hmArrived, hmBody, hmPc, hmUrl>>

\* Nothing to read before the timeout, or the end of the stream.
ReadGivesUp ==
    /\ hmPc \in {"header", "body"} /\ hmArrived = hmTaken
    /\ ~(hmPc = "body" /\ hmBody = hmStream.length)
    /\ hmPc' = IF hmArrived = Len(hmStream.bytes) THEN "eof" ELSE "timeout"
    /\ UNCHANGED <<hmStream, hmArrived, hmTaken, hmHeader, hmBody, hmSplit, hmUrl>>

\* The body is read up to the Content-Length, without one up to the end.
ReadBody ==
    /\ hmPc = "body" /\ hmArrived > hmTaken /\ hmBody # hmStream.length
    /\ LET wanted == IF hmStream.length = HmNoLength THEN HmBuffer
                     ELSE Least(hmStream.length - hmBody, HmBuffer)
       IN \E n \in 1..Least(wanted, hmArrived - hmTaken) :
             hmTaken' = hmTaken + n /\ hmBody' = hmBody + n
    /\ UNCHANGED <<hmStream, hmArrived, hmHeader, hmPc, hmSplit, hmUrl>>

EndBody ==
    /\ hmPc = "body" /\ hmBody = hmStream.length
    /\ hmPc' = "done"
    /\ UNCHANGED <<hmStream, hmArrived, hmTaken, hmHeader, hmBody, hmSplit, hmUrl>>

MessageNext ==
    MessageArrives \/ EndHeader \/ MoreHeader \/ ReadGivesUp \/ ReadBody \/ EndBody

MessageSpec == MessageInit /\ [][MessageNext]_messageVars

(***************************************************************************)
(* The operators on URLs                                                   *)
(***************************************************************************)
\* A character as it is, a plus for a space, or its code; the other one is "&".
EncodeChar(c) ==
    CASE c \in Plain -> <<c>>
      [] c = "space" -> <<"+">>
      [] c = "+" -> <<"%", "2", "B">>
      [] c = "%" -> <<"%", "2", "5">>
      [] OTHER -> <<"%", "2", "6">>

\* encodeURL without truncation.
encodeURL(s) ==
    LET done[k \in 0..Len(s)] ==
          IF k = 0 THEN <<>> ELSE done[k - 1] \o EncodeChar(s[k])
    IN done[Len(s)]

\* encodeURL with ulTruncateEncodedValueIfBiggerThen: a code needs three, and
\* the first character that does not fit ends the loop.
Truncate(t, c, most) ==
    IF ~t.on \/ Len(t.out) + Len(EncodeChar(c)) > most THEN [t EXCEPT !.on = FALSE]
    ELSE [t EXCEPT !.out = @ \o EncodeChar(c)]

truncatedURL(s, most) ==
    LET done[k \in 0..Len(s)] ==
          IF k = 0 THEN [on |-> TRUE, out |-> <<>>] ELSE Truncate(done[k - 1], s[k], most)
    IN done[Len(s)].out

\* The character of a code; "x" is any other character.
Code(h, l) ==
    CASE h = "2" /\ l = "B" -> "+"
      [] h = "2" /\ l = "5" -> "%"
      [] h = "2" /\ l = "6" -> "&"
      [] h = "2" /\ l = "0" -> "space"
      [] OTHER -> "x"

IsHex(c) == c \in {"2", "0", "5", "6", "B", "a", "b"}

\* One character of decodeURL. The code before it is none, its percent sign or
\* that and its first digit; the first one that is not hexadecimal ends the loop.
DecodeStep(t, c) ==
    CASE t.code = "none" /\ c # "%" -> [t EXCEPT !.out = Append(@, c)]
      [] t.code = "none" /\ c = "%" -> [t EXCEPT !.code = "%"]
      [] t.code = "%" /\ IsHex(c) -> [t EXCEPT !.code = c]
      [] IsHex(t.code) /\ IsHex(c) -> [out |-> Append(t.out, Code(t.code, c)), code |-> "none"]
      [] OTHER -> [t EXCEPT !.code = "wrong"]

\* Afterwards every plus, those from a code too, becomes a space.
decodeURL(s) ==
    LET done[k \in 0..Len(s)] ==
          IF k = 0 THEN [out |-> <<>>, code |-> "none"] ELSE DecodeStep(done[k - 1], s[k])
        t == done[Len(s)]
    IN [ok |-> t.code = "none",
        out |-> [i \in 1..Len(t.out) |-> IF t.out[i] = "+" THEN "space" ELSE t.out[i]]]

\* The places where a name of one character stands between a separator and
\* "=", "&" or the end; the first one counts.
ParameterPlaces(url, name) ==
    {i \in 2..Len(url) :
        /\ url[i] = name
        /\ url[i - 1] \in {"?", "&"}
        /\ i = Len(url) \/ url[i + 1] \in {"=", "&"}}

First(S) == CHOOSE i \in S : \A j \in S : i <= j

\* The value up to the next separator, decoded; an encoded value that does not
\* fit into a buffer of the given size is refused.
getURLParameterValue(url, name, size) ==
    LET places == ParameterPlaces(url, name)
        at == First(places)
        after == {j \in (at + 2)..Len(url) : url[j] = "&"}
        value == SubSeq(url, at + 2, IF after = {} THEN Len(url) ELSE First(after) - 1)
    IN IF places = {} THEN [ok |-> FALSE, out |-> <<>>]
       ELSE IF at = Len(url) \/ url[at + 1] = "&" THEN [ok |-> TRUE, out |-> <<>>]
       ELSE IF Len(value) >= size THEN [ok |-> FALSE, out |-> <<>>]
       ELSE decodeURL(value)

\* addURLParameter: the first parameter follows a question mark.
addURLParameter(url, name, value) ==
    url \o (IF \E i \in 1..Len(url) : url[i] = "?" THEN <<"&">> ELSE <<"?">>)
        \o <<name, "=">> \o encodeURL(value)

(***************************************************************************)
(* Properties                                                              *)
(***************************************************************************)
MessageTypeOK ==
    /\ hmPc \in {"url", "header", "body", "done", "timeout", "eof"}
    /\ hmArrived \in 0..Len(hmStream.bytes) /\ hmTaken \in 0..hmArrived
    /\ hmHeader + hmBody = hmTaken

\* However the network cuts the stream, the header that is read ends with the blank line, and the body is as long as the
\* Content-Length says, exactly when no peek ended inside the blank line. After one that did, the bytes up to the next
\* blank line are taken for header: the body and the next message are swallowed, and what follows is read as the body.
MessageBoundary ==
    /\ hmPc \in {"body", "done"} =>
           IF hmSplit THEN hmHeader > HeaderLength ELSE hmHeader = HeaderLength
    /\ hmPc = "done" => hmTaken = hmHeader + hmStream.length

\* readHttpMessage (WebUtility.cpp:824 and 849): "vacuum just the header from the socket".
JustTheHeader == hmHeader <= HeaderLength

\* A value that addURLParameter has encoded and appended is the value that
\* getURLParameterValue finds again among other parameters, whatever
\* separators, codes and pluses it holds; but a plus comes back as a space.
ParameterComesBack ==
    hmPc = "url" =>
    LET before == addURLParameter(<<"b">>, "b", hmUrl)
        url == addURLParameter(addURLParameter(before, "a", hmUrl), "2", hmUrl)
        got == getURLParameterValue(url, "a", 3 * Len(hmUrl) + 1)
    IN got.ok /\ got.out = [i \in 1..Len(hmUrl) |-> IF hmUrl[i] = "+" THEN "space" ELSE hmUrl[i]]

\* An encoded value that is cut to a length can be decoded: no code is cut.
TruncationKeepsCodes ==
    hmPc = "url" => \A most \in 0..(UrlLength + 2) :
        LET cut == truncatedURL(hmUrl, most) IN Len(cut) <= most /\ decodeURL(cut).ok
=============================================================================
