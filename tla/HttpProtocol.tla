---------------------------- MODULE HttpProtocol ----------------------------
(***************************************************************************)
(* src/protocol/HttpProtocol.cpp and the dispatch of processCommand on it. *)
(* A text is a sequence of lines, a line of words (what blanks separate,   *)
(* and a colon), a word of the pieces between its slashes: "/light/on" is  *)
(* <<"", "light", "on">>.  The end of a line, with or without \r, is the   *)
(* end of its sequence; a blank before it makes a last word <<"">>.        *)
(***************************************************************************)
EXTENDS Naturals, Sequences
LOCAL INSTANCE SequencesExt

NoWord  == <<>>
Version == <<"SHCP", "1.0">>
Colon   == <<":">>

getPathSegments(path) == SelectSeq(path, LAMBDA piece : piece # "")

\* What a client types is a path of one word, or of several.
buildRequest(method, path, body) ==
    <<<<method>> \o path \o <<Version>>, <<<<"Host">>, Colon, <<"SmartHome">>>>>>
    \o (IF body = <<>> THEN <<>> ELSE <<<<<<"Content-Length">>, Colon, <<"size">>>>>>)
    \o <<<<>>>> \o body

Word(line, i) == IF i <= Len(line) THEN line[i] ELSE NoWord
Line(raw, i)  == IF i <= Len(raw) THEN raw[i] ELSE <<>>

\* The header lines are those before the first empty one; one without a colon is skipped.
HeadersEnd(raw) == LET blank == SelectInSubSeq(raw, 2, Len(raw), LAMBDA line : line = <<>>)
                   IN IF blank = 0 THEN Len(raw) + 1 ELSE blank
HeaderLines(raw) == SelectSeq(SubSeq(raw, 2, HeadersEnd(raw) - 1),
                              LAMBDA line : Contains(line, Colon))
ColonAt(line) == SelectInSeq(line, LAMBDA word : word = Colon)
Key(line)     == SubSeq(line, 1, ColonAt(line) - 1)
Value(line)   == SubSeq(line, ColonAt(line) + 1, Len(line))

\* Words after the third are ignored; of two headers with one key the last counts.
parseRequest(raw) ==
    LET line == Line(raw, 1)
        found == HeaderLines(raw)
    IN [method  |-> Word(line, 1),
        path    |-> Word(line, 2),
        version |-> IF Len(line) < 3 THEN Version ELSE line[3],
        headers |-> [key \in {Key(l) : l \in ToSet(found)} |->
                       Value(found[SelectLastInSeq(found, LAMBDA l : Key(l) = key)])],
        body    |-> SubSeq(raw, HeadersEnd(raw) + 1, Len(raw))]

\* The pieces that begin with four or three such letters, of those in use here.
BeginsPing == {"PING", "ping", "PINGX"}
BeginsArp  == {"ARP", "arp"}

\* The words after the first blank of a text, run together: a blank stands before every
\* word of a line but the first, and not before a colon.
Argument(raw) ==
    LET AfterBlank(line) == SelectInSubSeq(line, 2, Len(line), LAMBDA word : word # Colon)
        at == SelectInSeq(raw, LAMBDA line : AfterBlank(line) # 0)
    IN IF at = 0 THEN NoWord
       ELSE FlattenSeq(SubSeq(raw[at], AfterBlank(raw[at]), Len(raw[at]))
                       \o FlattenSeq(SubSeq(raw, at + 1, Len(raw))))

\* What processCommand takes a text for: a tool and its argument if the text begins like
\* one, else the segments of the path.  The method and the version are not looked at.
Request(verb, words) == [verb |-> verb, words |-> words]
Received(raw) ==
    LET first == Word(Word(Line(raw, 1), 1), 1)
    IN IF first \in BeginsPing THEN Request("PING", Argument(raw))
       ELSE IF first \in BeginsArp THEN Request("ARP", Argument(raw))
       ELSE Request("GET", getPathSegments(parseRequest(raw).path))
=============================================================================
