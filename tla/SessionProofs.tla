--------------------------- MODULE SessionProofs ---------------------------
(* One session, for messages and buffers of every size. *)
EXTENDS ClientSession, SequenceTheorems, TLAPS

LEMMA UnitsFacts ==
  ASSUME NEW n \in Nat, NEW k \in Nat
  PROVE  /\ Units(n, k) \in Seq(Nat) /\ Len(Units(n, k)) = n
         /\ \A i \in 1..n : Units(n, k)[i] = k
  BY DEF Units

LEMMA NoUnits == ASSUME NEW k \in Nat PROVE Units(0, k) = <<>>
<1>1. Units(0, k) \in Seq(Nat) /\ Len(Units(0, k)) = 0  BY UnitsFacts
<1>2. Units(0, k) # <<>> => Len(Units(0, k)) \in Nat \ {0}  BY <1>1, EmptySeq
<1> QED  BY <1>1, <1>2

LEMMA SomeUnits == ASSUME NEW n \in Nat \ {0}, NEW k \in Nat PROVE Units(n, k) # <<>>
  BY UnitsFacts, EmptySeq

LEMMA MoreUnits ==
  ASSUME NEW m \in Nat, NEW n \in Nat, NEW k \in Nat
  PROVE  Units(m, k) \o Units(n, k) = Units(m + n, k)
<1> DEFINE s == Units(m, k)  t == Units(n, k)  u == Units(m + n, k)
<1>1. /\ s \in Seq(Nat) /\ Len(s) = m /\ \A i \in 1..m : s[i] = k
      /\ t \in Seq(Nat) /\ Len(t) = n /\ \A i \in 1..n : t[i] = k
      /\ u \in Seq(Nat) /\ Len(u) = m + n /\ \A i \in 1 .. m + n : u[i] = k
  <2>1. m + n \in Nat  OBVIOUS
  <2> QED  BY <2>1, UnitsFacts
<1> HIDE DEF s, t, u
<1>2. /\ s \o t \in Seq(Nat) /\ Len(s \o t) = m + n
      /\ \A i \in 1 .. m + n : (s \o t)[i] = IF i <= m THEN s[i] ELSE t[i - m]
  BY <1>1, ConcatProperties
<1>3. \A i \in 1 .. m + n : (s \o t)[i] = u[i]
  <2> SUFFICES ASSUME NEW i \in 1 .. m + n PROVE (s \o t)[i] = u[i]
    OBVIOUS
  <2>1. i <= m \/ i - m \in 1..n  OBVIOUS
  <2> QED  BY <1>1, <1>2, <2>1
<1>4. s \o t = u  BY <1>1, <1>2, <1>3, SeqEqual
<1> QED  BY <1>4 DEF s, t, u

LEMMA AllTaken == ASSUME NEW n \in Nat, NEW k \in Nat PROVE Rest(Units(n, k), n) = <<>>
<1>1. Len(Units(n, k)) = n  BY UnitsFacts
<1>2. n + 1 \in Int /\ n < n + 1  OBVIOUS
<1>3. SubSeq(Units(n, k), n + 1, n) = <<>>  BY <1>2, SubSeqEmpty
<1> QED  BY <1>1, <1>3 DEF Rest

LEMMA FirstUnit == ASSUME NEW n \in Nat \ {0}, NEW k \in Nat PROVE Head(Units(n, k)) = k
  BY UnitsFacts, HeadTailProperties

-----------------------------------------------------------------------------
(* The descriptor, for the type of closes: disconnect closes it at most    *)
(* once, though main and ~Client both call it.                             *)
SocketInv ==
    /\ connected_ \in BOOLEAN /\ closes \in 0..1
    /\ at \in {"start", "prompt", "send", "recv", "disconnect", "destroy", "ended"}
    /\ at = "start" => ~connected_
    /\ at \in {"start", "prompt", "send", "recv", "disconnect"} => closes = 0
    /\ at \in {"destroy", "ended"} => ~connected_

LEMMA SocketStep == SocketInv /\ [Next]_vars => SocketInv'
<1> SUFFICES ASSUME SocketInv, [Next]_vars PROVE SocketInv'
  OBVIOUS
<1> USE DEF SocketInv, socket
<1>1. CASE Connect  BY <1>1 DEF Connect
<1>2. CASE ConnectFails  BY <1>2 DEF ConnectFails
<1>3. CASE ReadCommand  BY <1>3 DEF ReadCommand
<1>4. CASE EndOfInput  BY <1>4 DEF EndOfInput
<1>5. CASE RepeatLast  BY <1>5 DEF RepeatLast
<1>6. CASE Quit  BY <1>6 DEF Quit
<1>7. CASE Send  BY <1>7 DEF Send
<1>8. CASE Recv  BY <1>8 DEF Recv
<1>9. CASE CallFails  BY <1>9 DEF CallFails
<1>10. CASE Disconnect
  <2>1. /\ connected_' = FALSE /\ at' \in {"destroy", "ended"}
        /\ at \in {"disconnect", "destroy"}
    BY <1>10 DEF Disconnect, disconnect
  <2>2. connected_ => closes' = closes + 1  BY <1>10 DEF Disconnect, disconnect
  <2>3. ~connected_ => closes' = closes  BY <1>10 DEF Disconnect, disconnect
  <2>4. connected_ => closes = 0  BY <2>1
  <2>5. closes' \in 0..1
    <3>1. CASE connected_  BY <3>1, <2>2, <2>4
    <3>2. CASE ~connected_  BY <3>2, <2>3
    <3> QED  BY <3>1, <3>2
  <2> QED  BY <2>1, <2>5
<1>11. CASE Handler \/ ServerGone
  <2>1. UNCHANGED <<at, socket>>
    BY <1>11 DEF Handler, ServerGone, ReadMessage, ProcessCommand, SendMessage, HandlerEnds
  <2> QED  BY <2>1
<1>12. CASE UNCHANGED vars  BY <1>12 DEF vars
<1> QED  BY <1>1, <1>2, <1>3, <1>4, <1>5, <1>6, <1>7, <1>8, <1>9, <1>10, <1>11, <1>12
         DEF Next, Client

LEMMA SocketIsInductive == Spec => []SocketInv
<1>1. Init => SocketInv
  <2> SUFFICES ASSUME Init PROVE SocketInv
    OBVIOUS
  <2>1. at = "start" /\ closes = 0 /\ connected_ = FALSE  BY DEF Init
  <2>2. closes \in 0..1  BY <2>1
  <2>3. connected_ \in BOOLEAN /\ ~connected_  BY <2>1
  <2> QED  BY <2>1, <2>2, <2>3 DEF SocketInv
<1> QED  BY <1>1, SocketStep, PTL DEF Spec
-----------------------------------------------------------------------------
(* The streams.                                                            *)

StreamTypes == /\ sent \in Nat /\ piece \in Nat /\ left \in Nat
               /\ up \in Seq(Nat) /\ down \in Seq(Nat)

\* n units, the oldest first, went over; what was taken belongs to command k.
Answering(m) ==
    /\ handler = "read" => \/ up = <<>> /\ m = AnswerSize
                           \/ up = Units(RequestSize, sent) /\ m = 0
    /\ handler = "process" => up = <<>> /\ m = 0 /\ piece = sent
    /\ handler = "send" => /\ up = <<>> /\ piece = sent
                           /\ left \in 1..AnswerSize /\ m = AnswerSize - left

(* As long as every call moved a whole message: while the client is in     *)
(* recv its one command is somewhere on the way; at the prompt nothing is. *)
WholeInv ==
    /\ at \in {"start", "prompt", "send"} =>
         /\ answered = sent /\ down = <<>>
         /\ handler \in {"read", "closed"}
         /\ handler = "read" => up = <<>>
    /\ at = "recv" => \E m \in 0..AnswerSize : down = Units(m, sent) /\ Answering(m)

StreamInv == /\ StreamTypes /\ AnswerComing
             /\ handler \in {"read", "process", "send", "closed"}
             /\ whole \in BOOLEAN /\ (whole = TRUE => WholeInv)

LEMMA SendStep == ASSUME StreamInv, Send PROVE StreamInv'
<1>1. PICK n \in 1..RequestSize : /\ up' = up \o Units(n, sent + 1)
                                  /\ whole' = (whole /\ n = RequestSize)
  BY DEF Send
<1>2. /\ at = "send" /\ at' = "recv" /\ sent' = sent + 1 /\ down' = down /\ answered' = answered
      /\ handler' = handler /\ piece' = piece /\ left' = left
  BY DEF Send, serving
<1>3. n \in Nat \ {0} /\ sent + 1 \in Nat /\ RequestSize \in Nat /\ AnswerSize \in Nat
  BY SessionAssumption DEF StreamInv, StreamTypes
<1>4. Units(n, sent + 1) \in Seq(Nat) /\ Units(n, sent + 1) # <<>>
  BY <1>3, UnitsFacts, SomeUnits
<1>5. up \in Seq(Nat)  BY DEF StreamInv, StreamTypes
<1>6. up' \in Seq(Nat) /\ up' # <<>>
  BY <1>1, <1>4, <1>5, ConcatProperties, ConcatEqualIffEmpty
<1>7. StreamTypes' /\ AnswerComing'
  BY <1>2, <1>3, <1>6 DEF StreamInv, StreamTypes, AnswerComing
<1>8. whole' \in BOOLEAN  BY <1>1 DEF StreamInv
<1>9. ASSUME whole' = TRUE PROVE WholeInv'
  <2>1. whole = TRUE /\ n = RequestSize  BY <1>1, <1>9 DEF StreamInv
  <2>2. /\ down = <<>> /\ handler \in {"read", "closed"}
        /\ handler = "read" => up = <<>>
    BY <2>1, <1>2 DEF StreamInv, WholeInv
  <2>3. handler = "read" => up' = Units(RequestSize, sent')
    BY <2>1, <2>2, <1>1, <1>2, <1>4, ConcatEmptySeq
  <2>4. down' = Units(0, sent')  BY <1>2, <1>3, <2>2, NoUnits
  <2>5. \A m : m = 0 => Answering(m)'  BY <1>2, <2>2, <2>3 DEF Answering
  <2>6. 0 \in 0..AnswerSize  BY <1>3
  <2> QED  BY <1>2, <2>4, <2>5, <2>6 DEF WholeInv
<1> QED  BY <1>2, <1>7, <1>8, <1>9 DEF StreamInv

LEMMA RecvStep == ASSUME StreamInv, Recv PROVE StreamInv'
<1>1. PICK n \in Sizes(down) : /\ down' = Rest(down, n)
                               /\ whole' = (whole /\ IsMessage(down, n, AnswerSize))
  BY DEF Recv
<1>2. /\ at = "recv" /\ at' = "prompt" /\ sent' = sent /\ answered' = Head(down) /\ up' = up
      /\ handler' = handler /\ piece' = piece /\ left' = left
  BY DEF Recv, serving
<1>3. /\ down \in Seq(Nat) /\ Len(down) \in Nat /\ sent \in Nat
      /\ n \in Nat \ {0} /\ n <= Len(down)
  BY SessionAssumption DEF StreamInv, StreamTypes, Sizes
<1>4. down' \in Seq(Nat)  BY <1>1, <1>3, ElementOfSeq, SubSeqProperties DEF Rest
<1>5. StreamTypes' /\ AnswerComing'
  BY <1>2, <1>4 DEF StreamInv, StreamTypes, AnswerComing
<1>6. whole' \in BOOLEAN
  <2>1. whole' = (whole /\ (n = AnswerSize /\ down[n] = down[1]))
    BY <1>1 DEF IsMessage
  <2> QED  BY <2>1 DEF StreamInv
<1>7. ASSUME whole' = TRUE PROVE WholeInv'
  <2>1. whole = TRUE /\ n = AnswerSize  BY <1>1, <1>7 DEF StreamInv, IsMessage
  <2>2. PICK m \in 0..AnswerSize : down = Units(m, sent) /\ Answering(m)
    BY <1>2, <2>1 DEF StreamInv, WholeInv
  <2>3. m \in Nat /\ Len(down) = m  BY <2>2, <1>3, SessionAssumption, UnitsFacts
  <2>4. m = AnswerSize /\ m \in Nat \ {0}  BY <1>3, <2>1, <2>2, <2>3, SessionAssumption
  <2>5. down' = <<>> /\ answered' = sent
    BY <1>1, <1>2, <1>3, <2>1, <2>2, <2>4, AllTaken, FirstUnit
  <2>6. handler \in {"read", "closed"} /\ (handler = "read" => up = <<>>)
    BY <2>2, <2>4 DEF Answering, StreamInv
  <2> QED  BY <1>2, <2>5, <2>6 DEF WholeInv
<1> QED  BY <1>2, <1>5, <1>6, <1>7 DEF StreamInv

LEMMA ReadStep == ASSUME StreamInv, ReadMessage PROVE StreamInv'
<1>1. PICK n \in Sizes(up) : /\ up' = Rest(up, n)
                             /\ whole' = (whole /\ IsMessage(up, n, RequestSize))
  BY DEF ReadMessage
<1>2. /\ handler = "read" /\ handler' = "process" /\ piece' = Head(up)
      /\ at' = at /\ sent' = sent /\ answered' = answered /\ down' = down /\ left' = left
  BY DEF ReadMessage
<1>3. /\ up \in Seq(Nat) /\ Len(up) \in Nat /\ sent \in Nat
      /\ n \in Nat \ {0} /\ n <= Len(up) /\ up # <<>>
  BY SessionAssumption, EmptySeq DEF StreamInv, StreamTypes, Sizes
<1>4. up' \in Seq(Nat) /\ piece' \in Nat
  BY <1>1, <1>2, <1>3, ElementOfSeq, SubSeqProperties, HeadTailProperties DEF Rest
<1>5. StreamTypes' /\ AnswerComing'
  BY <1>2, <1>4 DEF StreamInv, StreamTypes, AnswerComing
<1>6. whole' \in BOOLEAN
  <2>1. whole' = (whole /\ (n = RequestSize /\ up[n] = up[1]))
    BY <1>1 DEF IsMessage
  <2> QED  BY <2>1 DEF StreamInv
<1>7. ASSUME whole' = TRUE PROVE WholeInv'
  <2>1. whole = TRUE /\ n = RequestSize  BY <1>1, <1>7 DEF StreamInv, IsMessage
  <2>2. at \notin {"start", "prompt", "send"}  BY <2>1, <1>2, <1>3 DEF StreamInv, WholeInv
  <2>3. ASSUME at = "recv" PROVE \E m \in 0..AnswerSize : down' = Units(m, sent') /\ Answering(m)'
    <3>1. PICK m \in 0..AnswerSize : down = Units(m, sent) /\ Answering(m)
      BY <2>1, <2>3 DEF StreamInv, WholeInv
    <3>2. m = 0 /\ up = Units(RequestSize, sent)  BY <3>1, <1>2, <1>3 DEF Answering
    <3>3. up' = <<>> /\ piece' = sent
      BY <1>1, <1>2, <1>3, <2>1, <3>2, AllTaken, FirstUnit, SessionAssumption
    <3>4. Answering(m)'  BY <3>2, <3>3, <1>2 DEF Answering
    <3> QED  BY <3>1, <3>4, <1>2
  <2> QED  BY <1>2, <2>2, <2>3 DEF WholeInv
<1> QED  BY <1>2, <1>5, <1>6, <1>7 DEF StreamInv

LEMMA ProcessStep == ASSUME StreamInv, ProcessCommand PROVE StreamInv'
<1>1. /\ handler = "process" /\ handler' = "send" /\ left' = AnswerSize /\ at' = at
      /\ sent' = sent /\ answered' = answered /\ up' = up /\ down' = down /\ piece' = piece
      /\ whole' = whole
  BY DEF ProcessCommand
<1>2. AnswerSize \in Nat \ {0}  BY SessionAssumption
<1>3. StreamTypes' /\ AnswerComing'
  BY <1>1, <1>2 DEF StreamInv, StreamTypes, AnswerComing
<1>4. ASSUME NEW m \in 0..AnswerSize, Answering(m) PROVE Answering(m)'
  BY <1>1, <1>2, <1>4 DEF Answering
<1>5. ASSUME whole = TRUE PROVE WholeInv'
  <2>1. WholeInv  BY <1>5 DEF StreamInv
  <2> QED  BY <2>1, <1>1, <1>4 DEF WholeInv
<1> QED  BY <1>1, <1>3, <1>5 DEF StreamInv

LEMMA AnswerStep == ASSUME StreamInv, SendMessage PROVE StreamInv'
<1>1. PICK n \in 1..left : down' = down \o Units(n, piece) /\ left' = left - n
  BY DEF SendMessage
<1>2. /\ handler = "send" /\ handler' = IF left' = 0 THEN "read" ELSE "send"
      /\ at' = at /\ sent' = sent /\ answered' = answered /\ up' = up /\ piece' = piece
      /\ whole' = whole
  BY DEF SendMessage
<1>3. /\ left \in Nat /\ n \in Nat \ {0} /\ n <= left /\ piece \in Nat /\ sent \in Nat
      /\ down \in Seq(Nat) /\ AnswerSize \in Nat
  BY SessionAssumption DEF StreamInv, StreamTypes
<1>4. Units(n, piece) \in Seq(Nat) /\ Units(n, piece) # <<>>
  BY <1>3, UnitsFacts, SomeUnits
<1>5. down' \in Seq(Nat) /\ down' # <<>> /\ left' \in Nat
  BY <1>1, <1>3, <1>4, ConcatProperties, ConcatEqualIffEmpty
<1>6. StreamTypes' /\ AnswerComing'
  BY <1>2, <1>5 DEF StreamInv, StreamTypes, AnswerComing
<1>7. ASSUME whole = TRUE PROVE WholeInv'
  <2>1. WholeInv  BY <1>7 DEF StreamInv
  <2>2. at \notin {"start", "prompt", "send"}  BY <2>1, <1>2 DEF WholeInv
  <2>3. ASSUME at = "recv" PROVE \E m \in 0..AnswerSize : down' = Units(m, sent') /\ Answering(m)'
    <3>1. PICK m \in 0..AnswerSize : down = Units(m, sent) /\ Answering(m)
      BY <2>1, <2>3 DEF WholeInv
    <3>2. /\ up = <<>> /\ piece = sent /\ left \in 1..AnswerSize /\ m = AnswerSize - left
      BY <3>1, <1>2 DEF Answering
    <3>3. m \in Nat /\ m + n \in 0..AnswerSize /\ m + n = AnswerSize - left'
      BY <3>2, <1>1, <1>3
    <3>4. down' = Units(m + n, sent)  BY <3>1, <3>2, <3>3, <1>1, <1>3, MoreUnits
    <3>5. \A k : k = m + n => Answering(k)'
      BY <3>2, <3>3, <1>1, <1>2, <1>3, <1>5 DEF Answering
    <3>6. PICK k \in 0..AnswerSize : k = m + n  BY <3>3
    <3>7. down' = Units(k, sent') /\ Answering(k)'  BY <3>4, <3>5, <3>6, <1>2
    <3> QED  BY <3>7
  <2> QED  BY <1>2, <2>2, <2>3 DEF WholeInv
<1>8. handler' \in {"read", "process", "send", "closed"}  BY <1>2
<1> QED  BY <1>2, <1>6, <1>7, <1>8 DEF StreamInv

\* The steps that leave the streams and the handler alone, or end the handler.
LEMMA OtherSteps ==
  ASSUME StreamInv, UNCHANGED <<sent, answered, up, down, piece, left, whole>>,
         handler' = handler \/ handler' = "closed",
         at' = at \/ at' \notin {"recv", "start", "prompt", "send"}
           \/ {at, at'} \subseteq {"start", "prompt", "send"}
  PROVE  StreamInv'
<1>1. StreamTypes' /\ AnswerComing'
  BY DEF StreamInv, StreamTypes, AnswerComing
<1>2. ASSUME NEW m, Answering(m) PROVE Answering(m)'
  BY <1>2 DEF Answering
<1>3. ASSUME whole = TRUE PROVE WholeInv'
  <2>1. WholeInv  BY <1>3 DEF StreamInv
  <2> QED  BY <2>1, <1>2 DEF WholeInv
<1> QED  BY <1>1, <1>3 DEF StreamInv

LEMMA StreamStep == StreamInv /\ [Next]_vars => StreamInv'
<1> SUFFICES ASSUME StreamInv, [Next]_vars PROVE StreamInv'
  OBVIOUS
<1> USE OtherSteps DEF prompt, serving
<1>1. CASE Connect  BY <1>1 DEF Connect
<1>2. CASE ConnectFails  BY <1>2 DEF ConnectFails
<1>3. CASE ReadCommand  BY <1>3 DEF ReadCommand
<1>4. CASE EndOfInput  BY <1>4 DEF EndOfInput
<1>5. CASE RepeatLast  BY <1>5 DEF RepeatLast
<1>6. CASE Quit  BY <1>6 DEF Quit
<1>7. CASE CallFails  BY <1>7 DEF CallFails
<1>8. CASE Disconnect  BY <1>8 DEF Disconnect
<1>9. CASE HandlerEnds  BY <1>9 DEF HandlerEnds
<1>10. CASE ServerGone  BY <1>10 DEF ServerGone
<1>11. CASE UNCHANGED vars  BY <1>11 DEF vars
<1> QED  BY <1>1, <1>2, <1>3, <1>4, <1>5, <1>6, <1>7, <1>8, <1>9, <1>10, <1>11,
            SendStep, RecvStep, ReadStep, ProcessStep, AnswerStep
         DEF Next, Client, Handler

LEMMA StreamInductive == Spec => []StreamInv
<1>1. Init => StreamInv
  BY EmptySeq DEF Init, StreamInv, StreamTypes, AnswerComing, WholeInv
<1> QED  BY <1>1, StreamStep, PTL DEF Spec

(* Client and handler never both wait, however the messages are cut.       *)
THEOREM NeverBothWait == Spec => []AnswerComing
<1>1. StreamInv => AnswerComing  BY DEF StreamInv
<1> QED  BY <1>1, StreamInductive, PTL

(* Uncut messages: every command gets its own answer.                      *)
THEOREM OwnAnswers == Spec => []AnswersPaired
<1>1. StreamInv => AnswersPaired  BY DEF StreamInv, WholeInv, AnswersPaired
<1> QED  BY <1>1, StreamInductive, PTL
-----------------------------------------------------------------------------
(* The types.  Every unit on a stream belongs to a command that was sent,  *)
(* so a handler at work has read a piece of one.                           *)
UnitInv == /\ sent \in 0..MaxCommands /\ (at = "send" => sent < MaxCommands)
           /\ answered \in 0..sent
           /\ up \in Seq(1..sent) /\ down \in Seq(1..sent)
           /\ piece \in 0..sent /\ (handler \in {"process", "send"} => piece \in 1..sent)
           /\ left \in 0..AnswerSize

PromptTyped == input \in {"none", "command"} /\ stdin \in {"open", "ended"}

(* What one recv leaves of a stream, and what one send adds to it.         *)
LEMMA RestTyped ==
  ASSUME NEW S, NEW s \in Seq(S), NEW n \in Sizes(s)
  PROVE  Rest(s, n) \in Seq(S) /\ Head(s) \in S
<1>1. n \in Nat \ {0} /\ n <= Len(s) /\ Len(s) \in Nat
  BY SessionAssumption DEF Sizes
<1>2. s # <<>>  BY <1>1, EmptySeq
<1>3. \A i \in n + 1 .. Len(s) : s[i] \in S  BY <1>1, ElementOfSeq
<1>4. Rest(s, n) \in Seq(S)  BY <1>1, <1>3, SubSeqProperties DEF Rest
<1> QED  BY <1>2, <1>4, HeadTailProperties

LEMMA UnitsTyped ==
  ASSUME NEW S, NEW s \in Seq(S), NEW n \in Nat, NEW k \in S
  PROVE  s \o Units(n, k) \in Seq(S)
<1>1. Units(n, k) \in Seq(S)  BY DEF Units
<1> QED  BY <1>1, ConcatProperties

LEMMA UnitStep == UnitInv /\ [Next]_vars => UnitInv'
<1> SUFFICES ASSUME UnitInv, [Next]_vars PROVE UnitInv'
  OBVIOUS
<1> USE DEF UnitInv
<1>1. CASE Send
  <2>1. PICK n \in 1..RequestSize : up' = up \o Units(n, sent + 1)
    BY <1>1 DEF Send
  <2>2. /\ at = "send" /\ at' = "recv" /\ sent' = sent + 1
        /\ UNCHANGED <<answered, down, handler, piece, left>>
    BY <1>1 DEF Send, serving
  <2>3. /\ n \in Nat /\ sent \in Nat /\ sent' \in 0..MaxCommands /\ sent' \in 1..sent'
        /\ 0..sent \subseteq 0..sent' /\ 1..sent \subseteq 1..sent'
    BY <2>2, SessionAssumption
  <2>4. up \in Seq(1..sent') /\ down \in Seq(1..sent')  BY <2>3, SeqMonotonic
  <2>5. up' \in Seq(1..sent')  BY <2>1, <2>2, <2>3, <2>4, UnitsTyped
  <2> QED  BY <2>2, <2>3, <2>4, <2>5
<1>2. CASE Recv
  <2>1. PICK n \in Sizes(down) : down' = Rest(down, n)
    BY <1>2 DEF Recv
  <2>2. at' = "prompt" /\ answered' = Head(down) /\ UNCHANGED <<sent, up, handler, piece, left>>
    BY <1>2 DEF Recv, serving
  <2>3. down' \in Seq(1..sent) /\ answered' \in 1..sent  BY <2>1, <2>2, RestTyped
  <2>4. 1..sent \subseteq 0..sent  OBVIOUS
  <2> QED  BY <2>2, <2>3, <2>4
<1>3. CASE ReadMessage
  <2>1. PICK n \in Sizes(up) : up' = Rest(up, n)
    BY <1>3 DEF ReadMessage
  <2>2. /\ piece' = Head(up) /\ handler' = "process"
        /\ UNCHANGED <<at, sent, answered, down, left>>
    BY <1>3 DEF ReadMessage
  <2>3. up' \in Seq(1..sent) /\ piece' \in 1..sent  BY <2>1, <2>2, RestTyped
  <2>4. 1..sent \subseteq 0..sent  OBVIOUS
  <2> QED  BY <2>2, <2>3, <2>4
<1>4. CASE ProcessCommand
  <2>1. /\ handler = "process" /\ left' = AnswerSize /\ UNCHANGED <<at, sent, answered, up, down, piece>>
    BY <1>4 DEF ProcessCommand
  <2> QED  BY <2>1, SessionAssumption
<1>5. CASE SendMessage
  <2>1. PICK n \in 1..left : down' = down \o Units(n, piece) /\ left' = left - n
    BY <1>5 DEF SendMessage
  <2>2. /\ handler = "send" /\ UNCHANGED <<at, sent, answered, up, piece>>
    BY <1>5 DEF SendMessage
  <2>3. n \in Nat /\ piece \in 1..sent /\ left' \in 0..AnswerSize
    BY <2>1, <2>2, SessionAssumption
  <2>4. down' \in Seq(1..sent)  BY <2>1, <2>3, UnitsTyped
  <2> QED  BY <2>2, <2>3, <2>4
<1>6. CASE ReadCommand \/ RepeatLast
  <2>1. sent < MaxCommands /\ UNCHANGED <<sent, answered, up, down, handler, piece, left>>
    BY <1>6 DEF ReadCommand, RepeatLast, serving
  <2> QED  BY <2>1
<1>7. CASE Connect \/ ConnectFails \/ EndOfInput \/ Quit \/ CallFails \/ Disconnect
  <2>1. /\ UNCHANGED <<sent, answered, up, down, handler, piece, left>>
        /\ at' = "send" => at = "send"
    BY <1>7 DEF Connect, ConnectFails, EndOfInput, Quit, CallFails, Disconnect, serving
  <2> QED  BY <2>1
<1>8. CASE HandlerEnds \/ ServerGone
  <2>1. handler' = "closed" /\ UNCHANGED <<at, sent, answered, up, down, piece, left>>
    BY <1>8 DEF HandlerEnds, ServerGone
  <2> QED  BY <2>1
<1>9. CASE UNCHANGED vars  BY <1>9 DEF vars, serving
<1> QED  BY <1>1, <1>2, <1>3, <1>4, <1>5, <1>6, <1>7, <1>8, <1>9 DEF Next, Client, Handler

LEMMA PromptStep == PromptTyped /\ [Next]_vars => PromptTyped'
  BY DEF PromptTyped, Next, Client, Handler, Connect, ConnectFails, ReadCommand, EndOfInput,
         RepeatLast, Quit, Send, Recv, CallFails, Disconnect, ReadMessage, ProcessCommand,
         SendMessage, HandlerEnds, ServerGone, vars, prompt

LEMMA AlwaysUnits == Spec => [](UnitInv /\ PromptTyped)
<1>1. Init => UnitInv /\ PromptTyped
  <2> SUFFICES ASSUME Init PROVE UnitInv /\ PromptTyped
    OBVIOUS
  <2>1. /\ at = "start" /\ sent = 0 /\ answered = 0 /\ up = <<>> /\ down = <<>>
        /\ handler = "read" /\ piece = 0 /\ left = 0 /\ input = "none" /\ stdin = "open"
    BY DEF Init
  <2>2. 0 \in 0..MaxCommands /\ 0 \in 0..AnswerSize /\ 0 \in 0..0  BY SessionAssumption
  <2>3. <<>> \in Seq(1..0)  BY EmptySeq
  <2> QED  BY <2>1, <2>2, <2>3 DEF UnitInv, PromptTyped
<1> QED  BY <1>1, UnitStep, PromptStep, PTL DEF Spec

(* The types of the session, for messages, buffers and numbers of commands *)
(* of every size.                                                          *)
THEOREM SessionTypes == Spec => []TypeOK
<1>1. SocketInv /\ StreamInv /\ UnitInv /\ PromptTyped => TypeOK
  BY Zenon DEF SocketInv, StreamInv, UnitInv, PromptTyped, TypeOK
<1> QED  BY <1>1, SocketIsInductive, StreamInductive, AlwaysUnits, PTL
-----------------------------------------------------------------------------
(* The order.  Nothing on the way to the client is older than what it has  *)
(* read or newer than what the handler has, and nothing on the way to the  *)
(* handler is older than what that has.                                    *)
Ordered(lo, s, hi) == /\ \A i \in DOMAIN s : lo <= s[i] /\ s[i] <= hi
                      /\ \A i, j \in DOMAIN s : i <= j => s[i] <= s[j]
OrderInv == /\ Ordered(answered, down, piece) /\ answered <= piece
            /\ Ordered(piece, up, sent)

(* What one recv leaves begins no earlier than what it took.               *)
LEMMA OrderedRest ==
  ASSUME NEW lo \in Nat, NEW hi \in Nat, NEW s \in Seq(Nat), NEW n \in Sizes(s),
         Ordered(lo, s, hi)
  PROVE  /\ Ordered(Head(s), Rest(s, n), hi)
         /\ Head(s) \in Nat /\ lo <= Head(s) /\ Head(s) <= hi
<1>1. n \in Nat \ {0} /\ n <= Len(s) /\ Len(s) \in Nat /\ DOMAIN s = 1..Len(s)
  BY SessionAssumption DEF Sizes
<1>2. s # <<>> /\ Head(s) = s[1] /\ 1 \in DOMAIN s /\ s[1] \in Nat
  BY <1>1, EmptySeq, HeadTailProperties, ElementOfSeq
<1>3. /\ DOMAIN Rest(s, n) = 1 .. Len(s) - n
      /\ \A i \in 1 .. Len(s) - n : Rest(s, n)[i] = s[i + n]
  <2>1. /\ n + 1 \in Int /\ Len(s) \in Int
        /\ \A i \in n + 1 .. Len(s) : s[i] \in Nat
    BY <1>1, ElementOfSeq
  <2>2. /\ Rest(s, n) \in Seq(Nat)
        /\ Len(Rest(s, n)) = IF n + 1 <= Len(s) THEN Len(s) - (n + 1) + 1 ELSE 0
        /\ \A i \in 1 .. Len(s) - (n + 1) + 1 : Rest(s, n)[i] = s[n + 1 + i - 1]
    BY <2>1, SubSeqProperties DEF Rest
  <2>3. /\ Len(s) - (n + 1) + 1 = Len(s) - n
        /\ Len(Rest(s, n)) = Len(s) - n
        /\ \A i \in 1 .. Len(s) - n : n + 1 + i - 1 = i + n
    <3> DEFINE l == Len(Rest(s, n))  m == Len(s)
    <3>1. /\ l = IF n + 1 <= m THEN m - (n + 1) + 1 ELSE 0
          /\ n \in Nat /\ m \in Nat /\ n <= m
      BY <1>1, <2>2
    <3> HIDE DEF l, m
    <3>2. l = m - n
      <4>1. CASE n + 1 <= m  BY <3>1, <4>1
      <4>2. CASE ~(n + 1 <= m)
        <5>1. l = 0 /\ n = m  BY <3>1, <4>2
        <5> QED  BY <3>1, <5>1
      <4> QED  BY <4>1, <4>2
    <3>3. Len(Rest(s, n)) = Len(s) - n  BY <3>2 DEF l, m
    <3>4. /\ Len(s) - (n + 1) + 1 = Len(s) - n
          /\ \A i \in 1 .. Len(s) - n : n + 1 + i - 1 = i + n
      BY <1>1
    <3> QED  BY <3>3, <3>4
  <2>4. DOMAIN Rest(s, n) = 1..Len(Rest(s, n))  BY <2>2
  <2> QED  BY <2>2, <2>3, <2>4
<1>4. \A i \in 1 .. Len(s) - n : i + n \in DOMAIN s /\ 1 <= i + n  BY <1>1
<1>5. \A i \in DOMAIN Rest(s, n) : Head(s) <= Rest(s, n)[i] /\ Rest(s, n)[i] <= hi
  BY <1>2, <1>3, <1>4 DEF Ordered
<1>6. ASSUME NEW i \in DOMAIN Rest(s, n), NEW j \in DOMAIN Rest(s, n), i <= j
      PROVE  Rest(s, n)[i] <= Rest(s, n)[j]
  <2>1. i + n \in DOMAIN s /\ j + n \in DOMAIN s /\ i + n <= j + n  BY <1>1, <1>3, <1>4, <1>6
  <2> QED  BY <1>3, <2>1 DEF Ordered
<1> QED  BY <1>2, <1>5, <1>6 DEF Ordered

(* A send adds units of the newest command.                                *)
LEMMA OrderedMore ==
  ASSUME NEW lo \in Nat, NEW hi \in Nat, NEW s \in Seq(Nat), NEW n \in Nat, NEW k \in Nat,
         Ordered(lo, s, hi), lo <= k, hi <= k
  PROVE  Ordered(lo, s \o Units(n, k), k)
<1> DEFINE t == s \o Units(n, k)
<1>1. /\ Units(n, k) \in Seq(Nat) /\ Len(Units(n, k)) = n
      /\ \A i \in 1..n : Units(n, k)[i] = k
  BY UnitsFacts
<1>2. /\ Len(s) \in Nat /\ DOMAIN s = 1..Len(s) /\ DOMAIN t = 1 .. Len(s) + n
      /\ \A i \in 1..Len(s) : s[i] \in Nat /\ t[i] = s[i]
  <2>1. /\ Len(s) \in Nat /\ DOMAIN s = 1..Len(s) /\ \A i \in 1..Len(s) : s[i] \in Nat
    BY ElementOfSeq
  <2>2. t \in Seq(Nat) /\ Len(t) = Len(s) + n  BY <1>1, ConcatProperties
  <2>3. DOMAIN t = 1 .. Len(s) + n
    <3> HIDE DEF t
    <3> QED  BY <2>2
  <2>4. ASSUME NEW i \in 1..Len(s) PROVE t[i] = s[i]
    <3>1. i \in 1 .. Len(s) + Len(Units(n, k)) /\ i <= Len(s)  BY <1>1, <2>1
    <3> QED  BY <1>1, <3>1, ConcatProperties
  <2> QED  BY <2>1, <2>3, <2>4
<1>3. ASSUME NEW i \in DOMAIN t, i > Len(s) PROVE t[i] = k
  <2>1. i - Len(s) \in 1..n /\ t[i] = Units(n, k)[i - Len(s)]
    BY <1>1, <1>2, <1>3, ConcatProperties
  <2> QED  BY <1>1, <2>1
<1> HIDE DEF t
<1>4. \A i \in DOMAIN t : lo <= t[i] /\ t[i] <= k
  <2> SUFFICES ASSUME NEW i \in DOMAIN t PROVE lo <= t[i] /\ t[i] <= k
    OBVIOUS
  <2>1. CASE i > Len(s)  BY <1>3, <2>1
  <2>2. CASE i <= Len(s)
    <3>1. i \in DOMAIN s /\ t[i] = s[i] /\ s[i] \in Nat  BY <1>2, <2>2
    <3>2. lo <= s[i] /\ s[i] <= hi  BY <3>1 DEF Ordered
    <3> QED  BY <3>1, <3>2
  <2> QED  BY <1>2, <2>1, <2>2
<1>5. ASSUME NEW i \in DOMAIN t, NEW j \in DOMAIN t, i <= j PROVE t[i] <= t[j]
  <2>1. CASE j > Len(s)
    <3>1. t[j] = k /\ t[i] <= k  BY <1>3, <1>4, <2>1
    <3> QED  BY <3>1
  <2>2. CASE j <= Len(s)
    <3>1. i \in DOMAIN s /\ j \in DOMAIN s  BY <1>2, <1>5, <2>2
    <3>2. s[i] <= s[j]  BY <3>1, <1>5 DEF Ordered
    <3> QED  BY <3>1, <3>2, <1>2
  <2> QED  BY <1>2, <2>1, <2>2
<1>6. Ordered(lo, t, k)  BY <1>4, <1>5 DEF Ordered
<1> QED  BY <1>6 DEF t

LEMMA OrderStep ==
  ASSUME UnitInv, StreamTypes, OrderInv, [Next]_vars PROVE OrderInv' /\ answered' >= answered
<1>1. /\ sent \in Nat /\ answered \in Nat /\ piece \in Nat /\ piece <= sent
      /\ up \in Seq(Nat) /\ down \in Seq(Nat) /\ answered <= piece
      /\ Ordered(answered, down, piece) /\ Ordered(piece, up, sent)
  BY SessionAssumption DEF UnitInv, StreamTypes, OrderInv
<1>2. CASE Send
  <2>1. PICK n \in 1..RequestSize : up' = up \o Units(n, sent + 1)
    BY <1>2 DEF Send
  <2>2. sent' = sent + 1 /\ UNCHANGED <<answered, down, piece>>  BY <1>2 DEF Send, serving
  <2>3. n \in Nat /\ sent + 1 \in Nat /\ piece <= sent + 1 /\ sent <= sent + 1
    BY <1>1, SessionAssumption
  <2>4. Ordered(piece, up', sent')  BY <1>1, <2>1, <2>2, <2>3, OrderedMore
  <2> QED  BY <1>1, <2>2, <2>4 DEF OrderInv
<1>3. CASE Recv
  <2>1. PICK n \in Sizes(down) : down' = Rest(down, n)
    BY <1>3 DEF Recv
  <2>2. answered' = Head(down) /\ UNCHANGED <<sent, up, piece>>  BY <1>3 DEF Recv, serving
  <2>3. Ordered(answered', down', piece) /\ answered <= answered' /\ answered' <= piece
        /\ answered' \in Nat
    BY <1>1, <2>1, <2>2, OrderedRest
  <2> QED  BY <1>1, <2>2, <2>3 DEF OrderInv
<1>4. CASE ReadMessage
  <2>1. PICK n \in Sizes(up) : up' = Rest(up, n)
    BY <1>4 DEF ReadMessage
  <2>2. piece' = Head(up) /\ UNCHANGED <<sent, answered, down>>  BY <1>4 DEF ReadMessage
  <2>3. Ordered(piece', up', sent) /\ piece <= piece' /\ piece' \in Nat
    BY <1>1, <2>1, <2>2, OrderedRest
  <2>4. \A i \in DOMAIN down : down[i] \in Nat  BY <1>1, ElementOfSeq
  <2>5. Ordered(answered, down, piece')
    BY <1>1, <2>3, <2>4 DEF Ordered
  <2> QED  BY <1>1, <2>2, <2>3, <2>5 DEF OrderInv
<1>5. CASE SendMessage
  <2>1. PICK n \in 1..left : down' = down \o Units(n, piece)
    BY <1>5 DEF SendMessage
  <2>2. UNCHANGED <<sent, answered, up, piece>>  BY <1>5 DEF SendMessage
  <2>3. n \in Nat  BY DEF UnitInv
  <2>4. Ordered(answered, down', piece)  BY <1>1, <2>1, <2>3, OrderedMore
  <2> QED  BY <1>1, <2>2, <2>4 DEF OrderInv
<1>6. CASE ~ (Send \/ Recv \/ ReadMessage \/ SendMessage)
  <2>1. UNCHANGED <<sent, answered, up, down, piece>>
    BY <1>6 DEF Next, Client, Handler, Connect, ConnectFails, ReadCommand, EndOfInput, RepeatLast,
                Quit, CallFails, Disconnect, ProcessCommand, HandlerEnds, ServerGone, vars, serving
  <2> QED  BY <1>1, <2>1 DEF OrderInv
<1> QED  BY <1>2, <1>3, <1>4, <1>5, <1>6

(* However the messages are cut, a command never prints the answer to an   *)
(* earlier command than the one before it printed.                         *)
THEOREM AnswersNeverGoBack == Spec => AnswersInOrder
<1>1. Init => OrderInv
  <2> SUFFICES ASSUME Init PROVE OrderInv
    OBVIOUS
  <2>1. up = <<>> /\ down = <<>> /\ answered = 0 /\ piece = 0  BY DEF Init
  <2> QED  BY <2>1 DEF OrderInv, Ordered
<1>2. UnitInv /\ StreamInv /\ OrderInv /\ [Next]_vars
        => OrderInv' /\ [answered' >= answered]_vars
  BY OrderStep DEF StreamInv
<1> QED  BY <1>1, <1>2, AlwaysUnits, StreamInductive, PTL DEF Spec, AnswersInOrder
=============================================================================
