-------------------------- MODULE ConversationProofs --------------------------
(***************************************************************************)
(* The theorem about Conversation: whatever a provider may say, and however *)
(* the connection cuts it up.                                               *)
(***************************************************************************)
EXTENDS Conversation, ListLemmas

-----------------------------------------------------------------------------
(* Lines and frames                                                        *)

DataLine(text) == SseLine("data", TRUE, text)
ErrorEvent == SseLine("event", FALSE, "error")
ErrorLine == SseLine("data", TRUE, "what happened")
DoneLine == SseLine("data", FALSE, "[DONE]")

\* How the response ends, as far as it is known.
Ends == {"open", "broken", "ends", "raises"}
End == IF closed = "ended" THEN outcome ELSE closed

(* The lines are the frames of the pieces in rest, then those of the end of *)
(* the response; a response that broke may stop anywhere in the former.     *)
Framed(lines, rest, end) ==
    LET d == Len(rest)
    IN  /\ \A j \in 1 .. d : /\ 2 * j - 1 <= Len(lines) => lines[2 * j - 1] = DataLine(rest[j])
                             /\ 2 * j <= Len(lines) => lines[2 * j] = Blank
        /\ end = "open" => Len(lines) = 2 * d
        /\ end = "broken" => Len(lines) <= 2 * d
        /\ end = "ends" => /\ Len(lines) = 2 * d + 2
                           /\ lines[2 * d + 1] = DoneLine /\ lines[2 * d + 2] = Blank
        /\ end = "raises" => /\ Len(lines) = 2 * d + 5
                             /\ lines[2 * d + 1] = ErrorEvent /\ lines[2 * d + 2] = ErrorLine
                             /\ lines[2 * d + 3] = Blank
                             /\ lines[2 * d + 4] = DoneLine /\ lines[2 * d + 5] = Blank

-----------------------------------------------------------------------------
(* The inductive invariant                                                 *)

NoBlank(lines) == \A i \in DOMAIN lines : lines[i] # Blank

Messages == [role : {"user", "assistant"}, content : Seq(Texts)]

ConvTyped ==
    /\ messages \in Seq(Messages)
    /\ streaming \in BOOLEAN /\ error \in BOOLEAN
    /\ buffer \in Seq(SseLines) /\ wire \in Seq(SseLines)
    /\ closed \in {"open", "ended", "broken"} /\ outcome \in {"ends", "raises"}
    /\ pieces \in Seq(Texts) /\ said \in Seq(Texts)
    /\ closed = "ended" => pieces = <<>>

(* The lines that were not handled yet tell the rest of what was said: the *)
(* answer in the chat, continued by them, is what the provider said.        *)
Answering ==
    streaming =>
        /\ Len(messages) >= 2 /\ messages[Len(messages)].role = "assistant"
        /\ messages[Len(messages) - 1].role = "user"
        /\ ~error
        /\ \E rest \in Seq(Texts) : /\ said = messages[Len(messages)].content \o rest
                                     /\ Framed(buffer \o wire, rest, End)
        /\ NoBlank(buffer)

(* Once an answer is settled, nothing more comes and the chat is right. *)
ConvInv == ConvTyped /\ Answering /\ (~streaming => closed # "open" /\ ChatSound)

-----------------------------------------------------------------------------
(* One line                                                                *)

(* The lines of the protocol; none of a frame's is blank but its last. *)
LEMMA LineTypes ==
    /\ Blank \in SseLines /\ ErrorEvent \in SseLines /\ ErrorLine \in SseLines /\ DoneLine \in SseLines
    /\ \A text \in Texts : DataLine(text) \in SseLines /\ DataLine(text) # Blank
    /\ ErrorEvent # Blank /\ ErrorLine # Blank /\ DoneLine # Blank
<1>1. "error" \in Texts /\ "what happened" \in Texts /\ "[DONE]" \in Texts /\ "" \in Texts
  BY DEF Texts
<1> QED
  BY <1>1 DEF Blank, ErrorEvent, ErrorLine, DoneLine, DataLine, SseLine, SseLines, Empty

(* HandleLines is HandleLine, and its values are parsers. *)
LEMMA HandleType ==
    /\ HandleLines \in [Parsers \X SseLines -> Parsers]
    /\ \A x \in Parsers, line \in SseLines : HandleLines[<<x, line>>] = HandleLine(x, line)
    /\ NoLineYet \in Parsers
<1>1. ASSUME NEW x \in Parsers, NEW line \in SseLines
      PROVE  HandleLine(x, line) \in Parsers
  <2>1. /\ x = [at |-> x.at, event |-> x.event, data |-> x.data, content |-> x.content]
        /\ x.at \in {"going on", "returned", "thrown"} /\ x.event \in Texts
        /\ x.data \in Seq(SseLines) /\ x.content \in Seq(Texts)
    BY DEF Parsers
  <2>2. line.text \in Texts /\ <<line>> \in Seq(SseLines)
    <3>1. line.text \in Texts
      BY DEF SseLines
    <3>2. <<line>> \in Seq(SseLines)
      OBVIOUS
    <3> QED
      BY <3>1, <3>2
  <2>3. \A event \in Texts, data \in Seq(SseLines) : InFrame(event, data, x.content) \in Parsers
    BY <2>1 DEF InFrame, Parsers
  <2>4. InFrame(line.text, x.data, x.content) \in Parsers /\ InFrame(x.event, <<line>>, x.content) \in Parsers
    BY <2>1, <2>2, <2>3
  <2>5. "message" \in Texts /\ <<>> \in Seq(SseLines)
    BY DEF Texts
  <2>6. \A at \in {"going on", "returned", "thrown"}, content \in Seq(Texts) : AfterFrame(at, content) \in Parsers
    BY <2>5 DEF AfterFrame, Parsers
  <2>7. x.data # <<>> => Append(x.content, Head(x.data).text) \in Seq(Texts)
    <3> SUFFICES ASSUME x.data # <<>> PROVE Append(x.content, Head(x.data).text) \in Seq(Texts)
      OBVIOUS
    <3>1. PICK data \in Seq(SseLines) : data = x.data
      BY <2>1
    <3>2. Head(data) \in SseLines
      BY <3>1
    <3>3. PICK content \in Seq(Texts) : content = x.content
      BY <2>1
    <3>4. PICK text \in Texts : text = Head(data).text
      BY <3>2 DEF SseLines
    <3> QED
      BY <3>1, <3>3, <3>4
  <2> QED
    BY <2>1, <2>4, <2>6, <2>7 DEF HandleLine
<1>2. NoLineYet \in Parsers
  <2>1. "message" \in Texts
    BY DEF Texts
  <2> QED
    BY <2>1 DEF NoLineYet, AfterFrame, Parsers
<1>3. \A x \in Parsers, line \in SseLines : HandleLines[<<x, line>>] = HandleLine(x, line)
  <2> SUFFICES ASSUME NEW x \in Parsers, NEW line \in SseLines PROVE HandleLines[<<x, line>>] = HandleLine(x, line)
    OBVIOUS
  <2>1. <<x, line>> \in Parsers \X SseLines /\ <<x, line>>[1] = x /\ <<x, line>>[2] = line
    OBVIOUS
  <2> QED
    BY <2>1 DEF HandleLines
<1>4. HandleLines \in [Parsers \X SseLines -> Parsers]
  <2>1. \A pair \in Parsers \X SseLines : HandleLine(pair[1], pair[2]) \in Parsers
    BY <1>1
  <2> QED
    BY <2>1 DEF HandleLines
<1> QED
  BY <1>2, <1>3, <1>4

(* The fields of a parser that is in a frame. *)
LEMMA FrameFields ==
    ASSUME NEW e, NEW d, NEW c
    PROVE  /\ InFrame(e, d, c).at = "going on" /\ InFrame(e, d, c).event = e
           /\ InFrame(e, d, c).data = d /\ InFrame(e, d, c).content = c
BY DEF InFrame

(* The fields of a parser that is between frames. *)
LEMMA FrameEnds ==
    ASSUME NEW at, NEW c
    PROVE  /\ AfterFrame(at, c).at = at /\ AfterFrame(at, c).content = c
           /\ AfterFrame("going on", c) = InFrame("message", <<>>, c)
BY DEF InFrame, AfterFrame

(* What a line does to a parser that goes on, case by case. *)
LEMMA HandleCases ==
    ASSUME NEW x, NEW line, x.at = "going on"
    PROVE  /\ line.field = "event" => HandleLine(x, line) = InFrame(line.text, x.data, x.content)
           /\ line.field = "data" => HandleLine(x, line) = InFrame(x.event, <<line>>, x.content)
           /\ line.field \notin {"event", "data"} /\ x.data # <<>> =>
                /\ ~Head(x.data).json /\ Head(x.data).text = "[DONE]" => HandleLine(x, line) = AfterFrame("returned", x.content)
                /\ Head(x.data).json /\ x.event = "error" => HandleLine(x, line) = AfterFrame("thrown", x.content)
                /\ Head(x.data).json /\ x.event = "message" =>
                     HandleLine(x, line) = AfterFrame("going on", Append(x.content, Head(x.data).text))
BY DEF HandleLine

(* What each line of the protocol does at its place in a frame. *)
LEMMA HandleGoing ==
    ASSUME NEW content \in Seq(Texts), NEW text \in Texts
    PROVE  /\ HandleLine(InFrame("message", <<>>, content), DataLine(text)) = InFrame("message", <<DataLine(text)>>, content)
           /\ HandleLine(InFrame("message", <<DataLine(text)>>, content), Blank) = InFrame("message", <<>>, Append(content, text))
           /\ HandleLine(InFrame("message", <<>>, content), DoneLine) = InFrame("message", <<DoneLine>>, content)
           /\ LET x == HandleLine(InFrame("message", <<DoneLine>>, content), Blank)
              IN  x.at = "returned" /\ x.content = content
           /\ HandleLine(InFrame("message", <<>>, content), ErrorEvent) = InFrame("error", <<>>, content)
           /\ HandleLine(InFrame("error", <<>>, content), ErrorLine) = InFrame("error", <<ErrorLine>>, content)
           /\ LET x == HandleLine(InFrame("error", <<ErrorLine>>, content), Blank)
              IN  x.at = "thrown" /\ x.content = content
           /\ \A x, line : x.at # "going on" => HandleLine(x, line) = x
<1>1. /\ DataLine(text).field = "data" /\ DataLine(text).json /\ DataLine(text).text = text
      /\ DoneLine.field = "data" /\ ~DoneLine.json /\ DoneLine.text = "[DONE]"
      /\ ErrorEvent.field = "event" /\ ErrorEvent.text = "error"
      /\ ErrorLine.field = "data" /\ ErrorLine.json
      /\ Blank.field # "data" /\ Blank.field # "event"
  BY DEF DataLine, DoneLine, ErrorEvent, ErrorLine, Blank, SseLine
<1>2. \A line : << line >> # <<>> /\ Head(<< line >>) = line
  OBVIOUS
<1>3. /\ HandleLine(InFrame("message", <<>>, content), DataLine(text)) = InFrame("message", <<DataLine(text)>>, content)
      /\ HandleLine(InFrame("message", <<>>, content), DoneLine) = InFrame("message", <<DoneLine>>, content)
      /\ HandleLine(InFrame("message", <<>>, content), ErrorEvent) = InFrame("error", <<>>, content)
  <2>1. PICK x : x = InFrame("message", <<>>, content)
    OBVIOUS
  <2>2. x.at = "going on" /\ x.event = "message" /\ x.data = <<>> /\ x.content = content
    BY <2>1 DEF InFrame
  <2> QED
    BY <1>1, <2>1, <2>2, HandleCases
<1>b. HandleLine(InFrame("error", <<>>, content), ErrorLine) = InFrame("error", <<ErrorLine>>, content)
  <2>1. PICK x : x = InFrame("error", <<>>, content)
    OBVIOUS
  <2>2. x.at = "going on" /\ x.event = "error" /\ x.data = <<>> /\ x.content = content
    BY <2>1 DEF InFrame
  <2> QED
    BY <1>1, <2>1, <2>2, HandleCases
<1>4. HandleLine(InFrame("message", <<DataLine(text)>>, content), Blank) = InFrame("message", <<>>, Append(content, text))
  <2>1. PICK data : data = <<DataLine(text)>>
    OBVIOUS
  <2>2. PICK x : x = InFrame("message", data, content)
    OBVIOUS
  <2>3. x.at = "going on" /\ x.event = "message" /\ x.data = data /\ x.content = content
    BY <2>2 DEF InFrame
  <2>4. data # <<>> /\ Head(data) = DataLine(text)
    BY <1>2, <2>1
  <2>5. HandleLine(x, Blank) = AfterFrame("going on", Append(content, text))
    BY <1>1, <2>3, <2>4, HandleCases
  <2> QED
    BY <2>1, <2>2, <2>5, FrameEnds
<1>5. HandleLine(InFrame("message", <<DoneLine>>, content), Blank) = AfterFrame("returned", content)
  <2>1. PICK data : data = <<DoneLine>>
    OBVIOUS
  <2>2. PICK x : x = InFrame("message", data, content)
    OBVIOUS
  <2>3. x.at = "going on" /\ x.event = "message" /\ x.data = data /\ x.content = content
    BY <2>2 DEF InFrame
  <2>4. data # <<>> /\ Head(data) = DoneLine
    BY <1>2, <2>1
  <2> QED
    BY <1>1, <2>1, <2>2, <2>3, <2>4, HandleCases
<1>6. HandleLine(InFrame("error", <<ErrorLine>>, content), Blank) = AfterFrame("thrown", content)
  <2>1. PICK data : data = <<ErrorLine>>
    OBVIOUS
  <2>2. PICK x : x = InFrame("error", data, content)
    OBVIOUS
  <2>3. x.at = "going on" /\ x.event = "error" /\ x.data = data /\ x.content = content
    BY <2>2 DEF InFrame
  <2>4. data # <<>> /\ Head(data) = ErrorLine
    BY <1>2, <2>1
  <2> QED
    BY <1>1, <2>1, <2>2, <2>3, <2>4, HandleCases
<1>7. \A x, line : x.at # "going on" => HandleLine(x, line) = x
  BY DEF HandleLine
<1>8. \A at : AfterFrame(at, content).at = at /\ AfterFrame(at, content).content = content
  BY FrameEnds
<1> QED
  BY <1>3, <1>b, <1>4, <1>5, <1>6, <1>7, <1>8

(* A number is even or odd. *)
LEMMA Halves ==
    ASSUME NEW i \in Nat
    PROVE  \E j \in Nat : i = 2 * j \/ i = 2 * j + 1
<1> DEFINE S == {n \in Nat : \E j \in Nat : n = 2 * j \/ n = 2 * j + 1}
<1>1. 0 \in S
  <2>1. 0 \in Nat /\ 0 = 2 * 0
    OBVIOUS
  <2> QED
    BY <2>1
<1>2. ASSUME NEW n \in Nat, n \in S PROVE n + 1 \in S
  <2>1. PICK j \in Nat : n = 2 * j \/ n = 2 * j + 1
    BY <1>2
  <2>2. CASE n = 2 * j
    <3>1. n + 1 = 2 * j + 1 /\ n + 1 \in Nat
      BY <2>2
    <3> QED
      BY <3>1
  <2>3. CASE n = 2 * j + 1
    <3>1. n + 1 = 2 * (j + 1) /\ n + 1 \in Nat /\ j + 1 \in Nat
      BY <2>3
    <3> QED
      BY <3>1
  <2> QED
    BY <2>1, <2>2, <2>3
<1> HIDE DEF S
<1>3. i \in S
  BY <1>1, <1>2, InductionOnNat
<1> QED
  BY <1>3 DEF S

(* What i lines of the frames of rest come to. *)
CameTo(rest, end, i, x) ==
    LET d == Len(rest)
    IN  /\ \A j \in 0 .. d : i = 2 * j => x = InFrame("message", <<>>, SubSeq(rest, 1, j))
        /\ \A j \in 1 .. d : i = 2 * j - 1 => x = InFrame("message", <<DataLine(rest[j])>>, SubSeq(rest, 1, j - 1))
        /\ end = "ends" =>
             /\ i = 2 * d + 1 => x = InFrame("message", <<DoneLine>>, rest)
             /\ i = 2 * d + 2 => x.at = "returned" /\ x.content = rest
        /\ end = "raises" =>
             /\ i = 2 * d + 1 => x = InFrame("error", <<>>, rest)
             /\ i = 2 * d + 2 => x = InFrame("error", <<ErrorLine>>, rest)
             /\ i > 2 * d + 2 => x.at = "thrown" /\ x.content = rest

(* The line that holds a piece of text. *)
LEMMA HandleData ==
    ASSUME NEW content \in Seq(Texts), NEW text \in Texts
    PROVE  HandleLine(InFrame("message", <<>>, content), DataLine(text)) = InFrame("message", <<DataLine(text)>>, content)
BY HandleGoing

(* The blank line after it. *)
LEMMA HandleDataEnd ==
    ASSUME NEW content \in Seq(Texts), NEW text \in Texts
    PROVE  HandleLine(InFrame("message", <<DataLine(text)>>, content), Blank) = InFrame("message", <<>>, Append(content, text))
BY HandleGoing

(* The lines that end a response, with an error and without. *)
LEMMA HandleLast ==
    ASSUME NEW content \in Seq(Texts)
    PROVE  /\ HandleLine(InFrame("message", <<>>, content), DoneLine) = InFrame("message", <<DoneLine>>, content)
           /\ HandleLine(InFrame("message", <<DoneLine>>, content), Blank).at = "returned"
           /\ HandleLine(InFrame("message", <<DoneLine>>, content), Blank).content = content
           /\ HandleLine(InFrame("message", <<>>, content), ErrorEvent) = InFrame("error", <<>>, content)
           /\ HandleLine(InFrame("error", <<>>, content), ErrorLine) = InFrame("error", <<ErrorLine>>, content)
           /\ HandleLine(InFrame("error", <<ErrorLine>>, content), Blank).at = "thrown"
           /\ HandleLine(InFrame("error", <<ErrorLine>>, content), Blank).content = content
<1>1. "" \in Texts
  BY DEF Texts
<1> QED
  BY <1>1, HandleGoing

(* One more line. *)
LEMMA CameToNext ==
    ASSUME NEW lines \in Seq(SseLines), NEW rest \in Seq(Texts), NEW end \in Ends, Framed(lines, rest, end),
           NEW i \in 1 .. Len(lines), NEW x, CameTo(rest, end, i - 1, x)
    PROVE  CameTo(rest, end, i, HandleLine(x, lines[i]))
<1> DEFINE d == Len(rest)
<1>0. d \in Nat /\ i \in Nat /\ Len(lines) \in Nat /\ SubSeq(rest, 1, d) = rest
  OBVIOUS
<1>1. ASSUME NEW j \in 1 .. d, i = 2 * j - 1
      PROVE  CameTo(rest, end, i, HandleLine(x, lines[i]))
  <2>1. x = InFrame("message", <<>>, SubSeq(rest, 1, j - 1))
    <3>1. j - 1 \in 0 .. d /\ i - 1 = 2 * (j - 1)
      BY <1>0, <1>1
    <3> QED
      BY <3>1 DEF CameTo
  <2>2. lines[i] = DataLine(rest[j]) /\ rest[j] \in Texts /\ SubSeq(rest, 1, j - 1) \in Seq(Texts)
    <3>1. lines[i] = DataLine(rest[j])
      BY <1>0, <1>1 DEF Framed
    <3>2. rest[j] \in Texts
      BY <1>0
    <3> QED
      BY <1>0, <3>1, <3>2
  <2>3. HandleLine(x, lines[i]) = InFrame("message", <<DataLine(rest[j])>>, SubSeq(rest, 1, j - 1))
    <3>1. PICK text \in Texts : text = rest[j]
      BY <2>2
    <3>2. PICK content \in Seq(Texts) : content = SubSeq(rest, 1, j - 1)
      BY <2>2
    <3>3. HandleLine(InFrame("message", <<>>, content), DataLine(text)) = InFrame("message", <<DataLine(text)>>, content)
      BY HandleData
    <3> QED
      BY ONLY <2>1, <2>2, <3>1, <3>2, <3>3
  <2>4. /\ \A k \in 0 .. d : i # 2 * k
        /\ \A k \in 1 .. d : i = 2 * k - 1 => k = j
        /\ i <= 2 * d
    BY <1>0, <1>1
  <2> QED
    BY <1>0, <2>3, <2>4 DEF CameTo
<1>2. ASSUME NEW j \in 1 .. d, i = 2 * j
      PROVE  CameTo(rest, end, i, HandleLine(x, lines[i]))
  <2>1. x = InFrame("message", <<DataLine(rest[j])>>, SubSeq(rest, 1, j - 1))
    <3>1. i - 1 = 2 * j - 1
      BY <1>0, <1>2
    <3> QED
      BY <3>1 DEF CameTo
  <2>2. lines[i] = Blank /\ rest[j] \in Texts /\ SubSeq(rest, 1, j - 1) \in Seq(Texts)
    <3>1. lines[i] = Blank
      BY <1>0, <1>2 DEF Framed
    <3>2. rest[j] \in Texts
      BY <1>0
    <3> QED
      BY <1>0, <3>1, <3>2
  <2>3. Append(SubSeq(rest, 1, j - 1), rest[j]) = SubSeq(rest, 1, j)
    BY <1>0
  <2>4. HandleLine(x, lines[i]) = InFrame("message", <<>>, SubSeq(rest, 1, j))
    <3>1. PICK text \in Texts : text = rest[j]
      BY <2>2
    <3>2. PICK content \in Seq(Texts) : content = SubSeq(rest, 1, j - 1)
      BY <2>2
    <3>3. HandleLine(InFrame("message", <<DataLine(text)>>, content), Blank) = InFrame("message", <<>>, Append(content, text))
      BY HandleDataEnd
    <3> QED
      BY ONLY <2>1, <2>2, <2>3, <3>1, <3>2, <3>3
  <2>5. /\ \A k \in 0 .. d : i = 2 * k => k = j
        /\ \A k \in 1 .. d : i # 2 * k - 1
        /\ i <= 2 * d
    BY <1>0, <1>2
  <2> QED
    BY <1>0, <2>4, <2>5 DEF CameTo
<1>3. ASSUME i > 2 * d
      PROVE  CameTo(rest, end, i, HandleLine(x, lines[i]))
  <2>1. i = 2 * d + 1 => x = InFrame("message", <<>>, rest)
    <3> SUFFICES ASSUME i = 2 * d + 1 PROVE x = InFrame("message", <<>>, rest)
      OBVIOUS
    <3>1. d \in 0 .. d /\ i - 1 = 2 * d
      BY <1>0
    <3>2. x = InFrame("message", <<>>, SubSeq(rest, 1, d))
      BY <3>1 DEF CameTo
    <3> QED
      BY <1>0, <3>2
  <2>2. /\ \A k \in 0 .. d : i # 2 * k
        /\ \A k \in 1 .. d : i # 2 * k - 1
    BY <1>0, <1>3
  <2>y. PICK y : y = HandleLine(x, lines[i])
    OBVIOUS
  <2> SUFFICES CameTo(rest, end, i, y)
    BY <2>y
  <2>3. CASE end = "ends"
    <3>1. /\ Len(lines) = 2 * d + 2
          /\ lines[2 * d + 1] = DoneLine /\ lines[2 * d + 2] = Blank
      BY <2>3 DEF Framed
    <3>2. CASE i = 2 * d + 1
      <4>1. y = InFrame("message", <<DoneLine>>, rest)
        BY <2>y, <2>1, <3>1, <3>2, HandleLast
      <4> QED
        BY <1>0, <2>2, <2>3, <3>2, <4>1 DEF CameTo
    <3>3. CASE i = 2 * d + 2
      <4>1. i - 1 = 2 * d + 1
        BY <1>0, <3>3
      <4>2. x = InFrame("message", <<DoneLine>>, rest)
        BY <2>3, <4>1 DEF CameTo
      <4>3. y.at = "returned" /\ y.content = rest
        BY <2>y, <3>1, <3>3, <4>2, HandleLast
      <4> QED
        BY <1>0, <2>2, <2>3, <3>3, <4>3 DEF CameTo
    <3> QED
      BY <1>0, <1>3, <3>1, <3>2, <3>3
  <2>4. CASE end = "raises"
    <3>1. /\ Len(lines) = 2 * d + 5
          /\ lines[2 * d + 1] = ErrorEvent /\ lines[2 * d + 2] = ErrorLine /\ lines[2 * d + 3] = Blank
      BY <2>4 DEF Framed
    <3>2. CASE i = 2 * d + 1
      <4>1. y = InFrame("error", <<>>, rest)
        BY <2>y, <2>1, <3>1, <3>2, HandleLast
      <4> QED
        BY <1>0, <2>2, <2>4, <3>2, <4>1 DEF CameTo
    <3>3. CASE i = 2 * d + 2
      <4>1. i - 1 = 2 * d + 1
        BY <1>0, <3>3
      <4>2. x = InFrame("error", <<>>, rest)
        BY <2>4, <4>1 DEF CameTo
      <4>3. y = InFrame("error", <<ErrorLine>>, rest)
        BY <2>y, <3>1, <3>3, <4>2, HandleLast
      <4> QED
        BY <1>0, <2>2, <2>4, <3>3, <4>3 DEF CameTo
    <3>4. CASE i > 2 * d + 2
      <4>1. y.at = "thrown" /\ y.content = rest
        <5>1. CASE i = 2 * d + 3
          <6>1. i - 1 = 2 * d + 2
            BY <1>0, <5>1
          <6>2. x = InFrame("error", <<ErrorLine>>, rest)
            BY <2>4, <6>1 DEF CameTo
          <6> QED
            BY <2>y, <3>1, <5>1, <6>2, HandleLast
        <5>2. CASE i > 2 * d + 3
          <6>1. i - 1 > 2 * d + 2
            BY <1>0, <5>2
          <6>2. x.at = "thrown" /\ x.content = rest
            BY <2>4, <6>1 DEF CameTo
          <6>3. x.at # "going on"
            BY <6>2
          <6> QED
            BY <2>y, <6>2, <6>3 DEF HandleLine
        <5> QED
          BY <1>0, <3>4, <5>1, <5>2
      <4> QED
        BY <1>0, <2>2, <2>4, <3>4, <4>1 DEF CameTo
    <3> QED
      BY <1>0, <1>3, <3>2, <3>3, <3>4
  <2>5. end \in {"ends", "raises"}
    BY <1>0, <1>3 DEF Framed, Ends
  <2> QED
    BY <2>3, <2>4, <2>5
<1>4. PICK j \in Nat : i = 2 * j \/ i = 2 * j + 1
  BY <1>0, Halves
<1>5. i > 2 * d \/ (\E k \in 1 .. d : i = 2 * k - 1) \/ (\E k \in 1 .. d : i = 2 * k)
  <2>1. CASE i = 2 * j /\ i <= 2 * d
    <3>1. j \in 1 .. d
      BY <1>0, <2>1
    <3> QED
      BY <2>1, <3>1
  <2>2. CASE i = 2 * j + 1 /\ i <= 2 * d
    <3>1. j + 1 \in 1 .. d /\ i = 2 * (j + 1) - 1
      BY <1>0, <2>2
    <3> QED
      BY <3>1
  <2> QED
    BY <1>0, <1>4, <2>1, <2>2
<1> QED
  BY <1>1, <1>2, <1>3, <1>5

(* Any number of lines of the frames: by induction over them. *)
LEMMA FramesHandled ==
    ASSUME NEW lines \in Seq(SseLines), NEW rest \in Seq(Texts), NEW end \in Ends, Framed(lines, rest, end),
           NEW n \in 0 .. Len(lines)
    PROVE  CameTo(rest, end, n, Folded(HandleLines, NoLineYet, SubSeq(lines, 1, n)))
<1> DEFINE front == SubSeq(lines, 1, n)
           Holds == [i \in 0 .. n |-> {x \in Parsers : CameTo(rest, end, i, x)}]
<1>1. front \in Seq(SseLines) /\ Len(front) = n /\ \A i \in 1 .. n : front[i] = lines[i] /\ lines[i] \in SseLines
  OBVIOUS
<1>2. NoLineYet \in Holds[0]
  <2>1. NoLineYet = InFrame("message", <<>>, <<>>)
    BY FrameEnds DEF NoLineYet
  <2>2. Len(rest) \in Nat /\ SubSeq(rest, 1, 0) = <<>>
    OBVIOUS
  <2>3. \A j \in 0 .. Len(rest) : 0 = 2 * j => j = 0
    BY <2>2
  <2>4. \A j \in 1 .. Len(rest) : 0 # 2 * j - 1
    BY <2>2
  <2>5. \A j \in 0 .. Len(rest) : 0 = 2 * j => NoLineYet = InFrame("message", <<>>, SubSeq(rest, 1, j))
    BY <2>1, <2>2, <2>3
  <2>6. 0 # 2 * Len(rest) + 1 /\ 0 # 2 * Len(rest) + 2 /\ ~(0 > 2 * Len(rest) + 2)
    BY <2>2
  <2>7. CameTo(rest, end, 0, NoLineYet)
    BY <2>4, <2>5, <2>6 DEF CameTo
  <2> QED
    BY <2>7, HandleType
<1>3. ASSUME NEW i \in 1 .. n, NEW x \in Holds[i - 1]
      PROVE  HandleLines[<<x, front[i]>>] \in Holds[i]
  <2>1. i \in 1 .. Len(lines) /\ i - 1 \in 0 .. n /\ i \in 0 .. n
    OBVIOUS
  <2>2. x \in Parsers /\ CameTo(rest, end, i - 1, x)
    BY <1>3, <2>1
  <2>3. HandleLines[<<x, front[i]>>] = HandleLine(x, lines[i]) /\ HandleLine(x, lines[i]) \in Parsers
    <3>1. front[i] = lines[i] /\ lines[i] \in SseLines
      BY <1>1
    <3>2. <<x, lines[i]>> \in Parsers \X SseLines
      BY <2>2, <3>1
    <3> QED
      BY <2>2, <3>1, <3>2, HandleType
  <2>4. CameTo(rest, end, i, HandleLine(x, lines[i]))
    BY <2>1, <2>2, CameToNext
  <2> QED
    BY <2>1, <2>3, <2>4
<1>4. Holds \in [0 .. Len(front) -> SUBSET Parsers]
  BY <1>1
<1>5. Folded(HandleLines, NoLineYet, front) \in Holds[Len(front)]
  <2> HIDE DEF Holds, front
  <2>1. \A i \in 1 .. Len(front) : \A x \in Holds[i - 1] : HandleLines[<<x, front[i]>>] \in Holds[i]
    BY <1>1, <1>3
  <2> QED
    BY <1>1, <1>2, <1>4, <2>1, HandleType, FoldedInvariant
<1>6. Folded(HandleLines, NoLineYet, front) \in Holds[n]
  BY <1>1, <1>5
<1> QED
  BY <1>6

(* What complete frames come to. *)
FramesTell(rest, end, n, x) ==
    \/ \E j \in 0 .. Len(rest) : n = 2 * j /\ x.at = "going on" /\ x.content = SubSeq(rest, 1, j)
    \/ end = "ends" /\ x.at = "returned" /\ x.content = rest
    \/ end = "raises" /\ x.at = "thrown" /\ x.content = rest

(* Lines that end with a blank one are whole frames. *)
LEMMA FramesCameTo ==
    ASSUME NEW lines \in Seq(SseLines), NEW rest \in Seq(Texts), NEW end \in Ends, Framed(lines, rest, end),
           NEW n \in 0 .. Len(lines), n > 0 => lines[n] = Blank, NEW x, CameTo(rest, end, n, x)
    PROVE  FramesTell(rest, end, n, x)
<1> USE DEF FramesTell
<1> DEFINE d == Len(rest)
<1>0. d \in Nat /\ n \in Nat /\ Len(lines) \in Nat
  OBVIOUS
<1>1. PICK j \in Nat : n = 2 * j \/ n = 2 * j + 1
  BY <1>0, Halves
<1>2. CASE n <= 2 * d /\ n = 2 * j
  <2>1. j \in 0 .. d
    BY <1>0, <1>2
  <2>2. x = InFrame("message", <<>>, SubSeq(rest, 1, j))
    BY <1>2, <2>1 DEF CameTo
  <2>3. x.at = "going on" /\ x.content = SubSeq(rest, 1, j)
    BY <2>2 DEF InFrame
  <2> QED
    BY <1>2, <2>1, <2>3
<1>3. CASE n <= 2 * d /\ n = 2 * j + 1
  <2>1. j + 1 \in 1 .. d /\ n = 2 * (j + 1) - 1 /\ n > 0 /\ 2 * (j + 1) - 1 <= Len(lines)
    BY <1>0, <1>3
  <2>2. lines[2 * (j + 1) - 1] = DataLine(rest[j + 1])
    BY <2>1 DEF Framed
  <2>3. rest[j + 1] \in Texts
    BY <2>1
  <2>4. lines[n] # Blank
    BY <2>1, <2>2, <2>3, LineTypes
  <2> QED
    BY <2>1, <2>4
<1>4. CASE n > 2 * d
  <2>1. CASE end = "ends"
    <3>1. Len(lines) = 2 * d + 2 /\ lines[2 * d + 1] = DoneLine
      BY <2>1 DEF Framed
    <3>2. n = 2 * d + 2
      <4>1. n = 2 * d + 1 \/ n = 2 * d + 2
        BY <1>0, <1>4, <3>1
      <4> QED
        BY <1>0, <3>1, <4>1, LineTypes
    <3> QED
      BY <2>1, <3>2 DEF CameTo
  <2>2. CASE end = "raises"
    <3>1. lines[2 * d + 1] = ErrorEvent /\ lines[2 * d + 2] = ErrorLine
      BY <2>2 DEF Framed
    <3>2. n # 2 * d + 1 /\ n # 2 * d + 2 /\ n > 0
      BY <1>0, <1>4, <3>1, LineTypes
    <3>3. n > 2 * d + 2
      BY <1>0, <1>4, <3>2
    <3> QED
      BY <2>2, <3>3 DEF CameTo
  <2>3. end \in {"ends", "raises"}
    BY <1>0, <1>4 DEF Framed, Ends
  <2> QED
    BY <2>1, <2>2, <2>3
<1>5. n <= 2 * d \/ n > 2 * d
  BY <1>0
<1> QED
  BY <1>1, <1>2, <1>3, <1>4, <1>5

(* The frames that are left when those of the first j pieces are handled. *)
LEMMA FramedRest ==
    ASSUME NEW lines \in Seq(SseLines), NEW rest \in Seq(Texts), NEW end \in Ends, Framed(lines, rest, end),
           NEW j \in 0 .. Len(rest), 2 * j <= Len(lines)
    PROVE  Framed(SubSeq(lines, 2 * j + 1, Len(lines)), SubSeq(rest, j + 1, Len(rest)), end)
<1>0. PICK d \in Nat, l \in Nat : d = Len(rest) /\ l = Len(lines)
  OBVIOUS
<1>a. PICK more : more = SubSeq(lines, 2 * j + 1, Len(lines))
  OBVIOUS
<1>b. PICK left : left = SubSeq(rest, j + 1, Len(rest))
  OBVIOUS
<1>c. j \in Nat /\ j <= d /\ 2 * j <= l
  BY <1>0
<1>1. Len(more) = l - 2 * j /\ Len(left) = d - j
  <2>1. 2 * j + 1 \in 1 .. l + 1 /\ l - (2 * j + 1) + 1 = l - 2 * j
    BY <1>c
  <2>2. Len(more) = l - (2 * j + 1) + 1
    <3>1. PICK m \in Nat : m = 2 * j + 1
      BY <1>c
    <3>2. more = SubSeq(lines, m, l) /\ m >= 1 /\ m <= l + 1
      BY <1>0, <1>a, <2>1, <3>1
    <3>3. Len(more) = l - m + 1
      BY <1>0, <3>2
    <3> QED
      BY <3>1, <3>3
  <2>3. j + 1 \in 1 .. d + 1 /\ d - (j + 1) + 1 = d - j
    BY <1>c
  <2>4. Len(left) = d - (j + 1) + 1
    BY <1>0, <1>b, <2>3
  <2> QED
    BY <2>1, <2>2, <2>3, <2>4
<1>2. \A i \in 1 .. l - 2 * j : more[i] = lines[2 * j + i]
  BY <1>0, <1>a, <1>c
<1>3. \A i \in 1 .. d - j : left[i] = rest[j + i]
  BY <1>0, <1>b, <1>c
<1>4. ASSUME NEW i \in 1 .. d - j
      PROVE  /\ 2 * i - 1 <= l - 2 * j => more[2 * i - 1] = DataLine(left[i])
             /\ 2 * i <= l - 2 * j => more[2 * i] = Blank
  <2>1. j + i \in 1 .. d /\ 2 * (j + i) - 1 = 2 * j + (2 * i - 1) /\ 2 * (j + i) = 2 * j + 2 * i
    BY <1>c
  <2>2. /\ 2 * (j + i) - 1 <= l => lines[2 * (j + i) - 1] = DataLine(rest[j + i])
        /\ 2 * (j + i) <= l => lines[2 * (j + i)] = Blank
    BY <1>0, <2>1 DEF Framed
  <2>3. 2 * i - 1 <= l - 2 * j => 2 * i - 1 \in 1 .. l - 2 * j
    BY <1>c
  <2>4. 2 * i <= l - 2 * j => 2 * i \in 1 .. l - 2 * j
    BY <1>c
  <2>5. 2 * i - 1 <= l - 2 * j => 2 * (j + i) - 1 <= l
    BY <1>c
  <2>6. 2 * i <= l - 2 * j => 2 * (j + i) <= l
    BY <1>c
  <2>7. left[i] = rest[j + i]
    BY <1>3
  <2> QED
    BY <1>2, <2>1, <2>2, <2>3, <2>4, <2>5, <2>6, <2>7
<1>5. end = "open" => l - 2 * j = 2 * (d - j)
  BY <1>0, <1>c DEF Framed
<1>6. end = "broken" => l - 2 * j <= 2 * (d - j)
  BY <1>0, <1>c DEF Framed
<1>7. ASSUME NEW k \in 1 .. 5, 2 * d + k <= l
      PROVE  more[2 * (d - j) + k] = lines[2 * d + k]
  <2>1. 2 * (d - j) + k \in 1 .. l - 2 * j /\ 2 * j + (2 * (d - j) + k) = 2 * d + k
    BY <1>c, <1>7
  <2> QED
    BY <1>2, <2>1
<1>8. end = "ends" => /\ l - 2 * j = 2 * (d - j) + 2
                      /\ more[2 * (d - j) + 1] = DoneLine /\ more[2 * (d - j) + 2] = Blank
  <2> SUFFICES ASSUME end = "ends"
               PROVE  /\ l - 2 * j = 2 * (d - j) + 2
                      /\ more[2 * (d - j) + 1] = DoneLine /\ more[2 * (d - j) + 2] = Blank
    OBVIOUS
  <2>1. l = 2 * d + 2 /\ lines[2 * d + 1] = DoneLine /\ lines[2 * d + 2] = Blank
    BY <1>0 DEF Framed
  <2> QED
    BY <1>c, <1>7, <2>1
<1>9. end = "raises" => /\ l - 2 * j = 2 * (d - j) + 5
                        /\ more[2 * (d - j) + 1] = ErrorEvent /\ more[2 * (d - j) + 2] = ErrorLine
                        /\ more[2 * (d - j) + 3] = Blank
                        /\ more[2 * (d - j) + 4] = DoneLine /\ more[2 * (d - j) + 5] = Blank
  <2> SUFFICES ASSUME end = "raises"
               PROVE  /\ l - 2 * j = 2 * (d - j) + 5
                      /\ more[2 * (d - j) + 1] = ErrorEvent /\ more[2 * (d - j) + 2] = ErrorLine
                      /\ more[2 * (d - j) + 3] = Blank
                      /\ more[2 * (d - j) + 4] = DoneLine /\ more[2 * (d - j) + 5] = Blank
    OBVIOUS
  <2>1. /\ l = 2 * d + 5 /\ lines[2 * d + 1] = ErrorEvent /\ lines[2 * d + 2] = ErrorLine
        /\ lines[2 * d + 3] = Blank /\ lines[2 * d + 4] = DoneLine /\ lines[2 * d + 5] = Blank
    BY <1>0 DEF Framed
  <2> QED
    BY <1>c, <1>7, <2>1
<1>10. Framed(more, left, end)
  BY <1>1, <1>4, <1>5, <1>6, <1>8, <1>9 DEF Framed
<1> QED
  BY <1>10, <1>a, <1>b

(* A piece, the end or an error is one more frame. *)
LEMMA FramedMore ==
    ASSUME NEW lines \in Seq(SseLines), NEW rest \in Seq(Texts), Framed(lines, rest, "open")
    PROVE  /\ \A text \in Texts : Framed(lines \o DataFrame(text), Append(rest, text), "open")
           /\ Framed(lines \o DoneFrame, rest, "ends")
           /\ Framed(lines \o (ErrorFrame \o DoneFrame), rest, "raises")
<1>0. PICK d \in Nat : d = Len(rest)
  OBVIOUS
<1>1. /\ Len(lines) = 2 * d
      /\ \A j \in 1 .. d : lines[2 * j - 1] = DataLine(rest[j]) /\ lines[2 * j] = Blank
  <2>1. Len(lines) = 2 * d
    BY <1>0 DEF Framed
  <2>2. \A j \in 1 .. d : 2 * j - 1 <= 2 * d /\ 2 * j <= 2 * d
    BY <1>0
  <2> QED
    BY <1>0, <2>1, <2>2 DEF Framed
<1>2. \A j \in 1 .. d : 2 * j - 1 \in 1 .. 2 * d /\ 2 * j \in 1 .. 2 * d
  BY <1>0
<1>3. ASSUME NEW more \in Seq(SseLines)
      PROVE  /\ lines \o more \in Seq(SseLines)
             /\ Len(lines \o more) = 2 * d + Len(more)
             /\ \A j \in 1 .. d : (lines \o more)[2 * j - 1] = DataLine(rest[j]) /\ (lines \o more)[2 * j] = Blank
             /\ \A k \in 1 .. Len(more) : (lines \o more)[2 * d + k] = more[k]
  <2>1. PICK m \in Nat : m = Len(lines)
    OBVIOUS
  <2>2. \A i \in 1 .. m : (lines \o more)[i] = lines[i]
    BY <2>1
  <2>3. \A k \in 1 .. Len(more) : (lines \o more)[m + k] = more[k]
    BY <2>1
  <2>4. Len(lines \o more) = m + Len(more) /\ lines \o more \in Seq(SseLines)
    BY <2>1
  <2> QED
    BY <1>1, <1>2, <2>1, <2>2, <2>3, <2>4
<1>4. ASSUME NEW text \in Texts
      PROVE  Framed(lines \o DataFrame(text), Append(rest, text), "open")
  <2>1. PICK more : more = DataFrame(text)
    OBVIOUS
  <2>2. more \in Seq(SseLines) /\ Len(more) = 2 /\ more[1] = DataLine(text) /\ more[2] = Blank
    <3>1. DataLine(text) \in SseLines /\ Blank \in SseLines
      BY LineTypes
    <3>2. more = <<DataLine(text), Blank>>
      BY <2>1 DEF DataFrame, DataLine
    <3> QED
      BY <3>1, <3>2
  <2>3. PICK all : all = lines \o more
    OBVIOUS
  <2>4. /\ Len(all) = 2 * (d + 1) /\ all[2 * (d + 1) - 1] = DataLine(text) /\ all[2 * (d + 1)] = Blank
        /\ \A j \in 1 .. d : all[2 * j - 1] = DataLine(rest[j]) /\ all[2 * j] = Blank
    <3>1. 2 * (d + 1) - 1 = 2 * d + 1 /\ 2 * (d + 1) = 2 * d + 2
      BY <1>0
    <3>2. /\ Len(all) = 2 * d + 2 /\ all[2 * d + 1] = more[1] /\ all[2 * d + 2] = more[2]
          /\ \A j \in 1 .. d : all[2 * j - 1] = DataLine(rest[j]) /\ all[2 * j] = Blank
      <4>1. \A k \in {1, 2} : k \in 1 .. Len(more)
        BY <2>2
      <4> QED
        BY <1>3, <2>2, <2>3, <4>1
    <3> QED
      BY <2>2, <3>1, <3>2
  <2>5. PICK long : long = Append(rest, text)
    OBVIOUS
  <2>6. Len(long) = d + 1 /\ long[d + 1] = text /\ \A j \in 1 .. d : long[j] = rest[j]
    BY <1>0, <2>5
  <2>7. \A j \in 1 .. d + 1 : j \in 1 .. d \/ j = d + 1
    BY <1>0
  <2>8. \A j \in 1 .. d + 1 : all[2 * j - 1] = DataLine(long[j]) /\ all[2 * j] = Blank
    BY <2>4, <2>6, <2>7
  <2>9. Framed(all, long, "open")
    BY <2>4, <2>6, <2>8 DEF Framed
  <2> QED
    BY <2>1, <2>3, <2>5, <2>9
<1>5. Framed(lines \o DoneFrame, rest, "ends")
  <2>1. PICK more : more = DoneFrame
    OBVIOUS
  <2>2. more \in Seq(SseLines) /\ Len(more) = 2 /\ more[1] = DoneLine /\ more[2] = Blank
    <3>1. DoneLine \in SseLines /\ Blank \in SseLines
      BY LineTypes
    <3>2. more = <<DoneLine, Blank>>
      BY <2>1 DEF DoneFrame, DoneLine
    <3> QED
      BY <3>1, <3>2
  <2>3. PICK all : all = lines \o more
    OBVIOUS
  <2>4. /\ Len(all) = 2 * d + 2 /\ all[2 * d + 1] = DoneLine /\ all[2 * d + 2] = Blank
        /\ \A j \in 1 .. d : all[2 * j - 1] = DataLine(rest[j]) /\ all[2 * j] = Blank
    <3>1. \A k \in {1, 2} : k \in 1 .. Len(more)
      BY <2>2
    <3> QED
      BY <1>3, <2>2, <2>3, <3>1
  <2>5. Framed(all, rest, "ends")
    BY <1>0, <2>4 DEF Framed
  <2> QED
    BY <2>1, <2>3, <2>5
<1>6. Framed(lines \o (ErrorFrame \o DoneFrame), rest, "raises")
  <2>1. PICK more : more = ErrorFrame \o DoneFrame
    OBVIOUS
  <2>2. /\ more \in Seq(SseLines) /\ Len(more) = 5 /\ more[1] = ErrorEvent /\ more[2] = ErrorLine
        /\ more[3] = Blank /\ more[4] = DoneLine /\ more[5] = Blank
    <3>1. more = <<ErrorEvent, ErrorLine, Blank>> \o <<DoneLine, Blank>>
      BY <2>1 DEF ErrorFrame, DoneFrame, ErrorEvent, ErrorLine, DoneLine
    <3>2. PICK a, b, c, e : a = ErrorEvent /\ b = ErrorLine /\ c = Blank /\ e = DoneLine
      OBVIOUS
    <3>3. more = <<a, b, c>> \o <<e, c>>
      BY <3>1, <3>2
    <3>4. a \in SseLines /\ b \in SseLines /\ c \in SseLines /\ e \in SseLines
      BY <3>2, LineTypes
    <3>5. <<a, b, c>> \in Seq(SseLines) /\ <<e, c>> \in Seq(SseLines)
      BY <3>4
    <3>6. /\ more \in Seq(SseLines) /\ Len(more) = 5 /\ more[1] = a /\ more[2] = b
          /\ more[3] = c /\ more[4] = e /\ more[5] = c
      BY ONLY <3>3, <3>5
    <3> QED
      BY <3>2, <3>6
  <2>3. PICK all : all = lines \o more
    OBVIOUS
  <2>4. /\ Len(all) = 2 * d + 5 /\ \A k \in 1 .. 5 : all[2 * d + k] = more[k]
        /\ \A j \in 1 .. d : all[2 * j - 1] = DataLine(rest[j]) /\ all[2 * j] = Blank
    BY <1>3, <2>2, <2>3
  <2>5. /\ all[2 * d + 1] = ErrorEvent /\ all[2 * d + 2] = ErrorLine /\ all[2 * d + 3] = Blank
        /\ all[2 * d + 4] = DoneLine /\ all[2 * d + 5] = Blank
    <3>1. 1 \in 1 .. 5 /\ 2 \in 1 .. 5 /\ 3 \in 1 .. 5 /\ 4 \in 1 .. 5 /\ 5 \in 1 .. 5
      OBVIOUS
    <3> QED
      BY <2>2, <2>4, <3>1
  <2>6. Framed(all, rest, "raises")
    BY <1>0, <2>4, <2>5 DEF Framed
  <2> QED
    BY <2>1, <2>3, <2>6
<1> QED
  BY <1>4, <1>5, <1>6

(* The frames of a response that breaks. *)
LEMMA FramedBroken ==
    ASSUME NEW before \in Seq(SseLines), NEW after \in Seq(SseLines), NEW rest \in Seq(Texts),
           Framed(before \o after, rest, "open"), NEW n \in 0 .. Len(after)
    PROVE  Framed(before \o SubSeq(after, 1, n), rest, "broken")
<1>1. PICK d \in Nat, l \in Nat : d = Len(rest) /\ l = Len(before)
  OBVIOUS
<1>2. PICK all : all = before \o after
  OBVIOUS
<1>3. PICK some : some = before \o SubSeq(after, 1, n)
  OBVIOUS
<1>4. Len(some) = l + n /\ Len(all) = l + Len(after) /\ Len(some) <= Len(all)
  BY <1>1, <1>2, <1>3
<1>5. \A i \in 1 .. Len(some) : some[i] = all[i]
  BY <1>1, <1>2, <1>3, <1>4
<1>6. /\ Len(all) = 2 * d
      /\ \A j \in 1 .. d : all[2 * j - 1] = DataLine(rest[j]) /\ all[2 * j] = Blank
  <2>1. Len(all) = 2 * d
    BY <1>1, <1>2 DEF Framed
  <2>2. \A j \in 1 .. d : 2 * j - 1 <= 2 * d /\ 2 * j <= 2 * d
    BY <1>1
  <2> QED
    BY <1>1, <1>2, <2>1, <2>2 DEF Framed
<1>7. ASSUME NEW j \in 1 .. d
      PROVE  /\ 2 * j - 1 <= Len(some) => some[2 * j - 1] = DataLine(rest[j])
             /\ 2 * j <= Len(some) => some[2 * j] = Blank
  <2>1. 2 * j - 1 <= Len(some) => 2 * j - 1 \in 1 .. Len(some)
    OBVIOUS
  <2>2. 2 * j <= Len(some) => 2 * j \in 1 .. Len(some)
    OBVIOUS
  <2> QED
    BY <1>5, <1>6, <2>1, <2>2
<1>8. Framed(some, rest, "broken")
  BY <1>1, <1>4, <1>6, <1>7 DEF Framed
<1> QED
  BY <1>3, <1>8

(* There is a last blank line, or none. *)
LEMMA LastBlankFound ==
    ASSUME NEW lines \in Seq(SseLines)
    PROVE  /\ LastBlank(lines) \in 0 .. Len(lines)
           /\ LastBlank(lines) > 0 => lines[LastBlank(lines)] = Blank
           /\ \A i \in LastBlank(lines) + 1 .. Len(lines) : lines[i] # Blank
<1> DEFINE S == {n \in 0 .. Len(lines) : n > 0 => lines[n] = Blank}
<1>1. S \in SUBSET Nat /\ 0 \in S /\ IsFiniteSet(S)
  <2>1. IsFiniteSet(0 .. Len(lines))
    BY FS_Interval
  <2> QED
    BY <2>1, FS_Subset
<1>2. PICK m \in S : \A n \in S : n <= m
  <2> HIDE DEF S
  <2> QED
    BY <1>1, GreatestNatural
<1>3. \A i \in m + 1 .. Len(lines) : lines[i] # Blank
  <2> SUFFICES ASSUME NEW i \in m + 1 .. Len(lines), lines[i] = Blank PROVE FALSE
    OBVIOUS
  <2>1. i \in S /\ i > m /\ i \in Nat /\ m \in Nat
    OBVIOUS
  <2>2. i <= m
    BY <1>2, <2>1
  <2> QED
    BY <2>1, <2>2
<1> QED
  BY <1>2, <1>3 DEF LastBlank

(* What a sequence begins with. *)
LEMMA PrefixOfConcat ==
    ASSUME NEW begun \in Seq(Texts), NEW rest \in Seq(Texts)
    PROVE  IsPrefix(begun, begun \o rest)
BY DEF IsPrefix

(* AnswerSays changes the content of the last message only. *)
LEMMA AnswerSet ==
    ASSUME messages \in Seq(Messages), Len(messages) >= 1, NEW content \in Seq(Texts)
    PROVE  /\ AnswerSays(content) \in Seq(Messages) /\ Len(AnswerSays(content)) = Len(messages)
           /\ AnswerSays(content)[Len(messages)].role = messages[Len(messages)].role
           /\ AnswerSays(content)[Len(messages)].content = content
           /\ \A i \in 1 .. Len(messages) : i # Len(messages) => AnswerSays(content)[i] = messages[i]
<1>0. PICK m \in Seq(Messages), l \in Nat : m = messages /\ l = Len(m) /\ l >= 1
  OBVIOUS
<1>n. PICK n : n = AnswerSays(content)
  OBVIOUS
<1>1. PICK old : old = m[l]
  OBVIOUS
<1>2. old \in Messages
  BY <1>0, <1>1
<1>3. PICK new : new = [old EXCEPT !.content = content]
  OBVIOUS
<1>4. new \in Messages /\ new.role = old.role /\ new.content = content
  BY <1>2, <1>3 DEF Messages
<1>5. n = [m EXCEPT ![l] = new]
  BY <1>0, <1>n, <1>1, <1>3 DEF AnswerSays
<1>6. n \in Seq(Messages) /\ Len(n) = l
  BY <1>0, <1>4, <1>5
<1>7. n[l] = new /\ \A i \in 1 .. l : i # l => n[i] = m[i]
  BY <1>0, <1>5
<1> QED
  BY <1>0, <1>n, <1>1, <1>4, <1>6, <1>7

(* Concatenation is typed and associative. *)
LEMMA ConcatFacts ==
    ASSUME NEW S, NEW a \in Seq(S), NEW b \in Seq(S), NEW c \in Seq(S)
    PROVE  /\ a \o b \in Seq(S) /\ a \o (b \o c) = (a \o b) \o c
           /\ \A x \in S : a \o Append(b, x) = Append(a \o b, x)
OBVIOUS

(* The elements of a concatenation. *)
LEMMA ConcatElements ==
    ASSUME NEW S, NEW a \in Seq(S), NEW b \in Seq(S)
    PROVE  /\ Len(a \o b) = Len(a) + Len(b)
           /\ \A i \in 1 .. Len(a) : (a \o b)[i] = a[i]
           /\ \A i \in 1 .. Len(b) : (a \o b)[Len(a) + i] = b[i]
OBVIOUS

(* The end of the response, and the variables it stands for. *)
LEMMA EndType ==
    ASSUME ConvTyped
    PROVE  /\ End \in Ends
           /\ End = "open" <=> closed = "open"
           /\ End = "broken" <=> closed = "broken"
           /\ End = "ends" <=> closed = "ended" /\ outcome = "ends"
           /\ End = "raises" <=> closed = "ended" /\ outcome = "raises"
BY DEF ConvTyped, End, Ends

(* While an answer is being read, it is a part of what was said. *)
LEMMA SoundWhileStreaming ==
    ASSUME ConvTyped, Answering, streaming
    PROVE  ChatSound
<1>1. PICK l \in Nat : l = Len(messages) /\ l >= 2
  BY DEF ConvTyped, Answering
<1>2. messages[l] \in Messages /\ messages # <<>>
  BY <1>1 DEF ConvTyped
<1>3. PICK rest \in Seq(Texts) : said = messages[l].content \o rest
  BY <1>1 DEF Answering
<1>4. PICK content \in Seq(Texts) : content = messages[l].content
  BY <1>2 DEF Messages
<1>5. Shown = content
  BY <1>1, <1>2, <1>4 DEF Shown, Last, Answering
<1>6. IsPrefix(Shown, said)
  BY <1>3, <1>4, <1>5, PrefixOfConcat
<1> QED
  BY <1>6 DEF ChatSound, AnswerFaithful, NoEmptyFailure, Answering

(* streamChat returns or throws. *)
LEMMA Settled ==
    ASSUME ConvTyped, Answering, streaming, closed # "open",
           NEW content \in Seq(Texts), IsPrefix(content, said), NEW thrown \in BOOLEAN, Settle(content, thrown),
           buffer' \in Seq(SseLines), wire' \in Seq(SseLines), UNCHANGED <<closed, pieces, outcome, said>>,
           ~thrown => closed = "ended" /\ outcome = "ends" /\ content = said,
           thrown => closed = "broken" \/ outcome = "raises"
    PROVE  ConvInv'
<1>1. PICK l \in Nat : l = Len(messages) /\ l >= 2
  BY DEF ConvTyped, Answering
<1>0. /\ messages \in Seq(Messages) /\ messages[l].role = "assistant" /\ messages[l - 1].role = "user"
      /\ streaming' = FALSE /\ error' = thrown
  BY <1>1 DEF ConvTyped, Answering, Settle
<1>2. CASE thrown /\ Invisible(content)
  <2>1. messages' = SubSeq(messages, 1, l - 1)
    BY <1>1, <1>2 DEF Settle, Front
  <2>2. messages' \in Seq(Messages) /\ Len(messages') = l - 1 /\ messages'[l - 1] = messages[l - 1]
    BY <1>0, <1>1, <2>1
  <2>3. Last(messages').role = "user"
    BY <1>0, <2>2 DEF Last
  <2>4. Shown' = <<>>
    BY <2>3 DEF Shown
  <2>5. IsPrefix(<<>>, said)
    BY PrefixOfConcat DEF ConvTyped, IsPrefix
  <2>6. ConvTyped'
    BY <1>0, <2>2 DEF ConvTyped
  <2>7. AnswerFaithful'
    BY <1>0, <1>2, <2>4, <2>5 DEF AnswerFaithful
  <2>8. NoEmptyFailure'
    BY <2>3 DEF NoEmptyFailure
  <2> QED
    BY <1>0, <2>6, <2>7, <2>8 DEF ConvInv, Answering, ChatSound
<1>3. CASE ~(thrown /\ Invisible(content))
  <2>1. messages' = AnswerSays(content)
    BY <1>3 DEF Settle
  <2>2. /\ messages' \in Seq(Messages) /\ Len(messages') = l
        /\ messages'[l].role = "assistant" /\ messages'[l].content = content
    <3>1. Len(messages) >= 1
      BY <1>1
    <3>2. /\ messages' \in Seq(Messages) /\ Len(messages') = Len(messages)
          /\ messages'[Len(messages)].role = messages[Len(messages)].role
          /\ messages'[Len(messages)].content = content
      BY <1>0, <2>1, <3>1, AnswerSet
    <3> QED
      BY <1>0, <1>1, <3>2
  <2>3. Last(messages').role = "assistant" /\ Last(messages').content = content /\ messages' # <<>>
    BY <1>1, <2>2 DEF Last
  <2>4. Shown' = content
    BY <2>3 DEF Shown
  <2>5. ConvTyped'
    BY <1>0, <2>2 DEF ConvTyped
  <2>6. ~thrown => pieces = <<>>
    BY DEF ConvTyped
  <2>7. AnswerFaithful'
    BY <1>0, <2>4, <2>6 DEF AnswerFaithful
  <2>8. NoEmptyFailure'
    BY <1>0, <1>3, <2>3 DEF NoEmptyFailure
  <2> QED
    BY <1>0, <2>5, <2>7, <2>8 DEF ConvInv, Answering, ChatSound
<1> QED
  BY <1>2, <1>3

(* What an adapter yields is text. *)
LEMMA StreamType ==
    ASSUME NEW provider, NEW reply \in ChatReplies
    PROVE  stream(provider, reply) \in Seq(Texts)
<1>1. reply \in Seq(Texts)
  BY ConvAssumption
<1>2. Keep(reply, Texts \ {Empty}) \in Seq(Texts \cap (Texts \ {Empty}))
  BY <1>1, KeepKept
<1>3. Keep(reply, Texts \ {Empty}) \in Seq(Texts)
  BY <1>2
<1> QED
  BY <1>1, <1>3 DEF stream

-----------------------------------------------------------------------------

(* A question is asked. *)
LEMMA SendStep ==
    ASSUME ConvInv, NEW provider, NEW reply \in ChatReplies, NEW ends \in {"ends", "raises"}, Send(provider, reply, ends)
    PROVE  ConvInv'
<1>1. PICK l \in Nat : l = Len(messages)
  BY DEF ConvInv, ConvTyped
<1>2. <<>> \in Seq(Texts)
  OBVIOUS
<1>3. PICK question \in Messages : question = Speak("user", <<>>)
  BY <1>2 DEF Speak, Messages
<1>4. PICK answer \in Messages : answer = Speak("assistant", <<>>)
  BY <1>2 DEF Speak, Messages
<1>5. messages' = messages \o <<question, answer>> /\ messages \in Seq(Messages)
  BY <1>3, <1>4 DEF Send, ConvInv, ConvTyped
<1>6. /\ messages' \in Seq(Messages) /\ Len(messages') = l + 2
      /\ messages'[l + 1] = question /\ messages'[l + 2] = answer
  BY <1>1, <1>5
<1>7. /\ streaming' = TRUE /\ error' = FALSE /\ buffer' = <<>> /\ wire' = <<>> /\ closed' = "open"
      /\ pieces' \in Seq(Texts) /\ outcome' = ends /\ said' = <<>>
  BY StreamType DEF Send
<1>8. ConvTyped'
  <2>1. buffer' \in Seq(SseLines) /\ wire' \in Seq(SseLines) /\ said' \in Seq(Texts)
    BY <1>7
  <2>2. outcome' \in {"ends", "raises"}
    BY <1>7
  <2> QED
    BY <1>6, <1>7, <2>1, <2>2 DEF ConvTyped
<1>9. Answering'
  <2>1. /\ messages'[l + 2].role = "assistant" /\ messages'[l + 2].content = <<>>
        /\ messages'[l + 1].role = "user"
    BY <1>3, <1>4, <1>6 DEF Speak
  <2>2. PICK none : none = <<>>
    OBVIOUS
  <2>3. none \in Seq(Texts) /\ none \in Seq(SseLines) /\ none \o none = none /\ Len(none) = 0 /\ DOMAIN none = {}
    BY <2>2
  <2>4. Framed(none, none, "open")
    BY <2>3 DEF Framed
  <2>5. End' = "open"
    BY <1>7 DEF End
  <2>6. NoBlank(none)
    BY <2>3 DEF NoBlank
  <2>7. Len(messages') = l + 2 /\ Len(messages') >= 2 /\ Len(messages') - 1 = l + 1
    BY <1>6
  <2>8. \E rest \in Seq(Texts) : /\ said' = messages'[Len(messages')].content \o rest
                                /\ Framed(buffer' \o wire', rest, End')
    BY <1>7, <2>1, <2>2, <2>3, <2>4, <2>5, <2>7
  <2> QED
    BY <1>7, <2>1, <2>2, <2>6, <2>7, <2>8 DEF Answering
<1> QED
  BY <1>7, <1>8, <1>9 DEF ConvInv

(* The engine passes on a piece. *)
LEMMA PassOnStep ==
    ASSUME ConvInv, PassOn
    PROVE  ConvInv'
<1>1. /\ streaming /\ closed = "open" /\ pieces # <<>> /\ ConvTyped /\ Answering
  BY DEF PassOn, ConvInv
<1>2. PICK text \in Texts : text = Head(pieces)
  BY <1>1 DEF ConvTyped
<1>3. Tail(pieces) \in Seq(Texts) /\ Append(said, text) \in Seq(Texts)
  BY <1>1, <1>2 DEF ConvTyped
<1>4. PICK frame \in Seq(SseLines) : frame = DataFrame(text)
  <2>1. DataLine(text) \in SseLines /\ Blank \in SseLines
    BY LineTypes
  <2>2. DataFrame(text) = <<DataLine(text), Blank>>
    BY DEF DataFrame, DataLine
  <2>3. DataFrame(text) \in Seq(SseLines)
    BY <2>1, <2>2
  <2> QED
    BY <2>3
<1>5. /\ wire' = wire \o frame /\ said' = Append(said, text) /\ pieces' = Tail(pieces)
      /\ messages' = messages /\ streaming' = streaming /\ error' = error /\ buffer' = buffer
      /\ closed' = closed /\ outcome' = outcome
  BY <1>2, <1>4 DEF PassOn
<1>6. ConvTyped'
  BY <1>1, <1>3, <1>4, <1>5 DEF ConvTyped
<1>7. Answering'
  <2>1. PICK rest \in Seq(Texts) : said = messages[Len(messages)].content \o rest /\ Framed(buffer \o wire, rest, End)
    BY <1>1 DEF Answering
  <2>2. PICK content \in Seq(Texts) : content = messages[Len(messages)].content
    <3>1. messages[Len(messages)] \in Messages
      BY <1>1 DEF ConvTyped, Answering
    <3> QED
      BY <3>1 DEF Messages
  <2>3. PICK lines \in Seq(SseLines) : lines = buffer \o wire
    <3>1. buffer \in Seq(SseLines) /\ wire \in Seq(SseLines)
      BY <1>1 DEF ConvTyped
    <3> QED
      BY <3>1, ConcatFacts
  <2>4. Framed(lines, rest, "open")
    BY <1>1, <2>1, <2>3, EndType
  <2>5. Framed(lines \o frame, Append(rest, text), "open")
    BY <1>4, <2>4, FramedMore
  <2>6. buffer' \o wire' = lines \o frame
    <3>1. buffer \in Seq(SseLines) /\ wire \in Seq(SseLines)
      BY <1>1 DEF ConvTyped
    <3>2. buffer \o (wire \o frame) = (buffer \o wire) \o frame
      BY <3>1, ConcatFacts
    <3> QED
      BY <1>5, <2>3, <3>2
  <2>7. said' = content \o Append(rest, text)
    <3>1. said = content \o rest
      BY <2>1, <2>2
    <3>2. content \o Append(rest, text) = Append(content \o rest, text)
      BY ConcatFacts
    <3> QED
      BY <1>5, <3>1, <3>2
  <2>8. Append(rest, text) \in Seq(Texts)
    OBVIOUS
  <2>9. End' = "open"
    BY <1>1, <1>5 DEF End
  <2>10. \E more \in Seq(Texts) : said' = messages'[Len(messages')].content \o more /\ Framed(buffer' \o wire', more, End')
    BY <1>5, <2>2, <2>5, <2>6, <2>7, <2>8, <2>9
  <2> QED
    BY <1>1, <1>5, <2>10 DEF Answering
<1> QED
  BY <1>1, <1>5, <1>6, <1>7 DEF ConvInv

(* The response ends. *)
LEMMA FinishStep ==
    ASSUME ConvInv, Finish
    PROVE  ConvInv'
<1>1. /\ streaming /\ closed = "open" /\ pieces = <<>> /\ ConvTyped /\ Answering
  BY DEF Finish, ConvInv
<1>2. /\ closed' = "ended" /\ messages' = messages /\ streaming' = streaming /\ error' = error /\ buffer' = buffer
      /\ pieces' = pieces /\ outcome' = outcome /\ said' = said
  BY DEF Finish
<1>3. DoneFrame \in Seq(SseLines) /\ ErrorFrame \in Seq(SseLines)
  <2>1. Blank \in SseLines /\ ErrorEvent \in SseLines /\ ErrorLine \in SseLines /\ DoneLine \in SseLines
    BY LineTypes
  <2>2. DoneFrame = <<DoneLine, Blank>> /\ ErrorFrame = <<ErrorEvent, ErrorLine, Blank>>
    BY DEF DoneFrame, ErrorFrame, DoneLine, ErrorEvent, ErrorLine
  <2> QED
    BY <2>1, <2>2
<1>4. PICK last \in Seq(SseLines) : last = IF outcome = "raises" THEN ErrorFrame \o DoneFrame ELSE DoneFrame
  <2>1. ErrorFrame \o DoneFrame \in Seq(SseLines)
    BY <1>3, ConcatFacts
  <2> QED
    BY <1>3, <2>1
<1>5. wire' = wire \o last
  <2>1. <<>> \o DoneFrame = DoneFrame
    BY <1>3
  <2>2. wire \in Seq(SseLines)
    BY <1>1 DEF ConvTyped
  <2>3. wire \o (ErrorFrame \o DoneFrame) = (wire \o ErrorFrame) \o DoneFrame /\ wire \o <<>> = wire
    BY <1>3, <2>2
  <2>4. CASE outcome = "raises"
    BY <1>4, <2>3, <2>4 DEF Finish
  <2>5. CASE outcome # "raises"
    BY <1>4, <2>1, <2>3, <2>5 DEF Finish
  <2> QED
    BY <2>4, <2>5
<1>6. ConvTyped'
  BY <1>1, <1>2, <1>4, <1>5 DEF ConvTyped
<1>7. Answering'
  <2>1. PICK rest \in Seq(Texts) : said = messages[Len(messages)].content \o rest /\ Framed(buffer \o wire, rest, End)
    BY <1>1 DEF Answering
  <2>3. PICK lines \in Seq(SseLines) : lines = buffer \o wire
    <3>1. buffer \in Seq(SseLines) /\ wire \in Seq(SseLines)
      BY <1>1 DEF ConvTyped
    <3> QED
      BY <3>1, ConcatFacts
  <2>4. Framed(lines, rest, "open")
    BY <1>1, <2>1, <2>3, EndType
  <2>5. Framed(lines \o last, rest, outcome)
    <3>1. outcome \in {"ends", "raises"}
      BY <1>1 DEF ConvTyped
    <3> QED
      BY <1>4, <2>4, <3>1, FramedMore
  <2>6. buffer' \o wire' = lines \o last
    <3>1. buffer \in Seq(SseLines) /\ wire \in Seq(SseLines)
      BY <1>1 DEF ConvTyped
    <3>2. buffer \o (wire \o last) = (buffer \o wire) \o last
      BY <3>1, ConcatFacts
    <3> QED
      BY <1>2, <1>5, <2>3, <3>2
  <2>9. End' = outcome
    BY <1>2 DEF End
  <2>10. \E more \in Seq(Texts) : said' = messages'[Len(messages')].content \o more /\ Framed(buffer' \o wire', more, End')
    BY <1>2, <2>1, <2>5, <2>6, <2>9
  <2> QED
    BY <1>1, <1>2, <2>10 DEF Answering
<1> QED
  BY <1>1, <1>2, <1>6, <1>7 DEF ConvInv

(* The response breaks. *)
LEMMA BreakStep ==
    ASSUME ConvInv, Break
    PROVE  ConvInv'
<1>1. /\ streaming /\ closed = "open" /\ ConvTyped /\ Answering
  BY DEF Break, ConvInv
<1>2. /\ closed' = "broken" /\ messages' = messages /\ streaming' = streaming /\ error' = error /\ buffer' = buffer
      /\ pieces' = pieces /\ outcome' = outcome /\ said' = said
  BY DEF Break
<1>3. PICK n \in 0 .. Len(wire) : wire' = SubSeq(wire, 1, n)
  BY DEF Break
<1>4. wire' \in Seq(SseLines)
  BY <1>1, <1>3 DEF ConvTyped
<1>6. ConvTyped'
  BY <1>1, <1>2, <1>4 DEF ConvTyped
<1>7. Answering'
  <2>1. PICK rest \in Seq(Texts) : said = messages[Len(messages)].content \o rest /\ Framed(buffer \o wire, rest, End)
    BY <1>1 DEF Answering
  <2>2. buffer \in Seq(SseLines) /\ wire \in Seq(SseLines)
    BY <1>1 DEF ConvTyped
  <2>3. Framed(buffer \o wire, rest, "open")
    BY <1>1, <2>1, EndType
  <2>4. Framed(buffer \o SubSeq(wire, 1, n), rest, "broken")
    BY <2>2, <2>3, FramedBroken
  <2>5. End' = "broken"
    BY <1>2 DEF End
  <2>6. \E more \in Seq(Texts) : said' = messages'[Len(messages')].content \o more /\ Framed(buffer' \o wire', more, End')
    BY <1>2, <1>3, <2>1, <2>4, <2>5
  <2> QED
    BY <1>1, <1>2, <2>6 DEF Answering
<1> QED
  BY <1>1, <1>2, <1>6, <1>7 DEF ConvInv

(* A sequence cut in two. *)
LEMMA SplitAt ==
    ASSUME NEW S, NEW seq \in Seq(S), NEW j \in 0 .. Len(seq)
    PROVE  /\ SubSeq(seq, 1, j) \in Seq(S) /\ Len(SubSeq(seq, 1, j)) = j
           /\ SubSeq(seq, j + 1, Len(seq)) \in Seq(S) /\ Len(SubSeq(seq, j + 1, Len(seq))) = Len(seq) - j
           /\ \A i \in 1 .. Len(seq) - j : SubSeq(seq, j + 1, Len(seq))[i] = seq[j + i]
           /\ SubSeq(seq, 1, j) \o SubSeq(seq, j + 1, Len(seq)) = seq
<1>1. PICK l \in Nat : l = Len(seq) /\ j \in Nat /\ j <= l
  OBVIOUS
<1>2. PICK a : a = SubSeq(seq, 1, j)
  OBVIOUS
<1>3. PICK b : b = SubSeq(seq, j + 1, l)
  OBVIOUS
<1>4. a \in Seq(S) /\ Len(a) = j /\ \A i \in 1 .. j : a[i] = seq[i]
  BY <1>1, <1>2
<1>5. b \in Seq(S) /\ Len(b) = l - j /\ \A i \in 1 .. l - j : b[i] = seq[j + i]
  <2>1. PICK m \in Nat : m = j + 1 /\ m <= l + 1 /\ m >= 1
    BY <1>1
  <2>2. b = SubSeq(seq, m, l)
    BY <1>3, <2>1
  <2>3. Len(b) = l - m + 1 /\ b \in Seq(S) /\ \A i \in 1 .. l - m + 1 : b[i] = seq[m + i - 1]
    BY <1>1, <2>1, <2>2
  <2>4. l - m + 1 = l - j /\ \A i \in 1 .. l - j : m + i - 1 = j + i
    BY <1>1, <2>1
  <2> QED
    BY <2>3, <2>4
<1>6. a \o b = seq
  <2>1. PICK c : c = a \o b
    OBVIOUS
  <2>2. /\ c \in Seq(S) /\ Len(c) = l
        /\ \A i \in 1 .. j : c[i] = a[i]
        /\ \A i \in 1 .. l - j : c[j + i] = b[i]
    BY <1>1, <1>4, <1>5, <2>1
  <2>3. ASSUME NEW i \in 1 .. l
        PROVE  c[i] = seq[i]
    <3>1. CASE i <= j
      BY <1>1, <1>4, <2>2, <3>1
    <3>2. CASE i > j
      <4>1. i - j \in 1 .. l - j /\ j + (i - j) = i
        BY <1>1, <3>2
      <4> QED
        BY <1>5, <2>2, <4>1
    <3> QED
      BY <1>1, <3>1, <3>2
  <2>4. c = seq
    BY <1>1, <2>2, <2>3
  <2> QED
    BY <2>1, <2>4
<1> QED
  BY <1>1, <1>2, <1>3, <1>4, <1>5, <1>6

\* lines, the first n of after behind before, are taken at b: the rest stays.
Joined(before, after, n, lines, all, b) ==
    /\ Len(lines) = Len(before) + n /\ Len(all) = Len(before) + Len(after)
    /\ \A i \in 1 .. Len(lines) : lines[i] = all[i]
    /\ SubSeq(lines, 1, b) = SubSeq(all, 1, b)
    /\ SubSeq(lines, b + 1, Len(lines)) \o SubSeq(after, n + 1, Len(after)) = SubSeq(all, b + 1, Len(all))

(* What a portion leaves unhandled goes on where its handled lines stopped. *)
LEMMA PortionsJoined ==
    ASSUME NEW S, NEW before \in Seq(S), NEW after \in Seq(S), NEW n \in 0 .. Len(after),
           NEW lines, lines = before \o SubSeq(after, 1, n), NEW all, all = before \o after,
           NEW b \in 0 .. Len(lines)
    PROVE  Joined(before, after, n, lines, all, b)
<1>1. PICK l \in Nat, k \in Nat : l = Len(before) /\ k = Len(after)
  OBVIOUS
<1>2. /\ lines \in Seq(S) /\ all \in Seq(S) /\ Len(lines) = l + n /\ Len(all) = l + k
      /\ \A i \in 1 .. l : lines[i] = before[i] /\ all[i] = before[i]
      /\ \A i \in 1 .. n : lines[l + i] = after[i]
      /\ \A i \in 1 .. k : all[l + i] = after[i]
  BY <1>1
<1>3. \A i \in 1 .. l + n : lines[i] = all[i]
  <2> SUFFICES ASSUME NEW i \in 1 .. l + n PROVE lines[i] = all[i]
    OBVIOUS
  <2>1. CASE i <= l
    BY <1>2, <2>1
  <2>2. CASE i > l
    <3>1. i - l \in 1 .. n /\ i - l \in 1 .. k /\ l + (i - l) = i
      BY <1>1, <2>2
    <3>2. lines[l + (i - l)] = after[i - l] /\ all[l + (i - l)] = after[i - l]
      BY <1>2, <3>1
    <3> QED
      BY <3>1, <3>2
  <2>3. i <= l \/ i > l
    BY <1>1
  <2> QED
    BY <2>1, <2>2, <2>3
<1>4. SubSeq(lines, 1, b) = SubSeq(all, 1, b)
  BY <1>1, <1>2, <1>3
<1>5. SubSeq(lines, b + 1, Len(lines)) \o SubSeq(after, n + 1, Len(after)) = SubSeq(all, b + 1, Len(all))
  <2>0. b \in Nat /\ b <= l + n /\ n <= k
    BY <1>1, <1>2
  <2>1. PICK kept : kept = SubSeq(lines, b + 1, l + n)
    OBVIOUS
  <2>2. kept \in Seq(S) /\ Len(kept) = l + n - b /\ \A i \in 1 .. l + n - b : kept[i] = lines[b + i]
    <3>1. b \in 0 .. Len(lines) /\ Len(lines) = l + n
      BY <1>2, <2>0
    <3>2. kept = SubSeq(lines, b + 1, Len(lines))
      BY <2>1, <3>1
    <3>3. kept \in Seq(S) /\ Len(kept) = Len(lines) - b /\ \A i \in 1 .. Len(lines) - b : kept[i] = lines[b + i]
      BY ONLY <1>2, <3>1, <3>2, SplitAt
    <3>4. Len(lines) - b = l + n - b
      BY <3>1
    <3> QED
      BY <3>3, <3>4
  <2>3. PICK left : left = SubSeq(after, n + 1, k)
    OBVIOUS
  <2>4. left \in Seq(S) /\ Len(left) = k - n /\ \A i \in 1 .. k - n : left[i] = after[n + i]
    BY <1>1, <2>0, <2>3
  <2>5. PICK rest : rest = SubSeq(all, b + 1, l + k)
    OBVIOUS
  <2>6. rest \in Seq(S) /\ Len(rest) = l + k - b /\ \A i \in 1 .. l + k - b : rest[i] = all[b + i]
    <3>1. b \in 0 .. Len(all) /\ Len(all) = l + k
      BY <1>2, <2>0
    <3>2. rest = SubSeq(all, b + 1, Len(all))
      BY <2>5, <3>1
    <3>3. rest \in Seq(S) /\ Len(rest) = Len(all) - b /\ \A i \in 1 .. Len(all) - b : rest[i] = all[b + i]
      BY ONLY <1>2, <3>1, <3>2, SplitAt
    <3>4. Len(all) - b = l + k - b
      BY <3>1
    <3> QED
      BY <3>3, <3>4
  <2>7. PICK joined : joined = kept \o left
    OBVIOUS
  <2>8. /\ joined \in Seq(S) /\ Len(joined) = l + k - b
        /\ \A i \in 1 .. l + n - b : joined[i] = kept[i]
        /\ \A i \in 1 .. k - n : joined[l + n - b + i] = left[i]
    <3>1. PICK x \in Nat, y \in Nat : x = l + n - b /\ y = k - n
      BY <2>0
    <3>2. x + y = l + k - b
      BY <2>0, <3>1
    <3>3. /\ joined \in Seq(S) /\ Len(joined) = x + y
          /\ \A i \in 1 .. x : joined[i] = kept[i]
          /\ \A i \in 1 .. y : joined[x + i] = left[i]
      <4>1. Len(kept) = x /\ Len(left) = y /\ kept \in Seq(S) /\ left \in Seq(S)
        BY <2>2, <2>4, <3>1
      <4>2. /\ joined \in Seq(S) /\ Len(joined) = Len(kept) + Len(left)
            /\ \A i \in 1 .. Len(kept) : joined[i] = kept[i]
            /\ \A i \in 1 .. Len(left) : joined[Len(kept) + i] = left[i]
        <5>1. kept \in Seq(S)
          BY <4>1
        <5>2. left \in Seq(S)
          BY <4>1
        <5>3. joined = kept \o left
          BY <2>7
        <5> QED
          BY ONLY <5>1, <5>2, <5>3
      <4> QED
        BY ONLY <4>1, <4>2
    <3> QED
      BY <3>1, <3>2, <3>3
  <2>9. ASSUME NEW i \in 1 .. l + k - b
        PROVE  joined[i] = rest[i]
    <3>1. CASE i <= l + n - b
      <4>1. i \in 1 .. l + n - b /\ b + i \in 1 .. l + n
        BY <2>0, <3>1
      <4>2. joined[i] = lines[b + i]
        BY <2>2, <2>8, <4>1
      <4> QED
        BY <1>3, <2>6, <4>1, <4>2
    <3>2. CASE i > l + n - b
      <4>1. PICK j \in 1 .. k - n : i = l + n - b + j
        <5>1. i - (l + n - b) \in 1 .. k - n /\ i = l + n - b + (i - (l + n - b))
          BY <2>0, <3>2
        <5> QED
          BY <5>1
      <4>2. joined[i] = after[n + j]
        BY <2>4, <2>8, <4>1
      <4>3. n + j \in 1 .. k /\ b + i = l + (n + j)
        BY <2>0, <4>1
      <4>4. all[b + i] = after[n + j]
        BY <1>2, <4>3
      <4> QED
        BY <2>6, <4>2, <4>4
    <3> QED
      BY <2>0, <3>1, <3>2
  <2>10. joined = rest
    BY <2>6, <2>8, <2>9
  <2> QED
    BY <1>1, <1>2, <2>1, <2>3, <2>5, <2>7, <2>10
<1> QED
  BY <1>1, <1>2, <1>3, <1>4, <1>5 DEF Joined

(* The end of the response is read. *)
LEMMA ReadEndStep ==
    ASSUME ConvInv, ReadEnd
    PROVE  ConvInv'
<1>1. /\ streaming /\ wire = <<>> /\ closed # "open" /\ ConvTyped /\ Answering
  BY DEF ReadEnd, ConvInv
<1>2. PICK content \in Seq(Texts) : content = messages[Len(messages)].content
  <2>1. messages[Len(messages)] \in Messages
    BY <1>1 DEF ConvTyped, Answering
  <2> QED
    BY <2>1 DEF Messages
<1>3. PICK rest \in Seq(Texts) : said = content \o rest /\ Framed(buffer \o wire, rest, End)
  BY <1>1, <1>2 DEF Answering
<1>4. buffer \in Seq(SseLines) /\ buffer \o wire = buffer /\ NoBlank(buffer)
  BY <1>1 DEF ConvTyped, Answering
<1>5. closed = "broken"
  <2> SUFFICES ASSUME closed # "broken" PROVE FALSE
    OBVIOUS
  <2>1. End \in {"ends", "raises"}
    BY <1>1, EndType DEF Ends
  <2>2. PICK d \in Nat : d = Len(rest)
    OBVIOUS
  <2>3. Framed(buffer, rest, End)
    BY <1>3, <1>4
  <2>4. CASE End = "ends"
    <3>1. Len(buffer) = 2 * d + 2 /\ buffer[2 * d + 2] = Blank
      BY <2>2, <2>3, <2>4 DEF Framed
    <3>2. 2 * d + 2 \in DOMAIN buffer
      BY <1>4, <3>1
    <3> QED
      BY <1>4, <3>1, <3>2 DEF NoBlank
  <2>5. CASE End = "raises"
    <3>1. Len(buffer) = 2 * d + 5 /\ buffer[2 * d + 3] = Blank
      BY <2>2, <2>3, <2>5 DEF Framed
    <3>2. 2 * d + 3 \in DOMAIN buffer
      BY <1>4, <3>1
    <3> QED
      BY <1>4, <3>1, <3>2 DEF NoBlank
  <2> QED
    BY <2>1, <2>4, <2>5
<1>6. IsPrefix(content, said)
  BY <1>3, PrefixOfConcat
<1>7. Settle(content, TRUE)
  BY <1>2, <1>5 DEF ReadEnd, Last
<1>8. /\ buffer' \in Seq(SseLines) /\ wire' \in Seq(SseLines) /\ UNCHANGED <<closed, pieces, outcome, said>>
  BY <1>1 DEF ReadEnd, ConvTyped
<1> QED
  BY <1>1, <1>5, <1>6, <1>7, <1>8, Settled

(* A portion of the response is read. *)
LEMMA ReadPortionStep ==
    ASSUME ConvInv, ReadPortion
    PROVE  ConvInv'
<1>1. streaming /\ ConvTyped /\ Answering /\ UNCHANGED <<closed, pieces, outcome, said>>
  BY DEF ReadPortion, ConvInv
<1>2. buffer \in Seq(SseLines) /\ wire \in Seq(SseLines)
  BY <1>1 DEF ConvTyped
<1>3. PICK old \in Seq(Texts) : old = messages[Len(messages)].content
  <2>1. messages[Len(messages)] \in Messages
    BY <1>1 DEF ConvTyped, Answering
  <2> QED
    BY <2>1 DEF Messages
<1>4. PICK rest \in Seq(Texts) : said = old \o rest /\ Framed(buffer \o wire, rest, End)
  BY <1>1, <1>3 DEF Answering
<1>5. PICK n \in 1 .. Len(wire) :
        LET lines == buffer \o SubSeq(wire, 1, n)
            handled == Folded(HandleLines, NoLineYet, SubSeq(lines, 1, LastBlank(lines)))
            content == Last(messages).content \o handled.content
        IN  /\ wire' = SubSeq(wire, n + 1, Len(wire))
            /\ buffer' = Kept(lines)
            /\ IF handled.at = "going on"
               THEN messages' = AnswerSays(content) /\ UNCHANGED <<streaming, error>>
               ELSE Settle(content, handled.at = "thrown")
  BY DEF ReadPortion
<1>6. PICK lines : lines = buffer \o SubSeq(wire, 1, n)
  OBVIOUS
<1>7. PICK all : all = buffer \o wire
  OBVIOUS
<1>8. PICK b : b = LastBlank(lines)
  OBVIOUS
<1>9. PICK handled : handled = Folded(HandleLines, NoLineYet, SubSeq(lines, 1, b))
  OBVIOUS
<1>10. /\ wire' = SubSeq(wire, n + 1, Len(wire)) /\ buffer' = SubSeq(lines, b + 1, Len(lines))
       /\ handled.at = "going on" => messages' = AnswerSays(old \o handled.content) /\ UNCHANGED <<streaming, error>>
       /\ handled.at # "going on" => Settle(old \o handled.content, handled.at = "thrown")
  BY <1>3, <1>5, <1>6, <1>8, <1>9 DEF Last, Kept
<1>11. lines \in Seq(SseLines) /\ n \in 0 .. Len(wire)
  BY <1>2, <1>6, ConcatFacts
<1>12. /\ b \in 0 .. Len(lines) /\ (b > 0 => lines[b] = Blank)
       /\ \A i \in b + 1 .. Len(lines) : lines[i] # Blank
  BY <1>8, <1>11, LastBlankFound
<1>13. /\ all \in Seq(SseLines) /\ Len(lines) = Len(buffer) + n /\ Len(all) = Len(buffer) + Len(wire)
       /\ \A i \in 1 .. Len(lines) : lines[i] = all[i]
       /\ SubSeq(lines, 1, b) = SubSeq(all, 1, b)
       /\ SubSeq(lines, b + 1, Len(lines)) \o SubSeq(wire, n + 1, Len(wire)) = SubSeq(all, b + 1, Len(all))
  <2>1. all \in Seq(SseLines)
    BY <1>2, <1>7, ConcatFacts
  <2>2. Joined(buffer, wire, n, lines, all, b)
    BY ONLY <1>2, <1>6, <1>7, <1>11, <1>12, PortionsJoined
  <2> QED
    BY <2>1, <2>2 DEF Joined
<1>p. buffer' \o wire' = SubSeq(all, b + 1, Len(all))
  BY <1>10, <1>13
<1>14. b \in 0 .. Len(all) /\ (b > 0 => all[b] = Blank)
  <2>1. b \in Nat /\ b <= Len(lines) /\ n \in Nat /\ n <= Len(wire) /\ Len(buffer) \in Nat /\ Len(wire) \in Nat
    BY <1>2, <1>11, <1>12, <1>13
  <2>2. b <= Len(all) /\ Len(all) \in Nat
    BY <1>13, <2>1
  <2>3. b > 0 => b \in 1 .. Len(lines)
    BY <1>12
  <2> QED
    BY <1>12, <1>13, <2>1, <2>2, <2>3
<1>15. End \in Ends /\ Framed(all, rest, End)
  BY <1>1, <1>4, <1>7, EndType
<1>16. CameTo(rest, End, b, handled)
  BY <1>9, <1>13, <1>14, <1>15, FramesHandled
<1>e. PICK end \in Ends : end = End
  BY <1>15
<1>f. Framed(all, rest, end) /\ CameTo(rest, end, b, handled)
  BY <1>15, <1>16, <1>e
<1>17. \/ \E j \in 0 .. Len(rest) : b = 2 * j /\ handled.at = "going on" /\ handled.content = SubSeq(rest, 1, j)
       \/ End = "ends" /\ handled.at = "returned" /\ handled.content = rest
       \/ End = "raises" /\ handled.at = "thrown" /\ handled.content = rest
  <2>1. FramesTell(rest, end, b, handled)
    <3>1. all \in Seq(SseLines)
      BY <1>13
    <3>2. b \in 0 .. Len(all)
      BY <1>14
    <3>3. b > 0 => all[b] = Blank
      BY <1>14
    <3>4. end \in Ends /\ rest \in Seq(Texts)
      BY <1>e
    <3> QED
      BY ONLY <1>f, <3>1, <3>2, <3>3, <3>4, FramesCameTo
  <2> QED
    BY <1>e, <2>1 DEF FramesTell
<1>18. buffer' \in Seq(SseLines) /\ wire' \in Seq(SseLines)
  BY <1>2, <1>10, <1>11, <1>12, SplitAt
<1>19. ASSUME NEW j \in 0 .. Len(rest), b = 2 * j, handled.at = "going on", handled.content = SubSeq(rest, 1, j)
       PROVE  ConvInv'
  <2>1. PICK told \in Seq(Texts) : told = SubSeq(rest, 1, j)
    BY SplitAt
  <2>2. PICK left \in Seq(Texts) : left = SubSeq(rest, j + 1, Len(rest))
    BY SplitAt
  <2>3. told \o left = rest
    BY <2>1, <2>2, SplitAt
  <2>4. PICK content \in Seq(Texts) : content = old \o told
    BY ConcatFacts
  <2>5. said = content \o left
    <3>1. old \o (told \o left) = (old \o told) \o left
      BY ConcatFacts
    <3> QED
      BY <1>4, <2>3, <2>4, <3>1
  <2>6. messages' = AnswerSays(content) /\ streaming' = streaming /\ error' = error
    BY <1>10, <1>19, <2>1, <2>4
  <2>7. Len(messages) >= 2 /\ messages \in Seq(Messages)
    BY <1>1 DEF ConvTyped, Answering
  <2>8. /\ messages' \in Seq(Messages) /\ Len(messages') = Len(messages)
        /\ messages'[Len(messages)].role = messages[Len(messages)].role
        /\ messages'[Len(messages)].content = content
        /\ messages'[Len(messages) - 1] = messages[Len(messages) - 1]
    <3>1. Len(messages) - 1 \in 1 .. Len(messages) /\ Len(messages) - 1 # Len(messages) /\ Len(messages) >= 1
      BY <2>7
    <3> QED
      BY <2>6, <2>7, <3>1, AnswerSet
  <2>9. ConvTyped'
    BY <1>1, <1>18, <2>6, <2>8 DEF ConvTyped
  <2>10. Framed(buffer' \o wire', left, End')
    <3>1. 2 * j <= Len(all)
      <4>1. b = 2 * j
        BY <1>19
      <4>2. b <= Len(all)
        BY <1>14
      <4> QED
        BY ONLY <4>1, <4>2
    <3>2. Framed(SubSeq(all, 2 * j + 1, Len(all)), left, End)
      BY <1>13, <1>15, <2>2, <3>1, FramedRest
    <3>3. End' = End
      BY <1>1 DEF End
    <3> QED
      BY <1>p, <1>19, <3>2, <3>3
  <2>11. NoBlank(buffer')
    <3>1. PICK kept : kept = buffer'
      OBVIOUS
    <3>2. kept = SubSeq(lines, b + 1, Len(lines))
      BY <1>10, <3>1
    <3>3. \A i \in DOMAIN kept : b + i \in b + 1 .. Len(lines) /\ kept[i] = lines[b + i]
      BY <1>11, <1>12, <3>2
    <3> QED
      BY <1>12, <3>1, <3>3 DEF NoBlank
  <2>12. \E more \in Seq(Texts) : /\ said' = messages'[Len(messages')].content \o more
                                 /\ Framed(buffer' \o wire', more, End')
    BY <1>1, <2>5, <2>8, <2>10
  <2>13. Answering'
    BY <1>1, <2>6, <2>7, <2>8, <2>11, <2>12 DEF Answering
  <2> QED
    BY <1>1, <2>6, <2>9, <2>13 DEF ConvInv
<1>20. ASSUME handled.content = rest, handled.at # "going on", closed = "ended",
              handled.at # "thrown" => outcome = "ends", handled.at = "thrown" => outcome = "raises"
       PROVE  ConvInv'
  <2>1. said \in Seq(Texts) /\ IsPrefix(said, said)
    BY <1>1 DEF ConvTyped, IsPrefix
  <2>2. PICK thrown \in BOOLEAN : thrown = (handled.at = "thrown")
    OBVIOUS
  <2>3. Settle(said, thrown)
    BY <1>4, <1>10, <1>20, <2>2
  <2>4. closed # "open"
    BY <1>20
  <2>5. /\ ~thrown => closed = "ended" /\ outcome = "ends" /\ said = said
        /\ thrown => closed = "broken" \/ outcome = "raises"
    BY <1>20, <2>2
  <2> QED
    BY <1>1, <1>18, <2>1, <2>3, <2>4, <2>5, Settled
<1>21. CASE End = "ends" /\ handled.at = "returned" /\ handled.content = rest
  <2>1. closed = "ended" /\ outcome = "ends" /\ handled.at # "going on" /\ handled.at # "thrown"
    BY <1>1, <1>21, EndType
  <2> QED
    BY <1>20, <1>21, <2>1
<1>22. CASE End = "raises" /\ handled.at = "thrown" /\ handled.content = rest
  <2>1. closed = "ended" /\ outcome = "raises" /\ handled.at # "going on"
    BY <1>1, <1>22, EndType
  <2> QED
    BY <1>20, <1>22, <2>1
<1> QED
  BY <1>17, <1>19, <1>21, <1>22

(* The chat shows what was said, and what went wrong, whatever the provider *)
(* may say and however the connection cuts it up.                           *)
THEOREM ChatSoundCorrect == ConvSpec => []ChatSound
<1>1. ConvInit => ConvInv
  <2> SUFFICES ASSUME ConvInit PROVE ConvInv
    OBVIOUS
  <2>1. ConvTyped
    <3>1. <<>> \in Seq(Messages) /\ <<>> \in Seq(SseLines) /\ <<>> \in Seq(Texts)
      OBVIOUS
    <3> QED
      BY <3>1 DEF ConvInit, ConvTyped
  <2>2. IsPrefix(<<>>, <<>>)
    BY DEF IsPrefix
  <2>3. ChatSound
    BY <2>2 DEF ConvInit, ChatSound, AnswerFaithful, NoEmptyFailure, Shown
  <2> QED
    BY <2>1, <2>3 DEF ConvInv, Answering, ConvInit
<1>2. ConvInv /\ [ConvNext]_convVars => ConvInv'
  <2> SUFFICES ASSUME ConvInv, [ConvNext]_convVars PROVE ConvInv'
    OBVIOUS
  <2>1. ASSUME NEW provider \in Providers, NEW reply \in ChatReplies, NEW ends \in {"ends", "raises"}, Send(provider, reply, ends)
        PROVE  ConvInv'
    BY <2>1, SendStep
  <2>2. CASE PassOn
    BY <2>2, PassOnStep
  <2>3. CASE Finish
    BY <2>3, FinishStep
  <2>4. CASE Break
    BY <2>4, BreakStep
  <2>5. CASE ReadPortion
    BY <2>5, ReadPortionStep
  <2>6. CASE ReadEnd
    BY <2>6, ReadEndStep
  <2>7. CASE UNCHANGED convVars
    BY <2>7 DEF convVars, ConvInv, ConvTyped, Answering, ChatSound, AnswerFaithful, NoEmptyFailure, Shown, End
  <2> QED
    BY <2>1, <2>2, <2>3, <2>4, <2>5, <2>6, <2>7 DEF ConvNext
<1>3. ConvInv => ChatSound
  BY SoundWhileStreaming DEF ConvInv, ConvTyped
<1> QED
  BY <1>1, <1>2, <1>3, PTL DEF ConvSpec
=============================================================================
