--------------------------- MODULE RequestParser ---------------------------
(***************************************************************************)
(* WebThread::parseStream (engine/webthread.cpp): a request comes in by    *)
(* pieces, and is cut to its parts in the buffer it was read into: a part  *)
(* is the position of its first byte, and a zero is written behind it.     *)
(* What stays abstract is the answer (outcome): refused, a page that sets  *)
(* a cookie, or a call of processWeb.                                      *)
(*                                                                         *)
(* A client sends one of Requests, and may go away at any time.  The name  *)
(* of a header and the method that matter are parameters; their texts are  *)
(* shorter than the code's when TLC runs.                                  *)
(***************************************************************************)
EXTENDS UriEncoding, FiniteSetsExt

CONSTANTS Requests,                         \* see Request below
          BufferSize,                       \* BUFFSIZE
          StaleByte,                        \* in the buffer, of requests before
          Post, ContentLength, Cookie, Session     \* texts

\* Positions in the buffer count from 1.
NULL == 0

NewLine  == 10
Return   == 13
Eol      == {NewLine, Return}
Question == 63
Equal    == 61
And      == 38
Colon    == 58
Dot      == 46
Slash    == 47

VARIABLES request, wire,      \* what the client sends, and its bytes
          buffer, length,     \* _buffer, and how much of it has been read
          phase,              \* "header", "body", "answer", "done"
          state, i,           \* of the automaton
          syntaxError,
          fileName, lastName, lastValue,
          params, fields,     \* sequences of pairs of positions
          responseSize,       \* bytes of the body still to come
          outcome

pointers == <<fileName, lastName, lastValue>>
lists    == <<params, fields>>
client   == <<request, wire>>
vars == <<request, wire, buffer, length, phase, state, i, syntaxError, fileName,
          lastName, lastValue, params, fields, responseSize, outcome>>

-----------------------------------------------------------------------------
(* The request on the wire.  A request has a method, a file, parameters    *)
(* and a body (pairs of name and value), fields (pairs or, without colon,  *)
(* a name alone), and the session that its fields give, or NULL.  Values   *)
(* of parameters are escaped by dispatcher.js, those of a body by the      *)
(* form; a version of <<>> makes it a "simple HTTP request", whose last    *)
(* parameter may be a name alone.  A file of <<>> is one that is missing.  *)

Pairs(list, between, Enc(_)) ==
  FlattenSeq([k \in DOMAIN list |->
                (IF k > 1 THEN <<between>> ELSE <<>>)
                \o Enc(list[k][1])
                \o (IF Len(list[k]) = 2 THEN <<Equal>> \o Enc(list[k][2]) ELSE <<>>)])

Escaped(value) == JsEscape(JsEncodeURIComponent(value))

Header(r) ==
  LET query   == IF r.params = <<>> THEN <<>>
                 ELSE <<Question>> \o Pairs(r.params, And, Escaped)
      version == IF r.version = <<>> THEN <<>> ELSE <<Space>> \o r.version
      Field(f) == f[1] \o (IF Len(f) = 2 THEN <<Colon>> \o f[2] ELSE <<>>) \o r.eol
  IN r.method \o (IF r.file = <<>> THEN <<>> ELSE <<Space>>) \o r.file \o query \o version \o r.eol
     \o (IF r.version = <<>> THEN <<>>
         ELSE FlattenSeq([k \in DOMAIN r.fields |-> Field(r.fields[k])]) \o r.eol)

Wire(r) == Header(r) \o Pairs(r.body, And, FormEncoded)

-----------------------------------------------------------------------------
(* Reading the buffer.                                                     *)

\* the text that starts at p
TextIn(buf, p) == SubSeq(buf, p, SelectInSubSeq(buf, p, Len(buf), LAMBDA b : b = 0) - 1)
Text(p) == TextIn(buffer, p)

\* atol: spaces, then digits
Number(text) ==
  LET first == Min({k \in 1..Len(text) + 1 : k > Len(text) \/ text[k] # Space})
      stop  == Min({k \in first..Len(text) + 1 : k > Len(text) \/ text[k] \notin Digits})
      value[k \in first - 1..stop - 1] ==
        IF k < first THEN 0 ELSE 10 * value[k - 1] + text[k] - 48
  IN value[stop - 1]

\* the first field of that name
FieldsNamed(name) == {k \in DOMAIN fields : Text(fields[k][1]) = name}

Body == LET found == FieldsNamed(ContentLength)
        IN IF found = {} THEN 0 ELSE Number(Text(fields[Min(found)][2]))

\* strstr: a cookie with a session
HasSession(text) == \E k \in DOMAIN text : IsPrefix(Session, SubSeq(text, k, Len(text)))

SessionFields == {k \in FieldsNamed(Cookie) : HasSession(Text(fields[k][2]))}

SessionIn(text) ==
  LET at == Min({k \in DOMAIN text : IsPrefix(Session, SubSeq(text, k, Len(text)))})
  IN Number(SubSeq(text, at + Len(Session), Len(text)))

SessionNumber ==
  IF SessionFields = {} THEN NULL ELSE SessionIn(Text(fields[Min(SessionFields)][2]))

\* urlDecode: the text at p is replaced by a shorter one, and ended
Decoded(buf, p) ==
  LET text == decodeUriComponent(TextIn(buf, p)) \o <<0>>
  IN SubSeq(buf, 1, p - 1) \o text \o SubSeq(buf, p + Len(text), Len(buf))

-----------------------------------------------------------------------------
(* The requests.  In any case, no text has a byte of 0 or an end of line,  *)
(* and a file neither a space nor a question mark.                         *)

TextWithout(bytes) == Seq((1..255) \ bytes)

Lists == {list \in Seq(Seq(Seq(1..255))) : \A k \in DOMAIN list : Len(list[k]) \in {1, 2}}

Readable(r) ==
  /\ r.method \in TextWithout(IF r.file = <<>> THEN Eol ELSE Eol \cup {Space})
  /\ r.file \in TextWithout(Eol \cup {Space, Question})
  /\ r.version \in TextWithout(Eol)
  /\ r.eol \in {<<NewLine>>, <<Return, NewLine>>}
  /\ {r.params, r.body, r.fields} \subseteq Lists

(* The requests of clients that keep to the protocol, too: the parts can be*)
(* told from each other; names of parameters are words of the programs, and*)
(* only the last one of a simple request has no value; forms send pairs    *)
(* with a name and a value, as many bytes as the field says.               *)

\* A request without a file is a word, and perhaps spaces.
WellFormedLine(r) ==
  r.file = <<>> =>
    /\ \A j, k \in DOMAIN r.method : j < k /\ r.method[j] = Space => r.method[k] = Space
    /\ r.params = <<>> /\ r.version = <<>>

WellFormedParams(r) ==
  \A k \in DOMAIN r.params :
    /\ r.params[k][1] \in Seq(Letters \cup Digits)
    /\ Len(r.params[k]) = 1 => k = Len(r.params) /\ r.version = <<>>

Named(list, name) == {k \in DOMAIN list : list[k][1] = name}

WellFormedFields(r) ==
  /\ r.version = <<>> => r.fields = <<>>
  /\ \A k \in DOMAIN r.fields :
       /\ r.fields[k][1] \in TextWithout(Eol \cup {Colon}) \ {<<>>}
       /\ IF Len(r.fields[k]) = 1 THEN r.fields[k][1] \notin {ContentLength, Cookie}
          ELSE r.fields[k][2] \in TextWithout(Eol)
  /\ LET sessions == {k \in Named(r.fields, Cookie) : HasSession(r.fields[k][2])}
     IN r.session = IF sessions = {} THEN NULL ELSE SessionIn(r.fields[Min(sessions)][2])

WellFormedBody(r) ==
  LET sizes == Named(r.fields, ContentLength)
  IN /\ \A k \in DOMAIN r.body : Len(r.body[k]) = 2 /\ r.body[k][1] # <<>>
     /\ IF r.method = Post /\ sizes # {}
        THEN Len(Pairs(r.body, And, FormEncoded)) = Number(r.fields[Min(sizes)][2])
        ELSE r.body = <<>>

WellFormed(r) ==
  /\ Readable(r)
  /\ WellFormedLine(r) /\ WellFormedParams(r) /\ WellFormedFields(r) /\ WellFormedBody(r)

ASSUME ConstantsAssumption ==
  /\ BufferSize \in Nat
  /\ StaleByte \in 0..255
  /\ \A r \in Requests : Readable(r)

ASSUME ProtocolAssumption == \A r \in Requests : WellFormed(r)

-----------------------------------------------------------------------------
Init ==
  /\ request \in Requests
  /\ wire = Wire(request)
  /\ buffer = [k \in 1..BufferSize + 1 |-> StaleByte]
  /\ length = 0
  /\ phase = "header"
  /\ state = 0
  /\ i = 1
  /\ syntaxError = FALSE
  /\ fileName = NULL
  /\ lastName = NULL
  /\ lastValue = NULL
  /\ params = <<>>
  /\ fields = <<>>
  /\ responseSize = 0
  /\ outcome = "none"

\* read() is called when all that has come is used, and the buffer has room.
Reading == /\ i > length
           /\ length < BufferSize
           /\ \/ phase = "header"
              \/ phase = "body" /\ responseSize # 0

\* mutant: one byte more than there is room for
Receive_Overrun ==
  /\ Reading
  /\ \E n \in 1..Min({BufferSize + 1, Len(wire)}) - length :
       /\ buffer' = SubSeq(buffer, 1, length)
                     \o SubSeq(wire, length + 1, length + n)
                     \o SubSeq(buffer, length + n + 1, Len(buffer))
       /\ length' = length + n
  /\ UNCHANGED <<client, phase, state, i, syntaxError, pointers, lists,
                 responseSize, outcome>>

\* read() returns the next n bytes of the request.
Receive ==
  /\ Reading
  /\ \E n \in 1..Min({BufferSize, Len(wire)}) - length :
       /\ buffer' = SubSeq(buffer, 1, length)
                     \o SubSeq(wire, length + 1, length + n)
                     \o SubSeq(buffer, length + n + 1, Len(buffer))
       /\ length' = length + n
  /\ UNCHANGED <<client, phase, state, i, syntaxError, pointers, lists,
                 responseSize, outcome>>

\* read() returns an error, or, in the header, the end of the stream: the
\* connection is closed without an answer.  A body ends with the stream.
Disconnect ==
  /\ Reading
  /\ \/ phase' = "done" /\ outcome' = "dropped"
     \/ phase = "body" /\ phase' = "answer" /\ UNCHANGED outcome
  /\ UNCHANGED <<client, buffer, length, state, i, syntaxError, pointers,
                 lists, responseSize>>

\* The buffer is full, with or without an end of the header or the body.
BufferFull ==
  /\ phase \in {"header", "body"}
  /\ length = BufferSize
  /\ phase = "header" => i > length
  /\ phase' = "answer"
  /\ UNCHANGED <<client, buffer, length, state, i, syntaxError, pointers,
                 lists, responseSize, outcome>>

-----------------------------------------------------------------------------
(* The automaton of the header; a step takes the byte at i.                *)

At(states) == phase = "header" /\ i <= length /\ state \in states

Byte == buffer[i]

Terminate == buffer' = [buffer EXCEPT ![i] = 0]

Go(next) == /\ state' = next
            /\ i' = i + 1
            /\ UNCHANGED <<phase, responseSize, syntaxError>>

Fail == /\ syntaxError' = TRUE
        /\ phase' = "answer"
        /\ UNCHANGED <<state, i, responseSize>>

\* endReached: the loop is left with i at the last byte
EndHeader == /\ IF Text(1) = Post
                THEN phase' = "body" /\ responseSize' = Body /\ state' = 0
                ELSE phase' = "answer" /\ UNCHANGED <<responseSize, state>>
             /\ UNCHANGED <<i, syntaxError>>

ReadMethod ==
  /\ At({0})
  /\ \/ Byte = Space /\ Terminate /\ Go(1)
     \/ Byte \in Eol /\ Fail /\ UNCHANGED buffer
     \/ Byte \notin Eol \cup {Space} /\ Go(0) /\ UNCHANGED buffer
  /\ UNCHANGED <<client, length, pointers, lists, outcome>>

SkipSpace ==
  /\ At({1})
  /\ \/ Byte = Space /\ Go(1) /\ UNCHANGED fileName
     \/ Byte \in Eol /\ Fail /\ UNCHANGED fileName
     \/ Byte \notin Eol \cup {Space} /\ Go(2) /\ fileName' = i
  /\ UNCHANGED <<client, buffer, length, lastName, lastValue, lists, outcome>>

\* mutant: the second of two dots counts like the first
AfterDot_One == 11

\* state 11: the name has a dot last, state 12: two
AfterDot == IF state = 2 THEN 11 ELSE 12

ReadFileName ==
  /\ At({2, 11, 12})
  /\ \/ Byte = Question /\ Terminate /\ Go(3) /\ lastName' = i + 1
     \/ Byte = Space /\ Terminate /\ Go(5) /\ UNCHANGED lastName
     \/ Byte \in Eol /\ Terminate /\ EndHeader /\ UNCHANGED lastName
     \/ /\ Byte = Dot
        /\ Go(AfterDot)
        /\ UNCHANGED <<buffer, lastName>>
     \/ Byte = Slash /\ state = 12 /\ Fail /\ UNCHANGED <<buffer, lastName>>
     \/ /\ Byte \notin Eol \cup {Question, Space, Dot}
        /\ ~(Byte = Slash /\ state = 12)
        /\ Go(2)
        /\ UNCHANGED <<buffer, lastName>>
  /\ UNCHANGED <<client, length, fileName, lastValue, lists, outcome>>

ReadParamName ==
  /\ At({3})
  /\ \/ Byte = Equal /\ Terminate /\ Go(4) /\ lastValue' = i + 1 /\ UNCHANGED params
     \/ /\ Byte \in Eol /\ Terminate /\ EndHeader
        /\ params' = Append(params, <<lastName, NULL>>)
        /\ UNCHANGED lastValue
     \/ Byte \notin Eol \cup {Equal} /\ Go(3) /\ UNCHANGED <<buffer, lastValue, params>>
  /\ UNCHANGED <<client, length, fileName, lastName, fields, outcome>>

ReadParamValue ==
  /\ At({4})
  /\ \/ /\ Byte \in Eol \cup {And, Space} /\ Terminate
        /\ params' = Append(params, <<lastName, lastValue>>)
        /\ \/ Byte = And /\ Go(3) /\ lastName' = i + 1
           \/ Byte = Space /\ Go(5) /\ UNCHANGED lastName
           \/ Byte \in Eol /\ EndHeader /\ UNCHANGED lastName
     \/ Byte \notin Eol \cup {And, Space} /\ Go(4) /\ UNCHANGED <<buffer, lastName, params>>
  /\ UNCHANGED <<client, length, fileName, lastValue, fields, outcome>>

ReadVersion ==
  /\ At({5})
  /\ Go(IF Byte = NewLine THEN 6 ELSE IF Byte = Return THEN 7 ELSE 5)
  /\ UNCHANGED <<client, buffer, length, pointers, lists, outcome>>

\* mutant: a byte is skipped, whatever it is
SkipEol_Any ==
  /\ At({6, 7})
  /\ i' = i + 1
  /\ lastName' = i'
  /\ state' = 8
  /\ UNCHANGED <<client, buffer, length, phase, syntaxError, fileName,
                 lastValue, lists, responseSize, outcome>>

\* the other byte of an end of line is skipped, any other pushed back
SkipEol ==
  /\ At({6, 7})
  /\ i' = IF Byte = (IF state = 6 THEN Return ELSE NewLine) THEN i + 1 ELSE i
  /\ lastName' = i'
  /\ state' = 8
  /\ UNCHANGED <<client, buffer, length, phase, syntaxError, fileName,
                 lastValue, lists, responseSize, outcome>>

ReadFieldStart ==
  /\ At({8})
  /\ IF Byte \in Eol THEN EndHeader ELSE Go(9)
  /\ UNCHANGED <<client, buffer, length, pointers, lists, outcome>>

ReadFieldName ==
  /\ At({9})
  /\ \/ Byte = Colon /\ Terminate /\ Go(10) /\ lastValue' = i + 1 /\ UNCHANGED fields
     \/ /\ Byte \in Eol /\ Terminate /\ Go(IF Byte = NewLine THEN 6 ELSE 7)
        /\ fields' = Append(fields, <<lastName, NULL>>)
        /\ UNCHANGED lastValue
     \/ Byte \notin Eol \cup {Colon} /\ Go(9) /\ UNCHANGED <<buffer, lastValue, fields>>
  /\ UNCHANGED <<client, length, fileName, lastName, params, outcome>>

ReadFieldValue ==
  /\ At({10})
  /\ \/ /\ Byte \in Eol /\ Terminate /\ Go(IF Byte = NewLine THEN 6 ELSE 7)
        /\ fields' = Append(fields, <<lastName, lastValue>>)
     \/ Byte \notin Eol /\ Go(10) /\ UNCHANGED <<buffer, fields>>
  /\ UNCHANGED <<client, length, pointers, params, outcome>>

-----------------------------------------------------------------------------
(* The body of a POST, as many bytes as the field has said.                *)

InBody(st) == /\ phase = "body" /\ length < BufferSize
              /\ i <= length /\ responseSize # 0 /\ state = st

\* mutant: the first byte of the first pair is not counted either
SkipBeforeBody_Uncounted ==
  /\ InBody(0)
  /\ i' = i + 1
  /\ IF Byte \in Eol THEN UNCHANGED <<lastName, state>> ELSE lastName' = i /\ state' = 1
  /\ UNCHANGED <<client, buffer, length, phase, syntaxError, fileName,
                 lastValue, lists, responseSize, outcome>>

\* ends of lines before the first pair are not counted
SkipBeforeBody ==
  /\ InBody(0)
  /\ i' = i + 1
  /\ IF Byte \in Eol THEN UNCHANGED <<lastName, responseSize, state>>
     ELSE lastName' = i /\ responseSize' = responseSize - 1 /\ state' = 1
  /\ UNCHANGED <<client, buffer, length, phase, syntaxError, fileName,
                 lastValue, lists, outcome>>

ReadBodyName ==
  /\ InBody(1)
  /\ i' = i + 1
  /\ responseSize' = responseSize - 1
  /\ IF Byte = Equal THEN Terminate /\ lastValue' = i + 1 /\ state' = 2
     ELSE UNCHANGED <<buffer, lastValue, state>>
  /\ UNCHANGED <<client, length, phase, syntaxError, fileName, lastName,
                 lists, outcome>>

\* The pair is ended at i, decoded and kept.
EndPair ==
  /\ buffer' = Decoded(Decoded([buffer EXCEPT ![i] = 0], lastName), lastValue)
  /\ params' = Append(params, <<lastName, lastValue>>)

ReadBodyValue ==
  /\ InBody(2)
  /\ i' = i + 1
  /\ responseSize' = responseSize - 1
  /\ IF Byte = And THEN EndPair /\ lastName' = i + 1 /\ state' = 1
     ELSE UNCHANGED <<buffer, params, lastName, state>>
  /\ UNCHANGED <<client, length, phase, syntaxError, fileName, lastValue,
                 fields, outcome>>

EndBody ==
  /\ phase = "body" /\ length < BufferSize /\ responseSize = 0
  /\ IF state = 2 THEN EndPair ELSE UNCHANGED <<buffer, params>>
  /\ phase' = "answer"
  /\ UNCHANGED <<client, length, state, i, syntaxError, pointers, fields,
                 responseSize, outcome>>

\* What the client gets; the socket may fail to be opened for writing.
Answer ==
  /\ phase = "answer"
  /\ phase' = "done"
  /\ outcome' \in {"dropped",
                   IF length = BufferSize \/ syntaxError \/ fileName = NULL THEN "bad request"
                   ELSE IF SessionNumber = NULL THEN "new session"
                   ELSE "dispatched"}
  /\ UNCHANGED <<client, buffer, length, state, i, syntaxError, pointers,
                 lists, responseSize>>

Parse == \/ ReadMethod \/ SkipSpace \/ ReadFileName \/ ReadParamName
         \/ ReadParamValue \/ ReadVersion \/ SkipEol \/ ReadFieldStart
         \/ ReadFieldName \/ ReadFieldValue
         \/ SkipBeforeBody \/ ReadBodyName \/ ReadBodyValue \/ EndBody
         \/ BufferFull \/ Answer

Next == Receive \/ Disconnect \/ Parse

Spec == Init /\ [][Next]_vars

-----------------------------------------------------------------------------
(* Properties.                                                             *)

Positions == 1..BufferSize + 1

\* All that is written or kept is inside the buffer.
TypeOK ==
  /\ request \in Requests /\ wire \in Seq(0..255)
  /\ buffer \in [Positions -> 0..255]
  /\ length \in 0..BufferSize /\ i \in 1..length + 1
  /\ phase \in {"header", "body", "answer", "done"}
  /\ state \in 0..12
  /\ syntaxError \in BOOLEAN
  /\ {fileName, lastName, lastValue} \subseteq Positions \cup {NULL}
  /\ params \in Seq(Positions \X (Positions \cup {NULL}))
  /\ fields \in Seq(Positions \X (Positions \cup {NULL}))
  /\ responseSize \in Nat
  /\ outcome \in {"none", "dropped", "bad request", "new session", "dispatched"}

Accepted == outcome \in {"new session", "dispatched"}

\* What user code gets of a parameter: dispatchCallback decodes twice what was
\* in the file name, the parser what was in the body.
Value(k) ==
  LET text == Text(params[k][2])
  IN IF k <= Len(request.params) THEN decodeUriComponent(decodeUriComponent(text))
                                 ELSE text

Received ==
  [k \in DOMAIN params |-> IF params[k][2] = NULL THEN <<Text(params[k][1])>>
                           ELSE <<Text(params[k][1]), Value(k)>>]

FieldText(f) == IF f[2] = NULL THEN <<Text(f[1])>> ELSE <<Text(f[1]), Text(f[2])>>

\* A request that is accepted is the one that was sent, however it was cut to
\* pieces by read(), and whatever was in the buffer before.  If the client
\* went away during the body, the last pairs are missing, and no pair is
\* broken.  A page that shows a value again (generateUpdateContent) shows what
\* the user has typed.
ParsedAsSent ==
  Accepted =>
    /\ Text(1) = request.method
    /\ Text(fileName) = request.file
    /\ SessionNumber = request.session
    /\ [k \in DOMAIN fields |-> FieldText(fields[k])] = request.fields
    /\ IF length < Len(wire) /\ request.body # <<>>
       THEN /\ IsPrefix(Received, request.params \o request.body)
            /\ Len(Received) >= Len(request.params)
       ELSE Received = request.params \o request.body
    /\ \A k \in DOMAIN Received :
         LET value == Last(Received[k])
         IN JsDecodeURIComponent(encodeUriComponent(value)) = value

\* "../" behind the first character of a name
GoesUp(name) == \E k \in 2..Len(name) - 2 : SubSeq(name, k, k + 2) = <<Dot, Dot, Slash>>

\* A file name that is accepted never leads up from the directory of the
\* server ("we want to avoid "../" in the path"); its first character, the
\* slash, is left out when the file is opened.  And nothing is refused but such
\* a name, none at all, and a request that fills the buffer.
OnlyUpwardPathsRefused ==
  /\ Accepted => ~GoesUp(Text(fileName))
  /\ outcome = "bad request" => \/ Len(wire) >= BufferSize
                                \/ GoesUp(request.file) \/ request.file = <<>>

\* The parser does not wait for more than is sent: when it calls read(), wherever
\* the reads before have ended, bytes of the request are missing.  A client
\* that has sent its request and waits is never waited for.
NeverWaitsInVain == Reading => length < Len(wire)
=============================================================================
