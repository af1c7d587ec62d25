------------------------- MODULE RequestInvariants --------------------------
(***************************************************************************)
(* What holds between any two steps of RequestParser, part by part, so     *)
(* that it is kept by every step: the types and the pointers (TypeInv),    *)
(* the names of files (NameInv), the bytes that are not used yet           *)
(* (UnreadIsSent, PartIsSent), and where the automaton is in the request   *)
(* and what it has cut there (PlannedInv).  RequestParserProofs proves it. *)
(*                                                                         *)
(* A plan is where the parts of a request are in the bytes that are sent.  *)
(* The first line, the fields and the body are cut in place, and a text    *)
(* is written over only when it is decoded; the automaton is behind it by  *)
(* then.  So a part that has been read is held in the buffer below Start,  *)
(* and from Start on the buffer is as it was sent.                         *)
(***************************************************************************)
EXTENDS RequestParser

\* Bytes, of texts that may be ended
Byte255 == 0..255

-----------------------------------------------------------------------------
(* Types and names                                                         *)
\* A pointer that the automaton is about to use is set, and no pointer is ahead.
PointersSet ==
  /\ phase = "header" => /\ state \in {3, 4, 8, 9, 10} => lastName # NULL
                         /\ state \in {4, 10} => lastValue # NULL
  /\ phase = "body" => /\ state \in 0..2
                       /\ state # 0 => lastName # NULL
                       /\ state = 2 => lastValue # NULL

TypeInv ==
  /\ TypeOK
  /\ wire = Wire(request) /\ length <= Len(wire)
  /\ fileName <= i /\ lastName <= i /\ lastValue <= i
  /\ PointersSet

\* No "../" in the buffer behind the first byte of a name at p, up to z
NoneUp(buf, p, z) ==
  \A k \in p + 1..z - 3 : ~(buf[k] = Dot /\ buf[k + 1] = Dot /\ buf[k + 2] = Slash)

\* The file name is ended at z.
Ended(z) ==
  /\ z \in Positions /\ fileName # NULL /\ fileName <= z
  /\ buffer[z] = 0
  /\ NoneUp(buffer, fileName, z)

InName == phase = "header" /\ state \in {2, 11, 12}

NameInv ==
  /\ phase = "header" /\ state \in {0, 1, 2, 3, 4, 11, 12} => fields = <<>>
  /\ InName =>
       /\ fileName # NULL /\ fileName < i
       /\ NoneUp(buffer, fileName, i)
       /\ state = 2 => i - 1 = fileName \/ buffer[i - 1] # Dot
       /\ state = 11 => i - 2 = fileName \/ buffer[i - 2] # Dot
       /\ state \in {11, 12} => i - 1 > fileName
  /\ phase = "header" /\ state \in 3..10 => \E z \in Positions : Ended(z) /\ z < i
  /\ phase = "body" =>
       \E z \in Positions : /\ Ended(z)
                            /\ responseSize # 0 => z < i
                            /\ state # 0 => z < lastName
                            /\ state = 2 => z < lastValue
  /\ phase = "answer" => \/ syntaxError \/ length = BufferSize
                         \/ \E z \in Positions : Ended(z)
  /\ Accepted => \E z \in Positions : Ended(z)
  /\ outcome # "none" => phase = "done"

-----------------------------------------------------------------------------
(* The first line                                                          *)
\* Words of the first line
MethodSize == Len(request.method)

FileSize   == Len(request.file)

\* The words of the first line, in the bytes that are sent
FirstLine ==
  /\ MethodSize \in Nat /\ FileSize \in Nat \ {0} /\ request.file \in Seq(Byte255)
  /\ \A k \in 1..MethodSize : wire[k] \notin Eol \cup {Space}
  /\ wire[MethodSize + 1] = Space
  /\ \A k \in 1..FileSize : /\ wire[MethodSize + 1 + k] = request.file[k]
                            /\ request.file[k] \notin Eol \cup {Space, Question}
  /\ wire[MethodSize + 2 + FileSize] \in Eol \cup {Space, Question}

\* What has come and is not used yet is as it was sent.
UnreadIsSent == phase = "header" => \A k \in i..length : buffer[k] = wire[k]

\* The automaton is in the name, of a file f that is n bytes long, behind a
\* method of m bytes; a way up is being looked for.
NameSent(m, n, f) ==
  /\ fileName = m + 2 /\ i <= m + 2 + n
  /\ \A k \in m + 2..i - 1 : buffer[k] = f[k - m - 1]
  /\ state \in {11, 12} => buffer[i - 1] = Dot
  /\ state = 12 => buffer[i - 2] = Dot /\ i - 2 > fileName

\* The automaton is where the first line says, when the request has a file.
LineInv ==
  request.file # <<>> =>
    /\ phase = "header" =>
         /\ state = 0 => i <= MethodSize + 1
         /\ state = 1 => i = MethodSize + 2
         /\ state \in {2, 11, 12} => NameSent(MethodSize, FileSize, request.file)
    /\ syntaxError => GoesUp(request.file)
    /\ outcome = "bad request" => length = BufferSize \/ GoesUp(request.file)

SentInv == NameInv /\ UnreadIsSent /\ LineInv

-----------------------------------------------------------------------------
(* Where the parts of a request are in the bytes w that are sent           *)
\* The bytes of t are in w, from p on.
Put(w, p, t) == \A j \in 1..Len(t) : w[p - 1 + j] = t[j]

\* The bytes of w from p up to z are those of t, and none of bytes.
Cut(w, p, z, t, bytes) ==
  /\ p \in Nat \ {0} /\ Len(t) \in Nat /\ z = p + Len(t)
  /\ \A k \in p..z - 1 : w[k] = t[k - p + 1] /\ w[k] \notin bytes

\* From p up to z there is a name and, if the pair c has one, a value at v
\* behind the byte mid.
Cell(w, c, mid, p, v, z, names, values) ==
  /\ v \in Nat /\ Cut(w, p, v - 1, c[1], names \cup {mid})
  /\ IF Len(c) = 1 THEN z = v - 1
     ELSE Len(c) = 2 /\ w[v - 1] = mid /\ Cut(w, v, z, c[2], values)

\* The pairs of the first line and of the body, as they are sent
Query(r) == [k \in DOMAIN r.params |->
               IF Len(r.params[k]) = 1 THEN r.params[k]
               ELSE <<r.params[k][1], Escaped(r.params[k][2])>>]

Form(r) == [k \in DOMAIN r.body |-> <<FormEncoded(r.body[k][1]), FormEncoded(r.body[k][2])>>]

\* Where the parts of a request r are, that is sent as w: the file starts at f
\* and ends at d, ...
LinePlan(r, w, f, d) ==
  /\ f = Len(r.method) + 2
  /\ Cut(w, 1, f - 1, r.method, Eol \cup {Space}) /\ w[f - 1] = Space
  /\ Cut(w, f, d, r.file, Eol \cup {Space, Question})

\* ... the query ends at v (the k-th parameter starts at s[k], its value at x[k],
\* and it ends at z[k]), ...
QueryPlan(r, w, q, v, s, x, z) ==
  LET P == Len(r.params)
  IN /\ \A k \in 1..P : /\ Cell(w, Query(r)[k], Equal, s[k], x[k], z[k], Eol, Eol \cup {And, Space})
                        /\ z[k] <= v
     /\ \A k \in 1..P - 1 : w[z[k]] = And /\ s[k + 1] = z[k] + 1
     /\ IF P = 0 THEN v = q ELSE w[q] = Question /\ s[1] = q + 1 /\ v = z[P]

\* An end of line at p
EolPut(r, w, p) == Cut(w, p, p + Len(r.eol), r.eol, {})

\* ... the version ends at e, and the header has b bytes, ...
FieldsPlan(r, w, v, e, b, s, x, z) ==
  LET n == Len(r.eol)
      F == Len(r.fields)
  IN IF r.version = <<>> THEN EolPut(r, w, v) /\ b = v + n - 1
     ELSE /\ w[v] = Space
          /\ Cut(w, v + 1, e, r.version, Eol)
          /\ EolPut(r, w, e) /\ s[1] = e + n
          /\ \A k \in 1..F : /\ Cell(w, r.fields[k], Colon, s[k], x[k], z[k], Eol, Eol)
                             /\ EolPut(r, w, z[k])
                             /\ s[k + 1] = z[k] + n
          /\ \A k \in 1..F + 1 : s[k] \in Nat \ {0} /\ s[k] + n - 1 <= b
          /\ EolPut(r, w, s[F + 1]) /\ b = s[F + 1] + n - 1

\* ... and behind it is the body.
BodyPlan(r, w, b, s, x, z) ==
  LET B == Len(r.body)
      N == Len(w)
  IN /\ \A k \in 1..B : /\ Cell(w, Form(r)[k], Equal, s[k], x[k], z[k], Eol, {And})
                        /\ z[k] <= N + 1
     /\ \A k \in 1..B - 1 : w[z[k]] = And /\ s[k + 1] = z[k] + 1
     /\ IF B = 0 THEN N = b ELSE s[1] = b + 1 /\ z[B] = N + 1
     /\ N - b = Len(Pairs(r.body, And, FormEncoded))

\* A plan of a request
Plan(L) ==
  /\ WellFormed(L.r) /\ L.r.file # <<>> /\ L.w = Wire(L.r) /\ L.b \in Nat
  /\ LinePlan(L.r, L.w, L.f, L.d)
  /\ QueryPlan(L.r, L.w, L.d, L.q, L.ps, L.pv, L.pe)
  /\ FieldsPlan(L.r, L.w, L.q, L.ve, L.b, L.fs, L.fv, L.fe)
  /\ BodyPlan(L.r, L.w, L.b, L.bs, L.bv, L.be)

\* A plan of the request that is sent
Planned(L) == request = L.r /\ wire = L.w /\ Plan(L)

-----------------------------------------------------------------------------
(* The texts of a request, where sequences are in what they make and bytes *)
(* in their encoding; and a plan, as the steps of the automaton use it     *)
\* What is behind the name
Second(c, mid) == IF Len(c) = 2 THEN <<mid>> \o c[2] ELSE <<>>

\* A name, and perhaps a value, that can be told from what is behind them
CellText(c, mid, names, values) ==
  /\ c[1] \in Seq(Byte255 \ (names \cup {mid}))
  /\ Len(c) = 1 \/ (Len(c) = 2 /\ c[2] \in Seq(Byte255 \ values))

\* The n pairs cs are in w from p up to z0, with b between them: from s[k] up to
\* z[k], with the value at v[k].
Row(w, n, cs, b, mid, names, values, p, z0, s, v, z) ==
  /\ \A k \in 1..n : /\ Cell(w, cs[k], mid, s[k], v[k], z[k], names, values)
                     /\ z[k] \in Nat /\ z[k] <= z0
  /\ \A k \in 1..n - 1 : w[z[k]] = b /\ s[k + 1] = z[k] + 1
  /\ IF n = 0 THEN z0 = p ELSE s[1] = p /\ z[n] = z0

\* The n fields cs are in w from p up to z0, each with an end of line behind it.
Rows(w, n, cs, eol, p, z0, s, v, z) ==
  /\ \A k \in 1..n : /\ Cell(w, cs[k], Colon, s[k], v[k], z[k], Eol, Eol)
                     /\ z[k] \in Nat \ {0} /\ Put(w, z[k], eol) /\ s[k + 1] = z[k] + Len(eol)
  /\ \A k \in 1..n + 1 : s[k] \in Nat \ {0} /\ s[k] <= z0
  /\ s[1] = p /\ s[n + 1] = z0

SpaceText(r)   == IF r.file = <<>> THEN <<>> ELSE <<Space>>

QueryText(r)   == IF r.params = <<>> THEN <<>> ELSE <<Question>> \o Pairs(r.params, And, Escaped)

VersionText(r) == IF r.version = <<>> THEN <<>> ELSE <<Space>> \o r.version

LinesText(r)   == FlattenSeq([k \in DOMAIN r.fields |->
                    r.fields[k][1] \o (IF Len(r.fields[k]) = 2 THEN <<Colon>> \o r.fields[k][2] ELSE <<>>) \o r.eol])

TailText(r)    == IF r.version = <<>> THEN <<>> ELSE LinesText(r) \o r.eol

BodyText(r)    == Pairs(r.body, And, FormEncoded)

Parted(r, w, s, f, q, v, e, t, b) ==
  /\ {s, f, q, v, e, t, b} \subseteq Nat \ {0}
  /\ Put(w, 1, r.method) /\ s = 1 + Len(r.method)
  /\ Put(w, s, SpaceText(r)) /\ f = s + Len(SpaceText(r))
  /\ Put(w, f, r.file) /\ q = f + Len(r.file)
  /\ Put(w, q, QueryText(r)) /\ v = q + Len(QueryText(r))
  /\ Put(w, v, VersionText(r)) /\ e = v + Len(VersionText(r))
  /\ Put(w, e, r.eol) /\ t = e + Len(r.eol)
  /\ Put(w, t, TailText(r)) /\ b = t + Len(TailText(r))
  /\ Put(w, b, BodyText(r)) /\ Len(w) + 1 = b + Len(BodyText(r))

FormPair(r, k) ==
  /\ Len(r.body[k]) = 2 /\ Len(Form(r)[k]) = 2
  /\ Form(r)[k][1] = FormEncoded(r.body[k][1])
  /\ Form(r)[k][2] = FormEncoded(r.body[k][2])
  /\ r.body[k][1] \in Seq(1..255) /\ r.body[k][2] \in Seq(1..255)
  /\ r.body[k][1] # <<>>

\* The places of the sequences in what they make: the k-th one is behind
\* g[k - 1] bytes and ends at g[k].
Places(g, seqs, w) ==
  /\ g \in [0..Len(seqs) -> Nat] /\ g[0] = 0 /\ g[Len(seqs)] = Len(w)
  /\ \A k \in 1..Len(seqs) : /\ g[k] = g[k - 1] + Len(seqs[k]) /\ g[k] <= Len(w)
                             /\ \A j \in 1..Len(seqs[k]) : w[g[k - 1] + j] = seqs[k][j]

\* Behind p bytes of w there is the byte c, as it is or as a percentage; it
\* ends at q.  A plus is space.
Coded(w, p, q, c, space) ==
  \/ /\ q = p + 1 /\ w[q] # Percent
     /\ (IF w[q] = Plus THEN space ELSE w[q]) = c
  \/ /\ q = p + 3 /\ w[p + 1] = Percent
     /\ IsEscape(w, p + 1) /\ ByteAt(w, p + 1) = c

\* g[k] is where the k-th byte of the text ends in w.
Encodes(g, w, text, space) ==
  /\ g \in [0..Len(text) -> Nat] /\ g[0] = 0 /\ g[Len(text)] = Len(w)
  /\ \A k \in 1..Len(text) : g[k] <= Len(w) /\ Coded(w, g[k - 1], g[k], text[k], space)

\* What a byte is encoded to
Code(c, safe) ==
  IF c \in safe THEN <<c>> ELSE <<Percent, HexTab(c \div 16), HexTab(c % 16)>>

\* The parameters in a plan
ParamCell(L, k) ==
  Cell(L.w, Query(L.r)[k], Equal, L.ps[k], L.pv[k], L.pe[k], Eol, Eol \cup {And, Space})

ParamsAre(L, P) ==
  /\ P \in Nat /\ Len(Query(L.r)) = P /\ L.q \in Nat /\ L.d <= L.q
  /\ P = 0 => L.q = L.d
  /\ P # 0 => L.w[L.d] = Question /\ L.ps[1] = L.d + 1 /\ L.q = L.pe[P]
  /\ \A k \in 1..P : ParamCell(L, k) /\ L.pe[k] <= L.q
  /\ \A k \in 1..P : k # P => L.w[L.pe[k]] = And /\ L.ps[k + 1] = L.pe[k] + 1
  /\ \A k \in 1..P : /\ Len(Query(L.r)[k]) = Len(L.r.params[k])
                     /\ Query(L.r)[k][1] = L.r.params[k][1]
                     /\ Len(L.r.params[k]) \in {1, 2}
                     /\ Len(L.r.params[k]) = 1 => k = P /\ L.r.version = <<>>

\* The fields in a plan
FieldCell(L, k) == Cell(L.w, L.r.fields[k], Colon, L.fs[k], L.fv[k], L.fe[k], Eol, Eol)

FieldsAre(L, F, n) ==
  /\ F \in Nat /\ n \in {1, 2} /\ L.fs[1] = L.ve + n
  /\ \A k \in 1..F : /\ FieldCell(L, k) /\ Len(L.r.fields[k]) \in {1, 2}
                     /\ Len(L.r.fields[k][1]) # 0
  /\ \A k \in 1..F : EolPut(L.r, L.w, L.fe[k]) /\ L.fs[k + 1] = L.fe[k] + n
  /\ \A k \in 1..F + 1 : L.fs[k] \in Nat \ {0} /\ L.fs[k] + n - 1 <= L.b
  /\ EolPut(L.r, L.w, L.fs[F + 1]) /\ L.b = L.fs[F + 1] + n - 1

\* The body in a plan
BodyCell(L, k) == Cell(L.w, Form(L.r)[k], Equal, L.bs[k], L.bv[k], L.be[k], Eol, {And})

BodyAre(L, B, N) ==
  /\ B \in Nat /\ N \in Nat /\ L.b <= N
  /\ B = 0 => N = L.b
  /\ B # 0 => L.bs[1] = L.b + 1 /\ L.be[B] = N + 1
  /\ \A k \in 1..B : BodyCell(L, k) /\ Len(Form(L.r)[k]) = 2 /\ Len(Form(L.r)[k][1]) # 0
  /\ \A k \in 1..B : L.be[k] <= N + 1
  /\ \A k \in 1..B : k # B => L.w[L.be[k]] = And /\ L.bs[k + 1] = L.be[k] + 1

-----------------------------------------------------------------------------
(* What is as it was sent, and what is held                                *)
\* All that is written from now on is behind Start - 1; bytes from there on are
\* as they were sent.
Start ==
  IF phase = "body"
  THEN IF state = 0 THEN i ELSE IF state = 1 THEN lastName ELSE lastValue
  ELSE IF state = 0 THEN 1
  ELSE IF state \in {2, 11, 12} THEN fileName
  ELSE IF state \in {3, 8, 9} THEN lastName
  ELSE IF state \in {4, 10} THEN lastValue ELSE i

Open ==
  \/ phase = "header"
  \/ phase = "body" /\ (state # 0 \/ responseSize # 0)

PartIsSent == Open => \A k \in Start..length : buffer[k] = wire[k]

\* A text and a zero behind it are at p, below z.
Held(buf, p, t, z) ==
  /\ p \in Nat \ {0} /\ Len(t) \in Nat /\ p + Len(t) < z
  /\ \A k \in 1..Len(t) : buf[p - 1 + k] = t[k]
  /\ buf[p + Len(t)] = 0

HeldPair(buf, pair, c, z) ==
  /\ Held(buf, pair[1], c[1], z)
  /\ IF Len(c) = 1 THEN pair[2] = NULL ELSE pair[2] # NULL /\ Held(buf, pair[2], c[2], z)

HeldPairs(buf, list, cs, z) ==
  Len(list) <= Len(cs) /\ \A k \in 1..Len(list) : HeldPair(buf, list[k], cs[k], z)

\* What the parameters are in the buffer: those of the first line are decoded
\* when they are used.
Wanted(r) == Query(r) \o r.body

\* P of them are of the first line, B of the body.
WantedAre(r, P, B) ==
  /\ P \in Nat /\ B \in Nat /\ Len(Wanted(r)) = P + B
  /\ \A k \in 1..P : Wanted(r)[k] = Query(r)[k]
  /\ \A k \in 1..B : Wanted(r)[P + k] = r.body[k]

-----------------------------------------------------------------------------
(* Where the automaton is                                                  *)
InParamName(L) ==
  \E k \in 1..Len(L.r.params) :
    k = Len(params) + 1 /\ lastName = L.ps[k] /\ i \in L.ps[k]..L.pv[k] - 1

InParamValue(L) ==
  \E k \in 1..Len(L.r.params) :
    /\ k = Len(params) + 1 /\ Len(L.r.params[k]) = 2
    /\ lastName = L.ps[k] /\ lastValue = L.pv[k] /\ i \in L.pv[k]..L.pe[k]
    /\ Held(buffer, lastName, L.r.params[k][1], lastValue)

AtEol(L) ==
  \E k \in 1..Len(L.r.fields) + 1 : k = Len(fields) + 1 /\ i = L.fs[k] + 1 - Len(L.r.eol)

AtField(L) ==
  \E k \in 1..Len(L.r.fields) + 1 : k = Len(fields) + 1 /\ lastName = L.fs[k] /\ i = L.fs[k]

InFieldName(L) ==
  \E k \in 1..Len(L.r.fields) :
    k = Len(fields) + 1 /\ lastName = L.fs[k] /\ i \in L.fs[k]..L.fv[k] - 1

InFieldValue(L) ==
  \E k \in 1..Len(L.r.fields) :
    /\ k = Len(fields) + 1 /\ Len(L.r.fields[k]) = 2
    /\ lastName = L.fs[k] /\ lastValue = L.fv[k] /\ i \in L.fv[k]..L.fe[k]
    /\ Held(buffer, lastName, L.r.fields[k][1], lastValue)

WhereInHeader(L) ==
  /\ state = 0 => i < L.f
  /\ state = 1 => i = L.f
  /\ state \in {2, 11, 12} => i \in L.f..L.d
  /\ state = 3 => InParamName(L)
  /\ state = 4 => InParamValue(L)
  /\ state = 5 => i \in L.q + 1..L.ve
  /\ state \in {6, 7} => AtEol(L) /\ state = Len(L.r.eol) + 5
  /\ state = 8 => AtField(L)
  /\ state = 9 => InFieldName(L)
  /\ state = 10 => InFieldValue(L)

\* What is held there
HeldInHeader(L) ==
  /\ state # 0 => Held(buffer, 1, L.r.method, Start)
  /\ state \notin {0, 1} => fileName = L.f
  /\ state \in 3..10 => Held(buffer, L.f, L.r.file, Start)
  /\ HeldPairs(buffer, params, Query(L.r), Start)
  /\ state \in {0, 1, 2, 11, 12} => params = <<>>
  /\ state \in 5..10 => Len(params) = Len(L.r.params) /\ L.r.version # <<>>
  /\ HeldPairs(buffer, fields, L.r.fields, Start)
  /\ state \notin 6..10 => fields = <<>>

HeaderSent(L) == phase = "header" => WhereInHeader(L) /\ HeldInHeader(L)

\* Where the automaton is in the body
InBodyName(L) ==
  \E k \in 1..Len(L.r.body) :
    k + Len(L.r.params) = Len(params) + 1 /\ lastName = L.bs[k] /\ i \in L.bs[k]..L.bv[k] - 1

InBodyValue(L) ==
  \E k \in 1..Len(L.r.body) :
    /\ k + Len(L.r.params) = Len(params) + 1
    /\ lastName = L.bs[k] /\ lastValue = L.bv[k] /\ i \in L.bv[k]..L.be[k]
    /\ Held(buffer, lastName, Form(L.r)[k][1], lastValue)

WhereInBody(L) ==
  /\ state = 0 => /\ Len(params) = Len(L.r.params) /\ responseSize = Len(L.w) - L.b
                  /\ responseSize # 0 => i <= L.b + 1 /\ \A k \in i..L.b : L.w[k] \in Eol
  /\ state # 0 => responseSize = Len(L.w) + 1 - i
  /\ state = 1 => InBodyName(L)
  /\ state = 2 => InBodyValue(L)

\* All of the header, below z
HeldBelow(L, z) ==
  /\ fileName = L.f
  /\ Held(buffer, 1, L.r.method, z) /\ Held(buffer, L.f, L.r.file, z)
  /\ Len(params) >= Len(L.r.params) /\ HeldPairs(buffer, params, Wanted(L.r), z)
  /\ Len(fields) = Len(L.r.fields) /\ HeldPairs(buffer, fields, L.r.fields, z)

Below == IF state # 0 THEN lastName ELSE IF responseSize = 0 THEN i + 1 ELSE i

BodySent(L) == phase = "body" => WhereInBody(L) /\ HeldBelow(L, Below)

\* What is answered has all parts.
AnswerSent(L) ==
  phase = "answer" \/ Accepted =>
    \/ length = BufferSize \/ syntaxError
    \/ /\ HeldBelow(L, BufferSize + 2)
       /\ \/ length < Len(L.w) /\ L.r.body # <<>>
          \/ Len(params) = Len(Wanted(L.r))

\* The automaton keeps to a plan.
SentAll(L) == HeaderSent(L) /\ BodySent(L) /\ AnswerSent(L)

\* A request without a file
NoFileInv ==
  request.file = <<>> =>
    /\ fileName = NULL /\ phase # "body" /\ ~Accepted
    /\ phase = "header" => /\ state \in {0, 1} /\ i <= Len(request.method) + 1
                           /\ state = 1 => \E k \in 1..i - 1 : request.method[k] = Space

\* All of it
PlannedInv ==
  /\ NameInv /\ UnreadIsSent /\ PartIsSent /\ NoFileInv
  /\ request.file # <<>> => \E L : Planned(L) /\ SentAll(L)

\* What is accepted is no request that was refused or filled the buffer.
AcceptedInv == Accepted => length # BufferSize /\ syntaxError = FALSE

-----------------------------------------------------------------------------
(* A step                                                                  *)
\* A step of the automaton in the header
HeaderStep ==
  \/ ReadMethod \/ SkipSpace \/ ReadFileName \/ ReadParamName \/ ReadParamValue
  \/ ReadVersion \/ SkipEol \/ ReadFieldStart \/ ReadFieldName \/ ReadFieldValue

\* Where the automaton is: what it has read of the part, and what it reads now
Reads(L) ==
  /\ i \in Nat \ {0} /\ i \in Positions /\ Start \in Nat \ {0} /\ Start <= i /\ i <= length
  /\ length \in Nat
  /\ Byte = L.w[i] /\ \A k \in Start..i - 1 : buffer[k] = L.w[k]

\* HeldBelow after a step
HeldNext(L, z) ==
  /\ fileName' = L.f
  /\ Held(buffer', 1, L.r.method, z) /\ Held(buffer', L.f, L.r.file, z)
  /\ Len(params') >= Len(L.r.params) /\ HeldPairs(buffer', params', Wanted(L.r), z)
  /\ Len(fields') = Len(L.r.fields) /\ HeldPairs(buffer', fields', L.r.fields, z)

\* A text d is written at p, below z.
Rewritten(N, buf, new, p, d, z) ==
  /\ new \in [1..N -> Byte255] /\ Held(new, p, d, z)
  /\ \A k \in 1..N : k < p \/ z <= k => new[k] = buf[k]

\* A pair of the texts s and t that ends at z: b is what buf is with the zero.
PairReady(N, buf, b, p, v, z, s, t) ==
  /\ N \in Nat /\ buf \in [1..N -> Byte255]
  /\ p \in Nat \ {0} /\ v \in Nat /\ z \in 1..N /\ p < v /\ v <= z
  /\ s \in Seq(1..255) /\ t \in Seq(1..255)
  /\ Held(buf, p, s, v) /\ \E bytes : Cut(buf, v, z, t, bytes)
  /\ b \in [1..N -> Byte255] /\ b[z] = 0 /\ \A j \in 1..N : j # z => b[j] = buf[j]

PairAt(N, buf, new, p, v, s, t, z) ==
  /\ Held(new, p, decodeUriComponent(s), z + 1) /\ Held(new, v, decodeUriComponent(t), z + 1)
  /\ \A j \in 1..N : j < p => new[j] = buf[j]

-----------------------------------------------------------------------------
(* What user code gets                                                     *)
\* A parameter is what user code gets: c is what was sent.
GivenPair(c, k) ==
  /\ c \in Seq(Seq(1..255)) /\ Len(c) \in {1, 2}
  /\ c = IF params[k][2] = NULL THEN <<Text(params[k][1])>> ELSE <<Text(params[k][1]), Value(k)>>

\* All parameters: n of those in t
Given(t, n) ==
  /\ n \in Nat /\ Len(t) \in Nat /\ n <= Len(t) /\ t \in Seq(Seq(Seq(1..255)))
  /\ Len(t) = Len(Wanted(request))
  /\ DOMAIN Received = 1..n /\ \A k \in 1..n : GivenPair(t[k], k)
  /\ Received = [k \in 1..n |-> t[k]]

=============================================================================
