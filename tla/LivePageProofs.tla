--------------------------- MODULE LivePageProofs ---------------------------
(***************************************************************************)
(* Proofs about LivePage, for any page tree and contents, any number of    *)
(* browsers, requests in flight, writers, changes, failures and restarts.  *)
(*                                                                         *)
(* TypeInv is about where the walk, the writers and the requests are. The  *)
(* argument for UpToDate: a content with no change under way has a record  *)
(* older than no stamp; an update stamped t has seen all that was stored   *)
(* before t; the walk of a request draws each node that changed after its  *)
(* timestamp, itself or with an ancestor; so a script that is applied in   *)
(* time leaves the page at most as old as its timestamp says.              *)
(*                                                                         *)
(* For NoBrokenScript, with one request at a time: a page has the ids of   *)
(* the records up to its stamp, and what is rendered anew is newer than    *)
(* that; so a script that replaces a content before it addresses what is   *)
(* below finds each div by the id that it has there.                       *)
(***************************************************************************)
EXTENDS LivePage, FiniteSetTheorems, SequenceTheorems, WellFoundedInduction, TLAPS

(***************************************************************************)
(* Induction over the numbers up to N, as a statement about sets           *)
(***************************************************************************)
\* A set of natural numbers that is not empty has a least element.
LEMMA Least ==
  ASSUME NEW T \in SUBSET Nat, T # {}
  PROVE  \E x \in T : \A y \in T : x <= y
<1> DEFINE R == {ss \in Nat \X Nat : ss[1] < ss[2]}
<1>1. IsWellFoundedOn(R, Nat)
  BY NatLessThanWellFounded DEF OpToRel
<1>2. \A x, y \in Nat : y < x => <<y, x>> \in R
  OBVIOUS
<1> HIDE DEF R
<1>3. PICK x \in T : \A y \in T : ~(<<y, x>> \in R)
  BY <1>1, WFMin
<1>4. ASSUME NEW y \in T
      PROVE  x <= y
  <2>1. x \in Nat /\ y \in Nat /\ ~(<<y, x>> \in R)
    BY <1>3
  <2>2. ~(y < x)
    BY <1>2, <2>1
  <2> QED
    BY <2>1, <2>2
<1> QED
  BY <1>4

\* A set that has 0, and with every number the next one, has N.
LEMMA UpTo ==
  ASSUME NEW N \in Nat, NEW G, 0 \in G, \A n \in 1..N : n - 1 \in G => n \in G
  PROVE  N \in G
<1> DEFINE T == {n \in 0..N : n \notin G}
<1> SUFFICES ASSUME T # {} PROVE FALSE
  OBVIOUS
<1>1. T \in SUBSET Nat
  OBVIOUS
<1> HIDE DEF T
<1>2. PICK n \in T : \A y \in T : n <= y
  BY <1>1, Least
<1> USE DEF T
<1>3. n \in 1..N /\ n - 1 \in 0..N
  BY <1>2
<1>4. n - 1 \in G
  BY <1>2, <1>3
<1> QED
  BY <1>2, <1>3, <1>4

(***************************************************************************)
(* Types, and where the walk, the writers and the requests are             *)
(***************************************************************************)
\* A browser has no more chains of requests than polls.
ChainsInv == \A k \in Clients : timer[k].refresh + InFlight(k) <= MaxPolls

\* No stamp is from the future of the server it is compared with.
ContextInv ==
  /\ failures \in 0..MaxFailures /\ context <= failures + 1
  /\ \A k \in Clients :
       /\ page[k].context <= context
       /\ page[k].context = context => page[k].timestamp <= counter
       /\ \A i \in 1..MaxPolls :
            /\ poll[k][i].context <= context
            /\ poll[k][i].context = context => /\ poll[k][i].old <= counter
                                               /\ poll[k][i].stamp <= counter
            /\ poll[k][i].pc \in {"ready", "scanning"} => poll[k][i].context = context

\* The walk is for a request that waits for it; it is at a node, and what is
\* being rendered is below that node.
ScanPlace ==
  /\ scan.pc # "none" => \E k \in Clients, i \in 1..MaxPolls :
       scan.of = <<k, i>> /\ poll[k][i].pc = "scanning"
  /\ scan.pc \in {"check", "start", "body", "emit"} => scan.at \in Nodes
  /\ scan.pc \in {"start", "body"} => Within(scan.next, scan.at)
  /\ scan.pc = "end" => scan.at = NrNodes + 1

WriterPlace == \A w \in Writers :
  /\ writer[w].pc # "idle" => writer[w].content \in Contents
  /\ writer[w].pc = "store" => writer[w].stamp >= 1

TypeInv == TypeOK /\ ChainsInv /\ ContextInv /\ ScanPlace /\ WriterPlace

(***************************************************************************)
(* The server: stamps, records and their caches                            *)
(***************************************************************************)
Kinds == {"content", "visibility"}

StampOf(c, kind) == IF kind = "content" THEN stamp[c].content ELSE stamp[c].visibility
Overtaken(c, kind) == IF kind = "content" THEN overtaken[c].content
                                          ELSE overtaken[c].visibility

\* One change of a kind is between counting and storing, with a new stamp.
StoreInv == \A c \in Contents, kind \in Kinds : \A w \in Changing(c, kind) :
  writer[w].pc = "store" =>
    /\ writer[w].stamp > StampOf(c, kind)
    /\ \A u \in Changing(c, kind) : writer[u].pc = "store" => u = w

\* A change of c is under way, or was stored, with a stamp above t.
NewerThan(c, kind, t) ==
  \/ StampOf(c, kind) > t
  \/ \E w \in Changing(c, kind) : writer[w].pc = "store" => writer[w].stamp > t

\* The nodes being rendered anew
Flux == IF scan.pc \in {"start", "body"} THEN {n \in Nodes : Within(n, scan.at)} ELSE {}

\* The records of the nodes in flux that have been drawn already
Drawn == {n \in Flux : n < scan.next}

\* n is drawn, and so are the nodes below
Complete == {n \in Flux : LastIn[n] < scan.next}

\* What a cache has of the data, and of the visibility of a node, is out of
\* date only if a newer stamp says so.
DataInv == \A n \in Nodes :
  \/ (scan.pc = "body" /\ n = scan.next)
  \/ record[n].cache[n].data = data[ContentOf[n]]
  \/ NewerThan(ContentOf[n], "content", record[n].stamp)

VisibilityInv == \A a \in Nodes, n \in Nodes :
  (n \in Below(a) /\ a \notin Flux) =>
    \/ record[a].cache[n].hidden = hidden[ContentOf[n]]
    \/ NewerThan(ContentOf[n], "visibility", record[a].stamp)

\* Nodes strictly between a and n have not been rendered again since a was.
Unchanged(a, n) == \A b \in Below(a) : n \in Below(b) => record[b].stamp <= record[a].stamp

\* A record is as old as the one that it was rendered for, or has been
\* rendered again; as long as it has not, both have cached the same.
NestedInv == \A a \in Nodes, n \in Nodes :
  (n \in Below(a) /\ a \notin Flux) =>
    /\ record[a].stamp <= record[n].stamp
    /\ Unchanged(a, n) => record[a].cache[n].id = record[n].id
    /\ Unchanged(a, n) /\ record[n].stamp <= record[a].stamp =>
         record[a].cache[n].data = record[n].cache[n].data

\* While a subtree is rendered: its top was older than its content, and is
\* now newer than the records around it; what is drawn is in order.
TopDrawn == scan.pc = "body" \/ (scan.pc = "start" /\ scan.next > scan.at)

FluxInv ==
  /\ scan.pc = "start" /\ scan.next = scan.at =>
       stamp[ContentOf[scan.at]].content > record[scan.at].stamp
  /\ TopDrawn =>
       \A a \in Nodes : scan.at \in Below(a) => record[a].stamp < record[scan.at].stamp
  /\ \A n \in Drawn : record[n].cache[n].id = record[n].id
  /\ \A a \in Drawn, n \in Flux :
       (a < n /\ (n < scan.next \/ (n = scan.next /\ scan.pc = "body"))) =>
         record[a].stamp <= record[n].stamp
  /\ \A n \in Complete : n # scan.at =>
       \/ record[n].cache[n].hidden = hidden[ContentOf[n]]
       \/ NewerThan(ContentOf[n], "visibility", record[n].stamp)

RecordInv == StoreInv /\ DataInv /\ VisibilityInv /\ NestedInv /\ FluxInv

(***************************************************************************)
(* What a stamp stands for: whoever has it has seen all changes up to it,  *)
(* but those that it has overtaken.                                        *)
(***************************************************************************)
Behind(c, kind, t) == StampOf(c, kind) > t \/ Overtaken(c, kind) = "now"

\* Changes of c that have been counted and not stored will be behind t.
Passed(c, kind, t) == \A w \in Changing(c, kind) :
  writer[w].pc = "store" => writer[w].stamp > t \/ writer[w].passed

\* For the nodes up to m a refresh with stamp t has found no stale record.
CheckedAt(n, t) ==
  /\ Passed(ContentOf[n], "content", t)
  /\ stamp[ContentOf[n]].content <= record[n].stamp \/ Behind(ContentOf[n], "content", t)

Checked(m, t) == \A n \in Nodes : n <= m => CheckedAt(n, t)

Looked(m, t) == \A n \in Nodes : n <= m => Passed(ContentOf[n], "visibility", t)

\* A subtree that is rendered anew belongs to a change behind t.
FluxBehind(t) == Flux # {} => Behind(ContentOf[scan.at], "content", t)

Seen(t) == Checked(NrNodes, t) /\ Looked(NrNodes, t) /\ FluxBehind(t)

ScanSeen(t) ==
  /\ Checked(scan.at - 1, t) /\ Looked(scan.at - 1, t)
  /\ scan.pc \in {"start", "body"} => Passed(ContentOf[scan.at], "content", t)
  /\ TopDrawn \/ scan.pc = "emit" => CheckedAt(scan.at, t)

SeenInv ==
  /\ \A k \in Clients :
       /\ page[k].context = context => Seen(page[k].timestamp)
       /\ \A i \in 1..MaxPolls : poll[k][i].pc = "answered" => Seen(poll[k][i].stamp)
  /\ scan.pc # "none" => ScanSeen(Scanned.stamp)

(***************************************************************************)
(* What a page shows                                                       *)
(***************************************************************************)
\* A content around node n is behind t.
AroundBehind(n, t) == \E a \in Nodes : n \in Below(a) /\ Behind(ContentOf[a], "content", t)

RightId(d, n, t) == d.id = record[n].id \/ AroundBehind(n, t)

RightData(d, n, t) == \/ d.data = record[n].cache[n].data
                      \/ Behind(ContentOf[n], "content", t) \/ AroundBehind(n, t)

RightVisibility(d, n, t) == \/ d.hidden = hidden[ContentOf[n]]
                            \/ Behind(ContentOf[n], "visibility", t)
                            \/ Changing(ContentOf[n], "visibility") # {}
                            \/ AroundBehind(n, t)

\* A div that shows d for node n is right, for all that stamp t has seen.
RightAt(d, n, t) == RightId(d, n, t) /\ RightData(d, n, t) /\ RightVisibility(d, n, t)

PageInv == \A k \in Clients :
  /\ page[k].divs[Root].id = RootId
  /\ page[k].context = context =>
       \A n \in Nodes : RightAt(page[k].divs[n], n, page[k].timestamp)

(***************************************************************************)
(* What a script does to any page                                          *)
(***************************************************************************)
\* No content around n has changed since t.
Quiet(n, t) == \A a \in Nodes : n \in Below(a) => stamp[ContentOf[a]].content <= t

\* Node n after the script of p, if it was D[n] before: right for the stamp
\* of the answer, or left as it was because it has not changed since the old
\* stamp, or because the script has thrown.
Done(p, n, was, is, ok) ==
  /\ \/ RightId(is, n, p.stamp)
     \/ (is.id = was.id /\ (ok => Quiet(n, p.old)))
  /\ \/ RightData(is, n, p.stamp)
     \/ /\ is.data = was.data
        /\ ok => Quiet(n, p.old) /\ stamp[ContentOf[n]].content <= p.old
  /\ \/ RightVisibility(is, n, p.stamp)
     \/ /\ is.hidden = was.hidden
        /\ ok => Quiet(n, p.old) /\ stamp[ContentOf[n]].visibility <= p.old

\* The statements sent for a have put all of its cache on the page, and nothing
\* between a and n has been sent since: a is what n is compared with.
Cover(a, n, old) ==
  /\ n \in Below(a) /\ a < scan.at
  /\ scan.old[n] = record[a].stamp /\ record[a].stamp > old
  /\ \A b \in Below(a) : b < scan.at /\ n \in Below(b) => record[b].stamp = record[a].stamp

\* A node that the walk comes to later is covered, or nothing around it has
\* been sent since the old stamp.
OldInv ==
  scan.pc # "none" =>
    /\ \A n \in Nodes : n >= scan.at =>
         scan.old[n] = Scanned.old \/ \E a \in Nodes : Cover(a, n, Scanned.old)
    /\ \A n \in Nodes, a \in Nodes :
         n >= scan.at /\ n \in Below(a) /\ a < scan.at /\ scan.old[n] = Scanned.old =>
           record[a].stamp <= Scanned.old

\* The script has left such a node as it was, or has drawn it with its cover.
ToCome(p, n, was, is, ok) ==
  /\ scan.old[n] = p.old \/ ~ok => is = was
  /\ scan.old[n] # p.old /\ ok =>
       \E a \in Nodes : Cover(a, n, p.old) /\ is = record[a].cache[n]

\* Node n of page D, on which a script has had the result r
AtNode(p, D, r, n) == IF n < scan.at THEN Done(p, n, D[n], r.divs[n], r.ok)
                                     ELSE ToCome(p, n, D[n], r.divs[n], r.ok)

\* The script of an answer in the making, and those of the answers under way,
\* if they are run on page D.
WalkScript(D) ==
  scan.pc # "none" =>
    LET r == Script(D, Scanned.buffer)
    IN  \A n \in Nodes : AtNode(Scanned, D, r, n)

AnswerScript(D) ==
  \A k \in Clients, i \in 1..MaxPolls : poll[k][i].pc = "answered" =>
    LET r == Script(D, poll[k][i].buffer)
    IN  \A n \in Nodes : Done(poll[k][i], n, D[n], r.divs[n], r.ok)

ScriptInv(pages) == \A D \in pages : WalkScript(D) /\ AnswerScript(D)

\* Nothing has been put into a request that waits; an old stamp is that of the
\* page, or of what the page showed before.
AskInv == \A k \in Clients, i \in 1..MaxPolls :
  /\ poll[k][i].pc \in {"sent", "ready"} => poll[k][i].buffer = <<>>
  /\ poll[k][i].pc # "none" /\ poll[k][i].context = context /\ poll[k][i].old # -1 =>
       page[k].context = context /\ poll[k][i].old <= page[k].timestamp

\* No answer of an older server is under way.
AnswerInv == \A k \in Clients, i \in 1..MaxPolls :
  poll[k][i].pc = "answered" => poll[k][i].context = context

-----------------------------------------------------------------------------
(* Scripts.                                                                *)

States == [divs : [Nodes -> Divs], ok : BOOLEAN]

Start(D) == [divs |-> D, ok |-> TRUE]

\* f gives the states after the first n statements of buffer.
Runs(f, D, buffer, n) ==
  f = [j \in 0..n |-> IF j = 0 THEN Start(D) ELSE Apply(f[j - 1], buffer[j])]

LEMMA ApplyType ==
  ASSUME NEW s \in States, NEW u \in Statements
  PROVE  Apply(s, u) \in States
<1>1. CASE ~s.ok \/ s.divs[u.node].id # u.id
  BY <1>1 DEF Apply, States
<1>2. CASE u.kind = "visibility"
  <2>1. u.hidden \in BOOLEAN /\ u.node \in Nodes
    BY <1>2 DEF Statements
  <2>2. [s.divs EXCEPT ![u.node].hidden = u.hidden] \in [Nodes -> Divs]
    BY <2>1 DEF States, Divs
  <2> QED
    BY <1>1, <1>2, <2>2 DEF Apply, States
<1>3. CASE u.kind # "visibility"
  <2>1. u.cache \in [Nodes -> Divs] /\ u.node \in Nodes
    BY <1>3 DEF Statements
  <2>2. [n \in Nodes |-> IF n \in Below(u.node) THEN u.cache[n]
                         ELSE IF n = u.node
                              THEN [s.divs[n] EXCEPT !.data = u.cache[n].data]
                              ELSE s.divs[n]] \in [Nodes -> Divs]
    BY <2>1 DEF States, Divs
  <2> QED
    BY <1>1, <1>3, <2>2 DEF Apply, States
<1> QED
  BY <1>2, <1>3

LEMMA RunsFurther ==
  ASSUME NEW D, NEW buffer, NEW n \in Nat \ {0}, NEW f, Runs(f, D, buffer, n - 1)
  PROVE  \E g : Runs(g, D, buffer, n)
<1> DEFINE g == [j \in 0..n |-> IF j < n THEN f[j] ELSE Apply(f[n - 1], buffer[n])]
<1>1. \A j \in 0..n : g[j] = IF j < n THEN f[j] ELSE Apply(f[n - 1], buffer[n])
  OBVIOUS
<1>2. g = [j \in 0..n |-> g[j]]
  OBVIOUS
<1> HIDE DEF g
<1>3. ASSUME NEW j \in 0..n
      PROVE  g[j] = IF j = 0 THEN Start(D) ELSE Apply(g[j - 1], buffer[j])
  <2>1. j < n => f[j] = IF j = 0 THEN Start(D) ELSE Apply(f[j - 1], buffer[j])
    BY DEF Runs
  <2>2. j # 0 => j - 1 \in 0..n /\ g[j - 1] = f[j - 1]
    BY <1>1
  <2> QED
    BY <1>1, <2>1, <2>2
<1>4. g = [j \in 0..n |-> IF j = 0 THEN Start(D) ELSE Apply(g[j - 1], buffer[j])]
  BY <1>2, <1>3
<1> QED
  BY <1>4 DEF Runs

\* The recursive definition in Script has a solution.
LEMMA ScriptRuns ==
  ASSUME NEW D, NEW buffer, Len(buffer) \in Nat
  PROVE  \E f : Runs(f, D, buffer, Len(buffer)) /\ Script(D, buffer) = f[Len(buffer)]
<1> DEFINE N == Len(buffer)
           G == {n \in Nat : \E f : Runs(f, D, buffer, n)}
<1>1. 0 \in G
  <2>1. Runs([j \in 0..0 |-> Start(D)], D, buffer, 0)
    BY DEF Runs
  <2> QED
    BY <2>1
<1>2. ASSUME NEW n \in 1..N, n - 1 \in G
      PROVE  n \in G
  BY <1>2, RunsFurther
<1> HIDE DEF G
<1>3. N \in G
  BY <1>1, <1>2, UpTo
<1> USE DEF G
<1> DEFINE after == CHOOSE f : f = [j \in 0..N |-> IF j = 0 THEN [divs |-> D, ok |-> TRUE]
                                                   ELSE Apply(f[j - 1], buffer[j])]
<1>4. Runs(after, D, buffer, N)
  BY <1>3 DEF Runs, Start
<1>5. Script(D, buffer) = after[N]
  BY DEF Script
<1> QED
  BY <1>4, <1>5

\* The solution is the only one.
LEMMA RunsAgree ==
  ASSUME NEW D, NEW b, NEW c, NEW m \in Nat, NEW n \in Nat, m <= n,
         \A j \in 1..m : b[j] = c[j],
         NEW f, Runs(f, D, b, m), NEW g, Runs(g, D, c, n)
  PROVE  f[m] = g[m]
<1> DEFINE G == {j \in Nat : j <= m => f[j] = g[j]}
<1>1. /\ \A j \in 0..m : f[j] = IF j = 0 THEN Start(D) ELSE Apply(f[j - 1], b[j])
      /\ \A j \in 0..n : g[j] = IF j = 0 THEN Start(D) ELSE Apply(g[j - 1], c[j])
  BY DEF Runs
<1>2. 0 \in G
  BY <1>1
<1>3. ASSUME NEW j \in 1..m, j - 1 \in G
      PROVE  j \in G
  <2>1. f[j - 1] = g[j - 1]
    BY <1>3
  <2> QED
    BY <1>1, <2>1
<1> HIDE DEF G
<1>4. m \in G
  BY <1>2, <1>3, UpTo
<1> QED
  BY <1>4 DEF G

LEMMA ScriptEmpty ==
  ASSUME NEW D
  PROVE  Script(D, <<>>) = Start(D)
<1>1. Len(<<>>) = 0
  OBVIOUS
<1>2. PICK f : Runs(f, D, <<>>, 0) /\ Script(D, <<>>) = f[0]
  BY <1>1, ScriptRuns
<1> QED
  BY <1>2 DEF Runs

LEMMA ScriptAppend ==
  ASSUME NEW D, NEW S, NEW b \in Seq(S), NEW u \in S
  PROVE  Script(D, Append(b, u)) = Apply(Script(D, b), u)
<1> DEFINE c == Append(b, u)
           n == Len(b)
<1>1. n \in Nat /\ Len(c) = n + 1 /\ c[n + 1] = u /\ \A j \in 1..n : b[j] = c[j]
  BY AppendProperties, LenProperties
<1> HIDE DEF c, n
<1>2. PICK f : Runs(f, D, b, n) /\ Script(D, b) = f[n]
  BY <1>1, ScriptRuns DEF n
<1>3. PICK g : Runs(g, D, c, n + 1) /\ Script(D, c) = g[n + 1]
  BY <1>1, ScriptRuns
<1>4. g[n + 1] = Apply(g[n], u)
  <2>1. n + 1 \in 0..(n + 1) /\ n + 1 # 0 /\ n + 1 - 1 = n
    BY <1>1
  <2> QED
    BY <1>1, <1>3, <2>1 DEF Runs
<1>5. f[n] = g[n]
  BY <1>1, <1>2, <1>3, RunsAgree
<1> QED
  BY <1>2, <1>3, <1>4, <1>5 DEF c

LEMMA ScriptType ==
  ASSUME NEW D \in [Nodes -> Divs], NEW b \in Seq(Statements)
  PROVE  Script(D, b) \in States
<1>1. Len(b) \in Nat /\ \A j \in 1..Len(b) : b[j] \in Statements
  BY ElementOfSeq, LenProperties
<1>2. PICK f : Runs(f, D, b, Len(b)) /\ Script(D, b) = f[Len(b)]
  BY <1>1, ScriptRuns
<1>3. \A j \in 0..Len(b) : f[j] = IF j = 0 THEN Start(D) ELSE Apply(f[j - 1], b[j])
  BY <1>2 DEF Runs
<1> DEFINE G == {j \in Nat : j <= Len(b) => f[j] \in States}
<1>4. 0 \in G
  <2>1. f[0] = Start(D)
    BY <1>1, <1>3
  <2>2. Start(D) \in States
    BY DEF Start, States
  <2> QED
    BY <2>1, <2>2
<1>5. ASSUME NEW j \in 1..Len(b), j - 1 \in G
      PROVE  j \in G
  BY <1>1, <1>3, <1>5, ApplyType
<1> HIDE DEF G
<1>6. Len(b) \in G
  BY <1>1, <1>4, <1>5, UpTo
<1> QED
  BY <1>1, <1>2, <1>6 DEF G

-----------------------------------------------------------------------------
(* Types.                                                                  *)

Pcs == {"none", "sent", "ready", "scanning", "answered"}
Polls == [pc : Pcs, old : Nat \union {-1}, context : 0..(MaxFailures + 1), stamp : Nat,
          buffer : Seq(Statements)]
Pages == [timestamp : Nat, context : 0..(MaxFailures + 1), divs : [Nodes -> Divs]]
Timers == [refresh : 0..MaxPolls, warning : BOOLEAN]
Stamps(n) == [content : 1..n, visibility : 1..n]
Records(i, n) == [id : 0..(i - 1), stamp : -1..n, cache : [Nodes -> Divs]]
Scans(n) == [of : (Clients \X (1..MaxPolls)) \union {None},
             pc : {"none", "check", "start", "body", "emit", "end"},
             at : 0..(NrNodes + 1), next : 0..(NrNodes + 1), old : [Nodes -> -1..n]]
WritersAt(n) == [pc : {"idle", "take", "store"}, content : Contents \union {None},
                 kind : {"content", "visibility"}, stamp : 0..n, passed : BOOLEAN]
Histories == [content : Overtaking, visibility : Overtaking]

\* TypeOK by its parts
LEMMA Types ==
  TypeOK <=> /\ counter \in Nat /\ context \in 1..(MaxFailures + 1) /\ nextId \in Nat
             /\ data \in [Contents -> Nat] /\ hidden \in [Contents -> BOOLEAN]
             /\ stamp \in [Contents -> Stamps(counter)]
             /\ record \in [Nodes -> Records(nextId, counter)]
             /\ scan \in Scans(counter)
             /\ writer \in [Writers -> WritersAt(counter)]
             /\ page \in [Clients -> Pages]
             /\ timer \in [Clients -> Timers]
             /\ poll \in [Clients -> [1..MaxPolls -> Polls]]
             /\ overtaken \in [Contents -> Histories]
BY DEF TypeOK, Stamps, Records, Scans, WritersAt, Pages, Timers, Polls, Pcs, Histories

LEMMA TypesNext ==
  ASSUME counter' \in Nat, context' \in 1..(MaxFailures + 1), nextId' \in Nat,
         data' \in [Contents -> Nat], hidden' \in [Contents -> BOOLEAN],
         stamp' \in [Contents -> Stamps(counter')],
         record' \in [Nodes -> Records(nextId', counter')],
         scan' \in Scans(counter'),
         writer' \in [Writers -> WritersAt(counter')],
         page' \in [Clients -> Pages], timer' \in [Clients -> Timers],
         poll' \in [Clients -> [1..MaxPolls -> Polls]],
         overtaken' \in [Contents -> Histories]
  PROVE  TypeOK'
BY DEF TypeOK, Stamps, Records, Scans, WritersAt, Pages, Timers, Polls, Pcs, Histories

LEMMA Grow ==
  ASSUME NEW m \in Nat, NEW n \in Nat, m <= n, NEW i \in Nat, NEW j \in Nat, i <= j
  PROVE  /\ Stamps(m) \subseteq Stamps(n)
         /\ Records(i, m) \subseteq Records(j, n)
         /\ Scans(m) \subseteq Scans(n)
         /\ WritersAt(m) \subseteq WritersAt(n)
<1>1. 1..m \subseteq 1..n /\ 0..m \subseteq 0..n /\ -1..m \subseteq -1..n
      /\ 0..(i - 1) \subseteq 0..(j - 1)
  OBVIOUS
<1>2. [Nodes -> -1..m] \subseteq [Nodes -> -1..n]
  BY <1>1
<1> QED
  BY <1>1, <1>2 DEF Stamps, Records, Scans, WritersAt

LEMMA Tree ==
  /\ NrNodes \in Nat /\ NrNodes >= 1 /\ Root \in Nodes
  /\ \A n \in Nodes : /\ LastIn[n] \in Nodes /\ n <= LastIn[n] /\ n \in Nat
                      /\ n >= 1 /\ n <= NrNodes /\ ContentOf[n] \in Contents
  /\ \A a, n \in Nodes : Within(n, a) => LastIn[n] <= LastIn[a]
  /\ \A a, n \in Nodes : n \in Below(a) <=> a < n /\ n <= LastIn[a]
BY ConstantsAssumption DEF Nodes, Root, Within, Below

\* The numbers of a server and of the constants
LEMMA NumberTypes ==
  ASSUME TypeOK, ContextInv
  PROVE  /\ counter \in Nat /\ context \in Nat /\ context >= 1
         /\ failures \in 0..MaxFailures /\ MaxFailures \in Nat /\ MaxPolls \in Nat
<1>1. counter \in Nat /\ context \in 1..(MaxFailures + 1)
  BY DEF TypeOK
<1>2. MaxFailures \in Nat /\ MaxPolls \in Nat
  BY ConstantsAssumption
<1>3. failures \in 0..MaxFailures
  BY DEF ContextInv
<1> QED
  BY <1>1, <1>2, <1>3

\* The fields of pages and timers
LEMMA FieldTypes ==
  /\ \A p \in Pages : p.timestamp \in Nat /\ p.context \in Nat /\ p.divs \in [Nodes -> Divs]
  /\ \A x \in Timers : x.refresh \in Int
<1>1. MaxFailures \in Nat /\ MaxPolls \in Nat
  BY ConstantsAssumption
<1>2. \A p \in Pages : p.timestamp \in Nat /\ p.context \in Nat /\ p.divs \in [Nodes -> Divs]
  BY <1>1 DEF Pages
<1>3. \A x \in Timers : x.refresh \in 0..MaxPolls
  BY DEF Timers
<1>4. 0..MaxPolls \subseteq Int
  OBVIOUS
<1> QED
  BY <1>2, <1>3, <1>4

\* What browsers keep
LEMMA BrowserTypes ==
  ASSUME TypeOK
  PROVE  /\ page \in [Clients -> Pages] /\ timer \in [Clients -> Timers]
         /\ poll \in [Clients -> [1..MaxPolls -> Polls]]
         /\ \A k \in Clients : page[k] \in Pages /\ timer[k].refresh \in Int
         /\ \A k \in Clients, i \in 1..MaxPolls : poll[k][i] \in Polls
<1>1. /\ page \in [Clients -> Pages] /\ timer \in [Clients -> Timers]
      /\ poll \in [Clients -> [1..MaxPolls -> Polls]]
  BY Types
<1>2. \A k \in Clients : page[k] \in Pages
  BY <1>1
<1>3. \A k \in Clients : timer[k] \in Timers
  BY <1>1
<1>4. \A k \in Clients, i \in 1..MaxPolls : poll[k][i] \in Polls
  BY <1>1
<1> QED
  BY <1>1, <1>2, <1>3, <1>4, FieldTypes

\* A failure more leaves room for the number of the next server.
LEMMA FailuresCount ==
  ASSUME TypeOK, ContextInv, failures' \in 0..MaxFailures, failures <= failures'
  PROVE  context <= failures' + 1
<1>1. failures \in Int /\ failures' \in Int /\ context \in Int
  BY NumberTypes
<1>2. context <= failures + 1
  BY DEF ContextInv
<1>3. failures <= failures'
  OBVIOUS
<1>4. \A a, b, c \in Int : a <= b + 1 /\ b <= c => a <= c + 1
  OBVIOUS
<1> QED
  BY <1>1, <1>2, <1>3, <1>4

\* The initial stamps, records and pages are of these types.
LEMMA InitialTypes ==
  /\ InitialCounter \in Nat
  /\ InitialStamp \in [Contents -> Stamps(InitialCounter)]
  /\ \A i \in Nat : i >= 2 => InitialRecord \in [Nodes -> Records(i, InitialCounter)]
  /\ NoScan \in Scans(InitialCounter)
  /\ Idle \in WritersAt(InitialCounter)
  /\ LoadedPage \in Pages /\ NoPoll \in Polls /\ NoNodes \in [Nodes -> Divs]
<1>1. InitialCounter \in Nat /\ InitialCounter >= 2
  BY Tree DEF InitialCounter
<1>2. NoNodes \in [Nodes -> Divs]
  BY DEF NoNodes, NoDiv, Divs
<1>3. ASSUME NEW c \in Contents PROVE First(c) \in Nodes
  <2> DEFINE T == {n \in Nodes : ContentOf[n] = c}
  <2>1. T \in SUBSET Nat /\ T # {}
    BY ConstantsAssumption, Tree
  <2>2. PICK n \in T : \A m \in T : n <= m
    BY <2>1, Least
  <2>3. \A m \in 1..(n - 1) : ContentOf[m] # c
    BY <2>2, Tree DEF Nodes
  <2> QED
    BY <2>2, <2>3 DEF First
<1>4. InitialStamp \in [Contents -> Stamps(InitialCounter)]
  BY <1>1, <1>3, Tree DEF InitialStamp, InitialCounter, Stamps
<1>5. \A i \in Nat : i >= 2 => InitialRecord \in [Nodes -> Records(i, InitialCounter)]
  BY <1>1, <1>2 DEF InitialRecord, Records, RootId
<1>6. NoScan \in Scans(InitialCounter)
  BY <1>1, Tree DEF NoScan, Scans
<1>7. Idle \in WritersAt(InitialCounter)
  BY <1>1 DEF Idle, WritersAt
<1>8. LoadedPage \in Pages
  <2>1. [NoNodes EXCEPT ![Root].id = RootId] \in [Nodes -> Divs]
    BY <1>2 DEF Divs, RootId
  <2> QED
    BY <2>1, ConstantsAssumption DEF LoadedPage, Pages
<1>9. NoPoll \in Polls
  BY ConstantsAssumption DEF NoPoll, Polls, Pcs
<1> QED
  BY <1>1, <1>2, <1>4, <1>5, <1>6, <1>7, <1>8, <1>9

\* The request i of client k becomes q.
OnlyPoll(k, i, q) ==
  /\ poll' \in [Clients -> [1..MaxPolls -> Polls]]
  /\ \A l \in Clients, j \in 1..MaxPolls :
       poll'[l][j] = IF l = k /\ j = i THEN q ELSE poll[l][j]

LEMMA PollChange ==
  ASSUME TypeOK, NEW k \in Clients, NEW i \in 1..MaxPolls, NEW q \in Polls,
         poll' = [poll EXCEPT ![k] = [poll[k] EXCEPT ![i] = q]]
  PROVE  OnlyPoll(k, i, q)
<1>1. poll \in [Clients -> [1..MaxPolls -> Polls]]
  BY Types
<1> QED
  BY <1>1 DEF OnlyPoll

LEMMA FlightIsFinite ==
  ASSUME NEW f, NEW S \in SUBSET (1..MaxPolls)
  PROVE  /\ IsFiniteSet(S) /\ Cardinality(S) \in Nat
         /\ \A i \in (1..MaxPolls) \ S : Cardinality(S \union {i}) = Cardinality(S) + 1
<1>1. IsFiniteSet(1..MaxPolls)
  BY FS_Interval, ConstantsAssumption
<1>2. IsFiniteSet(S)
  BY <1>1, FS_Subset
<1> QED
  BY <1>2, FS_CardinalityType, FS_AddElement

\* A request counts as long as it is in flight.
LEMMA Flights ==
  ASSUME TypeOK, NEW k \in Clients, NEW i \in 1..MaxPolls, NEW q \in Polls, OnlyPoll(k, i, q)
  PROVE  /\ \A l \in Clients : InFlight(l) \in Nat /\ InFlight(l)' \in Nat
         /\ \A l \in Clients \ {k} : InFlight(l)' = InFlight(l)
         /\ InFlight(k)' = IF q.pc = "none"
                           THEN IF poll[k][i].pc = "none" THEN InFlight(k) ELSE InFlight(k) - 1
                           ELSE IF poll[k][i].pc = "none" THEN InFlight(k) + 1 ELSE InFlight(k)
<1> DEFINE F(l) == {j \in 1..MaxPolls : poll[l][j].pc # "none"}
           G(l) == {j \in 1..MaxPolls : poll'[l][j].pc # "none"}
<1>1. \A l \in Clients : /\ InFlight(l) = Cardinality(F(l)) /\ InFlight(l)' = Cardinality(G(l))
                         /\ F(l) \in SUBSET (1..MaxPolls) /\ G(l) \in SUBSET (1..MaxPolls)
  BY DEF InFlight
<1>2. \A l \in Clients \ {k} : G(l) = F(l)
  BY DEF OnlyPoll
<1>3. /\ q.pc = "none" => i \notin G(k) /\ G(k) = F(k) \ {i}
      /\ q.pc # "none" => i \in G(k) /\ G(k) = F(k) \union {i}
      /\ poll[k][i].pc = "none" <=> i \notin F(k)
  BY DEF OnlyPoll
<1> HIDE DEF F, G
<1>4. \A l \in Clients : InFlight(l) \in Nat /\ InFlight(l)' \in Nat
  BY <1>1, FlightIsFinite
<1>5. CASE q.pc = "none" /\ poll[k][i].pc # "none"
  <2>1. F(k) = G(k) \union {i}
    BY <1>3, <1>5
  <2>2. Cardinality(F(k)) = Cardinality(G(k)) + 1
    BY <1>1, <1>3, <1>5, <2>1, FlightIsFinite
  <2> QED
    BY <1>1, <1>2, <1>4, <1>5, <2>2
<1>6. CASE q.pc # "none" /\ poll[k][i].pc = "none"
  <2>1. Cardinality(G(k)) = Cardinality(F(k)) + 1
    BY <1>1, <1>3, <1>6, FlightIsFinite
  <2> QED
    BY <1>1, <1>2, <1>4, <1>6, <2>1
<1>7. CASE q.pc = "none" <=> poll[k][i].pc = "none"
  <2>1. G(k) = F(k)
    BY <1>3, <1>7
  <2> QED
    BY <1>1, <1>2, <1>4, <1>7, <2>1
<1> QED
  BY <1>5, <1>6, <1>7

LEMMA InFlightIsNat == \A k \in Clients : InFlight(k) \in Nat
BY FlightIsFinite DEF InFlight

LEMMA TypesInit == Init => TypeInv
<1> SUFFICES ASSUME Init PROVE TypeInv
  OBVIOUS
<1>1. TypeOK
  <2>1. /\ counter = InitialCounter /\ context = 1 /\ nextId = 2
        /\ data = [c \in Contents |-> 1] /\ hidden = [c \in Contents |-> FALSE]
        /\ stamp = InitialStamp /\ record = InitialRecord /\ scan = NoScan
        /\ writer = [w \in Writers |-> Idle] /\ page = [k \in Clients |-> LoadedPage]
        /\ timer = [k \in Clients |-> [refresh |-> 1, warning |-> TRUE]]
        /\ poll = [k \in Clients |-> [i \in 1..MaxPolls |-> NoPoll]]
        /\ overtaken = [c \in Contents |-> [content |-> "no", visibility |-> "no"]]
    BY DEF Init, RootId
  <2>2. /\ context \in 1..(MaxFailures + 1) /\ timer \in [Clients -> Timers]
        /\ overtaken \in [Contents -> Histories]
    BY <2>1, ConstantsAssumption DEF Timers, Histories, Overtaking
  <2> QED
    BY <2>1, <2>2, Types, InitialTypes
<1>2. ChainsInv
  <2>1. ASSUME NEW k \in Clients PROVE InFlight(k) = 0
    <3>1. {i \in 1..MaxPolls : poll[k][i].pc # "none"} = {}
      BY DEF Init, NoPoll
    <3> QED
      BY <3>1, FS_EmptySet DEF InFlight
  <2> QED
    BY <2>1, ConstantsAssumption DEF Init, ChainsInv
<1>3. ContextInv
  BY <1>1, Types, ConstantsAssumption DEF Init, ContextInv, LoadedPage, NoPoll
<1>4. ScanPlace
  BY DEF Init, ScanPlace, NoScan
<1>5. WriterPlace
  BY DEF Init, WriterPlace, Idle
<1> QED
  BY <1>1, <1>2, <1>3, <1>4, <1>5 DEF TypeInv

-----------------------------------------------------------------------------
(* Types: the writers.                                                     *)

\* The variables that hold the pages and the requests
LEMMA SameClients ==
  ASSUME TypeInv, UNCHANGED <<context, page, timer, poll, failures>>,
         counter' \in Nat, counter <= counter'
  PROVE  ChainsInv' /\ ContextInv'
<1>1. ChainsInv'
  BY DEF TypeInv, ChainsInv, InFlight
<1>2. ContextInv'
  <2> USE DEF TypeInv
  <2>1. ASSUME NEW k \in Clients
        PROVE  page[k].timestamp \in Nat /\ counter \in Nat
    BY Types DEF Pages
  <2>2. ASSUME NEW k \in Clients, NEW i \in 1..MaxPolls
        PROVE  poll[k][i].old \in Int /\ poll[k][i].stamp \in Nat
    <3>1. poll[k][i] \in Polls
      BY Types
    <3> QED
      BY <3>1 DEF Polls
  <2> QED
    BY <2>1, <2>2 DEF ContextInv
<1> QED
  BY <1>1, <1>2

LEMMA WriterTypes ==
  ASSUME TypeInv,
         \/ Change
         \/ \E w \in Writers : Stamping(w)
  PROVE  TypeInv'
<1> USE DEF TypeInv
<1>0. /\ counter \in Nat /\ writer \in [Writers -> WritersAt(counter)]
      /\ stamp \in [Contents -> Stamps(counter)] /\ overtaken \in [Contents -> Histories]
      /\ data \in [Contents -> Nat] /\ hidden \in [Contents -> BOOLEAN]
  BY Types
<1>1. ASSUME NEW w \in Writers, NEW c \in Contents, NEW kind \in {"content", "visibility"},
             StartWriting(w, c, kind), UNCHANGED counter
      PROVE  writer' \in [Writers -> WritersAt(counter')] /\ WriterPlace'
  <2> DEFINE q == [Idle EXCEPT !.pc = "take", !.content = c, !.kind = kind]
  <2>1. q \in WritersAt(counter) /\ q.pc = "take" /\ q.content = c
    <3>1. Idle \in WritersAt(counter)
      BY <1>0 DEF Idle, WritersAt
    <3> QED
      BY <1>0, <3>1 DEF WritersAt
  <2>2. writer' = [writer EXCEPT ![w] = q]
    BY <1>1 DEF StartWriting
  <2> HIDE DEF q
  <2> QED
    BY <1>0, <1>1, <2>1, <2>2 DEF WriterPlace
<1>2. ASSUME NEW w \in Writers, NEW c \in Contents, ChangeData(w, c) PROVE TypeInv'
  <2>1. data' \in [Contents -> Nat]
    BY <1>0, <1>2 DEF ChangeData
  <2>2. writer' \in [Writers -> WritersAt(counter')] /\ WriterPlace'
    BY <1>1, <1>2 DEF ChangeData
  <2>3. UNCHANGED <<counter, context, hidden, stamp, record, nextId, scan,
                    page, timer, poll, failures, overtaken>>
    BY <1>2 DEF ChangeData, clientVars
  <2>4. TypeOK'
    BY <2>1, <2>2, <2>3, Types, TypesNext
  <2>5. ScanPlace'
    BY <2>3 DEF ScanPlace
  <2> QED
    BY <1>0, <2>2, <2>3, <2>4, <2>5, SameClients
<1>3. ASSUME NEW w \in Writers, NEW c \in Contents, Toggle(w, c) PROVE TypeInv'
  <2>1. hidden' \in [Contents -> BOOLEAN]
    BY <1>0, <1>3 DEF Toggle
  <2>2. writer' \in [Writers -> WritersAt(counter')] /\ WriterPlace'
    BY <1>1, <1>3 DEF Toggle
  <2>3. UNCHANGED <<counter, context, data, stamp, record, nextId, scan,
                    page, timer, poll, failures, overtaken>>
    BY <1>3 DEF Toggle, clientVars
  <2>4. TypeOK'
    BY <2>1, <2>2, <2>3, Types, TypesNext
  <2>5. ScanPlace'
    BY <2>3 DEF ScanPlace
  <2> QED
    BY <1>0, <2>2, <2>3, <2>4, <2>5, SameClients
<1>4. ASSUME NEW w \in Writers, TakeStamp(w) PROVE TypeInv'
  <2>1. counter' = counter + 1 /\ counter' \in Nat /\ counter <= counter'
    BY <1>0, <1>4 DEF TakeStamp
  <2>2. UNCHANGED <<context, data, hidden, stamp, record, nextId, scan,
                    page, timer, poll, failures, overtaken>>
    BY <1>4 DEF TakeStamp, clientVars
  <2>3. /\ Stamps(counter) \subseteq Stamps(counter')
        /\ Records(nextId, counter) \subseteq Records(nextId, counter')
        /\ Scans(counter) \subseteq Scans(counter')
        /\ WritersAt(counter) \subseteq WritersAt(counter')
    BY <1>0, <2>1, Types, Grow
  <2>4. writer' \in [Writers -> WritersAt(counter')]
    BY <1>0, <1>4, <2>1, <2>3 DEF TakeStamp, WritersAt
  <2>5. WriterPlace'
    BY <1>0, <1>4, <2>1 DEF TakeStamp, WriterPlace, WritersAt
  <2>6. TypeOK'
    BY <2>1, <2>2, <2>3, <2>4, Types, TypesNext
  <2>7. ScanPlace'
    BY <2>2 DEF ScanPlace
  <2> QED
    BY <2>1, <2>2, <2>5, <2>6, <2>7, SameClients
<1>5. ASSUME NEW w \in Writers, StoreStamp(w) PROVE TypeInv'
  <2>1. UNCHANGED <<counter, context, data, hidden, record, nextId, scan,
                    page, timer, poll, failures>>
    BY <1>5 DEF StoreStamp, clientVars
  <2>2. /\ writer[w].content \in Contents /\ writer[w].stamp \in 1..counter
        /\ writer[w].pc = "store"
    BY <1>0, <1>5 DEF StoreStamp, WriterPlace, WritersAt
  <2>3. stamp' \in [Contents -> Stamps(counter)]
    BY <1>0, <1>5, <2>2 DEF StoreStamp, StampWith, Stamps
  <2>4. overtaken' \in [Contents -> Histories]
    BY <1>0, <1>5, <2>2 DEF StoreStamp, Histories, Overtaking
  <2>5. writer' \in [Writers -> WritersAt(counter)] /\ WriterPlace'
    BY <1>0, <1>5, InitialTypes DEF StoreStamp, WritersAt, WriterPlace, Idle
  <2>6. TypeOK'
    BY <2>1, <2>3, <2>4, <2>5, Types, TypesNext
  <2>7. ScanPlace'
    BY <2>1 DEF ScanPlace
  <2> QED
    BY <1>0, <2>1, <2>5, <2>6, <2>7, SameClients
<1> QED
  BY <1>2, <1>3, <1>4, <1>5 DEF Change, Stamping

-----------------------------------------------------------------------------
(* Types: the browsers and the requests.                                   *)

LEMMA Sends ==
  ASSUME TypeOK, NEW k \in Clients, NEW i \in 1..MaxPolls, Send(k, i)
  PROVE  /\ poll[k][i].pc = "none"
         /\ \E q \in Polls : /\ OnlyPoll(k, i, q)
                             /\ q.pc = "sent" /\ q.old = page[k].timestamp
                             /\ q.context = page[k].context /\ q.stamp = 0
                             /\ q.buffer = <<>>
<1> DEFINE q == [NoPoll EXCEPT !.pc = "sent", !.old = page[k].timestamp,
                               !.context = page[k].context]
<1>1. NoPoll \in Polls /\ page[k] \in Pages /\ NoPoll.stamp = 0 /\ NoPoll.buffer = <<>>
  BY Types, InitialTypes DEF NoPoll
<1>2. /\ q \in Polls /\ q.pc = "sent" /\ q.old = page[k].timestamp
      /\ q.context = page[k].context /\ q.stamp = 0 /\ q.buffer = <<>>
  BY <1>1 DEF Polls, Pcs, Pages
<1>3. poll[k][i].pc = "none" /\ poll' = [poll EXCEPT ![k] = [poll[k] EXCEPT ![i] = q]]
  BY DEF Send
<1> HIDE DEF q
<1> QED
  BY <1>2, <1>3, PollChange

\* A request is not yet that of the walk, or has been answered.
LEMMA SameServer ==
  ASSUME TypeInv, UNCHANGED serverVars, failures' \in 0..MaxFailures, failures <= failures',
         NEW k \in Clients, NEW i \in 1..MaxPolls, NEW q \in Polls, OnlyPoll(k, i, q),
         poll[k][i].pc # "scanning",
         page' \in [Clients -> Pages], timer' \in [Clients -> Timers],
         UNCHANGED overtaken,
         \A l \in Clients : /\ page'[l].context <= context
                            /\ page'[l].context = context => page'[l].timestamp <= counter,
         q.context <= context,
         q.context = context => q.old <= counter /\ q.stamp <= counter,
         q.pc \in {"ready", "scanning"} => q.context = context
  PROVE  TypeOK' /\ ContextInv' /\ ScanPlace' /\ WriterPlace'
<1> USE DEF TypeInv
<1>1. /\ counter' = counter /\ context' = context /\ nextId' = nextId /\ data' = data
      /\ hidden' = hidden /\ stamp' = stamp /\ record' = record /\ scan' = scan
      /\ writer' = writer /\ overtaken' = overtaken
  BY DEF serverVars
<1>2. poll' \in [Clients -> [1..MaxPolls -> Polls]]
  BY DEF OnlyPoll
<1>3. TypeOK'
  BY <1>1, <1>2, Types, TypesNext
<1>4. ContextInv'
  <2>1. context <= failures' + 1
    BY FailuresCount
  <2>2. ASSUME NEW l \in Clients, NEW j \in 1..MaxPolls
        PROVE  /\ poll'[l][j].context <= context
               /\ poll'[l][j].context = context => /\ poll'[l][j].old <= counter
                                                   /\ poll'[l][j].stamp <= counter
               /\ poll'[l][j].pc \in {"ready", "scanning"} => poll'[l][j].context = context
    <3>1. CASE l = k /\ j = i
      <4>1. poll'[l][j] = q
        BY <3>1 DEF OnlyPoll
      <4> QED
        BY <4>1
    <3>2. CASE ~(l = k /\ j = i)
      <4>1. poll'[l][j] = poll[l][j]
        BY <3>2 DEF OnlyPoll
      <4> QED
        BY <4>1 DEF ContextInv
    <3> QED
      BY <3>1, <3>2
  <2> QED
    BY <1>1, <2>1, <2>2 DEF ContextInv
<1>5. ScanPlace'
  BY <1>1 DEF ScanPlace, OnlyPoll
<1>6. WriterPlace'
  BY <1>1 DEF WriterPlace
<1> QED
  BY <1>3, <1>4, <1>5, <1>6

LEMMA RefreshTypes ==
  ASSUME TypeInv, NEW k \in Clients, NEW i \in 1..MaxPolls, Refresh(k, i) \/ Timeout(k, i)
  PROVE  TypeInv'
<1> USE DEF TypeInv
<1>1. /\ page \in [Clients -> Pages] /\ timer \in [Clients -> Timers]
      /\ counter \in Nat /\ failures \in 0..MaxFailures /\ MaxPolls \in Nat
      /\ \A l \in Clients : InFlight(l) \in Nat /\ timer[l].refresh \in Int
  BY NumberTypes, BrowserTypes, InFlightIsNat
<1>2. /\ Send(k, i) /\ UNCHANGED <<serverVars, page, failures, overtaken>>
  BY DEF Refresh, Timeout, clientVars
<1>3. PICK q \in Polls : /\ OnlyPoll(k, i, q) /\ q.pc = "sent" /\ q.old = page[k].timestamp
                         /\ q.context = page[k].context /\ q.stamp = 0
  BY <1>2, Sends
<1>4. poll[k][i].pc = "none"
  BY <1>2, Sends
<1>5. /\ timer' \in [Clients -> Timers]
      /\ \A l \in Clients \ {k} : timer'[l].refresh = timer[l].refresh
      /\ timer'[k].refresh + InFlight(k) + 1 <= MaxPolls
  <2>1. CASE Refresh(k, i)
    <3>1. timer' = [timer EXCEPT ![k] = [refresh |-> timer[k].refresh - 1, warning |-> TRUE]]
          /\ timer[k].refresh > 0
      BY <2>1 DEF Refresh
    <3> QED
      BY <1>1, <3>1, ConstantsAssumption DEF Timers, ChainsInv
  <2>2. CASE Timeout(k, i)
    BY <1>1, <2>2, ConstantsAssumption DEF Timeout, clientVars
  <2> QED
    BY <2>1, <2>2
<1>6. ChainsInv'
  <2>1. /\ InFlight(k)' = InFlight(k) + 1
        /\ \A l \in Clients \ {k} : InFlight(l)' = InFlight(l)
    BY <1>3, <1>4, Flights
  <2>2. ASSUME NEW l \in Clients PROVE timer'[l].refresh + InFlight(l)' <= MaxPolls
    <3>1. CASE l = k
      <4>1. timer'[k].refresh \in Int
        BY <1>5 DEF Timers
      <4> QED
        BY <1>1, <1>5, <2>1, <3>1, <4>1
    <3>2. CASE l # k
      BY <1>5, <2>1, <3>2 DEF ChainsInv
    <3> QED
      BY <3>1, <3>2
  <2> QED
    BY <2>2 DEF ChainsInv
<1>7. /\ \A l \in Clients : /\ page'[l].context <= context
                            /\ page'[l].context = context => page'[l].timestamp <= counter
      /\ q.context <= context
      /\ q.context = context => q.old <= counter /\ q.stamp <= counter
  BY <1>1, <1>2, <1>3 DEF ContextInv
<1>8. TypeOK' /\ ContextInv' /\ ScanPlace' /\ WriterPlace'
  <2>1. /\ page' \in [Clients -> Pages] /\ failures' = failures /\ failures <= failures'
        /\ UNCHANGED serverVars /\ UNCHANGED overtaken
    BY <1>1, <1>2
  <2> QED
    BY <1>1, <1>3, <1>4, <1>5, <1>7, <2>1, SameServer
<1> QED
  BY <1>6, <1>8

\* What an answer does to the page
LEMMA Delivers ==
  ASSUME TypeOK, NEW k \in Clients, NEW i \in 1..MaxPolls, Deliver(k, i)
  PROVE  LET p == poll[k][i]
             r == Script(page[k].divs, p.buffer)
         IN  /\ p.pc = "answered" /\ OnlyPoll(k, i, NoPoll) /\ r \in States
             /\ UNCHANGED <<serverVars, failures, overtaken>>
             /\ page' \in [Clients -> Pages]
             /\ timer' = [timer EXCEPT ![k] = timer'[k]]
             /\ \A l \in Clients \ {k} : page'[l] = page[l] /\ timer'[l] = timer[l]
             /\ timer'[k].refresh \in {timer[k].refresh, timer[k].refresh + 1}
             /\ timer'[k].warning \in BOOLEAN
             /\ \/ page'[k] = page[k]
                \/ /\ Newer(k, p) /\ r.ok
                   /\ page'[k] = [timestamp |-> p.stamp, context |-> p.context, divs |-> r.divs]
                \/ /\ Newer(k, p) /\ ~r.ok
                   /\ page'[k] = [page[k] EXCEPT !.divs = r.divs]
<1> DEFINE p == poll[k][i]
           D == page[k].divs
           after == Outcome(k, p)
           r == Script(D, p.buffer)
           new == IF after.ok /\ Newer(k, p)
                  THEN [timestamp |-> p.stamp, context |-> p.context, divs |-> after.divs]
                  ELSE [page[k] EXCEPT !.divs = after.divs]
           q == IF after.ok THEN [refresh |-> timer[k].refresh + 1, warning |-> FALSE]
                            ELSE timer[k]
<1>1. /\ page \in [Clients -> Pages] /\ timer \in [Clients -> Timers] /\ p \in Polls
      /\ NoPoll \in Polls
  BY Types, InitialTypes
<1>2. D \in [Nodes -> Divs] /\ p.buffer \in Seq(Statements)
  BY <1>1 DEF Pages, Polls
<1>3. r \in States
  BY <1>2, ScriptType
<1>4. after = IF Newer(k, p) THEN r ELSE Start(D)
  BY ScriptEmpty DEF Outcome
<1>5. /\ p.pc = "answered" /\ page' = [page EXCEPT ![k] = new]
      /\ timer' = [timer EXCEPT ![k] = q]
      /\ poll' = [poll EXCEPT ![k] = [poll[k] EXCEPT ![i] = NoPoll]]
      /\ UNCHANGED <<serverVars, failures, overtaken>>
  BY <1>1 DEF Deliver
<1>6. OnlyPoll(k, i, NoPoll)
  BY <1>1, <1>5, PollChange
<1>8. /\ q.refresh \in {timer[k].refresh, timer[k].refresh + 1} /\ q.warning \in BOOLEAN
  BY <1>1 DEF Timers
<1>9. \/ new = page[k]
      \/ /\ Newer(k, p) /\ r.ok
         /\ new = [timestamp |-> p.stamp, context |-> p.context, divs |-> r.divs]
      \/ Newer(k, p) /\ ~r.ok /\ new = [page[k] EXCEPT !.divs = r.divs]
  <2>1. CASE Newer(k, p)
    BY <1>4, <2>1
  <2>2. CASE ~Newer(k, p)
    <3>1. after.ok /\ after.divs = D
      BY <1>4, <2>2 DEF Start
    <3>2. [page[k] EXCEPT !.divs = D] = page[k]
      BY <1>1 DEF Pages
    <3> QED
      BY <2>2, <3>1, <3>2
  <2> QED
    BY <2>1, <2>2
<1>7. new \in Pages
  <2>1. CASE new = page[k]
    BY <1>1, <2>1
  <2>2. CASE new = [timestamp |-> p.stamp, context |-> p.context, divs |-> r.divs]
    <3>1. p.stamp \in Nat /\ p.context \in 0..(MaxFailures + 1) /\ r.divs \in [Nodes -> Divs]
      BY <1>1, <1>3 DEF Polls, States
    <3> QED
      BY <2>2, <3>1 DEF Pages
  <2>3. CASE new = [page[k] EXCEPT !.divs = r.divs]
    <3>1. page[k] \in Pages /\ r.divs \in [Nodes -> Divs]
      BY <1>1, <1>3 DEF States
    <3> HIDE DEF new, r
    <3> QED
      BY <2>3, <3>1 DEF Pages
  <2> QED
    BY <1>9, <2>1, <2>2, <2>3
<1> HIDE DEF p, D, after, r, new, q
<1>10. /\ page' \in [Clients -> Pages] /\ page'[k] = new
       /\ \A l \in Clients \ {k} : page'[l] = page[l] /\ timer'[l] = timer[l]
       /\ timer'[k] = q /\ timer' = [timer EXCEPT ![k] = timer'[k]]
  BY <1>1, <1>5, <1>7
<1>11. /\ page'[k] = page[k] \/ Newer(k, p)
       /\ \/ page'[k] = page[k]
          \/ /\ Newer(k, p) /\ r.ok
             /\ page'[k] = [timestamp |-> p.stamp, context |-> p.context, divs |-> r.divs]
          \/ Newer(k, p) /\ ~r.ok /\ page'[k] = [page[k] EXCEPT !.divs = r.divs]
  BY <1>9, <1>10
<1> QED
  BY <1>3, <1>5, <1>6, <1>8, <1>10, <1>11 DEF p, r, D

LEMMA DeliverTypes ==
  ASSUME TypeInv, NEW k \in Clients, NEW i \in 1..MaxPolls, Deliver(k, i)
  PROVE  TypeInv'
<1> USE DEF TypeInv
<1> DEFINE p == poll[k][i]
           r == Script(page[k].divs, p.buffer)
<1>1. /\ page \in [Clients -> Pages] /\ timer \in [Clients -> Timers] /\ p \in Polls
      /\ NoPoll \in Polls /\ NoPoll.pc = "none" /\ NoPoll.context = 0 /\ context >= 1
      /\ counter \in Nat /\ failures \in 0..MaxFailures /\ MaxPolls \in Nat
      /\ context \in Nat
  BY NumberTypes, BrowserTypes, InitialTypes DEF NoPoll
<1>2. /\ p.pc = "answered" /\ OnlyPoll(k, i, NoPoll) /\ r \in States
      /\ UNCHANGED <<serverVars, failures, overtaken>>
      /\ page' \in [Clients -> Pages]
      /\ timer' = [timer EXCEPT ![k] = timer'[k]]
      /\ \A l \in Clients \ {k} : page'[l] = page[l] /\ timer'[l] = timer[l]
      /\ timer'[k].refresh \in {timer[k].refresh, timer[k].refresh + 1}
      /\ timer'[k].warning \in BOOLEAN
      /\ \/ page'[k] = page[k]
         \/ page'[k] = [timestamp |-> p.stamp, context |-> p.context, divs |-> r.divs]
         \/ page'[k] = [page[k] EXCEPT !.divs = r.divs]
  BY Delivers
<1> HIDE DEF r
<1>3. \A l \in Clients : InFlight(l) \in Nat /\ InFlight(l)' \in Nat /\ timer[l].refresh \in Nat
  BY <1>1, <1>2, Flights DEF Timers
<1>4. /\ InFlight(k)' = InFlight(k) - 1
      /\ \A l \in Clients \ {k} : InFlight(l)' = InFlight(l)
  BY <1>1, <1>2, Flights
<1>5. ChainsInv'
  <2>1. ASSUME NEW l \in Clients PROVE timer'[l].refresh + InFlight(l)' <= MaxPolls
    <3>1. CASE l = k
      BY <1>1, <1>2, <1>3, <1>4, <3>1 DEF ChainsInv
    <3>2. CASE l # k
      BY <1>2, <1>4, <3>2 DEF ChainsInv
    <3> QED
      BY <3>1, <3>2
  <2> QED
    BY <2>1 DEF ChainsInv
<1>6. timer' \in [Clients -> Timers]
  <2>1. timer'[k].refresh \in 0..MaxPolls
    BY <1>1, <1>2, <1>3, <1>5 DEF ChainsInv
  <2>2. \E a, b : timer'[k] = [refresh |-> a, warning |-> b]
    <3>1. \/ timer'[k] = [refresh |-> timer[k].refresh + 1, warning |-> FALSE]
          \/ timer'[k] = timer[k]
      BY <1>1 DEF Deliver
    <3>2. timer[k] = [refresh |-> timer[k].refresh, warning |-> timer[k].warning]
      BY <1>1 DEF Timers
    <3> QED
      BY <3>1, <3>2
  <2>3. timer'[k] \in Timers
    BY <1>2, <2>1, <2>2 DEF Timers
  <2> QED
    BY <1>1, <1>2, <2>3
<1>7. ASSUME NEW l \in Clients
      PROVE  /\ page'[l].context <= context
             /\ page'[l].context = context => page'[l].timestamp <= counter
  <2>1. /\ page[l].context <= context /\ p.context <= context
        /\ page[l].context = context => page[l].timestamp <= counter
        /\ p.context = context => p.stamp <= counter
    BY DEF ContextInv
  <2>2. \/ page'[l] = page[l]
        \/ page'[l].context = p.context /\ page'[l].timestamp = p.stamp
        \/ page'[l].context = page[l].context /\ page'[l].timestamp = page[l].timestamp
    <3>1. page[k] \in Pages
      BY <1>1
    <3> HIDE DEF p
    <3>2. CASE page'[k] = [page[k] EXCEPT !.divs = r.divs]
      BY <1>2, <3>1, <3>2 DEF Pages
    <3> QED
      BY <1>2, <3>2
  <2> QED
    BY <2>1, <2>2
<1>8. TypeOK' /\ ContextInv' /\ ScanPlace' /\ WriterPlace'
  BY <1>1, <1>2, <1>6, <1>7, SameServer
<1> QED
  BY <1>5, <1>8

LEMMA LoseTypes ==
  ASSUME TypeInv, NEW k \in Clients, NEW i \in 1..MaxPolls, Lose(k, i)
  PROVE  TypeInv'
<1> USE DEF TypeInv
<1>1. /\ page \in [Clients -> Pages] /\ timer \in [Clients -> Timers]
      /\ NoPoll \in Polls /\ NoPoll.pc = "none" /\ NoPoll.context = 0
      /\ context \in Nat /\ context >= 1
      /\ counter \in Nat /\ failures \in 0..MaxFailures /\ MaxPolls \in Nat /\ MaxFailures \in Nat
  BY NumberTypes, BrowserTypes, InitialTypes DEF NoPoll
<1>2. /\ poll[k][i].pc \in {"sent", "ready", "answered"}
      /\ poll' = [poll EXCEPT ![k] = [poll[k] EXCEPT ![i] = NoPoll]]
      /\ UNCHANGED serverVars /\ page' = page /\ timer' = timer /\ UNCHANGED overtaken
      /\ failures' = failures + 1 /\ failures < MaxFailures
  BY DEF Lose, clientVars
<1>3. OnlyPoll(k, i, NoPoll)
  BY <1>1, <1>2, PollChange
<1>4. ChainsInv'
  <2>1. /\ InFlight(k)' = InFlight(k) - 1
        /\ \A l \in Clients \ {k} : InFlight(l)' = InFlight(l)
        /\ \A l \in Clients : InFlight(l) \in Nat /\ timer[l].refresh \in Nat
    BY <1>1, <1>2, <1>3, Flights DEF Timers
  <2>2. ASSUME NEW l \in Clients PROVE timer'[l].refresh + InFlight(l)' <= MaxPolls
    BY <1>1, <1>2, <2>1 DEF ChainsInv
  <2> QED
    BY <2>2 DEF ChainsInv
<1>5. failures' \in 0..MaxFailures /\ failures <= failures'
  BY <1>1, <1>2
<1>6. \A l \in Clients : /\ page[l].context <= context
                         /\ page[l].context = context => page[l].timestamp <= counter
  BY DEF ContextInv
<1>7. TypeOK' /\ ContextInv' /\ ScanPlace' /\ WriterPlace'
  BY <1>1, <1>2, <1>3, <1>5, <1>6, SameServer
<1> QED
  BY <1>4, <1>7

\* The request that waits for the walk, or gets the time
LEMMA Snapshots ==
  ASSUME TypeInv, NEW k \in Clients, NEW i \in 1..MaxPolls, Snapshot(k, i)
  PROVE  /\ poll[k][i].pc = "sent"
         /\ \E q \in Polls :
              /\ OnlyPoll(k, i, q)
              /\ q.pc = "ready" /\ q.stamp = counter /\ q.context = context
              /\ q.old = IF poll[k][i].context = context THEN poll[k][i].old ELSE -1
              /\ q.buffer = poll[k][i].buffer
<1> DEFINE old == IF poll[k][i].context = context THEN poll[k][i].old ELSE -1
           q == [poll[k][i] EXCEPT !.pc = "ready", !.stamp = counter, !.old = old,
                                   !.context = context]
<1>1. /\ poll[k][i] \in Polls /\ counter \in Nat /\ context \in 0..(MaxFailures + 1)
      /\ TypeOK
  BY Types, ConstantsAssumption DEF TypeInv
<1>2. old \in Nat \union {-1}
  BY <1>1 DEF Polls
<1> HIDE DEF old
<1>3. /\ q \in Polls /\ q.pc = "ready" /\ q.stamp = counter /\ q.old = old
      /\ q.context = context /\ q.buffer = poll[k][i].buffer
  BY <1>1, <1>2 DEF Polls, Pcs
<1>4. poll[k][i].pc = "sent" /\ poll' = [poll EXCEPT ![k] = [poll[k] EXCEPT ![i] = q]]
  <2>1. poll[k][i].pc = "sent"
    BY DEF Snapshot
  <2>2. poll' = [poll EXCEPT ![k] = [poll[k] EXCEPT ![i] = q]]
    BY ZenonT(30) DEF Snapshot, old
  <2> QED
    BY <2>1, <2>2
<1> HIDE DEF q
<1>5. OnlyPoll(k, i, q)
  BY <1>1, <1>3, <1>4, PollChange
<1> QED
  BY <1>3, <1>4, <1>5 DEF old

LEMMA SnapshotTypes ==
  ASSUME TypeInv, NEW k \in Clients, NEW i \in 1..MaxPolls, Snapshot(k, i)
  PROVE  TypeInv'
<1> USE DEF TypeInv
<1>1. PICK q \in Polls :
              /\ OnlyPoll(k, i, q)
              /\ q.pc = "ready" /\ q.stamp = counter /\ q.context = context
              /\ q.old = IF poll[k][i].context = context THEN poll[k][i].old ELSE -1
  BY Snapshots
<1>2. /\ poll[k][i].pc = "sent"
      /\ UNCHANGED serverVars /\ page' = page /\ timer' = timer /\ UNCHANGED overtaken
      /\ failures' = failures
  BY DEF Snapshot, clientVars
<1>3. /\ page \in [Clients -> Pages] /\ timer \in [Clients -> Timers]
      /\ counter \in Nat /\ context \in Nat /\ failures \in 0..MaxFailures
  BY Types DEF ContextInv
<1>4. ChainsInv'
  <2>1. \A l \in Clients : InFlight(l)' = InFlight(l)
    BY <1>1, <1>2, Flights
  <2> QED
    BY <1>2, <2>1 DEF ChainsInv
<1>5. /\ \A l \in Clients : /\ page[l].context <= context
                            /\ page[l].context = context => page[l].timestamp <= counter
      /\ poll[k][i].context = context => poll[k][i].old <= counter
  BY DEF ContextInv
<1>6. TypeOK' /\ ContextInv' /\ ScanPlace' /\ WriterPlace'
  <2>1. /\ q.context <= context /\ q.old <= counter /\ q.stamp <= counter
        /\ failures <= failures'
    BY <1>1, <1>2, <1>3, <1>5
  <2> QED
    BY <1>1, <1>2, <1>3, <1>5, <2>1, SameServer
<1> QED
  BY <1>4, <1>6

-----------------------------------------------------------------------------
(* Types: the walk.                                                        *)

\* The walk is for poll[k][i].
WalksFor(k, i) == scan.of = <<k, i>> /\ poll[k][i].pc = "scanning" /\ Scanned = poll[k][i]

LEMMA Walks ==
  ASSUME ScanPlace, scan.pc # "none"
  PROVE  \E k \in Clients, i \in 1..MaxPolls : WalksFor(k, i)
<1>1. PICK k \in Clients, i \in 1..MaxPolls : scan.of = <<k, i>> /\ poll[k][i].pc = "scanning"
  BY DEF ScanPlace
<1>2. Scanned = poll[k][i]
  BY <1>1 DEF Scanned
<1> QED
  BY <1>1, <1>2 DEF WalksFor

LEMMA Passes ==
  ASSUME TypeOK, NEW c, NEW kind, PassBy(c, kind)
  PROVE  /\ writer' \in [Writers -> WritersAt(counter)]
         /\ \A w \in Writers :
              /\ writer'[w].pc = writer[w].pc /\ writer'[w].content = writer[w].content
              /\ writer'[w].kind = writer[w].kind /\ writer'[w].stamp = writer[w].stamp
              /\ writer[w].passed => writer'[w].passed
              /\ w \in Changing(c, kind) /\ writer[w].pc = "store"
                 /\ writer[w].stamp <= Scanned.stamp => writer'[w].passed
<1>1. writer \in [Writers -> WritersAt(counter)]
  BY Types
<1>2. ASSUME NEW w \in Writers
      PROVE  /\ writer'[w] \in WritersAt(counter)
             /\ writer'[w].pc = writer[w].pc /\ writer'[w].content = writer[w].content
             /\ writer'[w].kind = writer[w].kind /\ writer'[w].stamp = writer[w].stamp
             /\ writer[w].passed => writer'[w].passed
             /\ w \in Changing(c, kind) /\ writer[w].pc = "store"
                /\ writer[w].stamp <= Scanned.stamp => writer'[w].passed
  <2>1. writer[w] \in WritersAt(counter)
    BY <1>1
  <2>2. CASE /\ w \in Changing(c, kind) /\ writer[w].pc = "store"
             /\ writer[w].stamp <= Scanned.stamp
    <3>1. writer'[w] = [writer[w] EXCEPT !.passed = TRUE]
      BY <2>2 DEF PassBy
    <3> QED
      BY <2>1, <2>2, <3>1 DEF WritersAt
  <2>3. CASE ~(/\ w \in Changing(c, kind) /\ writer[w].pc = "store"
               /\ writer[w].stamp <= Scanned.stamp)
    <3>1. writer'[w] = writer[w]
      BY <2>3 DEF PassBy
    <3> QED
      BY <2>1, <2>3, <3>1 DEF WritersAt
  <2> QED
    BY <2>2, <2>3
<1>3. writer' = [w \in Writers |-> writer'[w]]
  BY DEF PassBy
<1>4. \A w \in Writers : writer'[w] \in WritersAt(counter)
  BY <1>2
<1>5. writer' \in [Writers -> WritersAt(counter)]
  BY <1>3, <1>4
<1> QED
  BY <1>2, <1>5

VisibilityOf(n) == [kind |-> "visibility", node |-> n, id |-> record[n].id,
                    hidden |-> hidden[ContentOf[n]]]
CacheOf(n) == [kind |-> "content", node |-> n, id |-> record[n].id,
               cache |-> record[n].cache]

SendsVisibility(n) == stamp[ContentOf[n]].visibility > scan.old[n]
SendsContent(n) == record[n].stamp > scan.old[n]

\* What is sent for a node, one statement after the other
LEMMA UpdatesAre ==
  ASSUME TypeOK, NEW n \in Nodes, NEW b \in Seq(Statements)
  PROVE  /\ VisibilityOf(n) \in Statements /\ CacheOf(n) \in Statements
         /\ b \o Updates(n) =
              IF SendsContent(n)
              THEN Append(IF SendsVisibility(n) THEN Append(b, VisibilityOf(n)) ELSE b,
                          CacheOf(n))
              ELSE IF SendsVisibility(n) THEN Append(b, VisibilityOf(n)) ELSE b
         /\ b \o Updates(n) \in Seq(Statements)
<1>1. /\ record \in [Nodes -> Records(nextId, counter)] /\ hidden \in [Contents -> BOOLEAN]
      /\ ContentOf[n] \in Contents /\ nextId \in Nat
  BY Types, Tree
<1>2. /\ record[n].id \in Nat /\ record[n].cache \in [Nodes -> Divs]
      /\ hidden[ContentOf[n]] \in BOOLEAN
  BY <1>1 DEF Records
<1>3. VisibilityOf(n) \in Statements /\ CacheOf(n) \in Statements
  BY <1>2 DEF VisibilityOf, CacheOf, Statements
<1>4. Updates(n) = (IF SendsVisibility(n) THEN <<VisibilityOf(n)>> ELSE <<>>)
                   \o (IF SendsContent(n) THEN <<CacheOf(n)>> ELSE <<>>)
  BY DEF Updates, VisibilityOf, CacheOf, SendsVisibility, SendsContent
<1> HIDE DEF VisibilityOf, CacheOf, SendsVisibility, SendsContent
<1> DEFINE v == VisibilityOf(n)
           c == CacheOf(n)
<1>5. /\ b \o (<<>> \o <<>>) = b
      /\ b \o (<<v>> \o <<>>) = Append(b, v)
      /\ b \o (<<>> \o <<c>>) = Append(b, c)
      /\ b \o (<<v>> \o <<c>>) = Append(Append(b, v), c)
  BY <1>3
<1>6. /\ Append(b, v) \in Seq(Statements) /\ Append(b, c) \in Seq(Statements)
      /\ Append(Append(b, v), c) \in Seq(Statements)
  BY <1>3
<1> QED
  BY <1>3, <1>4, <1>5, <1>6

\* What the record of m has cached of itself when node scan.next is drawn
OwnId(m) == IF m = scan.next THEN record[m].id ELSE record[m].cache[m].id
OwnData(m) == IF m = scan.next THEN data[ContentOf[m]] ELSE record[m].cache[m].data
OwnVisibility(m) == IF m \in Below(scan.at) /\ LastIn[m] = scan.next
                    THEN hidden[ContentOf[m]] ELSE record[m].cache[m].hidden
Own(m) == [id |-> OwnId(m), data |-> OwnData(m), hidden |-> OwnVisibility(m)]

\* The caches after node scan.next has been drawn
LEMMA Draws ==
  ASSUME TypeInv, RenderBody
  PROVE  /\ record' \in [Nodes -> Records(nextId, counter)]
         /\ \A m \in Nodes : /\ record'[m].id = record[m].id
                             /\ record'[m].stamp = record[m].stamp
                             /\ m \notin Flux => record'[m] = record[m]
                             /\ Own(m) \in Divs
         /\ \A m \in Flux : IF scan.next = LastIn[scan.at]
              THEN \A d \in Nodes : record'[m].cache[d] = IF Within(d, m) THEN Own(d) ELSE NoDiv
              ELSE /\ record'[m].cache[m] = Own(m)
                   /\ \A d \in Nodes \ {m} : record'[m].cache[d] = record[m].cache[d]
<1> USE DEF TypeInv
<1> DEFINE n == scan.next
           c == ContentOf[n]
           drawn == [record EXCEPT ![n] = [record[n] EXCEPT !.cache =
                       [record[n].cache EXCEPT ![n] =
                          [record[n].cache[n] EXCEPT !.id = record[n].id, !.data = data[c]]]]]
           shown == [m \in Nodes |-> IF m \in Below(scan.at) /\ n = LastIn[m]
                       THEN [drawn[m] EXCEPT !.cache =
                               [drawn[m].cache EXCEPT ![m] =
                                  [drawn[m].cache[m] EXCEPT !.hidden = hidden[ContentOf[m]]]]]
                       ELSE drawn[m]]
<1>1. /\ record \in [Nodes -> Records(nextId, counter)] /\ hidden \in [Contents -> BOOLEAN]
      /\ data \in [Contents -> Nat] /\ nextId \in Nat
      /\ scan.at \in Nodes /\ Within(n, scan.at) /\ scan.pc = "body"
  BY Types DEF RenderBody, ScanPlace
<1>2. n \in Nodes /\ n \in Flux /\ c \in Contents
  <2>1. n \in 0..(NrNodes + 1)
    BY Types DEF Scans
  <2> QED
    BY <1>1, <2>1, Tree DEF Flux, Within, Nodes
<1>3. ASSUME NEW m \in Nodes
      PROVE  /\ record[m] \in Records(nextId, counter) /\ record[m].cache \in [Nodes -> Divs]
             /\ record[m].id \in Nat /\ record[m].cache[m] \in Divs
             /\ data[ContentOf[m]] \in Nat /\ hidden[ContentOf[m]] \in BOOLEAN
  BY <1>1, Tree DEF Records
<1>4. ASSUME NEW m \in Nodes PROVE Own(m) \in Divs
  <2>1. OwnId(m) \in Nat /\ OwnData(m) \in Nat
    BY <1>3 DEF OwnId, OwnData, Divs
  <2>2. OwnVisibility(m) \in BOOLEAN
    <3>1. record[m].cache[m].hidden \in BOOLEAN
      BY SMTT(30), <1>3 DEF Divs
    <3> QED
      BY <1>3, <3>1 DEF OwnVisibility
  <2> QED
    BY <2>1, <2>2 DEF Own, Divs
<1>5. ASSUME NEW m \in Nodes
      PROVE  /\ drawn[m] \in Records(nextId, counter)
             /\ drawn[m].id = record[m].id /\ drawn[m].stamp = record[m].stamp
             /\ m # n => drawn[m] = record[m]
             /\ \A d \in Nodes \ {m} : drawn[m].cache[d] = record[m].cache[d]
             /\ drawn[m].cache[m].id = OwnId(m) /\ drawn[m].cache[m].data = OwnData(m)
             /\ drawn[m].cache[m].hidden = record[m].cache[m].hidden
  <2>1. CASE m # n
    BY <1>1, <1>3, <2>1 DEF OwnId, OwnData
  <2>2. CASE m = n
    <3> DEFINE own == [record[n].cache[n] EXCEPT !.id = record[n].id, !.data = data[c]]
               cache == [record[n].cache EXCEPT ![n] = own]
    <3>1. own \in Divs /\ own.id = record[n].id /\ own.data = data[c]
          /\ own.hidden = record[n].cache[n].hidden
      BY ZenonT(30), <1>2, <1>3 DEF Divs
    <3> HIDE DEF own
    <3>2. cache \in [Nodes -> Divs] /\ cache[n] = own
          /\ \A d \in Nodes \ {n} : cache[d] = record[n].cache[d]
      BY <1>2, <1>3, <3>1
    <3> HIDE DEF cache
    <3>3. drawn[n] = [record[n] EXCEPT !.cache = cache]
      BY <1>1, <1>2 DEF cache, own
    <3> HIDE DEF drawn
    <3>4. record[n] \in Records(nextId, counter)
      BY <1>2, <1>3
    <3>5. /\ drawn[n] \in Records(nextId, counter) /\ drawn[n].cache = cache
          /\ drawn[n].id = record[n].id /\ drawn[n].stamp = record[n].stamp
      BY <3>2, <3>3, <3>4 DEF Records
    <3> QED
      BY <2>2, <3>1, <3>2, <3>5 DEF OwnId, OwnData
  <2> QED
    BY <2>1, <2>2
<1> HIDE DEF drawn
<1>6. ASSUME NEW m \in Nodes
      PROVE  /\ shown[m] \in Records(nextId, counter)
             /\ shown[m].id = record[m].id /\ shown[m].stamp = record[m].stamp
             /\ m \notin Flux => shown[m] = record[m]
             /\ \A d \in Nodes \ {m} : shown[m].cache[d] = record[m].cache[d]
             /\ shown[m].cache[m] = Own(m)
  <2>0. m \in Below(scan.at) => m \in Flux
    BY <1>1 DEF Flux, Below
  <2>1. CASE ~(m \in Below(scan.at) /\ n = LastIn[m])
    <3>1. shown[m] = drawn[m]
      BY <2>1
    <3>2. drawn[m].cache[m] \in Divs
      BY <1>5 DEF Records
    <3>3. OwnVisibility(m) = record[m].cache[m].hidden
      BY <2>1 DEF OwnVisibility
    <3>4. drawn[m].cache[m] = Own(m)
      BY <1>5, <3>2, <3>3 DEF Own, Divs
    <3> HIDE DEF shown
    <3>5. m \notin Flux => drawn[m] = record[m]
      BY <1>2, <1>5
    <3> QED
      BY <1>5, <3>1, <3>4, <3>5
  <2>2. CASE m \in Below(scan.at) /\ n = LastIn[m]
    <3> DEFINE own == [drawn[m].cache[m] EXCEPT !.hidden = hidden[ContentOf[m]]]
               cache == [drawn[m].cache EXCEPT ![m] = own]
    <3>0. drawn[m].cache \in [Nodes -> Divs] /\ drawn[m].cache[m] \in Divs
      BY <1>5 DEF Records
    <3>1. own \in Divs /\ own.id = OwnId(m) /\ own.data = OwnData(m)
          /\ own.hidden = OwnVisibility(m)
      BY <1>3, <1>5, <2>2, <3>0 DEF Divs, OwnVisibility
    <3> HIDE DEF own
    <3>2. own = Own(m)
      BY <3>1 DEF Divs, Own
    <3>3. cache \in [Nodes -> Divs] /\ cache[m] = own
          /\ \A d \in Nodes \ {m} : cache[d] = drawn[m].cache[d]
      BY <3>0, <3>1
    <3> HIDE DEF cache
    <3>4. shown[m] = [drawn[m] EXCEPT !.cache = cache]
      BY <2>2 DEF cache, own
    <3> HIDE DEF shown
    <3>5. /\ shown[m] \in Records(nextId, counter) /\ shown[m].cache = cache
          /\ shown[m].id = drawn[m].id /\ shown[m].stamp = drawn[m].stamp
      BY <1>5, <3>3, <3>4 DEF Records
    <3>6. \A d \in Nodes \ {m} : shown[m].cache[d] = record[m].cache[d]
      BY <1>5, <3>3, <3>5
    <3>7. shown[m].cache[m] = Own(m)
      BY <3>2, <3>3, <3>5
    <3> QED
      BY <1>5, <2>0, <2>2, <3>5, <3>6, <3>7
  <2> QED
    BY <2>1, <2>2
<1>7. record' = IF n # LastIn[scan.at] THEN shown
                ELSE [m \in Nodes |->
                       IF Within(m, scan.at)
                       THEN [shown[m] EXCEPT !.cache =
                               [d \in Nodes |-> IF Within(d, m) THEN shown[d].cache[d]
                                                                ELSE NoDiv]]
                       ELSE shown[m]]
  BY DEF RenderBody, drawn
<1>8. shown = [m \in Nodes |-> shown[m]]
  OBVIOUS
<1> HIDE DEF shown
<1>9. CASE n # LastIn[scan.at]
  <2>1. record' = shown
    BY <1>7, <1>9
  <2>2. record' \in [Nodes -> Records(nextId, counter)]
    BY <1>6, <1>8, <2>1
  <2>3. Flux \subseteq Nodes
    BY DEF Flux
  <2> QED
    BY <1>4, <1>6, <1>9, <2>1, <2>2, <2>3
<1>10. CASE n = LastIn[scan.at]
  <2>1. NoDiv \in Divs
    BY DEF NoDiv, Divs
  <2>2. ASSUME NEW m \in Nodes
        PROVE  /\ record'[m] \in Records(nextId, counter)
               /\ record'[m].id = record[m].id /\ record'[m].stamp = record[m].stamp
               /\ m \notin Flux => record'[m] = record[m]
               /\ m \in Flux => \A d \in Nodes :
                    record'[m].cache[d] = IF Within(d, m) THEN Own(d) ELSE NoDiv
    <3> DEFINE cache == [d \in Nodes |-> IF Within(d, m) THEN shown[d].cache[d] ELSE NoDiv]
    <3>1. cache \in [Nodes -> Divs]
      BY <1>4, <1>6, <2>1
    <3>2. \A d \in Nodes : cache[d] = IF Within(d, m) THEN Own(d) ELSE NoDiv
      BY <1>6
    <3>3. m \in Flux <=> Within(m, scan.at)
      BY <1>1 DEF Flux
    <3>4. record'[m] = IF Within(m, scan.at) THEN [shown[m] EXCEPT !.cache = cache]
                                             ELSE shown[m]
      BY <1>7, <1>10
    <3> HIDE DEF cache
    <3>5. CASE m \in Flux
      <4>1. record'[m] = [shown[m] EXCEPT !.cache = cache]
        BY <3>3, <3>4, <3>5
      <4>2. /\ record'[m] \in Records(nextId, counter) /\ record'[m].cache = cache
            /\ record'[m].id = shown[m].id /\ record'[m].stamp = shown[m].stamp
        BY <1>6, <3>1, <4>1 DEF Records
      <4> QED
        BY <1>6, <3>2, <3>5, <4>2
    <3>6. CASE m \notin Flux
      BY <1>6, <3>3, <3>4, <3>6
    <3> QED
      BY <3>5, <3>6
  <2>3. record' = [m \in Nodes |-> record'[m]]
    BY <1>7, <1>10
  <2>4. record' \in [Nodes -> Records(nextId, counter)]
    BY <2>2, <2>3
  <2>5. Flux \subseteq Nodes
    BY DEF Flux
  <2>6. \A m \in Flux, d \in Nodes :
          record'[m].cache[d] = IF Within(d, m) THEN Own(d) ELSE NoDiv
    BY <2>2, <2>5
  <2> QED
    BY <1>4, <1>10, <2>2, <2>4, <2>6
<1> QED
  BY <1>9, <1>10

LEMMA BeginScanTypes ==
  ASSUME TypeInv, NEW k \in Clients, NEW i \in 1..MaxPolls, BeginScan(k, i)
  PROVE  /\ TypeInv' /\ WalksFor(k, i)'
         /\ poll[k][i].pc = "ready" /\ scan.pc = "none"
         /\ scan'.pc = "check" /\ scan'.at = Root
         /\ \A n \in Nodes : scan'.old[n] = poll[k][i].old
         /\ OnlyPoll(k, i, [poll[k][i] EXCEPT !.pc = "scanning"])
<1> USE DEF TypeInv
<1> DEFINE p == poll[k][i]
           q == [p EXCEPT !.pc = "scanning"]
           old == [n \in Nodes |-> p.old]
<1>1. /\ p \in Polls /\ p.pc = "ready" /\ scan.pc = "none" /\ counter \in Nat
      /\ \A l \in Clients : timer[l].refresh \in Nat
      /\ p.context = context /\ p.old \in -1..counter /\ p.stamp <= counter
  <2>1. p \in Polls /\ p.pc = "ready" /\ scan.pc = "none" /\ counter \in Nat
    BY Types DEF BeginScan
  <2>2. p.old \in Nat \union {-1}
    BY <2>1 DEF Polls
  <2> QED
    BY <2>1, <2>2, Types DEF ContextInv, Timers
<1>2. q \in Polls /\ q.pc = "scanning" /\ q.context = p.context /\ q.old = p.old
      /\ q.stamp = p.stamp
  BY <1>1 DEF Polls, Pcs
<1> HIDE DEF q
<1>3. OnlyPoll(k, i, q)
  <2>1. poll' = [poll EXCEPT ![k] = [poll[k] EXCEPT ![i] = q]]
    BY DEF BeginScan, q
  <2> QED
    BY <1>2, <2>1, PollChange
<1>4. /\ scan' \in Scans(counter) /\ scan'.of = <<k, i>> /\ scan'.pc = "check"
      /\ scan'.at = Root /\ scan'.old = old
  <2>1. NoScan \in Scans(counter)
    BY <1>1, Tree DEF NoScan, Scans
  <2>2. old \in [Nodes -> -1..counter]
    BY <1>1
  <2>3. scan' = [NoScan EXCEPT !.of = <<k, i>>, !.pc = "check", !.at = Root, !.old = old]
    BY DEF BeginScan
  <2>4. Root \in 0..(NrNodes + 1)
    BY Tree DEF Root
  <2> HIDE DEF old
  <2> QED
    BY <2>1, <2>2, <2>3, <2>4 DEF Scans
<1>5. /\ counter' = counter /\ context' = context /\ data' = data /\ hidden' = hidden
      /\ stamp' = stamp /\ record' = record /\ nextId' = nextId /\ writer' = writer
      /\ page' = page /\ timer' = timer /\ failures' = failures /\ overtaken' = overtaken
  BY DEF BeginScan, clientVars
<1>6. TypeOK'
  BY <1>3, <1>4, <1>5, Types, TypesNext DEF OnlyPoll
<1>7. ChainsInv'
  <2>1. \A l \in Clients : InFlight(l)' = InFlight(l)
    BY <1>1, <1>2, <1>3, Flights
  <2> QED
    BY <1>5, <2>1 DEF ChainsInv
<1>8. ContextInv'
  BY <1>1, <1>2, <1>3, <1>5 DEF ContextInv, OnlyPoll
<1>9. WalksFor(k, i)'
  <2>1. scan'.of = <<k, i>> /\ poll'[k][i] = q
    BY <1>3, <1>4 DEF OnlyPoll
  <2> QED
    BY <1>2, <2>1 DEF WalksFor, Scanned
<1>10. ScanPlace'
  BY <1>4, <1>9, Tree DEF ScanPlace, WalksFor
<1>11. WriterPlace'
  BY <1>5 DEF WriterPlace
<1> QED
  BY <1>1, <1>3, <1>4, <1>6, <1>7, <1>8, <1>9, <1>10, <1>11 DEF q, old

LEMMA CheckTypes ==
  ASSUME TypeInv, Check
  PROVE  /\ TypeInv' /\ scan.pc = "check" /\ scan.at \in Nodes
         /\ scan'.of = scan.of /\ scan'.at = scan.at /\ scan'.old = scan.old
         /\ IF record[scan.at].stamp < stamp[ContentOf[scan.at]].content
            THEN scan'.pc = "start" /\ scan'.next = scan.at
            ELSE scan'.pc = "emit" /\ scan'.next = scan.next
<1> USE DEF TypeInv
<1>1. scan \in Scans(counter) /\ scan.pc = "check" /\ scan.at \in Nodes
  BY Types DEF Check, ScanPlace
<1>2. /\ scan' \in Scans(counter)
      /\ scan'.of = scan.of /\ scan'.at = scan.at /\ scan'.old = scan.old
      /\ IF record[scan.at].stamp < stamp[ContentOf[scan.at]].content
         THEN scan'.pc = "start" /\ scan'.next = scan.at
         ELSE scan'.pc = "emit" /\ scan'.next = scan.next
  BY <1>1, Tree DEF Check, Scans
<1>3. /\ counter' = counter /\ context' = context /\ data' = data /\ hidden' = hidden
      /\ stamp' = stamp /\ record' = record /\ nextId' = nextId /\ poll' = poll
      /\ page' = page /\ timer' = timer /\ failures' = failures /\ overtaken' = overtaken
  BY DEF Check, clientVars
<1>4. /\ writer' \in [Writers -> WritersAt(counter)]
      /\ \A w \in Writers :
           /\ writer'[w].pc = writer[w].pc /\ writer'[w].content = writer[w].content
           /\ writer'[w].stamp = writer[w].stamp
  BY Passes DEF Check
<1>5. TypeOK'
  BY <1>2, <1>3, <1>4, Types, TypesNext
<1>6. ScanPlace'
  <2>1. Within(scan.at, scan.at)
    BY <1>1, Tree DEF Within
  <2>2. scan'.pc \in {"start", "emit"} /\ scan'.pc = "start" => scan'.next = scan.at
    BY <1>2
  <2>3. scan'.pc = "start" => Within(scan'.next, scan'.at)
    BY <1>2, <2>1, <2>2
  <2> QED
    BY <1>1, <1>2, <1>3, <2>2, <2>3 DEF ScanPlace, Within
<1>7. WriterPlace'
  BY <1>4 DEF WriterPlace
<1>8. counter \in Nat /\ counter <= counter'
  BY <1>3, Types
<1> QED
  BY <1>1, <1>2, <1>3, <1>5, <1>6, <1>7, <1>8, SameClients

LEMMA RenderStartTypes ==
  ASSUME TypeInv, RenderStart
  PROVE  /\ TypeInv' /\ scan.pc = "start" /\ scan.at \in Nodes /\ scan.next \in Flux
         /\ scan' = [scan EXCEPT !.pc = "body"]
         /\ scan'.pc = "body" /\ scan'.of = scan.of /\ scan'.at = scan.at
         /\ scan'.old = scan.old /\ scan'.next = scan.next
         /\ \A m \in Nodes : /\ m # scan.next => record'[m] = record[m]
                             /\ record'[m].cache = record[m].cache
         /\ record'[scan.next].stamp = counter
         /\ scan.next = scan.at => record'[scan.at].id = record[scan.at].id
<1> USE DEF TypeInv
<1> DEFINE n == scan.next
           id == IF n # scan.at THEN nextId ELSE record[n].id
           q == [record[n] EXCEPT !.stamp = counter, !.id = id]
<1>1. /\ scan \in Scans(counter) /\ scan.pc = "start" /\ scan.at \in Nodes
      /\ Within(n, scan.at) /\ counter \in Nat /\ nextId \in Nat
      /\ record \in [Nodes -> Records(nextId, counter)]
  BY Types DEF RenderStart, ScanPlace
<1>2. n \in Nodes /\ n \in Flux
  <2>1. n \in 0..(NrNodes + 1)
    BY <1>1 DEF Scans
  <2> QED
    BY <1>1, <2>1, Tree DEF Flux, Within, Nodes
<1>3. /\ scan' \in Scans(counter) /\ scan' = [scan EXCEPT !.pc = "body"]
      /\ scan'.pc = "body" /\ scan'.of = scan.of /\ scan'.at = scan.at
      /\ scan'.old = scan.old /\ scan'.next = scan.next
  BY <1>1 DEF RenderStart, Scans
<1>4. /\ counter' = counter /\ context' = context /\ data' = data /\ hidden' = hidden
      /\ stamp' = stamp /\ writer' = writer /\ poll' = poll
      /\ page' = page /\ timer' = timer /\ failures' = failures /\ overtaken' = overtaken
  BY DEF RenderStart, clientVars
<1>5. nextId' \in Nat /\ nextId <= nextId' /\ (n # scan.at => nextId' = nextId + 1)
  BY <1>1 DEF RenderStart
<1>6. Records(nextId, counter) \subseteq Records(nextId', counter)
  BY <1>1, <1>5, Grow
<1>7. id \in 0..(nextId' - 1)
  <2>1. record[n].id \in 0..(nextId - 1)
    BY <1>1, <1>2 DEF Records
  <2> QED
    BY <1>1, <1>5, <2>1
<1> HIDE DEF id
<1>8. /\ q \in Records(nextId', counter) /\ q.stamp = counter /\ q.id = id
      /\ q.cache = record[n].cache
  <2>1. record[n] \in Records(nextId', counter) /\ counter \in -1..counter
    BY <1>1, <1>2, <1>6
  <2> QED
    BY <1>7, <2>1 DEF Records
<1>9. record' = [record EXCEPT ![n] = q]
  BY DEF RenderStart, id
<1> HIDE DEF q
<1>10. /\ record' \in [Nodes -> Records(nextId', counter)]
       /\ \A m \in Nodes : record'[m] = IF m = n THEN q ELSE record[m]
  BY <1>1, <1>2, <1>6, <1>8, <1>9
<1>11. TypeOK'
  BY <1>3, <1>4, <1>5, <1>10, Types, TypesNext
<1>12. ScanPlace'
  BY <1>1, <1>3, <1>4 DEF ScanPlace
<1>13. WriterPlace'
  BY <1>4 DEF WriterPlace
<1>14. ChainsInv' /\ ContextInv'
  BY <1>1, <1>4, SameClients
<1> QED
  BY <1>1, <1>2, <1>3, <1>8, <1>10, <1>11, <1>12, <1>13, <1>14 DEF id

LEMMA RenderBodyTypes ==
  ASSUME TypeInv, RenderBody
  PROVE  /\ TypeInv' /\ scan.pc = "body" /\ scan.at \in Nodes /\ scan.next \in Flux
         /\ scan'.of = scan.of /\ scan'.at = scan.at /\ scan'.old = scan.old
         /\ scan'.next = scan.next + 1
         /\ scan'.pc = IF scan.next = LastIn[scan.at] THEN "emit" ELSE "start"
<1> USE DEF TypeInv
<1>1. /\ scan \in Scans(counter) /\ scan.pc = "body" /\ scan.at \in Nodes
      /\ Within(scan.next, scan.at) /\ counter \in Nat
  BY Types DEF RenderBody, ScanPlace
<1>2. scan.next \in Nodes /\ scan.next \in Flux
  <2>1. scan.next \in 0..(NrNodes + 1)
    BY <1>1 DEF Scans
  <2> QED
    BY <1>1, <2>1, Tree DEF Flux, Within, Nodes
<1>3. scan.next + 1 \in 0..(NrNodes + 1)
  BY <1>2, Tree DEF Nodes
<1>4. /\ scan' \in Scans(counter)
      /\ scan'.of = scan.of /\ scan'.at = scan.at
      /\ scan'.old = scan.old /\ scan'.next = scan.next + 1
      /\ scan'.pc = IF scan.next = LastIn[scan.at] THEN "emit" ELSE "start"
  BY ZenonT(30), <1>1, <1>3 DEF RenderBody, Scans
<1>5. /\ counter' = counter /\ context' = context /\ data' = data /\ hidden' = hidden
      /\ stamp' = stamp /\ writer' = writer /\ poll' = poll /\ nextId' = nextId
      /\ page' = page /\ timer' = timer /\ failures' = failures /\ overtaken' = overtaken
  BY DEF RenderBody, clientVars
<1>6. record' \in [Nodes -> Records(nextId, counter)]
  BY Draws
<1>7. TypeOK'
  BY <1>4, <1>5, <1>6, Types, TypesNext
<1>8. ScanPlace'
  <2>1. scan.next # LastIn[scan.at] => Within(scan.next + 1, scan.at)
    BY <1>1, <1>2, Tree DEF Within
  <2>2. scan'.pc = "start" => Within(scan'.next, scan'.at)
    BY <1>4, <2>1
  <2>3. scan'.pc \in {"start", "emit"}
    BY <1>4
  <2> QED
    BY <1>1, <1>4, <1>5, <2>2, <2>3 DEF ScanPlace
<1>9. WriterPlace'
  BY <1>5 DEF WriterPlace
<1>10. ChainsInv' /\ ContextInv'
  BY <1>1, <1>5, SameClients
<1> QED
  BY <1>1, <1>2, <1>4, <1>7, <1>8, <1>9, <1>10

LEMMA EmitTypes ==
  ASSUME TypeInv, Emit, NEW k \in Clients, NEW i \in 1..MaxPolls, WalksFor(k, i)
  PROVE  /\ TypeInv' /\ scan.pc = "emit" /\ scan.at \in Nodes
         /\ scan'.of = scan.of /\ scan'.at = scan.at + 1
         /\ scan'.pc = IF scan.at = NrNodes THEN "end" ELSE "check"
         /\ \A m \in Nodes : scan'.old[m] = IF SendsContent(scan.at) /\ Within(m, scan.at)
                                            THEN record[scan.at].stamp ELSE scan.old[m]
         /\ WalksFor(k, i)' /\ poll[k][i] \in Polls
         /\ \E q \in Polls : /\ OnlyPoll(k, i, q)
                             /\ q.pc = "scanning" /\ q.old = poll[k][i].old
                             /\ q.context = poll[k][i].context /\ q.stamp = poll[k][i].stamp
                             /\ q.buffer = poll[k][i].buffer \o Updates(scan.at)
<1> USE DEF TypeInv
<1> DEFINE n == scan.at
           p == poll[k][i]
           buffer == p.buffer \o Updates(n)
           q == [p EXCEPT !.buffer = buffer]
           old == [m \in Nodes |-> IF SendsContent(n) /\ Within(m, n)
                                   THEN record[n].stamp ELSE scan.old[m]]
           pc == IF n = NrNodes THEN "end" ELSE "check"
<1>1. /\ scan \in Scans(counter) /\ scan.pc = "emit" /\ n \in Nodes
      /\ p \in Polls /\ p.pc = "scanning" /\ scan.of = <<k, i>>
  BY Types DEF Emit, ScanPlace, WalksFor
<1>2. buffer \in Seq(Statements)
  <2>1. p.buffer \in Seq(Statements)
    BY <1>1 DEF Polls
  <2> QED
    BY <1>1, <2>1, UpdatesAre
<1> HIDE DEF buffer
<1>3. /\ q \in Polls /\ q.pc = "scanning" /\ q.context = p.context /\ q.old = p.old
      /\ q.stamp = p.stamp /\ q.buffer = buffer
  BY <1>1, <1>2 DEF Polls
<1>4. poll' = [poll EXCEPT ![k] = [poll[k] EXCEPT ![i] = q]]
  BY <1>1 DEF Emit, buffer
<1> HIDE DEF q
<1>5. OnlyPoll(k, i, q)
  BY <1>3, <1>4, PollChange
<1>6. old \in [Nodes -> -1..counter]
  <2>1. \A m \in Nodes : record[m] \in Records(nextId, counter)
    BY Types
  <2>2. \A m \in Nodes : record[m].stamp \in -1..counter
    BY <2>1 DEF Records
  <2> QED
    BY <1>1, <2>2 DEF Scans
<1>7. n + 1 \in 0..(NrNodes + 1)
  BY <1>1, Tree DEF Nodes
<1>8. scan' = [scan EXCEPT !.at = n + 1, !.pc = pc, !.old = old]
  BY DEF Emit, SendsContent
<1>9. \A m \in Nodes : old[m] = IF SendsContent(n) /\ Within(m, n)
                                THEN record[n].stamp ELSE scan.old[m]
  OBVIOUS
<1> HIDE DEF old
<1>10. /\ scan' \in Scans(counter) /\ scan'.of = scan.of /\ scan'.at = n + 1
       /\ scan'.pc = pc /\ scan'.old = old
  BY ZenonT(30), <1>1, <1>6, <1>7, <1>8 DEF Scans
<1>11. /\ counter' = counter /\ context' = context /\ data' = data /\ hidden' = hidden
       /\ stamp' = stamp /\ record' = record /\ nextId' = nextId
       /\ page' = page /\ timer' = timer /\ failures' = failures /\ overtaken' = overtaken
  BY DEF Emit, clientVars
<1>12. /\ writer' \in [Writers -> WritersAt(counter)]
       /\ \A w \in Writers :
            /\ writer'[w].pc = writer[w].pc /\ writer'[w].content = writer[w].content
            /\ writer'[w].stamp = writer[w].stamp
  BY Passes DEF Emit
<1>13. TypeOK'
  BY <1>5, <1>10, <1>11, <1>12, Types, TypesNext DEF OnlyPoll
<1>14. ChainsInv'
  <2>1. \A l \in Clients : InFlight(l)' = InFlight(l)
    BY <1>1, <1>3, <1>5, Flights
  <2> QED
    BY <1>11, <2>1 DEF ChainsInv
<1>15. ContextInv'
  BY <1>1, <1>3, <1>5, <1>11 DEF ContextInv, OnlyPoll
<1>16. WalksFor(k, i)'
  <2>1. scan'.of = <<k, i>> /\ poll'[k][i] = q
    BY <1>1, <1>5, <1>10 DEF OnlyPoll
  <2> QED
    BY <1>3, <2>1 DEF WalksFor, Scanned
<1>17. ScanPlace'
  <2>1. n + 1 \in Nodes \/ n = NrNodes
    BY <1>1, Tree DEF Nodes
  <2> QED
    BY <1>10, <1>16, <2>1 DEF ScanPlace, WalksFor
<1>18. WriterPlace'
  BY <1>12 DEF WriterPlace
<1> QED
  BY <1>1, <1>3, <1>5, <1>9, <1>10, <1>13, <1>14, <1>15, <1>16, <1>17, <1>18 DEF buffer

LEMMA EndScanTypes ==
  ASSUME TypeInv, EndScan, NEW k \in Clients, NEW i \in 1..MaxPolls, WalksFor(k, i)
  PROVE  /\ TypeInv' /\ scan.pc = "end" /\ scan.at = NrNodes + 1 /\ scan'.pc = "none"
         /\ poll[k][i] \in Polls
         /\ \E q \in Polls :
              /\ OnlyPoll(k, i, q)
              /\ q.pc = "answered" \/ (q.pc = "sent" /\ poll[k][i].buffer = <<>>)
              /\ q.old = poll[k][i].old /\ q.context = poll[k][i].context
              /\ q.stamp = poll[k][i].stamp /\ q.buffer = poll[k][i].buffer
<1> USE DEF TypeInv
<1> DEFINE p == poll[k][i]
<1>1. /\ scan.pc = "end" /\ scan.at = NrNodes + 1 /\ scan' = NoScan
      /\ p \in Polls /\ p.pc = "scanning" /\ scan.of = <<k, i>> /\ Scanned = p
  <2>1. scan.pc = "end" /\ scan' = NoScan
    BY DEF EndScan
  <2>2. p \in Polls
    BY Types
  <2> QED
    BY <2>1, <2>2 DEF ScanPlace, WalksFor
<1>2. PICK pc \in {"answered", "sent"} :
        /\ poll' = [poll EXCEPT ![k] = [poll[k] EXCEPT ![i] = [p EXCEPT !.pc = pc]]]
        /\ pc = "sent" => p.buffer = <<>>
  BY <1>1 DEF EndScan
<1> DEFINE q == [p EXCEPT !.pc = pc]
<1>3. /\ q \in Polls /\ q.pc = pc /\ q.context = p.context /\ q.old = p.old
      /\ q.stamp = p.stamp /\ q.buffer = p.buffer
  BY <1>1 DEF Polls, Pcs
<1> HIDE DEF q
<1>4. OnlyPoll(k, i, q)
  BY <1>2, <1>3, PollChange DEF q
<1>5. scan' \in Scans(counter) /\ scan'.pc = "none"
  <2>1. counter \in Nat
    BY Types
  <2> QED
    BY <1>1, <2>1, Tree DEF NoScan, Scans
<1>6. /\ counter' = counter /\ context' = context /\ data' = data /\ hidden' = hidden
      /\ stamp' = stamp /\ record' = record /\ nextId' = nextId /\ writer' = writer
      /\ page' = page /\ timer' = timer /\ failures' = failures /\ overtaken' = overtaken
  BY DEF EndScan, clientVars
<1>7. TypeOK'
  BY <1>4, <1>5, <1>6, Types, TypesNext DEF OnlyPoll
<1>8. ChainsInv'
  <2>1. \A l \in Clients : InFlight(l)' = InFlight(l)
    BY <1>1, <1>3, <1>4, Flights
  <2> QED
    BY <1>6, <2>1 DEF ChainsInv
<1>9. ContextInv'
  BY <1>1, <1>3, <1>4, <1>6 DEF ContextInv, OnlyPoll
<1>10. ScanPlace'
  BY <1>5 DEF ScanPlace
<1>11. WriterPlace'
  BY <1>6 DEF WriterPlace
<1> QED
  BY <1>1, <1>2, <1>3, <1>4, <1>5, <1>7, <1>8, <1>9, <1>10, <1>11

\* The ids of divs go on from one server to the next, but that of the root.
RootInv == nextId > RootId /\ record[Root].id = RootId

LEMMA RestartTypes ==
  ASSUME TypeInv, RootInv, Restart
  PROVE  TypeInv' /\ RootInv'
<1> USE DEF TypeInv
<1>1. /\ counter' = InitialCounter /\ context' = context + 1
      /\ data' = [c \in Contents |-> data[c] + 1] /\ hidden' = [c \in Contents |-> FALSE]
      /\ stamp' = InitialStamp /\ record' = InitialRecord /\ scan' = NoScan
      /\ writer' = [w \in Writers |-> Idle]
      /\ overtaken' = [c \in Contents |-> [content |-> "no", visibility |-> "no"]]
      /\ failures < MaxFailures /\ failures' = failures + 1
      /\ nextId' = nextId /\ page' = page /\ timer' = timer
      /\ poll' = [k \in Clients |-> [i \in 1..MaxPolls |->
                    IF LateAnswers /\ poll[k][i].pc = "answered" THEN poll[k][i] ELSE NoPoll]]
  BY DEF Restart, clientVars
<1>2. /\ failures \in 0..MaxFailures /\ context <= failures + 1 /\ MaxFailures \in Nat
      /\ context \in Nat /\ context >= 1 /\ context \in 1..(MaxFailures + 1) /\ nextId \in Nat
      /\ NoPoll \in Polls
  BY Types, InitialTypes, ConstantsAssumption DEF ContextInv
<1>3. ASSUME NEW k \in Clients, NEW i \in 1..MaxPolls
      PROVE  /\ poll'[k][i] \in Polls
             /\ poll'[k][i] = poll[k][i] \/ poll'[k][i] = NoPoll
             /\ poll'[k][i].pc \notin {"ready", "scanning"}
             /\ poll'[k][i].context <= context
  <2>1. poll[k][i] \in Polls /\ poll[k][i].context <= context
    BY BrowserTypes DEF ContextInv
  <2>2. NoPoll.pc = "none" /\ NoPoll.context = 0
    BY DEF NoPoll
  <2> QED
    BY <1>1, <1>2, <2>1, <2>2
<1>4. TypeOK'
  <2>1. /\ InitialCounter \in Nat /\ InitialRecord \in [Nodes -> Records(nextId, InitialCounter)]
    BY <1>2, InitialTypes DEF RootInv, RootId
  <2>2. context + 1 \in 1..(MaxFailures + 1)
    BY <1>1, <1>2
  <2>3. /\ [c \in Contents |-> [content |-> "no", visibility |-> "no"]] \in [Contents -> Histories]
        /\ [c \in Contents |-> data[c] + 1] \in [Contents -> Nat]
    BY Types DEF Histories, Overtaking
  <2>4. poll' \in [Clients -> [1..MaxPolls -> Polls]]
    BY <1>1, <1>3
  <2> QED
    BY <1>1, <2>1, <2>2, <2>3, <2>4, Types, TypesNext, InitialTypes
<1>5. ChainsInv'
  <2>1. ASSUME NEW k \in Clients
        PROVE  /\ InFlight(k)' <= InFlight(k) /\ InFlight(k) \in Nat /\ InFlight(k)' \in Nat
               /\ timer[k].refresh \in Nat
    <3> DEFINE F == {i \in 1..MaxPolls : poll[k][i].pc # "none"}
               G == {i \in 1..MaxPolls : poll'[k][i].pc # "none"}
    <3>1. G \subseteq F
      BY <1>3 DEF NoPoll
    <3>2. InFlight(k) = Cardinality(F) /\ InFlight(k)' = Cardinality(G)
      BY DEF InFlight
    <3>3. IsFiniteSet(F) /\ Cardinality(F) \in Nat /\ Cardinality(G) \in Nat
      BY FlightIsFinite
    <3> HIDE DEF F, G
    <3>4. Cardinality(G) <= Cardinality(F)
      BY <3>1, <3>3, FS_Subset
    <3>5. timer[k] \in Timers
      BY Types
    <3> QED
      BY <3>2, <3>3, <3>4, <3>5 DEF Timers
  <2>2. MaxPolls \in Nat /\ \A k \in Clients : timer[k].refresh + InFlight(k) <= MaxPolls
    BY ConstantsAssumption DEF ChainsInv
  <2> QED
    BY <1>1, <2>1, <2>2 DEF ChainsInv
<1>6. ContextInv'
  <2>1. \A k \in Clients : page[k].context <= context /\ page[k].context \in Int
    <3>1. \A k \in Clients : page[k] \in Pages
      BY Types
    <3> QED
      BY <3>1 DEF ContextInv, Pages
  <2>2. \A k \in Clients, i \in 1..MaxPolls : poll'[k][i].context \in Int
    BY <1>3 DEF Polls
  <2> QED
    BY <1>1, <1>2, <1>3, <2>1, <2>2 DEF ContextInv
<1>7. ScanPlace'
  BY <1>1 DEF ScanPlace, NoScan
<1>8. WriterPlace'
  BY <1>1 DEF WriterPlace, Idle
<1>9. RootInv'
  BY <1>1, Tree DEF RootInv, InitialRecord
<1> QED
  BY <1>4, <1>5, <1>6, <1>7, <1>8, <1>9

LEMMA TypesStep ==
  ASSUME TypeInv, RootInv, [Next]_vars
  PROVE  TypeInv' /\ RootInv'
<1>1. CASE UNCHANGED vars
  <2> USE <1>1 DEF vars, serverVars, clientVars
  <2>1. TypeOK'
    BY DEF TypeInv, TypeOK, Divs, Statements
  <2>2. ChainsInv' /\ ContextInv'
    BY DEF TypeInv, ChainsInv, ContextInv, InFlight
  <2>3. ScanPlace' /\ WriterPlace' /\ RootInv'
    BY DEF TypeInv, ScanPlace, WriterPlace, RootInv, Within
  <2> QED
    BY <2>1, <2>2, <2>3 DEF TypeInv
<1>2. CASE Restart
  BY <1>2, RestartTypes
<1>3. CASE RenderStart
  <2>1. /\ TypeInv' /\ scan.next \in Flux
        /\ \A m \in Nodes : m # scan.next => record'[m] = record[m]
        /\ scan.next = scan.at => record'[scan.at].id = record[scan.at].id
    BY <1>3, RenderStartTypes
  <2>2. scan.next = Root => scan.at = Root
    BY <1>3, <2>1, Tree DEF RenderStart, TypeInv, ScanPlace, Within, Root
  <2>3. nextId' >= nextId /\ nextId \in Nat /\ nextId' \in Nat
    BY <1>3, Types DEF RenderStart, TypeInv
  <2>4. record'[Root].id = record[Root].id
    BY <2>1, <2>2, Tree
  <2>5. RootId \in Nat
    BY DEF RootId
  <2> QED
    BY <2>1, <2>3, <2>4, <2>5 DEF RootInv
<1>4. CASE RenderBody
  <2>1. TypeInv' /\ nextId' = nextId
    BY <1>4, RenderBodyTypes DEF RenderBody
  <2>2. record'[Root].id = record[Root].id
    BY <1>4, Draws, Tree
  <2> QED
    BY <2>1, <2>2 DEF RootInv
<1>5. CASE Check
  BY <1>5, CheckTypes DEF RootInv, Check
<1>6. CASE Emit \/ EndScan
  <2>1. PICK k \in Clients, i \in 1..MaxPolls : WalksFor(k, i)
    BY <1>6, Walks DEF TypeInv, Emit, EndScan
  <2>2. TypeInv'
    BY <1>6, <2>1, EmitTypes, EndScanTypes
  <2>3. UNCHANGED <<record, nextId>>
    BY <1>6 DEF Emit, EndScan
  <2> QED
    BY <2>2, <2>3 DEF RootInv
<1>7. CASE Change \/ \E w \in Writers : Stamping(w)
  <2>1. UNCHANGED <<record, nextId>>
    BY <1>7 DEF Change, Stamping, ChangeData, Toggle, TakeStamp, StoreStamp
  <2> QED
    BY <1>7, <2>1, WriterTypes DEF RootInv
<1>8. ASSUME NEW k \in Clients, NEW i \in 1..MaxPolls, Asking(k, i) \/ Lose(k, i)
      PROVE  TypeInv' /\ RootInv'
  <2>1. UNCHANGED <<record, nextId>>
    BY <1>8 DEF Asking, Refresh, Timeout, Snapshot, BeginScan, Deliver, Lose, serverVars
  <2> QED
    BY <1>8, <2>1, RefreshTypes, SnapshotTypes, BeginScanTypes, DeliverTypes, LoseTypes
       DEF Asking, RootInv
<1> QED
  BY <1>1, <1>2, <1>3, <1>4, <1>5, <1>6, <1>7, <1>8 DEF Next, Scan

\* Every variable has its type: in particular no stamp is ahead of the
\* counter, no record has an id that is still to be given, and a browser has
\* no more than MaxPolls chains of requests.
THEOREM TypeCorrect == Spec => []TypeOK
<1>1. Init => TypeInv /\ RootInv
  BY TypesInit, Tree DEF Init, RootInv, InitialRecord, RootId
<1>2. TypeInv /\ RootInv /\ [Next]_vars => TypeInv' /\ RootInv'
  BY TypesStep
<1>3. TypeInv => TypeOK
  BY DEF TypeInv
<1> QED
  BY <1>1, <1>2, <1>3, PTL DEF Spec

-----------------------------------------------------------------------------
(* Requests and pages: no page goes back.                                  *)

\* A request that has been sent goes on, at this server.
GoesOn(p, q) ==
  /\ p.pc # "none" /\ q.context = context
  /\ q.old = IF p.context = context THEN p.old ELSE -1
  /\ q.pc \in {"sent", "ready"} =>
       q.buffer = <<>> \/ (q.buffer = p.buffer /\ p.pc \in {"sent", "ready"})
  /\ q.pc = "answered" =>
       /\ scan.pc = "end" /\ scan'.pc = "none" /\ p = Scanned
       /\ q.old = p.old /\ q.stamp = p.stamp /\ q.buffer = p.buffer

IsSent(k, q) == /\ q.pc = "sent" /\ q.old = page[k].timestamp
                /\ q.context = page[k].context /\ q.buffer = <<>>

LEMMA RequestSteps ==
  ASSUME TypeInv, [Next]_vars
  PROVE  \/ Restart
         \/ UNCHANGED <<context, page, poll>>
         \/ \E k \in Clients, i \in 1..MaxPolls, q \in Polls :
              /\ context' = context /\ OnlyPoll(k, i, q)
              /\ page' = page \/ Deliver(k, i)
              /\ q = NoPoll \/ IsSent(k, q) \/ GoesOn(poll[k][i], q)
<1> USE DEF TypeInv
<1>1. CASE UNCHANGED vars
  BY <1>1 DEF vars, serverVars, clientVars
<1>2. CASE Change \/ (\E w \in Writers : Stamping(w)) \/ Check \/ RenderStart \/ RenderBody
  BY <1>2 DEF Change, Stamping, ChangeData, Toggle, TakeStamp, StoreStamp, Check, RenderStart,
              RenderBody, clientVars
<1>3. ASSUME NEW k \in Clients, NEW i \in 1..MaxPolls, Refresh(k, i) \/ Timeout(k, i)
      PROVE  \E q \in Polls : /\ context' = context /\ page' = page /\ OnlyPoll(k, i, q)
                              /\ IsSent(k, q)
  <2>1. Send(k, i) /\ context' = context /\ page' = page
    BY <1>3 DEF Refresh, Timeout, serverVars, clientVars
  <2> QED
    BY <2>1, Sends DEF IsSent
<1>4. ASSUME NEW k \in Clients, NEW i \in 1..MaxPolls, Lose(k, i)
      PROVE  context' = context /\ page' = page /\ OnlyPoll(k, i, NoPoll) /\ NoPoll \in Polls
  <2>1. poll' = [poll EXCEPT ![k] = [poll[k] EXCEPT ![i] = NoPoll]]
    BY <1>4 DEF Lose
  <2> QED
    BY <1>4, <2>1, InitialTypes, PollChange DEF Lose, serverVars, clientVars
<1>5. ASSUME NEW k \in Clients, NEW i \in 1..MaxPolls, Deliver(k, i)
      PROVE  context' = context /\ OnlyPoll(k, i, NoPoll) /\ NoPoll \in Polls
  BY <1>5, InitialTypes, Delivers DEF serverVars
<1>6. ASSUME NEW k \in Clients, NEW i \in 1..MaxPolls, Snapshot(k, i)
      PROVE  \E q \in Polls : /\ context' = context /\ page' = page /\ OnlyPoll(k, i, q)
                              /\ GoesOn(poll[k][i], q)
  <2>1. context' = context /\ page' = page
    BY <1>6 DEF Snapshot, serverVars, clientVars
  <2>2. PICK q \in Polls :
              /\ OnlyPoll(k, i, q) /\ q.pc = "ready" /\ q.context = context
              /\ q.old = IF poll[k][i].context = context THEN poll[k][i].old ELSE -1
              /\ q.buffer = poll[k][i].buffer /\ poll[k][i].pc = "sent"
    BY <1>6, Snapshots
  <2> QED
    BY <2>1, <2>2 DEF GoesOn
<1>7. ASSUME NEW k \in Clients, NEW i \in 1..MaxPolls, BeginScan(k, i)
      PROVE  \E q \in Polls : /\ context' = context /\ page' = page /\ OnlyPoll(k, i, q)
                              /\ GoesOn(poll[k][i], q)
  <2> DEFINE p == poll[k][i]
             q == [p EXCEPT !.pc = "scanning"]
  <2>1. context' = context /\ page' = page
    BY <1>7 DEF BeginScan, clientVars
  <2>2. p \in Polls /\ p.pc = "ready" /\ p.context = context
    BY <1>7, Types DEF BeginScan, ContextInv
  <2>3. OnlyPoll(k, i, q)
    BY <1>7, BeginScanTypes
  <2>4. q \in Polls /\ q.pc = "scanning" /\ q.context = p.context /\ q.old = p.old
    BY <2>2 DEF Polls, Pcs
  <2> HIDE DEF q
  <2> QED
    BY <2>1, <2>2, <2>3, <2>4 DEF GoesOn
<1>8. ASSUME Emit \/ EndScan
      PROVE  \E k \in Clients, i \in 1..MaxPolls, q \in Polls :
                /\ context' = context /\ page' = page /\ OnlyPoll(k, i, q)
                /\ GoesOn(poll[k][i], q)
  <2>1. context' = context /\ page' = page
    BY ZenonT(30), <1>8 DEF Emit, EndScan, clientVars
  <2>2. PICK k \in Clients, i \in 1..MaxPolls : WalksFor(k, i)
    BY <1>8, Walks DEF Emit, EndScan
  <2>3. poll[k][i].pc = "scanning" /\ poll[k][i].context = context
    BY <2>2 DEF WalksFor, ContextInv
  <2>4. CASE Emit
    <3>1. PICK q \in Polls :
            /\ OnlyPoll(k, i, q) /\ q.pc = "scanning" /\ q.old = poll[k][i].old
            /\ q.context = poll[k][i].context
      BY <2>2, <2>4, EmitTypes
    <3> QED
      BY <2>1, <2>3, <3>1 DEF GoesOn
  <2>5. CASE EndScan
    <3>1. PICK q \in Polls :
            /\ OnlyPoll(k, i, q) /\ q.old = poll[k][i].old /\ q.context = poll[k][i].context
            /\ q.stamp = poll[k][i].stamp /\ scan.pc = "end" /\ scan'.pc = "none"
            /\ q.pc = "answered" \/ (q.pc = "sent" /\ poll[k][i].buffer = <<>>)
            /\ q.buffer = poll[k][i].buffer
      BY <2>2, <2>5, EndScanTypes
    <3>2. GoesOn(poll[k][i], q)
      BY <2>2, <2>3, <3>1 DEF GoesOn, WalksFor
    <3> QED
      BY <2>1, <3>1, <3>2
  <2> QED
    BY <1>8, <2>4, <2>5
<1>9. ASSUME NEW k \in Clients, NEW i \in 1..MaxPolls, Asking(k, i) \/ Lose(k, i)
      PROVE  \E q \in Polls :
              /\ context' = context /\ OnlyPoll(k, i, q)
              /\ page' = page \/ Deliver(k, i)
              /\ q = NoPoll \/ IsSent(k, q) \/ GoesOn(poll[k][i], q)
  BY <1>3, <1>4, <1>5, <1>6, <1>7, <1>9 DEF Asking
<1>10. CASE \E k \in Clients, i \in 1..MaxPolls : Asking(k, i) \/ Lose(k, i)
  BY <1>9, <1>10
<1>11. CASE Emit \/ EndScan
  BY <1>8, <1>11
<1> QED
  BY <1>1, <1>2, <1>10, <1>11 DEF Next, Scan

\* A page takes on the stamp of a newer answer, or of another server's.
LEMMA Forward ==
  ASSUME TypeInv, AnswerInv, NEW k \in Clients, NEW i \in 1..MaxPolls, Deliver(k, i),
         NEW l \in Clients
  PROVE  \/ page'[l].context > page[l].context /\ page'[l].context = context
         \/ /\ page'[l].context = page[l].context
            /\ page'[l].timestamp >= page[l].timestamp
<1> DEFINE p == poll[k][i]
           r == Script(page[k].divs, p.buffer)
<1>1. /\ page[l] \in Pages /\ page[k] \in Pages /\ p \in Polls /\ context \in Nat
      /\ page[k].context <= context /\ TypeOK
  <2>1. TypeOK /\ page[k].context <= context
    BY DEF TypeInv, ContextInv
  <2>2. /\ page \in [Clients -> Pages] /\ poll \in [Clients -> [1..MaxPolls -> Polls]]
        /\ context \in Nat
    BY <2>1, BrowserTypes, NumberTypes DEF TypeInv
  <2> QED
    BY <2>1, <2>2
<1>2. /\ p.pc = "answered" /\ \A m \in Clients \ {k} : page'[m] = page[m]
      /\ \/ page'[k] = page[k]
         \/ /\ Newer(k, p) /\ r.ok
            /\ page'[k] = [timestamp |-> p.stamp, context |-> p.context, divs |-> r.divs]
         \/ Newer(k, p) /\ ~r.ok /\ page'[k] = [page[k] EXCEPT !.divs = r.divs]
  BY <1>1, Delivers
<1>3. p.context = context
  BY <1>2 DEF AnswerInv
<1> HIDE DEF p, r
<1>4. page[l].timestamp \in Nat /\ page[k].context \in Nat /\ p.stamp \in Nat
  BY <1>1 DEF Pages, Polls
<1>5. CASE l # k \/ page'[k] = page[k]
  BY <1>2, <1>4, <1>5
<1>6. CASE l = k /\ page'[k] = [page[k] EXCEPT !.divs = r.divs]
  <2>1. page'[k].context = page[k].context /\ page'[k].timestamp = page[k].timestamp
    BY <1>1, <1>6 DEF Pages
  <2> QED
    BY <1>4, <1>6, <2>1
<1>7. CASE /\ l = k /\ Newer(k, p)
           /\ page'[k] = [timestamp |-> p.stamp, context |-> p.context, divs |-> r.divs]
  BY <1>1, <1>3, <1>4, <1>7 DEF Newer
<1> QED
  BY <1>2, <1>5, <1>6, <1>7

LEMMA AnswersStep ==
  ASSUME TypeInv, AnswerInv, AskInv, ~LateAnswers, [Next]_vars
  PROVE  AnswerInv' /\ AskInv'
<1>1. /\ NoPoll.pc = "none" /\ context \in Nat /\ page \in [Clients -> Pages]
      /\ poll \in [Clients -> [1..MaxPolls -> Polls]] /\ MaxPolls \in Nat
  BY Types, ConstantsAssumption DEF TypeInv, NoPoll
<1>2. CASE Restart
  <2>1. \A k \in Clients, i \in 1..MaxPolls : poll'[k][i].pc = "none"
    BY <1>1, <1>2 DEF Restart
  <2> QED
    BY <2>1 DEF AnswerInv, AskInv
<1>3. CASE UNCHANGED <<context, page, poll>>
  BY <1>3 DEF AnswerInv, AskInv
<1>4. ASSUME NEW k \in Clients, NEW i \in 1..MaxPolls, NEW q \in Polls,
             context' = context, OnlyPoll(k, i, q), page' = page \/ Deliver(k, i),
             q = NoPoll \/ IsSent(k, q) \/ GoesOn(poll[k][i], q)
      PROVE  AnswerInv' /\ AskInv'
  <2>1. ASSUME NEW l \in Clients
        PROVE  page[l].context = context =>
                 page'[l].context = context /\ page'[l].timestamp >= page[l].timestamp
    <3>1. page[l].timestamp \in Nat /\ page[l].context \in Nat
      <4>1. page[l] \in Pages
        BY <1>1
      <4> QED
        BY <4>1 DEF Pages
    <3>2. CASE page' = page
      BY <3>1, <3>2
    <3>3. CASE Deliver(k, i)
      BY <1>1, <3>1, <3>3, Forward
    <3> QED
      BY <1>4, <3>2, <3>3
  <2>2. ASSUME NEW l \in Clients, NEW j \in 1..MaxPolls
        PROVE  /\ poll'[l][j] = IF l = k /\ j = i THEN q ELSE poll[l][j]
               /\ page[l].timestamp \in Nat /\ page'[l].timestamp \in Nat
               /\ poll[l][j].old \in Int
    <3>1. page' \in [Clients -> Pages]
      <4>1. Deliver(k, i) => page' \in [Clients -> Pages]
        BY Delivers DEF TypeInv
      <4> QED
        BY <1>1, <1>4, <4>1
    <3>2. page[l] \in Pages /\ page'[l] \in Pages /\ poll[l][j] \in Polls
      BY <1>1, <3>1
    <3>3. poll[l][j].old \in Int
      BY <3>2 DEF Polls
    <3>4. page[l].timestamp \in Nat /\ page'[l].timestamp \in Nat
      BY <3>2 DEF Pages
    <3> QED
      BY <1>4, <3>3, <3>4 DEF OnlyPoll
  <2>3. AnswerInv'
    <3>1. q.pc = "answered" => q.context = context
      BY <1>1, <1>4 DEF IsSent, GoesOn
    <3>2. ASSUME NEW l \in Clients, NEW j \in 1..MaxPolls
          PROVE  poll'[l][j].pc = "answered" => poll'[l][j].context = context
      BY <2>2, <3>1 DEF AnswerInv
    <3> QED
      BY <1>4, <3>2 DEF AnswerInv
  <2>4. ASSUME NEW l \in Clients, NEW j \in 1..MaxPolls
        PROVE  /\ poll'[l][j].pc \in {"sent", "ready"} => poll'[l][j].buffer = <<>>
               /\ poll'[l][j].pc # "none" /\ poll'[l][j].context = context
                  /\ poll'[l][j].old # -1 =>
                    page'[l].context = context /\ poll'[l][j].old <= page'[l].timestamp
    <3>1. CASE l # k \/ j # i
      BY SMTT(30), <2>1, <2>2, <3>1 DEF AskInv
    <3>2. CASE l = k /\ j = i
      BY SMTT(30), <1>1, <1>4, <2>1, <2>2, <3>2 DEF AskInv, IsSent, GoesOn
    <3> QED
      BY <3>1, <3>2
  <2>5. AskInv'
    BY <1>4, <2>4 DEF AskInv
  <2> QED
    BY <2>3, <2>5
<1> QED
  BY <1>2, <1>3, <1>4, RequestSteps

LEMMA AnswersInit == Init => AnswerInv /\ AskInv
BY DEF Init, NoPoll, AnswerInv, AskInv

\* Unless an answer of a killed server can still arrive, no page goes back to
\* an older server or to an older stamp of its server.
THEOREM PagesNeverGoBack ==
  ASSUME ~LateAnswers
  PROVE  Spec => NeverBackwards
<1> DEFINE Inv == TypeInv /\ RootInv /\ AnswerInv /\ AskInv
           Back == \A k \in Clients :
                     \/ page'[k].context > page[k].context
                     \/ /\ page'[k].context = page[k].context
                        /\ page'[k].timestamp >= page[k].timestamp
<1>1. Init => Inv
  BY TypesInit, AnswersInit, Tree DEF Init, RootInv, InitialRecord, RootId
<1>2. Inv /\ [Next]_vars => Inv'
  BY TypesStep, AnswersStep
<1>3. Inv /\ [Next]_vars => [Back]_vars
  <2> SUFFICES ASSUME Inv, [Next]_vars PROVE Back
    OBVIOUS
  <2>1. ASSUME NEW k \in Clients PROVE page[k].timestamp \in Nat
    <3>1. page[k] \in Pages
      BY Types DEF TypeInv
    <3> QED
      BY <3>1 DEF Pages
  <2>2. CASE page' = page
    BY <2>1, <2>2
  <2>3. CASE \E k \in Clients, i \in 1..MaxPolls : Deliver(k, i)
    BY <2>3, Forward
  <2> QED
    BY <2>2, <2>3, RequestSteps DEF Restart, clientVars
<1> QED
  BY <1>1, <1>2, <1>3, PTL DEF Spec, NeverBackwards

-----------------------------------------------------------------------------
(* Stamps: what a refresh knows of them stays true.                        *)

\* Whatever is stored later is newer than t, or counts as overtaken.
StampsKept ==
  /\ counter <= counter'
  /\ \A c \in Contents, kind \in Kinds, t \in Int :
       t <= counter =>
         /\ StampOf(c, kind) <= StampOf(c, kind)'
         /\ NewerThan(c, kind, t) => NewerThan(c, kind, t)'
         /\ Passed(c, kind, t) =>
              /\ Passed(c, kind, t)'
              /\ Behind(c, kind, t) => Behind(c, kind, t)'
              /\ Changing(c, kind) # {} => Changing(c, kind)' # {} \/ Behind(c, kind, t)'
              /\ \A r \in Int : StampOf(c, kind) <= r =>
                                  StampOf(c, kind)' <= r \/ Behind(c, kind, t)'

LEMMA StampTypes ==
  ASSUME TypeOK
  PROVE  /\ counter \in Nat
         /\ \A c \in Contents, kind \in Kinds :
              StampOf(c, kind) \in Nat /\ StampOf(c, kind) >= 1 /\ StampOf(c, kind) <= counter
         /\ \A n \in Nodes : /\ record[n].stamp \in Int /\ record[n].stamp <= counter
                             /\ record[n].id \in Nat
         /\ \A w \in Writers : /\ writer[w].stamp \in Nat /\ writer[w].stamp <= counter
                               /\ writer[w].kind \in Kinds
<1>1. /\ counter \in Nat /\ nextId \in Nat
      /\ stamp \in [Contents -> Stamps(counter)]
      /\ record \in [Nodes -> Records(nextId, counter)]
      /\ writer \in [Writers -> WritersAt(counter)]
  BY Types
<1>2. ASSUME NEW c \in Contents
      PROVE  stamp[c].content \in 1..counter /\ stamp[c].visibility \in 1..counter
  BY <1>1 DEF Stamps
<1>3. ASSUME NEW n \in Nodes
      PROVE  record[n].stamp \in -1..counter /\ record[n].id \in 0..(nextId - 1)
  BY <1>1 DEF Records
<1>4. ASSUME NEW w \in Writers
      PROVE  writer[w].stamp \in 0..counter /\ writer[w].kind \in Kinds
  BY <1>1 DEF WritersAt, Kinds
<1> QED
  BY <1>1, <1>2, <1>3, <1>4 DEF StampOf

\* A change begins: it has no stamp yet.
LEMMA Begins ==
  ASSUME TypeInv, StoreInv, NEW w \in Writers, NEW c \in Contents, NEW kind \in Kinds,
         StartWriting(w, c, kind), UNCHANGED <<counter, stamp, overtaken>>
  PROVE  /\ StampsKept /\ StoreInv'
         /\ w \in Changing(c, kind)' /\ \A t : NewerThan(c, kind, t)'
<1>1. writer \in [Writers -> WritersAt(counter)] /\ counter \in Nat
  BY Types DEF TypeInv
<1>2. /\ writer[w].pc = "idle" /\ writer'[w].pc = "take"
      /\ writer'[w].content = c /\ writer'[w].kind = kind
      /\ \A u \in Writers \ {w} : writer'[u] = writer[u]
  BY <1>1 DEF StartWriting, Idle
<1>3. \A d \in Contents, l \in Kinds :
        /\ StampOf(d, l)' = StampOf(d, l) /\ Overtaken(d, l)' = Overtaken(d, l)
        /\ Changing(d, l) \subseteq Changing(d, l)'
        /\ w \notin Changing(d, l) /\ Changing(d, l) \subseteq Writers
        /\ \A u \in Changing(d, l)' : u = w \/ u \in Changing(d, l)
  BY <1>2 DEF StampOf, Overtaken, Changing
<1>4. w \in Changing(c, kind)'
  BY <1>2 DEF Changing
<1>5. StampsKept
  <2> SUFFICES ASSUME NEW d \in Contents, NEW l \in Kinds, NEW t \in Int
               PROVE  /\ NewerThan(d, l, t) => NewerThan(d, l, t)'
                      /\ Passed(d, l, t) => Passed(d, l, t)'
                      /\ Behind(d, l, t) => Behind(d, l, t)'
                      /\ Changing(d, l) # {} => Changing(d, l)' # {}
                      /\ StampOf(d, l)' = StampOf(d, l)
    BY <1>1, StampTypes DEF StampsKept, TypeInv
  <2>1. NewerThan(d, l, t) => NewerThan(d, l, t)'
    BY <1>2, <1>3 DEF NewerThan
  <2>2. Passed(d, l, t) => Passed(d, l, t)'
    BY <1>2, <1>3 DEF Passed
  <2>3. Behind(d, l, t) => Behind(d, l, t)'
    BY <1>3 DEF Behind
  <2> QED
    BY <1>3, <2>1, <2>2, <2>3
<1>6. StoreInv'
  <2> SUFFICES ASSUME NEW d \in Contents, NEW l \in Kinds, NEW u \in Changing(d, l)',
                      writer'[u].pc = "store"
               PROVE  /\ writer'[u].stamp > StampOf(d, l)'
                      /\ \A v \in Changing(d, l)' : writer'[v].pc = "store" => v = u
    BY DEF StoreInv
  <2> QED
    BY <1>2, <1>3 DEF StoreInv
<1>7. \A t : NewerThan(c, kind, t)'
  BY <1>2, <1>4 DEF NewerThan
<1> QED
  BY <1>4, <1>5, <1>6, <1>7

LEMMA Takes ==
  ASSUME TypeInv, StoreInv, NEW w \in Writers, TakeStamp(w)
  PROVE  StampsKept /\ StoreInv'
<1>1. writer \in [Writers -> WritersAt(counter)] /\ counter \in Nat
  BY Types DEF TypeInv
<1>2. /\ writer[w].pc = "take" /\ writer'[w].pc = "store" /\ counter' = counter + 1
      /\ writer'[w].content = writer[w].content /\ writer'[w].kind = writer[w].kind
      /\ writer'[w].stamp = counter + 1
      /\ \A u \in Writers \ {w} : writer'[u] = writer[u]
      /\ \A u \in Changing(writer[w].content, writer[w].kind) : writer[u].pc # "store"
      /\ stamp' = stamp /\ overtaken' = overtaken
  BY <1>1 DEF TakeStamp, WritersAt
<1>3. \A d \in Contents, l \in Kinds :
        /\ StampOf(d, l)' = StampOf(d, l) /\ Overtaken(d, l)' = Overtaken(d, l)
        /\ Changing(d, l)' = Changing(d, l) /\ Changing(d, l) \subseteq Writers
        /\ StampOf(d, l) \in Nat /\ StampOf(d, l) <= counter
  BY <1>2, StampTypes DEF StampOf, Overtaken, Changing, TypeInv
<1>4. StampsKept
  <2> SUFFICES ASSUME NEW d \in Contents, NEW l \in Kinds, NEW t \in Int, t <= counter
               PROVE  /\ NewerThan(d, l, t) => NewerThan(d, l, t)'
                      /\ Passed(d, l, t) => Passed(d, l, t)'
                      /\ Behind(d, l, t) => Behind(d, l, t)'
                      /\ Changing(d, l)' = Changing(d, l)
                      /\ StampOf(d, l)' = StampOf(d, l)
    BY <1>1, <1>2, StampTypes DEF StampsKept, TypeInv
  <2>1. NewerThan(d, l, t) => NewerThan(d, l, t)'
    BY <1>1, <1>2, <1>3 DEF NewerThan
  <2>2. Passed(d, l, t) => Passed(d, l, t)'
    BY <1>1, <1>2, <1>3 DEF Passed
  <2>3. Behind(d, l, t) => Behind(d, l, t)'
    BY <1>3 DEF Behind
  <2> QED
    BY <1>3, <2>1, <2>2, <2>3
<1>5. StoreInv'
  <2> SUFFICES ASSUME NEW d \in Contents, NEW l \in Kinds, NEW u \in Changing(d, l)',
                      writer'[u].pc = "store"
               PROVE  /\ writer'[u].stamp > StampOf(d, l)'
                      /\ \A v \in Changing(d, l)' : writer'[v].pc = "store" => v = u
    BY DEF StoreInv
  <2>1. CASE u = w
    <3>1. Changing(d, l) = Changing(writer[w].content, writer[w].kind)
      BY <1>2, <2>1 DEF Changing
    <3> QED
      BY <1>1, <1>2, <1>3, <2>1, <3>1
  <2>2. CASE u # w
    <3>1. w \in Changing(d, l) => Changing(d, l) = Changing(writer[w].content, writer[w].kind)
      BY DEF Changing
    <3> QED
      BY <1>2, <1>3, <2>2, <3>1 DEF StoreInv
  <2> QED
    BY <2>1, <2>2
<1> QED
  BY <1>4, <1>5

LEMMA Stores ==
  ASSUME TypeInv, StoreInv, NEW w \in Writers, StoreStamp(w)
  PROVE  StampsKept /\ StoreInv'
<1>0. PICK c, kind, s : c = writer[w].content /\ kind = writer[w].kind /\ s = writer[w].stamp
  OBVIOUS
<1>1. /\ writer \in [Writers -> WritersAt(counter)] /\ counter \in Nat
      /\ stamp \in [Contents -> Stamps(counter)] /\ overtaken \in [Contents -> Histories]
      /\ counter' = counter
  BY Types DEF TypeInv, StoreStamp
<1>2. /\ writer[w].pc = "store" /\ c \in Contents /\ kind \in Kinds /\ s \in Nat
      /\ w \in Changing(c, kind)
  BY <1>0, StampTypes DEF StoreStamp, TypeInv, WriterPlace, Changing
<1>3. writer'[w].pc = "idle" /\ \A u \in Writers \ {w} : writer'[u] = writer[u]
  BY <1>1 DEF StoreStamp, Idle
<1>4. /\ StampOf(c, kind)' = s
      /\ \A d \in Contents, l \in Kinds :
           d # c \/ l # kind => StampOf(d, l)' = StampOf(d, l)
  <2>1. stamp' = IF kind = "content" THEN [stamp EXCEPT ![c].content = s]
                                     ELSE [stamp EXCEPT ![c].visibility = s]
    BY <1>0 DEF StoreStamp, StampWith
  <2> QED
    BY <1>1, <1>2, <2>1 DEF StampOf, Stamps, Kinds
<1>5. /\ writer[w].passed => Overtaken(c, kind)' = "now"
      /\ \A d \in Contents, l \in Kinds :
           d # c \/ l # kind => Overtaken(d, l)' = Overtaken(d, l)
  <2>1. \E is : /\ writer[w].passed => is = "now"
                /\ overtaken' = IF kind = "content" THEN [overtaken EXCEPT ![c].content = is]
                                                    ELSE [overtaken EXCEPT ![c].visibility = is]
    BY <1>0 DEF StoreStamp
  <2> QED
    BY <1>1, <1>2, <2>1 DEF Overtaken, Histories, Kinds
<1>6. \A d \in Contents, l \in Kinds :
        /\ Changing(d, l) \subseteq Writers
        /\ Changing(d, l)' = Changing(d, l) \ {w}
        /\ d # c \/ l # kind => w \notin Changing(d, l)
        /\ StampOf(d, l) \in Nat
  BY <1>0, <1>3, StampTypes DEF Changing, TypeInv
<1>7. /\ s > StampOf(c, kind)
      /\ \A u \in Changing(c, kind) : writer[u].pc = "store" => u = w
  BY <1>0, <1>2 DEF StoreInv
<1>8. StampsKept
  <2> SUFFICES ASSUME NEW d \in Contents, NEW l \in Kinds, NEW t \in Int, t <= counter
               PROVE  /\ StampOf(d, l) <= StampOf(d, l)'
                      /\ NewerThan(d, l, t) => NewerThan(d, l, t)'
                      /\ Passed(d, l, t) =>
                           /\ Passed(d, l, t)'
                           /\ Behind(d, l, t) => Behind(d, l, t)'
                           /\ Changing(d, l) # {} => Changing(d, l)' # {} \/ Behind(d, l, t)'
                           /\ \A r \in Int : StampOf(d, l) <= r =>
                                               StampOf(d, l)' <= r \/ Behind(d, l, t)'
    BY <1>1 DEF StampsKept
  <2>1. CASE d # c \/ l # kind
    <3>1. /\ StampOf(d, l)' = StampOf(d, l) /\ Overtaken(d, l)' = Overtaken(d, l)
          /\ Changing(d, l)' = Changing(d, l) /\ w \notin Changing(d, l)
          /\ \A u \in Changing(d, l) : writer'[u] = writer[u]
      BY <1>3, <1>4, <1>5, <1>6, <2>1
    <3>2. NewerThan(d, l, t) => NewerThan(d, l, t)'
      BY <3>1 DEF NewerThan
    <3>3. Passed(d, l, t) => Passed(d, l, t)'
      BY <3>1 DEF Passed
    <3>4. Behind(d, l, t) => Behind(d, l, t)'
      BY <3>1 DEF Behind
    <3> QED
      BY <1>6, <3>1, <3>2, <3>3, <3>4
  <2>2. CASE d = c /\ l = kind
    <3>1. /\ StampOf(d, l)' = s /\ Changing(d, l)' = Changing(d, l) \ {w}
          /\ StampOf(d, l) \in Nat /\ StampOf(d, l) < s
          /\ \A u \in Changing(d, l) \ {w} : writer'[u] = writer[u]
          /\ w \in Changing(d, l)
          /\ \A u \in Changing(d, l) : writer[u].pc = "store" => u = w
      BY <1>2, <1>3, <1>4, <1>6, <1>7, <2>2
    <3>2. NewerThan(d, l, t) => NewerThan(d, l, t)'
      BY <1>0, <1>2, <3>1 DEF NewerThan
    <3>3. Passed(d, l, t) => Passed(d, l, t)' /\ Behind(d, l, t)'
      BY <1>0, <1>2, <1>5, <2>2, <3>1 DEF Passed, Behind
    <3> QED
      BY <1>2, <3>1, <3>2, <3>3
  <2> QED
    BY <2>1, <2>2
<1>9. StoreInv'
  <2> SUFFICES ASSUME NEW d \in Contents, NEW l \in Kinds, NEW u \in Changing(d, l)',
                      writer'[u].pc = "store"
               PROVE  /\ writer'[u].stamp > StampOf(d, l)'
                      /\ \A v \in Changing(d, l)' : writer'[v].pc = "store" => v = u
    BY DEF StoreInv
  <2>1. u \in Changing(d, l) /\ u # w /\ writer'[u] = writer[u]
    BY <1>3, <1>6
  <2>2. d # c \/ l # kind
    BY <1>2, <2>1 DEF StoreInv
  <2> QED
    BY <1>3, <1>4, <1>6, <2>1, <2>2 DEF StoreInv
<1> QED
  BY <1>8, <1>9

\* The walk marks the stamps that it has passed.
LEMMA Marks ==
  ASSUME TypeInv, StoreInv, NEW c \in Contents, NEW kind \in Kinds, PassBy(c, kind),
         Scanned.stamp \in Nat,
         UNCHANGED <<counter, stamp, overtaken>>
  PROVE  /\ StampsKept /\ StoreInv' 
         /\ \A t : t = Scanned.stamp => Passed(c, kind, t)'
         /\ \A d, l : Changing(d, l)' = Changing(d, l)
         /\ \A d, l, t : /\ NewerThan(d, l, t)' = NewerThan(d, l, t)
                         /\ Behind(d, l, t)' = Behind(d, l, t)
<1>0. \A d, l : Changing(d, l) \subseteq Writers
  BY DEF Changing
<1>1. /\ counter' = counter /\ counter \in Nat
      /\ \A d, l : StampOf(d, l)' = StampOf(d, l) /\ Overtaken(d, l)' = Overtaken(d, l)
  BY Types DEF TypeInv, StampOf, Overtaken
<1>2. \A w \in Writers :
              /\ writer'[w].pc = writer[w].pc /\ writer'[w].content = writer[w].content
              /\ writer'[w].kind = writer[w].kind /\ writer'[w].stamp = writer[w].stamp
              /\ writer[w].passed => writer'[w].passed
              /\ w \in Changing(c, kind) /\ writer[w].pc = "store"
                 /\ writer[w].stamp <= Scanned.stamp => writer'[w].passed
  BY Passes DEF TypeInv
<1>3. \A d, l : Changing(d, l)' = Changing(d, l)
  BY <1>2 DEF Changing
<1>4. \A d, l, t : /\ NewerThan(d, l, t)' = NewerThan(d, l, t)
                   /\ Behind(d, l, t)' = Behind(d, l, t)
  BY <1>0, <1>1, <1>2, <1>3 DEF NewerThan, Behind
<1>5. \A d, l, t : Passed(d, l, t) => Passed(d, l, t)'
  BY <1>0, <1>2, <1>3 DEF Passed
<1>6. \A t : t = Scanned.stamp => Passed(c, kind, t)'
  <2> SUFFICES ASSUME NEW t, t = Scanned.stamp, NEW w \in Changing(c, kind)',
                      writer'[w].pc = "store"
               PROVE  writer'[w].stamp > t \/ writer'[w].passed
    BY DEF Passed
  <2>1. w \in Changing(c, kind) /\ w \in Writers /\ writer[w].pc = "store"
    BY <1>0, <1>2, <1>3
  <2>2. writer[w].stamp \in Nat
    BY <2>1, StampTypes DEF TypeInv
  <2> QED
    BY <1>2, <2>1, <2>2
<1>7. StampsKept
  BY <1>1, <1>3, <1>4, <1>5, StampTypes DEF StampsKept, TypeInv
<1>8. StoreInv'
  BY <1>0, <1>1, <1>2, <1>3 DEF StoreInv
<1> QED
  BY <1>3, <1>4, <1>6, <1>7, <1>8

-----------------------------------------------------------------------------
(* Records: a cache that is out of date is older than a stamp.             *)

\* What changes is being stamped.
DataKept == \A c \in Contents :
  data'[c] = data[c] \/ \A t : NewerThan(c, "content", t)'

HiddenKept == \A c \in Contents :
  hidden'[c] = hidden[c] \/ (/\ Changing(c, "visibility")' # {}
                             /\ \A t : NewerThan(c, "visibility", t)')

LEMMA Writes ==
  ASSUME TypeInv, StoreInv, Change \/ \E w \in Writers : Stamping(w)
  PROVE  /\ StampsKept /\ StoreInv' /\ DataKept /\ HiddenKept
         /\ UNCHANGED <<context, record, nextId, scan, page, poll>>
<1>1. ASSUME NEW w \in Writers, NEW c \in Contents, ChangeData(w, c)
      PROVE  /\ StampsKept /\ StoreInv' /\ DataKept /\ HiddenKept
             /\ UNCHANGED <<context, record, nextId, scan, page, poll>>
  <2>1. /\ StartWriting(w, c, "content") /\ "content" \in Kinds
        /\ UNCHANGED <<counter, stamp, overtaken, hidden>>
        /\ UNCHANGED <<context, record, nextId, scan, page, poll>>
    BY <1>1 DEF ChangeData, clientVars, Kinds
  <2>2. StampsKept /\ StoreInv' /\ \A t : NewerThan(c, "content", t)'
    BY <2>1, Begins
  <2>3. \A d \in Contents : d # c => data'[d] = data[d]
    BY <1>1, Types DEF ChangeData, TypeInv
  <2> QED
    BY <2>1, <2>2, <2>3 DEF DataKept, HiddenKept
<1>2. ASSUME NEW w \in Writers, NEW c \in Contents, Toggle(w, c)
      PROVE  /\ StampsKept /\ StoreInv' /\ DataKept /\ HiddenKept
             /\ UNCHANGED <<context, record, nextId, scan, page, poll>>
  <2>1. /\ StartWriting(w, c, "visibility") /\ "visibility" \in Kinds
        /\ UNCHANGED <<counter, stamp, overtaken, data>>
        /\ UNCHANGED <<context, record, nextId, scan, page, poll>>
    BY <1>2 DEF Toggle, clientVars, Kinds
  <2>2. /\ StampsKept /\ StoreInv' /\ w \in Changing(c, "visibility")'
        /\ \A t : NewerThan(c, "visibility", t)'
    BY <2>1, Begins
  <2>3. \A d \in Contents : d # c => hidden'[d] = hidden[d]
    BY <1>2, Types DEF Toggle, TypeInv
  <2> QED
    BY <2>1, <2>2, <2>3 DEF DataKept, HiddenKept
<1>3. ASSUME NEW w \in Writers, Stamping(w)
      PROVE  /\ StampsKept /\ StoreInv' /\ DataKept /\ HiddenKept
             /\ UNCHANGED <<context, record, nextId, scan, page, poll>>
  <2>1. UNCHANGED <<data, hidden>> /\ UNCHANGED <<context, record, nextId, scan, page, poll>>
    BY <1>3 DEF Stamping, TakeStamp, StoreStamp, clientVars
  <2>2. StampsKept /\ StoreInv'
    BY <1>3, Takes, Stores DEF Stamping
  <2> QED
    BY SMTT(30), <2>1, <2>2 DEF DataKept, HiddenKept
<1> QED
  BY <1>1, <1>2, <1>3 DEF Change

\* Where the nodes in flux are
LEMMA FluxIs ==
  ASSUME TypeInv
  PROVE  /\ \A n \in Nodes : n \in Flux <=> /\ scan.pc \in {"start", "body"}
                                            /\ scan.at <= n /\ n <= LastIn[scan.at]
         /\ Flux \subseteq Nodes
         /\ \A n \in Flux : scan.at \in Nodes /\ (n = scan.at \/ n \in Below(scan.at))
         /\ Flux # {} => scan.at \in Flux
         /\ \A a \in Nodes : \A n \in Below(a) : /\ a \in Flux => n \in Flux
                                                 /\ a \notin Flux /\ n \in Flux => scan.at \in Below(a)
<1>1. Flux # {} => scan.at \in Nodes
  BY DEF TypeInv, ScanPlace, Flux
<1>2. \A n \in Nodes : n \in Flux <=> /\ scan.pc \in {"start", "body"}
                                      /\ scan.at <= n /\ n <= LastIn[scan.at]
  BY DEF Flux, Within
<1>3. \A a \in Nodes : \A n \in Below(a) :
        n \in Nodes /\ a < n /\ n <= LastIn[a] /\ LastIn[n] <= LastIn[a]
  BY Tree DEF Below, Within
<1>4. ASSUME NEW a \in Nodes, NEW n \in Below(a), a \notin Flux, n \in Flux
      PROVE  scan.at \in Below(a)
  <2>1. /\ scan.at \in Nodes /\ n \in Nodes /\ scan.at <= n /\ n <= LastIn[scan.at]
        /\ a < scan.at \/ LastIn[scan.at] < a
    BY <1>1, <1>2, <1>3, <1>4, Tree
  <2>2. a < scan.at /\ n <= LastIn[a]
    BY <1>3, <2>1, Tree
  <2>3. scan.at <= LastIn[a]
    BY <2>1, <2>2, Tree
  <2> QED
    BY <2>1, <2>2, <2>3, Tree
<1>5. \A a \in Nodes : \A n \in Below(a) : a \in Flux => n \in Flux
  <2> SUFFICES ASSUME NEW a \in Nodes, NEW n \in Below(a), a \in Flux PROVE n \in Flux
    OBVIOUS
  <2>1. scan.at \in Nodes /\ Within(a, scan.at)
    BY <1>1 DEF Flux
  <2>2. LastIn[a] <= LastIn[scan.at] /\ scan.at <= a
    BY <2>1, Tree DEF Within
  <2> QED
    BY <1>2, <1>3, <2>1, <2>2, Tree
<1> QED
  BY <1>1, <1>2, <1>4, <1>5, Tree DEF Below, Within, Flux

\* The records stay as they are; the walk may come to one that is stale.
LEMMA RecordsStand ==
  ASSUME TypeInv, TypeInv', RecordInv, StampsKept, StoreInv', DataKept, HiddenKept,
         record' = record,
         \/ scan' = scan
         \/ /\ scan.pc \notin {"start", "body"} /\ scan'.pc # "body"
            /\ scan'.pc = "start" =>
                 /\ scan'.next = scan'.at
                 /\ stamp'[ContentOf[scan'.at]].content > record[scan'.at].stamp
  PROVE  RecordInv'
<1> USE DEF RecordInv
<1>0. /\ \A n \in Nodes : /\ record[n].stamp \in Int /\ record[n].stamp <= counter
                          /\ ContentOf[n] \in Contents
      /\ "content" \in Kinds /\ "visibility" \in Kinds
  BY StampTypes, Tree DEF TypeInv, Kinds
<1>1. \A c \in Contents, kind \in Kinds, n \in Nodes :
         NewerThan(c, kind, record[n].stamp) => NewerThan(c, kind, record[n].stamp)'
  <2> SUFFICES ASSUME NEW c \in Contents, NEW kind \in Kinds, NEW n \in Nodes,
                      NEW t \in Int, t = record[n].stamp, NewerThan(c, kind, t)
               PROVE  NewerThan(c, kind, record[n].stamp)'
    BY <1>0
  <2>1. NewerThan(c, kind, t)'
    BY <1>0 DEF StampsKept
  <2>2. t = record'[n].stamp
    OBVIOUS
  <2> QED
    BY <2>1, <2>2 DEF NewerThan
<1>2. Flux \subseteq Flux' /\ (scan.pc = "body" => scan'.pc = "body" /\ scan' = scan)
  BY DEF Flux, Within
<1>3. DataInv'
  <2> SUFFICES ASSUME NEW n \in Nodes
               PROVE  \/ (scan'.pc = "body" /\ n = scan'.next)
                      \/ record'[n].cache[n].data = data'[ContentOf[n]]
                      \/ NewerThan(ContentOf[n], "content", record[n].stamp)'
    BY DEF DataInv
  <2>1. data'[ContentOf[n]] = data[ContentOf[n]]
        \/ NewerThan(ContentOf[n], "content", record[n].stamp)'
    <3>1. (\A t : NewerThan(ContentOf[n], "content", t)') =>
             NewerThan(ContentOf[n], "content", record[n].stamp)'
      BY DEF NewerThan
    <3> QED
      BY <1>0, <3>1 DEF DataKept
  <2> QED
    BY <1>0, <1>1, <1>2, <2>1 DEF DataInv
<1>4. VisibilityInv'
  <2> SUFFICES ASSUME NEW a \in Nodes, NEW n \in Nodes, n \in Below(a), a \notin Flux'
               PROVE  \/ record'[a].cache[n].hidden = hidden'[ContentOf[n]]
                      \/ NewerThan(ContentOf[n], "visibility", record[a].stamp)'
    BY DEF VisibilityInv, Below, Within
  <2>1. hidden'[ContentOf[n]] = hidden[ContentOf[n]]
        \/ NewerThan(ContentOf[n], "visibility", record[a].stamp)'
    <3>1. (\A t : NewerThan(ContentOf[n], "visibility", t)') =>
             NewerThan(ContentOf[n], "visibility", record[a].stamp)'
      BY DEF NewerThan
    <3> QED
      BY <1>0, <3>1 DEF HiddenKept
  <2> QED
    BY <1>0, <1>1, <1>2, <2>1 DEF VisibilityInv
<1>5. NestedInv'
  BY <1>2 DEF NestedInv, Unchanged, Below, Within
<1>6. FluxInv'
  <2>1. CASE scan' = scan
    <3>1. Flux' = Flux /\ Drawn' = Drawn /\ Complete' = Complete /\ Flux \subseteq Nodes
          /\ TopDrawn' = TopDrawn
      BY <2>1 DEF Flux, Drawn, Complete, TopDrawn, Within
    <3>2. scan'.pc = "start" /\ scan'.next = scan'.at =>
             stamp'[ContentOf[scan'.at]].content > record'[scan'.at].stamp
      <4> SUFFICES ASSUME scan.pc = "start", scan.next = scan.at
                   PROVE  stamp'[ContentOf[scan.at]].content > record[scan.at].stamp
        BY <2>1
      <4>1. scan.at \in Nodes /\ stamp[ContentOf[scan.at]].content > record[scan.at].stamp
        BY DEF TypeInv, ScanPlace, FluxInv
      <4>2. StampOf(ContentOf[scan.at], "content") <= StampOf(ContentOf[scan.at], "content")'
        BY <1>0, <4>1 DEF StampsKept
      <4>3. stamp[ContentOf[scan.at]].content <= stamp'[ContentOf[scan.at]].content
        BY <2>1, <4>2 DEF StampOf
      <4>4. stamp[ContentOf[scan.at]].content \in Nat /\ stamp'[ContentOf[scan.at]].content \in Nat
        <5>1. StampOf(ContentOf[scan.at], "content") \in Nat
          BY <1>0, <4>1, StampTypes DEF TypeInv
        <5>2. stamp'[ContentOf[scan.at]].content \in 1..counter' /\ counter' \in Nat
          BY <1>0, <4>1 DEF TypeInv, TypeOK
        <5> QED
          BY <5>1, <5>2 DEF StampOf
      <4> QED
        BY <1>0, <4>1, <4>3, <4>4
    <3>3. ASSUME NEW n \in Complete', n # scan'.at
          PROVE  \/ record'[n].cache[n].hidden = hidden'[ContentOf[n]]
                 \/ NewerThan(ContentOf[n], "visibility", record[n].stamp)'
      <4>1. n \in Complete /\ n \in Nodes /\ n # scan.at
        BY <2>1, <3>1, <3>3 DEF Complete
      <4>2. (\A t : NewerThan(ContentOf[n], "visibility", t)') =>
               NewerThan(ContentOf[n], "visibility", record[n].stamp)'
        BY DEF NewerThan
      <4> QED
        BY <1>0, <1>1, <4>1, <4>2 DEF HiddenKept, FluxInv
    <3>4. /\ TopDrawn' => \A a \in Nodes :
               scan'.at \in Below(a) => record'[a].stamp < record'[scan'.at].stamp
          /\ \A n \in Drawn' : record'[n].cache[n].id = record'[n].id
          /\ \A a \in Drawn', n \in Flux' :
               (a < n /\ (n < scan'.next \/ (n = scan'.next /\ scan'.pc = "body"))) =>
                 record'[a].stamp <= record'[n].stamp
      BY <2>1, <3>1 DEF FluxInv
    <3> QED
      BY <3>2, <3>3, <3>4 DEF FluxInv, Below, Within
  <2>2. CASE scan' # scan
    <3>1. ~TopDrawn'
      <4>1. scan'.pc = "start" => scan'.next = scan'.at /\ scan'.at \in Nodes
        BY <2>2 DEF TypeInv, ScanPlace
      <4> QED
        BY <2>2, <4>1, Tree DEF TopDrawn
    <3>2. Drawn' = {} /\ Complete' = {}
      <4>1. \A n \in Flux' : /\ scan'.pc = "start" /\ scan'.next = scan'.at
                             /\ scan'.at \in Nat /\ n \in Nodes /\ scan'.at <= n
        <5>1. scan'.pc = "start" => scan'.next = scan'.at /\ scan'.at \in Nodes
          BY <2>2 DEF TypeInv, ScanPlace
        <5> QED
          BY <2>2, <5>1, Tree DEF Flux, Within
      <4>2. \A n \in Flux' : ~(n < scan'.next) /\ ~(LastIn[n] < scan'.next)
        BY <4>1, Tree
      <4> QED
        BY <4>2 DEF Drawn, Complete
    <3> QED
      BY <2>2, <3>1, <3>2 DEF FluxInv
  <2> QED
    BY <2>1, <2>2
<1> QED
  BY <1>3, <1>4, <1>5, <1>6

LEMMA StampsStand ==
  ASSUME TypeInv, UNCHANGED <<counter, stamp, writer, overtaken>>
  PROVE  /\ StampsKept /\ (StoreInv => StoreInv')
         /\ \A c, kind, t : /\ NewerThan(c, kind, t)' = NewerThan(c, kind, t)
                            /\ Behind(c, kind, t)' = Behind(c, kind, t)
                            /\ Passed(c, kind, t)' = Passed(c, kind, t)
         /\ \A c, kind : Changing(c, kind)' = Changing(c, kind)
<1>1. \A c, kind : Changing(c, kind)' = Changing(c, kind)
  BY DEF Changing
<1>2. \A c, kind, t : /\ NewerThan(c, kind, t)' = NewerThan(c, kind, t)
                      /\ Behind(c, kind, t)' = Behind(c, kind, t)
                      /\ Passed(c, kind, t)' = Passed(c, kind, t)
  BY <1>1 DEF NewerThan, Behind, Passed, StampOf, Overtaken
<1>3. \A c, kind : StampOf(c, kind)' = StampOf(c, kind)
  BY DEF StampOf
<1>4. StampsKept
  BY <1>1, <1>2, <1>3, StampTypes DEF StampsKept, TypeInv
<1>5. StoreInv => StoreInv'
  BY <1>1, <1>3 DEF StoreInv
<1> QED
  BY <1>1, <1>2, <1>4, <1>5

\* A newer stamp is newer than an older record, too.
LEMMA NewerThanOlder ==
  ASSUME TypeInv, NEW c \in Contents, NEW kind \in Kinds, NEW t \in Int, NEW r \in Int, r <= t,
         NewerThan(c, kind, t)
  PROVE  NewerThan(c, kind, r)
BY StampTypes DEF NewerThan, TypeInv, Changing

LEMMA RenderStartRecords ==
  ASSUME TypeInv, RecordInv, RenderStart
  PROVE  /\ RecordInv' /\ StampsKept /\ HiddenKept /\ DataKept
         /\ Flux' = Flux /\ TopDrawn'
         /\ record'[scan.at].id = record[scan.at].id
         /\ \A n \in Nodes : /\ n \notin Flux => record'[n] = record[n]
                             /\ record'[n].cache = record[n].cache
                             /\ record[n].stamp <= record'[n].stamp
<1> USE DEF RecordInv
<1> DEFINE m == scan.next
<1>1. /\ TypeInv' /\ scan.pc = "start" /\ scan.at \in Nodes /\ m \in Flux
      /\ scan'.pc = "body" /\ scan'.at = scan.at /\ scan'.next = scan.next
      /\ \A n \in Nodes : /\ n # m => record'[n] = record[n]
                          /\ record'[n].cache = record[n].cache
      /\ record'[m].stamp = counter
      /\ m = scan.at => record'[scan.at].id = record[scan.at].id
  BY RenderStartTypes
<1>2. /\ UNCHANGED <<counter, stamp, writer, overtaken>> /\ data' = data /\ hidden' = hidden
  BY DEF RenderStart
<1>3. /\ counter \in Nat
      /\ \A n \in Nodes : /\ record[n].stamp \in Int /\ record[n].stamp <= counter
                          /\ ContentOf[n] \in Contents
                          /\ stamp[ContentOf[n]].content \in Nat
                          /\ stamp[ContentOf[n]].content <= counter
  <2>1. \A n \in Nodes : StampOf(ContentOf[n], "content") = stamp[ContentOf[n]].content
    BY DEF StampOf
  <2> QED
    BY <2>1, StampTypes, Tree DEF TypeInv, Kinds
<1>4. /\ StampsKept /\ StoreInv'
      /\ \A c, kind, t : NewerThan(c, kind, t)' = NewerThan(c, kind, t)
  BY <1>2, StampsStand
<1>5. DataKept /\ HiddenKept
  BY <1>2 DEF DataKept, HiddenKept
<1>6. /\ Flux' = Flux /\ Drawn' = Drawn /\ Complete' = Complete /\ m \in Nodes /\ TopDrawn'
      /\ Flux \subseteq Nodes
  BY <1>1 DEF Flux, Drawn, Complete, TopDrawn, Within
<1>7. \A n \in Nodes : record[n].stamp <= record'[n].stamp
  BY <1>1, <1>3
<1>8. \A n \in Nodes : n \notin Flux => record'[n] = record[n]
  BY <1>1
\* The records around the subtree are older than its content.
<1>9. \A a \in Nodes : scan.at \in Below(a) =>
         /\ a \notin Flux /\ record[a].stamp <= record[scan.at].stamp
         /\ m = scan.at => record[a].stamp < counter
         /\ m # scan.at => record[a].stamp < record[scan.at].stamp
  <2> SUFFICES ASSUME NEW a \in Nodes, scan.at \in Below(a)
               PROVE  /\ a \notin Flux /\ record[a].stamp <= record[scan.at].stamp
                      /\ m = scan.at => record[a].stamp < counter
                      /\ m # scan.at => record[a].stamp < record[scan.at].stamp
    OBVIOUS
  <2>1. a \notin Flux
    BY <1>1, Tree DEF Flux, Within
  <2>2. record[a].stamp <= record[scan.at].stamp
    BY <1>1, <2>1 DEF NestedInv
  <2>3. m = scan.at => record[a].stamp < counter
    BY <1>1, <1>3, <2>2 DEF FluxInv
  <2>4. m # scan.at => record[a].stamp < record[scan.at].stamp
    <3>1. m # scan.at => TopDrawn
      BY SMTT(30), <1>1, Tree DEF TopDrawn, Flux, Within
    <3> QED
      BY <3>1 DEF FluxInv
  <2> QED
    BY <2>1, <2>2, <2>3, <2>4
<1>10. DataInv'
  <2> SUFFICES ASSUME NEW n \in Nodes, n # m
               PROVE  \/ record'[n].cache[n].data = data'[ContentOf[n]]
                      \/ NewerThan(ContentOf[n], "content", record[n].stamp)'
    BY <1>1 DEF DataInv
  <2>1. \/ record[n].cache[n].data = data[ContentOf[n]]
        \/ NewerThan(ContentOf[n], "content", record[n].stamp)
    BY <1>1 DEF DataInv
  <2>2. PICK t : t = record[n].stamp
    OBVIOUS
  <2>3. record'[n] = record[n]
    BY <1>1
  <2>4. NewerThan(ContentOf[n], "content", t)' = NewerThan(ContentOf[n], "content", record[n].stamp)'
    BY <2>2, <2>3 DEF NewerThan
  <2> QED
    BY <1>2, <1>4, <2>1, <2>2, <2>3, <2>4
<1>11. VisibilityInv'
  <2> SUFFICES ASSUME NEW a \in Nodes, NEW n \in Nodes, n \in Below(a), a \notin Flux
               PROVE  \/ record'[a].cache[n].hidden = hidden'[ContentOf[n]]
                      \/ NewerThan(ContentOf[n], "visibility", record[a].stamp)'
    BY <1>6 DEF VisibilityInv, Below, Within
  <2>1. \/ record[a].cache[n].hidden = hidden[ContentOf[n]]
        \/ NewerThan(ContentOf[n], "visibility", record[a].stamp)
    BY DEF VisibilityInv
  <2>2. PICK t : t = record[a].stamp
    OBVIOUS
  <2>3. record'[a] = record[a]
    BY <1>8
  <2>4. NewerThan(ContentOf[n], "visibility", t)' = NewerThan(ContentOf[n], "visibility", record[a].stamp)'
    BY <2>2, <2>3 DEF NewerThan
  <2> QED
    BY <1>2, <1>4, <2>1, <2>2, <2>3, <2>4
<1>12. NestedInv'
  <2> SUFFICES ASSUME NEW a \in Nodes, NEW n \in Nodes, n \in Below(a), a \notin Flux
               PROVE  /\ record'[a].stamp <= record'[n].stamp
                      /\ Unchanged(a, n)' => record'[a].cache[n].id = record'[n].id
                      /\ Unchanged(a, n)' /\ record'[n].stamp <= record'[a].stamp =>
                           record'[a].cache[n].data = record'[n].cache[n].data
    BY <1>6 DEF NestedInv, Below, Within
  <2>1. /\ record[a].stamp <= record[n].stamp
        /\ Unchanged(a, n) => record[a].cache[n].id = record[n].id
        /\ Unchanged(a, n) /\ record[n].stamp <= record[a].stamp =>
             record[a].cache[n].data = record[n].cache[n].data
    BY DEF NestedInv
  <2>2. record'[a] = record[a] /\ record[a].stamp <= record'[n].stamp
    BY <1>3, <1>7, <1>8, <2>1, RenderStartTypes DEF TypeInv
  <2>3. Unchanged(a, n)' => Unchanged(a, n)
    <3> SUFFICES ASSUME Unchanged(a, n)', NEW b \in Below(a), n \in Below(b)
                 PROVE  record[b].stamp <= record[a].stamp
      BY DEF Unchanged
    <3>1. record'[b].stamp <= record'[a].stamp
      BY DEF Unchanged, Below, Within
    <3>2. b \in Nodes
      BY DEF Below
    <3> QED
      BY <1>1, <1>3, <2>2, <3>1, <3>2
  <2>4. n = m => scan.at \in Below(a)
    BY <1>1, FluxIs
  <2>5. CASE n = m /\ n = scan.at
    BY <1>1, <1>3, <1>9, <2>1, <2>2, <2>3, <2>4, <2>5
  <2>6. CASE n = m /\ n # scan.at
    <3>1. n \in Below(scan.at) /\ scan.at \in Below(a) /\ record[a].stamp < record[scan.at].stamp
      BY <1>1, <1>9, <2>4, <2>6, FluxIs
    <3>2. ~Unchanged(a, n)
      BY <1>1, <1>3, <3>1 DEF Unchanged
    <3> QED
      BY <2>2, <2>3, <3>2
  <2>7. CASE n # m
    BY <1>1, <2>1, <2>2, <2>3, <2>7
  <2> QED
    BY <2>5, <2>6, <2>7
<1>13. FluxInv'
  <2>1. \A a \in Nodes : scan.at \in Below(a) => record'[a].stamp < record'[scan.at].stamp
    BY <1>1, <1>8, <1>9
  <2>2. \A n \in Drawn : n # m /\ record'[n].cache[n].id = record'[n].id
    BY <1>1, <1>6, Tree DEF FluxInv, Drawn
  <2>3. ASSUME NEW a \in Drawn, NEW n \in Flux, a < n, n <= m
        PROVE  record'[a].stamp <= record'[n].stamp
    <3>1. a # m /\ a \in Nodes /\ n \in Nodes /\ record'[a] = record[a]
      BY <1>1, <1>6, <2>2 DEF Drawn
    <3>2. n = m => record'[n].stamp = counter
      BY <1>1
    <3>3. n # m => n < m
      <4>1. n \in Nat /\ m \in Nat /\ n <= m
        BY <1>6, <2>3, <3>1, Tree
      <4> QED
        BY <4>1
    <3> QED
      BY <1>1, <1>3, <2>3, <3>1, <3>2, <3>3 DEF FluxInv
  <2>4. ASSUME NEW n \in Complete, n # scan.at
        PROVE  \/ record'[n].cache[n].hidden = hidden'[ContentOf[n]]
               \/ NewerThan(ContentOf[n], "visibility", record[n].stamp)'
    <3>1. n \in Nodes /\ n # m
      BY <1>6, Tree DEF Complete
    <3>2. record'[n] = record[n]
      BY <1>1, <3>1
    <3>3. PICK t : t = record[n].stamp
      OBVIOUS
    <3>4. NewerThan(ContentOf[n], "visibility", t)' = NewerThan(ContentOf[n], "visibility", record[n].stamp)'
      BY <3>2, <3>3 DEF NewerThan
    <3>5. \/ record[n].cache[n].hidden = hidden[ContentOf[n]]
          \/ NewerThan(ContentOf[n], "visibility", record[n].stamp)
      BY <2>4 DEF FluxInv
    <3> QED
      BY <1>2, <1>4, <3>2, <3>3, <3>4, <3>5
  <2>5. \A a, n : (n < m \/ n = m) /\ n \in Nodes => n <= m
    BY <1>6, Tree
  <2> QED
    BY <1>1, <1>6, <2>1, <2>2, <2>3, <2>4, <2>5 DEF FluxInv, Below, Within
<1> QED
  BY <1>1, <1>4, <1>5, <1>6, <1>7, <1>8, <1>10, <1>11, <1>12, <1>13

LEMMA RenderBodyRecords ==
  ASSUME TypeInv, RecordInv, RenderBody
  PROVE  /\ RecordInv' /\ StampsKept /\ HiddenKept /\ DataKept
         /\ Flux' = Flux \/ Flux' = {}
         /\ \A n \in Nodes : /\ n \notin Flux => record'[n] = record[n]
                             /\ record'[n].id = record[n].id
                             /\ record'[n].stamp = record[n].stamp
<1> USE DEF RecordInv
<1> DEFINE m == scan.next
           last == m = LastIn[scan.at]
<1>1. /\ TypeInv' /\ scan.pc = "body" /\ scan.at \in Nodes /\ m \in Flux
      /\ scan'.at = scan.at /\ scan'.next = scan.next + 1
      /\ scan'.pc = IF last THEN "emit" ELSE "start"
  BY RenderBodyTypes
<1>2. /\ UNCHANGED <<counter, stamp, writer, overtaken>> /\ data' = data /\ hidden' = hidden
  BY DEF RenderBody
<1>3. /\ \A n \in Nodes : /\ record'[n].id = record[n].id
                          /\ record'[n].stamp = record[n].stamp
                          /\ n \notin Flux => record'[n] = record[n]
      /\ \A a \in Flux, n \in Nodes :
           Within(n, a) /\ (last \/ n = a) => record'[a].cache[n] = Own(n)
  <2>1. Flux \subseteq Nodes /\ \A a \in Flux : Within(a, a)
    BY Tree DEF Flux, Within
  <2> QED
    BY <2>1, Draws
<1>4. \A n : Own(n).id = OwnId(n) /\ Own(n).data = OwnData(n) /\ Own(n).hidden = OwnVisibility(n)
  BY DEF Own
<1>5. /\ \A n \in Nodes : record[n].stamp \in Int /\ ContentOf[n] \in Contents /\ n \in Nat
      /\ "visibility" \in Kinds /\ m \in Nodes
  BY <1>1, StampTypes, Tree DEF TypeInv, Kinds, Flux
<1>6. /\ StampsKept /\ StoreInv'
      /\ \A c, kind, t : NewerThan(c, kind, t)' = NewerThan(c, kind, t)
  BY <1>2, StampsStand
<1>7. DataKept /\ HiddenKept
  BY <1>2 DEF DataKept, HiddenKept
<1>8. /\ Flux' = IF last THEN {} ELSE Flux
      /\ \A n \in Nodes : n \in Flux <=> scan.at <= n /\ n <= LastIn[scan.at]
      /\ Flux \subseteq Nodes /\ TopDrawn
  BY <1>1 DEF Flux, Within, TopDrawn
<1>9. \A c, kind, n : n \in Nodes =>
         NewerThan(c, kind, record[n].stamp)' = NewerThan(c, kind, record[n].stamp)
  <2> SUFFICES ASSUME NEW c, NEW kind, NEW n \in Nodes
               PROVE  NewerThan(c, kind, record[n].stamp)' = NewerThan(c, kind, record[n].stamp)
    OBVIOUS
  <2>1. PICK t : t = record[n].stamp
    OBVIOUS
  <2>2. NewerThan(c, kind, t)' = NewerThan(c, kind, record[n].stamp)'
    BY <1>3, <2>1 DEF NewerThan
  <2> QED
    BY <1>6, <2>1, <2>2
\* What has been drawn, or is just being drawn
<1>10. ASSUME NEW n \in Flux, n <= m
       PROVE  /\ OwnId(n) = record[n].id
              /\ \A a \in Flux : a < n => record[a].stamp <= record[n].stamp
  <2>1. n \in Nodes /\ (n < m \/ n = m)
    BY <1>5, <1>8, <1>10
  <2>2. n # m => n \in Drawn
    BY <2>1 DEF Drawn
  <2>3. OwnId(n) = record[n].id
    BY <2>2 DEF OwnId, FluxInv
  <2>4. ASSUME NEW a \in Flux, a < n PROVE record[a].stamp <= record[n].stamp
    <3>1. a \in Drawn
      BY <1>5, <1>8, <2>1, <2>4 DEF Drawn
    <3> QED
      BY <1>1, <2>1, <2>4, <3>1 DEF FluxInv
  <2> QED
    BY <2>3, <2>4
<1>11. ASSUME NEW n \in Flux, n # scan.at, LastIn[n] <= m
       PROVE  \/ OwnVisibility(n) = hidden[ContentOf[n]]
              \/ NewerThan(ContentOf[n], "visibility", record[n].stamp)
  <2>1. CASE LastIn[n] = m
    BY <1>11, <2>1, FluxIs DEF OwnVisibility
  <2>2. CASE LastIn[n] # m
    <3>1. n \in Complete
      BY <1>5, <1>8, <1>11, <2>2, Tree DEF Complete
    <3> QED
      BY <1>11, <2>2, <3>1 DEF OwnVisibility, FluxInv
  <2> QED
    BY <2>1, <2>2
\* The records around the subtree
<1>12. ASSUME NEW a \in Nodes, a \notin Flux, NEW n \in Flux, n \in Below(a), Unchanged(a, n)
       PROVE  record[a].stamp < record[n].stamp
  <2>1. scan.at \in Below(a) /\ record[a].stamp < record[scan.at].stamp
    BY <1>8, <1>12, FluxIs DEF FluxInv
  <2>2. n = scan.at
    BY <1>1, <1>5, <1>12, <2>1, FluxIs DEF Unchanged
  <2> QED
    BY <2>1, <2>2
<1>13. DataInv'
  <2> SUFFICES ASSUME NEW n \in Nodes
               PROVE  \/ record'[n].cache[n].data = data'[ContentOf[n]]
                      \/ NewerThan(ContentOf[n], "content", record[n].stamp)'
    BY DEF DataInv
  <2>1. n = m => record'[n].cache[n].data = data[ContentOf[n]]
    BY <1>1, <1>3, <1>4, Tree DEF OwnData, Within
  <2>2. n # m => record'[n].cache[n].data = record[n].cache[n].data
    <3>1. n \in Flux => record'[n].cache[n] = Own(n)
      BY <1>3, Tree DEF Within
    <3> QED
      BY <1>3, <1>4, <3>1 DEF OwnData
  <2> QED
    BY <1>2, <1>9, <2>1, <2>2 DEF DataInv
<1>14. VisibilityInv'
  <2> SUFFICES ASSUME NEW a \in Nodes, NEW n \in Nodes, n \in Below(a), a \notin Flux'
               PROVE  \/ record'[a].cache[n].hidden = hidden'[ContentOf[n]]
                      \/ NewerThan(ContentOf[n], "visibility", record[a].stamp)'
    BY DEF VisibilityInv, Below, Within
  <2>1. CASE a \notin Flux
    BY <1>2, <1>3, <1>9, <2>1 DEF VisibilityInv
  <2>2. CASE a \in Flux
    <3>1. last
      BY <1>8, <2>2
    <3>2. /\ n \in Flux /\ a < n /\ n <= m /\ n # scan.at /\ LastIn[n] <= m /\ Within(n, a)
      BY <1>1, <1>8, <2>2, <3>1, FluxIs, Tree DEF Below, Within
    <3>3. record'[a].cache[n].hidden = OwnVisibility(n)
      BY <1>3, <1>4, <2>2, <3>1, <3>2
    <3>4. NewerThan(ContentOf[n], "visibility", record[n].stamp) =>
             NewerThan(ContentOf[n], "visibility", record[a].stamp)
      BY <1>5, <1>10, <2>2, <3>2, NewerThanOlder
    <3> QED
      BY <1>2, <1>9, <1>11, <3>2, <3>3, <3>4
  <2> QED
    BY <2>1, <2>2
<1>15. NestedInv'
  <2> SUFFICES ASSUME NEW a \in Nodes, NEW n \in Nodes, n \in Below(a), a \notin Flux'
               PROVE  /\ record'[a].stamp <= record'[n].stamp
                      /\ Unchanged(a, n)' => record'[a].cache[n].id = record'[n].id
                      /\ Unchanged(a, n)' /\ record'[n].stamp <= record'[a].stamp =>
                           record'[a].cache[n].data = record'[n].cache[n].data
    BY DEF NestedInv, Below, Within
  <2>1. Unchanged(a, n)' = Unchanged(a, n)
    BY <1>3 DEF Unchanged, Below, Within
  <2>2. n \in Flux => record'[n].cache[n].data = OwnData(n)
    BY <1>3, <1>4, Tree DEF Within
  <2>3. CASE a \notin Flux
    <3>1. /\ record[a].stamp <= record[n].stamp
          /\ Unchanged(a, n) => record[a].cache[n].id = record[n].id
          /\ Unchanged(a, n) /\ record[n].stamp <= record[a].stamp =>
               record[a].cache[n].data = record[n].cache[n].data
      BY <2>3 DEF NestedInv
    <3>2. CASE n \notin Flux
      BY <1>3, <2>1, <2>3, <3>1, <3>2
    <3>3. CASE n \in Flux
      BY <1>3, <1>5, <1>12, <2>1, <2>3, <3>1, <3>3
    <3> QED
      BY <3>2, <3>3
  <2>4. CASE a \in Flux
    <3>1. last
      BY <1>8, <2>4
    <3>2. /\ n \in Flux /\ a < n /\ n <= m /\ Within(n, a)
      BY <1>1, <1>8, <2>4, <3>1, FluxIs, Tree DEF Below, Within
    <3>3. record'[a].cache[n].id = OwnId(n) /\ record'[a].cache[n].data = OwnData(n)
      BY <1>3, <1>4, <2>4, <3>1, <3>2
    <3> QED
      BY <1>3, <1>10, <2>2, <2>4, <3>2, <3>3
  <2> QED
    BY <2>3, <2>4
<1>16. FluxInv'
  <2>1. CASE last
    BY <1>1, <1>8, <2>1 DEF FluxInv, TopDrawn, Drawn, Complete
  <2>2. CASE ~last
    <3>1. m \in Nat /\ scan.at \in Nat /\ scan.at <= m
      BY <1>1, <1>5, <1>8
    <3>2. Flux' = Flux /\ \A n \in Flux : n < m + 1 <=> n <= m
      BY <1>5, <1>8, <2>2, <3>1
    <3>3. \A n \in Drawn' : n \in Flux /\ n <= m
      BY <1>1, <3>2 DEF Drawn
    <3>4. \A n \in Complete' : n \in Flux /\ n \in Nodes /\ LastIn[n] <= m
      <4>1. \A n \in Flux : n \in Nodes /\ (LastIn[n] < m + 1 <=> LastIn[n] <= m)
        BY <1>8, <3>1, Tree
      <4> QED
        BY <1>1, <3>2, <4>1 DEF Complete
    <3>5. ~(scan'.pc = "start" /\ scan'.next = scan'.at)
      BY <1>1, <3>1
    <3>6. \A a \in Nodes : scan.at \in Below(a) => record'[a].stamp < record'[scan.at].stamp
      BY <1>1, <1>3, <1>8 DEF FluxInv
    <3>7. \A n \in Drawn' : record'[n].cache[n].id = record'[n].id
      BY <1>3, <1>4, <1>8, <1>10, <3>3, Tree DEF Within
    <3>8. ASSUME NEW a \in Drawn', NEW n \in Flux', a < n, n < scan'.next
          PROVE  record'[a].stamp <= record'[n].stamp
      BY <1>1, <1>3, <1>8, <1>10, <3>2, <3>3, <3>8
    <3>9. ASSUME NEW n \in Complete', n # scan.at
          PROVE  \/ record'[n].cache[n].hidden = hidden'[ContentOf[n]]
                 \/ NewerThan(ContentOf[n], "visibility", record[n].stamp)'
      <4>1. record'[n].cache[n].hidden = OwnVisibility(n)
        BY <1>3, <1>4, <3>4, Tree DEF Within
      <4> QED
        BY <1>2, <1>9, <1>11, <3>4, <3>9, <4>1
    <3> QED
      BY <1>1, <2>2, <3>5, <3>6, <3>7, <3>8, <3>9 DEF FluxInv, Below, Within
  <2> QED
    BY <2>1, <2>2
<1> QED
  BY <1>3, <1>6, <1>7, <1>8, <1>13, <1>14, <1>15, <1>16

-----------------------------------------------------------------------------
(* What a refresh has seen stays seen.                                     *)

RecordsKept(t) == \A n \in Nodes :
  /\ record'[n].id = record[n].id \/ AroundBehind(n, t)'
  /\ \/ record'[n].cache[n].data = record[n].cache[n].data
     \/ Behind(ContentOf[n], "content", t)' \/ AroundBehind(n, t)'

\* What a step of the server leaves in order for all who have seen t
ServerKeeps ==
  /\ StampsKept /\ HiddenKept
  /\ \A n \in Nodes : record[n].stamp <= record'[n].stamp
  /\ \A t \in Int : t <= counter /\ Seen(t) => RecordsKept(t) /\ FluxBehind(t)'

LEMMA Keeps ==
  ASSUME TypeInv, TypeInv', StampsKept, HiddenKept,
         \A n \in Nodes : /\ n \notin Flux => record'[n] = record[n]
                          /\ record[n].stamp <= record'[n].stamp,
         scan.pc \in {"start", "body"} => record'[scan.at].id = record[scan.at].id,
         \/ Flux' = {}
         \/ Flux' = Flux /\ scan'.at = scan.at
         \/ /\ scan'.at \in Nodes
            /\ stamp[ContentOf[scan'.at]].content > record[scan'.at].stamp
  PROVE  ServerKeeps
<1> SUFFICES ASSUME NEW t \in Int, t <= counter, Seen(t)
             PROVE  RecordsKept(t) /\ FluxBehind(t)'
  BY DEF ServerKeeps
<1>0. /\ \A n \in Nodes : ContentOf[n] \in Contents /\ n <= NrNodes /\ record[n].stamp \in Int
      /\ "content" \in Kinds
      /\ \A n \in Nodes : stamp[ContentOf[n]].content \in Nat
  <2>1. \A n \in Nodes : StampOf(ContentOf[n], "content") = stamp[ContentOf[n]].content
    BY DEF StampOf
  <2> QED
    BY <2>1, StampTypes, Tree DEF TypeInv, Kinds
<1>1. \A n \in Nodes : CheckedAt(n, t)
  BY <1>0 DEF Seen, Checked
<1>2. \A n \in Nodes : Behind(ContentOf[n], "content", t) => Behind(ContentOf[n], "content", t)'
  BY <1>0, <1>1 DEF StampsKept, CheckedAt
<1>3. ASSUME NEW n \in Nodes
      PROVE  /\ record'[n].id = record[n].id \/ AroundBehind(n, t)'
             /\ \/ record'[n].cache[n].data = record[n].cache[n].data
                \/ Behind(ContentOf[n], "content", t)' \/ AroundBehind(n, t)'
  <2>1. CASE n \notin Flux
    BY <2>1
  <2>2. CASE n \in Flux
    <3>1. scan.at \in Nodes /\ (n = scan.at \/ n \in Below(scan.at))
          /\ scan.pc \in {"start", "body"}
      BY <2>2, FluxIs DEF Flux
    <3>2. PICK a \in Nodes : a = scan.at
      BY <3>1
    <3>3. Behind(ContentOf[a], "content", t)'
      BY <1>2, <2>2, <3>2 DEF Seen, FluxBehind
    <3>4. n \in Below(a) => AroundBehind(n, t)'
      BY <3>3 DEF AroundBehind, Below, Within
    <3> QED
      BY <3>1, <3>2, <3>3, <3>4
  <2> QED
    BY <2>1, <2>2
<1>4. FluxBehind(t)'
  <2>1. CASE Flux' = {}
    BY <2>1 DEF FluxBehind
  <2>2. CASE Flux' # {}
    <3>1. /\ scan'.at \in Nodes
          /\ Behind(ContentOf[scan'.at], "content", t)
             \/ stamp[ContentOf[scan'.at]].content > record[scan'.at].stamp
      BY <2>2, FluxIs DEF Seen, FluxBehind
    <3>2. PICK a \in Nodes : a = scan'.at
      BY <3>1
    <3>3. Behind(ContentOf[a], "content", t)
      BY <1>0, <1>1, <3>1, <3>2 DEF CheckedAt
    <3>4. Behind(ContentOf[a], "content", t)'
      BY <1>2, <3>3
    <3> QED
      BY <3>2, <3>4 DEF FluxBehind, Behind, StampOf, Overtaken
  <2> QED
    BY <2>1, <2>2
<1> QED
  BY <1>3, <1>4 DEF RecordsKept

\* The request of the walk
LEMMA WalkTypes ==
  ASSUME TypeInv, scan.pc # "none"
  PROVE  /\ Scanned \in Polls /\ Scanned.stamp \in Nat /\ Scanned.stamp <= counter
         /\ Scanned.old \in Int /\ Scanned.buffer \in Seq(Statements)
         /\ Scanned.pc = "scanning" /\ Scanned.context = context
<1>1. PICK k \in Clients, i \in 1..MaxPolls : WalksFor(k, i)
  BY Walks DEF TypeInv
<1>2. Scanned = poll[k][i] /\ poll[k][i].pc = "scanning"
  BY <1>1 DEF WalksFor
<1>3. poll[k][i] \in Polls
  BY Types DEF TypeInv
<1>4. poll[k][i].context = context /\ poll[k][i].stamp <= counter
  BY <1>2 DEF TypeInv, ContextInv
<1> QED
  BY <1>2, <1>3, <1>4 DEF Polls

LEMMA ServerSteps ==
  ASSUME TypeInv, TypeInv', RecordInv, [Next]_vars, ~Restart
  PROVE  ServerKeeps /\ RecordInv'
<1>0. \A n \in Nodes : record[n].stamp <= record[n].stamp
  BY StampTypes DEF TypeInv
<1>1. CASE Change \/ \E w \in Writers : Stamping(w)
  <2>1. StampsKept /\ StoreInv' /\ DataKept /\ HiddenKept /\ record' = record /\ scan' = scan
    BY <1>1, Writes DEF RecordInv
  <2>2. Flux' = Flux
    BY <2>1 DEF Flux, Within
  <2> QED
    BY <1>0, <2>1, <2>2, RecordsStand, Keeps
<1>2. ASSUME UNCHANGED <<counter, stamp, writer, overtaken, data, hidden, record>>,
             \/ scan' = scan
             \/ scan.pc \notin {"start", "body"} /\ scan'.pc \notin {"start", "body"}
      PROVE  ServerKeeps /\ RecordInv'
  <2>1. StampsKept /\ StoreInv' /\ DataKept /\ HiddenKept
    BY <1>2, StampsStand DEF RecordInv, DataKept, HiddenKept
  <2>2. Flux' = {} \/ (Flux' = Flux /\ scan'.at = scan.at)
    BY <1>2 DEF Flux, Within
  <2> QED
    BY <1>0, <1>2, <2>1, <2>2, RecordsStand, Keeps
<1>3. CASE UNCHANGED vars
  BY <1>2, <1>3 DEF vars, serverVars
<1>4. CASE \E k \in Clients, i \in 1..MaxPolls : Asking(k, i) \/ Lose(k, i)
  <2>1. UNCHANGED <<counter, stamp, writer, overtaken, data, hidden, record>>
    BY <1>4 DEF Asking, Refresh, Timeout, Snapshot, BeginScan, Deliver, Lose, serverVars
  <2>2. scan' = scan \/ (scan.pc = "none" /\ scan'.pc = "check")
    <3>1. ASSUME NEW k \in Clients, NEW i \in 1..MaxPolls, BeginScan(k, i)
          PROVE  scan.pc = "none" /\ scan'.pc = "check"
      BY <3>1, BeginScanTypes
    <3>2. ASSUME NEW k \in Clients, NEW i \in 1..MaxPolls, Asking(k, i) \/ Lose(k, i),
                 ~BeginScan(k, i)
          PROVE  scan' = scan
      BY <3>2 DEF Asking, Refresh, Timeout, Snapshot, Deliver, Lose, serverVars
    <3> QED
      BY <1>4, <3>1, <3>2
  <2> QED
    BY <1>2, <2>1, <2>2
<1>5. CASE EndScan
  <2>1. /\ UNCHANGED <<counter, stamp, writer, overtaken, data, hidden, record>>
        /\ scan.pc = "end" /\ scan' = NoScan
    BY <1>5 DEF EndScan
  <2> QED
    BY <1>2, <2>1 DEF NoScan
<1>6. ASSUME NEW c \in Contents, NEW kind \in Kinds, PassBy(c, kind), scan.pc # "none",
             UNCHANGED <<counter, stamp, overtaken, data, hidden, record>>,
             scan.pc \notin {"start", "body"}, scan'.pc # "body",
             scan'.pc = "start" =>
               /\ scan'.at \in Nodes /\ scan'.next = scan'.at
               /\ stamp[ContentOf[scan'.at]].content > record[scan'.at].stamp
      PROVE  ServerKeeps /\ RecordInv'
  <2>1. StampsKept /\ StoreInv' /\ DataKept /\ HiddenKept
    BY <1>6, WalkTypes, Marks DEF RecordInv, DataKept, HiddenKept
  <2>2. scan'.pc # "start" => Flux' = {}
    BY <1>6 DEF Flux
  <2> QED
    BY <1>0, <1>6, <2>1, <2>2, RecordsStand, Keeps
<1>7. CASE Check
  <2>1. /\ scan.pc = "check" /\ scan.at \in Nodes /\ scan'.at = scan.at
        /\ scan'.pc = "emit" \/ (/\ scan'.pc = "start" /\ scan'.next = scan.at
                                 /\ record[scan.at].stamp < stamp[ContentOf[scan.at]].content)
    BY <1>7, CheckTypes
  <2>2. /\ PassBy(ContentOf[scan.at], "content") /\ ContentOf[scan.at] \in Contents
        /\ UNCHANGED <<counter, stamp, overtaken, data, hidden, record>>
        /\ "content" \in Kinds
    BY <1>7, <2>1, Tree DEF Check, Kinds
  <2>3. stamp[ContentOf[scan.at]].content \in Int /\ record[scan.at].stamp \in Int
    <3>1. StampOf(ContentOf[scan.at], "content") = stamp[ContentOf[scan.at]].content
      BY DEF StampOf
    <3> QED
      BY <2>1, <2>2, <3>1, StampTypes DEF TypeInv
  <2> QED
    BY <1>6, <2>1, <2>2, <2>3
<1>8. CASE Emit
  <2>1. PICK k \in Clients, i \in 1..MaxPolls : WalksFor(k, i)
    BY <1>8, Walks DEF TypeInv, Emit
  <2>2. scan.pc = "emit" /\ scan.at \in Nodes /\ scan'.pc \in {"end", "check"}
    BY <1>8, <2>1, EmitTypes
  <2>3. /\ PassBy(ContentOf[scan.at], "visibility") /\ ContentOf[scan.at] \in Contents
        /\ UNCHANGED <<counter, stamp, overtaken, data, hidden, record>>
        /\ "visibility" \in Kinds
    BY <1>8, <2>2, Tree DEF Emit, Kinds
  <2> QED
    BY <1>6, <2>2, <2>3
<1>9. CASE RenderStart
  <2>1. scan'.at = scan.at
    BY <1>9, RenderStartTypes
  <2> QED
    BY <1>9, <2>1, RenderStartRecords, Keeps
<1>10. CASE RenderBody
  <2>1. /\ RecordInv' /\ StampsKept /\ HiddenKept
        /\ Flux' = Flux \/ Flux' = {}
        /\ scan'.at = scan.at /\ scan.at \in Nodes
        /\ \A n \in Nodes : /\ n \notin Flux => record'[n] = record[n]
                            /\ record'[n].id = record[n].id
                            /\ record'[n].stamp = record[n].stamp
    BY <1>10, RenderBodyTypes, RenderBodyRecords
  <2>2. \A n \in Nodes : record[n].stamp <= record'[n].stamp
    BY <1>0, <2>1
  <2>3. record'[scan.at].id = record[scan.at].id
    BY <2>1
  <2> QED
    BY <2>1, <2>2, <2>3, Keeps
<1> QED
  BY <1>1, <1>3, <1>4, <1>5, <1>7, <1>8, <1>9, <1>10 DEF Next, Scan

LEMMA CheckedStays ==
  ASSUME TypeInv, TypeInv', ServerKeeps, NEW n \in Nodes, NEW t \in Int, t <= counter
  PROVE  /\ CheckedAt(n, t) => CheckedAt(n, t)'
         /\ Passed(ContentOf[n], "content", t) => Passed(ContentOf[n], "content", t)'
         /\ Passed(ContentOf[n], "visibility", t) => Passed(ContentOf[n], "visibility", t)'
<1> DEFINE c == ContentOf[n]
<1>1. /\ c \in Contents /\ "content" \in Kinds /\ "visibility" \in Kinds
      /\ record[n].stamp \in Int
  BY StampTypes, Tree DEF TypeInv, Kinds
<1>2. /\ Passed(c, "content", t) => Passed(c, "content", t)'
      /\ Passed(c, "visibility", t) => Passed(c, "visibility", t)'
  BY <1>1 DEF ServerKeeps, StampsKept
<1>3. stamp'[c].content \in Int /\ record'[n].stamp \in Int
  <2>1. stamp' \in [Contents -> [content : 1..counter', visibility : 1..counter']]
        /\ record' \in [Nodes -> [id : 0..(nextId' - 1), stamp : -1..counter',
                                  cache : [Nodes -> Divs]]]
        /\ counter' \in Nat
    BY DEF TypeInv, TypeOK
  <2>2. /\ stamp'[c] \in [content : 1..counter', visibility : 1..counter']
        /\ record'[n] \in [id : 0..(nextId' - 1), stamp : -1..counter', cache : [Nodes -> Divs]]
    BY <1>1, <2>1
  <2> QED
    BY <2>1, <2>2
<1>4. ASSUME CheckedAt(n, t)
      PROVE  stamp'[c].content <= record'[n].stamp \/ Behind(c, "content", t)'
  <2>1. /\ Passed(c, "content", t)
        /\ \/ StampOf(c, "content") <= record[n].stamp
           \/ Behind(c, "content", t)
    BY <1>4 DEF CheckedAt, StampOf
  <2>2. \/ StampOf(c, "content")' <= record[n].stamp
        \/ Behind(c, "content", t)'
    <3>1. \A kind \in Kinds : Passed(c, kind, t) =>
              /\ Behind(c, kind, t) => Behind(c, kind, t)'
              /\ \A r \in Int : StampOf(c, kind) <= r =>
                                  StampOf(c, kind)' <= r \/ Behind(c, kind, t)'
      BY <1>1 DEF ServerKeeps, StampsKept
    <3> QED
      BY <1>1, <2>1, <3>1
  <2>3. \/ stamp'[c].content <= record[n].stamp
        \/ Behind(c, "content", t)'
    BY <2>2 DEF StampOf
  <2>4. record[n].stamp <= record'[n].stamp
    BY DEF ServerKeeps
  <2> QED
    BY <1>1, <1>3, <2>3, <2>4
<1> QED
  BY <1>2, <1>4 DEF CheckedAt

\* What a stamp has seen, it has seen for good.
LEMMA SeenStays ==
  ASSUME TypeInv, TypeInv', ServerKeeps, NEW t \in Int, t <= counter, Seen(t)
  PROVE  Seen(t)'
<1>1. Checked(NrNodes, t)' /\ Looked(NrNodes, t)'
  BY CheckedStays DEF Seen, Checked, Looked
<1>2. FluxBehind(t)'
  BY DEF ServerKeeps
<1> QED
  BY <1>1, <1>2 DEF Seen

\* Only its own walk touches the request that is being answered.
LEMMA WalkGoesOn ==
  ASSUME TypeInv, [Next]_vars, ~Restart, NEW k \in Clients, NEW i \in 1..MaxPolls,
         WalksFor(k, i), scan.pc # "none"
  PROVE  \/ EndScan
         \/ Emit
         \/ scan'.of = scan.of /\ poll'[k][i] = poll[k][i] /\ (scan' = scan \/ Scan)
<1> USE DEF TypeInv
<1>1. poll[k][i].pc = "scanning" /\ scan.pc # "none"
  BY SMTT(30) DEF WalksFor
<1>2. CASE UNCHANGED vars \/ Change \/ \E w \in Writers : Stamping(w)
  BY <1>2 DEF vars, serverVars, clientVars, Change, Stamping, ChangeData, Toggle, TakeStamp,
              StoreStamp
<1>3. CASE Check \/ RenderStart \/ RenderBody
  <2>1. poll' = poll
    BY <1>3 DEF Check, RenderStart, RenderBody
  <2>2. scan'.of = scan.of
    BY <1>3, CheckTypes, RenderStartTypes, RenderBodyTypes
  <2> QED
    BY <1>3, <2>1, <2>2 DEF Scan
<1>4. ASSUME NEW l \in Clients, NEW j \in 1..MaxPolls, Asking(l, j) \/ Lose(l, j)
      PROVE  scan' = scan /\ poll'[k][i] = poll[k][i]
  <2>1. scan' = scan
    <3>1. ~BeginScan(l, j)
      BY SMTT(30), <1>1 DEF BeginScan
    <3> QED
      BY <1>4, <3>1 DEF Asking, Refresh, Timeout, Snapshot, Deliver, Lose, serverVars
  <2>2. poll[l][j].pc # "scanning"
    BY <1>4 DEF Asking, Refresh, Timeout, Send, Snapshot, BeginScan, Deliver, Lose
  <2>3. l # k \/ j # i
    BY <1>1, <2>2
  <2>4. poll'[k][i] = poll[k][i]
    <3>1. ASSUME NEW q \in Polls, OnlyPoll(l, j, q)
          PROVE  poll'[k][i] = poll[k][i]
      BY <2>3, <3>1 DEF OnlyPoll
    <3>2. NoPoll \in Polls
      BY InitialTypes
    <3>3. CASE Refresh(l, j) \/ Timeout(l, j)
      BY <3>1, <3>3, Sends DEF Refresh, Timeout
    <3>4. CASE Snapshot(l, j)
      BY <3>1, <3>4, Snapshots
    <3>5. CASE BeginScan(l, j)
      BY <1>1, <3>5 DEF BeginScan
    <3>6. CASE Deliver(l, j)
      BY <3>1, <3>2, <3>6, Delivers
    <3>7. CASE Lose(l, j)
      <4>1. poll' = [poll EXCEPT ![l] = [poll[l] EXCEPT ![j] = NoPoll]]
        BY <3>7 DEF Lose
      <4> QED
        BY <3>1, <3>2, <4>1, PollChange
    <3> QED
      BY <1>4, <3>3, <3>4, <3>5, <3>6, <3>7 DEF Asking
  <2> QED
    BY <2>1, <2>4
<1>5. CASE \E l \in Clients, j \in 1..MaxPolls : Asking(l, j) \/ Lose(l, j)
  BY <1>4, <1>5
<1> QED
  BY <1>2, <1>3, <1>5 DEF Next, Scan

\* The walk has seen the nodes that it has passed.
LEMMA WalkStep ==
  ASSUME TypeInv, TypeInv', RecordInv, ServerKeeps, Scan, NEW t, t = Scanned.stamp, ScanSeen(t)
  PROVE  scan'.pc # "none" => ScanSeen(t)'
<1>0. scan.pc # "none"
  BY DEF Scan, Check, RenderStart, RenderBody, Emit, EndScan
<1>1. /\ t \in Int /\ t <= counter /\ Scanned.stamp \in Nat /\ scan.pc # "none"
      /\ \A n \in Nodes : n \in Nat
  BY <1>0, WalkTypes, Tree
<1>2. \A n \in Nodes :
        /\ CheckedAt(n, t) => CheckedAt(n, t)'
        /\ Passed(ContentOf[n], "content", t) => Passed(ContentOf[n], "content", t)'
        /\ Passed(ContentOf[n], "visibility", t) => Passed(ContentOf[n], "visibility", t)'
  BY <1>1, CheckedStays
<1>3. /\ \A n \in Nodes : n <= scan.at - 1 =>
           CheckedAt(n, t)' /\ Passed(ContentOf[n], "visibility", t)'
  BY <1>2 DEF ScanSeen, Checked, Looked
<1>4. PICK n \in Int : n = scan.at
  BY Types DEF TypeInv, Scans
<1>5. ASSUME scan'.at = n
      PROVE  Checked(scan.at - 1, t)' /\ Looked(scan.at - 1, t)'
  BY <1>3, <1>4, <1>5 DEF Checked, Looked
<1>6. CASE Check
  <2>1. /\ n \in Nodes /\ scan.pc = "check" /\ scan'.at = n
        /\ IF record[n].stamp < stamp[ContentOf[n]].content
           THEN scan'.pc = "start" /\ scan'.next = scan.at
           ELSE scan'.pc = "emit"
    BY <1>4, <1>6, CheckTypes
  <2>2. /\ PassBy(ContentOf[n], "content") /\ ContentOf[n] \in Contents
        /\ UNCHANGED <<counter, stamp, overtaken, record>> /\ "content" \in Kinds
    BY <1>4, <1>6, <2>1, Tree DEF Check, Kinds
  <2>3. Passed(ContentOf[n], "content", t)'
    BY <1>1, <2>2, Marks DEF RecordInv
  <2>4. CASE scan'.pc = "start"
    <3>1. ~TopDrawn'
      BY <1>4, <2>1, <2>4 DEF TopDrawn
    <3> QED
      BY <1>5, <2>1, <2>3, <2>4, <3>1 DEF ScanSeen
  <2>5. CASE scan'.pc = "emit"
    <3>1. stamp'[ContentOf[n]].content <= record'[n].stamp
      <4>1. StampOf(ContentOf[n], "content") = stamp[ContentOf[n]].content
        BY DEF StampOf
      <4> QED
        BY <2>1, <2>2, <2>5, <4>1, StampTypes DEF TypeInv
    <3>2. CheckedAt(n, t)'
      BY <2>3, <3>1 DEF CheckedAt
    <3> QED
      BY <1>5, <2>1, <2>5, <3>2 DEF ScanSeen
  <2> QED
    BY <2>1, <2>4, <2>5
<1>7. CASE RenderStart
  <2>1. /\ n \in Nodes /\ scan.pc = "start" /\ scan'.at = n /\ scan'.pc = "body"
        /\ record'[scan.next].stamp = counter /\ scan.next \in Flux
        /\ UNCHANGED <<counter, stamp>>
    BY <1>4, <1>7, RenderStartTypes DEF RenderStart
  <2>2. Passed(ContentOf[n], "content", t)'
    BY <1>2, <1>4, <2>1 DEF ScanSeen
  <2>3. CheckedAt(n, t)'
    <3>1. CASE scan.next = scan.at
      <4>1. StampOf(ContentOf[n], "content") = stamp[ContentOf[n]].content
            /\ ContentOf[n] \in Contents /\ "content" \in Kinds
        BY <2>1, Tree DEF StampOf, Kinds
      <4>2. stamp[ContentOf[n]].content <= counter
        BY <4>1, StampTypes DEF TypeInv
      <4>3. stamp'[ContentOf[n]].content <= record'[n].stamp
        BY <1>4, <2>1, <3>1, <4>2
      <4> QED
        BY <2>2, <4>3 DEF CheckedAt
    <3>2. CASE scan.next # scan.at
      <4>1. scan.next > scan.at
        BY <1>4, <2>1, <3>2, FluxIs, Tree
      <4> QED
        BY <1>2, <1>4, <2>1, <4>1 DEF ScanSeen, TopDrawn
    <3> QED
      BY <3>1, <3>2
  <2> QED
    BY <1>5, <2>1, <2>2, <2>3 DEF ScanSeen
<1>8. CASE RenderBody
  <2>1. n \in Nodes /\ scan.pc = "body" /\ scan'.at = n
    BY <1>4, <1>8, RenderBodyTypes
  <2>2. Passed(ContentOf[n], "content", t)' /\ CheckedAt(n, t)'
    BY <1>2, <1>4, <2>1 DEF ScanSeen, TopDrawn
  <2> QED
    BY <1>5, <2>1, <2>2 DEF ScanSeen
<1>9. CASE Emit
  <2>1. PICK k \in Clients, i \in 1..MaxPolls : WalksFor(k, i)
    BY <1>1, Walks DEF TypeInv
  <2>2. /\ n \in Nodes /\ scan.pc = "emit" /\ scan'.at = n + 1 /\ scan'.pc \in {"check", "end"}
    BY <1>4, <1>9, <2>1, EmitTypes
  <2>3. /\ PassBy(ContentOf[n], "visibility") /\ ContentOf[n] \in Contents
        /\ UNCHANGED <<counter, stamp, overtaken>> /\ "visibility" \in Kinds
    BY <1>4, <1>9, <2>2, Tree DEF Emit, Kinds
  <2>4. Passed(ContentOf[n], "visibility", t)'
    BY <1>1, <2>3, Marks DEF RecordInv
  <2>5. CheckedAt(n, t)'
    BY <1>2, <1>4, <2>2 DEF ScanSeen
  <2>6. \A m \in Nodes : m <= scan'.at - 1 =>
           CheckedAt(m, t)' /\ Passed(ContentOf[m], "visibility", t)'
    <3> SUFFICES ASSUME NEW m \in Nodes, m <= scan'.at - 1
                 PROVE  CheckedAt(m, t)' /\ Passed(ContentOf[m], "visibility", t)'
      OBVIOUS
    <3>1. m = n \/ m <= scan.at - 1
      BY <1>1, <1>4, <2>2
    <3> QED
      BY <1>3, <2>4, <2>5, <3>1
  <2>7. Checked(scan.at - 1, t)' /\ Looked(scan.at - 1, t)'
    BY <2>6 DEF Checked, Looked
  <2> QED
    BY <2>2, <2>7 DEF ScanSeen, TopDrawn
<1>10. CASE EndScan
  BY <1>10 DEF EndScan, NoScan
<1> QED
  BY <1>6, <1>7, <1>8, <1>9, <1>10 DEF Scan

LEMMA WalkBegins ==
  ASSUME TypeInv, [Next]_vars, ~Restart, scan.pc = "none", scan'.pc # "none"
  PROVE  \E k \in Clients, i \in 1..MaxPolls : BeginScan(k, i)
<1>1. scan' # scan
  OBVIOUS
<1>2. ~Scan
  BY DEF Scan, Check, RenderStart, RenderBody, Emit, EndScan
<1>3. ~Change /\ ~UNCHANGED vars /\ \A w \in Writers : ~Stamping(w)
  BY <1>1 DEF Change, ChangeData, Toggle, Stamping, TakeStamp, StoreStamp, vars, serverVars
<1>4. PICK k \in Clients, i \in 1..MaxPolls : Asking(k, i) \/ Lose(k, i)
  BY <1>2, <1>3 DEF Next
<1>5. BeginScan(k, i)
  BY <1>1, <1>4 DEF Asking, Refresh, Timeout, Snapshot, Deliver, Lose, serverVars
<1> QED
  BY <1>5

LEMMA SeenStep ==
  ASSUME TypeInv, TypeInv', RecordInv, SeenInv, AnswerInv, [Next]_vars, ~Restart
  PROVE  SeenInv'
<1>0. /\ page \in [Clients -> Pages] /\ poll \in [Clients -> [1..MaxPolls -> Polls]]
      /\ counter \in Nat /\ context \in Nat
  BY Types, ConstantsAssumption DEF TypeInv
<1>1. ServerKeeps
  BY ServerSteps
<1>2. \A t \in Int : t <= counter /\ Seen(t) => Seen(t)'
  BY <1>1, SeenStays
<1>3. context' = context
  BY RequestSteps
<1>4. ASSUME NEW k \in Clients, NEW i \in 1..MaxPolls, poll[k][i].pc = "answered"
      PROVE  /\ poll[k][i].stamp \in Int /\ poll[k][i].stamp <= counter
             /\ Seen(poll[k][i].stamp) /\ poll[k][i].context = context
  <2>1. poll[k][i] \in Polls
    BY <1>0
  <2> QED
    BY <1>4, <2>1 DEF SeenInv, AnswerInv, TypeInv, ContextInv, Polls
<1>5. ASSUME NEW k \in Clients, page'[k].context = context'
      PROVE  Seen(page[k].timestamp)'
  <2>1. page[k] \in Pages
    BY <1>0
  <2>2. ASSUME page'[k].timestamp = page[k].timestamp, page[k].context = context
        PROVE  Seen(page[k].timestamp)'
    <3>1. PICK t \in Int : t = page[k].timestamp /\ t <= counter /\ Seen(t)
      BY <2>1, <2>2 DEF Pages, SeenInv, TypeInv, ContextInv
    <3>2. Seen(t)'
      BY <1>2, <3>1
    <3> QED
      BY <2>2, <3>1, <3>2
  <2>3. CASE page' = page
    BY <1>3, <1>5, <2>2, <2>3
  <2>4. ASSUME NEW l \in Clients, NEW i \in 1..MaxPolls, Deliver(l, i)
        PROVE  Seen(page[k].timestamp)'
    <3> DEFINE p == poll[l][i]
               r == Script(page[l].divs, p.buffer)
    <3>1. /\ p.pc = "answered" /\ \A m \in Clients \ {l} : page'[m] = page[m]
          /\ \/ page'[l] = page[l]
             \/ page'[l] = [timestamp |-> p.stamp, context |-> p.context, divs |-> r.divs]
             \/ page'[l] = [page[l] EXCEPT !.divs = r.divs]
      BY <2>4, Delivers DEF TypeInv
    <3>2. page[l] \in Pages
      BY <1>0
    <3> HIDE DEF p, r
    <3>3. \/ page'[k].timestamp = page[k].timestamp /\ page'[k].context = page[k].context
          \/ page'[k].timestamp = p.stamp
      BY <3>1, <3>2 DEF Pages
    <3>4. CASE page'[k].timestamp = p.stamp
      <4>1. PICK t \in Int : t = p.stamp /\ t <= counter /\ Seen(t)
        BY <1>4, <3>1 DEF p
      <4>2. Seen(t)'
        BY <1>2, <4>1
      <4> QED
        BY <3>4, <4>1, <4>2
    <3> QED
      BY <1>3, <1>5, <2>2, <3>3, <3>4
  <2> QED
    BY <2>3, <2>4, RequestSteps
<1>6. ASSUME NEW k \in Clients, NEW i \in 1..MaxPolls, poll'[k][i].pc = "answered"
      PROVE  Seen(poll[k][i].stamp)'
  <2>1. CASE poll'[k][i] = poll[k][i]
    <3>1. PICK t \in Int : t = poll[k][i].stamp /\ t <= counter /\ Seen(t)
      BY <1>4, <1>6, <2>1
    <3>2. Seen(t)'
      BY <1>2, <3>1
    <3> QED
      BY <2>1, <3>1, <3>2
  <2>2. CASE poll'[k][i] # poll[k][i]
    <3>1. PICK q \in Polls : /\ poll'[k][i] = q
                             /\ q = NoPoll \/ IsSent(k, q) \/ GoesOn(poll[k][i], q)
      BY <2>2, RequestSteps DEF OnlyPoll
    <3>2. scan.pc = "end" /\ poll[k][i] = Scanned /\ q.stamp = poll[k][i].stamp
      BY <1>6, <3>1 DEF NoPoll, IsSent, GoesOn
    <3>3. PICK t \in Int : t = Scanned.stamp /\ t <= counter
      BY <3>2, WalkTypes
    <3>4. Seen(t)
      <4>1. scan.at = NrNodes + 1 /\ NrNodes \in Nat
        BY <3>2, Tree DEF TypeInv, ScanPlace
      <4>2. ScanSeen(t)
        BY <3>2, <3>3 DEF SeenInv
      <4>3. scan.at - 1 = NrNodes
        BY <4>1
      <4>4. Flux = {}
        BY <3>2 DEF Flux
      <4> QED
        BY <4>2, <4>3, <4>4 DEF ScanSeen, Seen, FluxBehind
    <3>5. Seen(t)'
      BY <1>2, <3>3, <3>4
    <3> QED
      BY <3>1, <3>2, <3>3, <3>5
  <2> QED
    BY <2>1, <2>2
<1>7. ASSUME scan'.pc # "none"
      PROVE  ScanSeen(Scanned.stamp)'
  <2>1. CASE scan.pc = "none"
    <3>1. \E k \in Clients, i \in 1..MaxPolls : BeginScan(k, i)
      BY <1>7, <2>1, WalkBegins
    <3>2. scan'.pc = "check" /\ scan'.at = 1
      BY <3>1, BeginScanTypes DEF Root
    <3>3. \A n \in Nodes : ~(n <= scan'.at - 1)
      BY <3>2, Tree
    <3>4. \A t : Checked(scan.at - 1, t)' /\ Looked(scan.at - 1, t)'
      BY <3>3 DEF Checked, Looked
    <3> QED
      BY <3>2, <3>4 DEF ScanSeen, TopDrawn
  <2>2. CASE scan.pc # "none"
    <3>1. PICK k \in Clients, i \in 1..MaxPolls : WalksFor(k, i)
      BY <2>2, Walks DEF TypeInv
    <3>2. PICK t \in Int : t = Scanned.stamp /\ t <= counter /\ ScanSeen(t)
      BY <2>2, WalkTypes DEF SeenInv
    <3>3. ~EndScan
      BY <1>7 DEF EndScan, NoScan
    <3>4. (Scanned.stamp)' = t /\ (scan' = scan \/ Scan)
      <4>1. CASE Emit
        <5>1. PICK q \in Polls : q.stamp = poll[k][i].stamp /\ OnlyPoll(k, i, q)
          BY <3>1, <4>1, EmitTypes
        <5>2. WalksFor(k, i)'
          BY <3>1, <4>1, EmitTypes
        <5>3. poll'[k][i] = q
          BY <5>1 DEF OnlyPoll
        <5> QED
          BY <3>1, <3>2, <4>1, <5>1, <5>2, <5>3 DEF WalksFor, Scan
      <4>2. CASE ~Emit
        <5>1. scan'.of = scan.of /\ poll'[k][i] = poll[k][i] /\ (scan' = scan \/ Scan)
          BY <2>2, <3>1, <3>3, <4>2, WalkGoesOn
        <5>2. scan.of = <<k, i>> /\ Scanned = poll[k][i]
          BY <3>1 DEF WalksFor
        <5> QED
          BY <3>2, <5>1, <5>2 DEF Scanned
      <4> QED
        BY <4>1, <4>2
    <3>5. CASE Scan
      <4>1. ScanSeen(t)'
        BY <1>1, <1>7, <3>2, <3>5, WalkStep
      <4> QED
        BY <3>4, <4>1
    <3>6. CASE scan' = scan
      <4>1. \A n \in Nodes :
              /\ CheckedAt(n, t) => CheckedAt(n, t)'
              /\ Passed(ContentOf[n], "content", t) => Passed(ContentOf[n], "content", t)'
              /\ Passed(ContentOf[n], "visibility", t) => Passed(ContentOf[n], "visibility", t)'
        BY <1>1, <3>2, CheckedStays
      <4>2. PICK n \in Int : n = scan.at
        BY Types DEF TypeInv, Scans
      <4>3. Checked(scan.at - 1, t)' /\ Looked(scan.at - 1, t)'
        BY <3>2, <3>6, <4>1 DEF ScanSeen, Checked, Looked
      <4>4. scan.pc \in {"start", "body", "emit"} => n \in Nodes
        BY <4>2 DEF TypeInv, ScanPlace
      <4>5. scan.pc \in {"start", "body"} => Passed(ContentOf[n], "content", t)'
        BY <3>2, <4>1, <4>2, <4>4 DEF ScanSeen
      <4>6. TopDrawn \/ scan.pc = "emit" => CheckedAt(n, t)'
        BY <3>2, <4>1, <4>2, <4>4 DEF ScanSeen, TopDrawn
      <4>7. ScanSeen(t)'
        BY <3>6, <4>2, <4>3, <4>5, <4>6 DEF ScanSeen, TopDrawn
      <4> QED
        BY <3>4, <4>7
    <3> QED
      BY <3>4, <3>5, <3>6
  <2> QED
    BY <2>1, <2>2
<1> QED
  BY <1>5, <1>6, <1>7 DEF SeenInv

-----------------------------------------------------------------------------
(* What a page, or a script, shows.                                        *)

\* t has seen the changes of n and of what is around it.
SeenAt(n, t) ==
  /\ CheckedAt(n, t) /\ Passed(ContentOf[n], "visibility", t)
  /\ \A a \in Nodes : n \in Below(a) => CheckedAt(a, t)

KeptAt(n, t) ==
  /\ record'[n].id = record[n].id \/ AroundBehind(n, t)'
  /\ \/ record'[n].cache[n].data = record[n].cache[n].data
     \/ Behind(ContentOf[n], "content", t)' \/ AroundBehind(n, t)'

\* What a step leaves of stamps that t has seen
LEMMA BehindStays ==
  ASSUME TypeInv, StampsKept, NEW n \in Nodes, NEW t \in Int, t <= counter, SeenAt(n, t)
  PROVE  /\ Behind(ContentOf[n], "content", t) => Behind(ContentOf[n], "content", t)'
         /\ Behind(ContentOf[n], "visibility", t) => Behind(ContentOf[n], "visibility", t)'
         /\ Changing(ContentOf[n], "visibility") # {} =>
              \/ Changing(ContentOf[n], "visibility")' # {}
              \/ Behind(ContentOf[n], "visibility", t)'
         /\ AroundBehind(n, t) => AroundBehind(n, t)'
         /\ \A o \in Int : /\ Quiet(n, o) => Quiet(n, o)' \/ AroundBehind(n, t)'
                           /\ stamp[ContentOf[n]].content <= o =>
                                \/ stamp'[ContentOf[n]].content <= o
                                \/ Behind(ContentOf[n], "content", t)'
                           /\ stamp[ContentOf[n]].visibility <= o =>
                                \/ stamp'[ContentOf[n]].visibility <= o
                                \/ Behind(ContentOf[n], "visibility", t)'
<1>1. "content" \in Kinds /\ "visibility" \in Kinds
      /\ \A m \in Nodes : ContentOf[m] \in Contents
  BY Tree DEF Kinds
<1>2. ASSUME NEW c \in Contents, NEW kind \in Kinds, Passed(c, kind, t)
      PROVE  /\ Behind(c, kind, t) => Behind(c, kind, t)'
             /\ Changing(c, kind) # {} => Changing(c, kind)' # {} \/ Behind(c, kind, t)'
             /\ \A r \in Int : StampOf(c, kind) <= r =>
                                 StampOf(c, kind)' <= r \/ Behind(c, kind, t)'
  BY <1>2 DEF StampsKept
<1>3. \A c, kind : /\ kind = "content" =>
                        /\ StampOf(c, kind) = stamp[c].content
                        /\ StampOf(c, kind)' = stamp'[c].content
                   /\ kind = "visibility" =>
                        /\ StampOf(c, kind) = stamp[c].visibility
                        /\ StampOf(c, kind)' = stamp'[c].visibility
  BY DEF StampOf
<1>4. ASSUME NEW m \in Nodes, CheckedAt(m, t)
      PROVE  /\ Behind(ContentOf[m], "content", t) => Behind(ContentOf[m], "content", t)'
             /\ \A r \in Int : stamp[ContentOf[m]].content <= r =>
                   stamp'[ContentOf[m]].content <= r \/ Behind(ContentOf[m], "content", t)'
  <2>1. ContentOf[m] \in Contents /\ Passed(ContentOf[m], "content", t)
    BY <1>1, <1>4 DEF CheckedAt
  <2> QED
    BY <1>1, <1>2, <1>3, <2>1
<1>5. AroundBehind(n, t) => AroundBehind(n, t)'
  <2>1. \A a \in Nodes : n \in Below(a) /\ Behind(ContentOf[a], "content", t) =>
          Behind(ContentOf[a], "content", t)'
    BY <1>4 DEF SeenAt
  <2> QED
    BY <2>1 DEF AroundBehind, Below, Within
<1>6. ASSUME NEW o \in Int, Quiet(n, o)
      PROVE  Quiet(n, o)' \/ AroundBehind(n, t)'
  <2>1. \A a \in Nodes : n \in Below(a) =>
          stamp'[ContentOf[a]].content <= o \/ Behind(ContentOf[a], "content", t)'
    BY <1>4, <1>6 DEF SeenAt, Quiet
  <2> QED
    BY <2>1 DEF AroundBehind, Quiet, Below, Within
<1>7. /\ Behind(ContentOf[n], "visibility", t) => Behind(ContentOf[n], "visibility", t)'
      /\ Changing(ContentOf[n], "visibility") # {} =>
           \/ Changing(ContentOf[n], "visibility")' # {}
           \/ Behind(ContentOf[n], "visibility", t)'
      /\ \A o \in Int : stamp[ContentOf[n]].visibility <= o =>
           \/ stamp'[ContentOf[n]].visibility <= o
           \/ Behind(ContentOf[n], "visibility", t)'
  <2>1. Passed(ContentOf[n], "visibility", t) /\ ContentOf[n] \in Contents
    BY <1>1 DEF SeenAt
  <2> QED
    BY <1>1, <1>2, <1>3, <2>1
<1> QED
  BY <1>4, <1>5, <1>6, <1>7 DEF SeenAt

\* What is right for a stamp stays right for it.
LEMMA RightStays ==
  ASSUME TypeInv, StampsKept, HiddenKept, NEW n \in Nodes, NEW t \in Int, t <= counter,
         SeenAt(n, t), KeptAt(n, t), NEW d
  PROVE  /\ RightId(d, n, t) => RightId(d, n, t)'
         /\ RightData(d, n, t) => RightData(d, n, t)'
         /\ RightVisibility(d, n, t) => RightVisibility(d, n, t)'
<1>1. ContentOf[n] \in Contents
  BY Tree
<1>2. RightId(d, n, t) => RightId(d, n, t)'
  BY BehindStays DEF RightId, KeptAt
<1>3. RightData(d, n, t) => RightData(d, n, t)'
  BY BehindStays DEF RightData, KeptAt
<1>4. RightVisibility(d, n, t) => RightVisibility(d, n, t)'
  BY <1>1, BehindStays DEF RightVisibility, HiddenKept
<1> QED
  BY <1>2, <1>3, <1>4

\* What a script has done to a node stays done.
LEMMA DoneStays ==
  ASSUME TypeInv, StampsKept, HiddenKept, NEW p \in Polls, p.stamp <= counter, NEW n \in Nodes,
         SeenAt(n, p.stamp), KeptAt(n, p.stamp), NEW was, NEW is, NEW ok,
         Done(p, n, was, is, ok)
  PROVE  Done(p, n, was, is, ok)'
<1>1. p.stamp \in Int /\ p.old \in Int
  BY DEF Polls
<1>2. PICK t \in Int : t = p.stamp
  BY <1>1
<1>3. /\ RightId(is, n, t) => RightId(is, n, t)'
      /\ RightData(is, n, t) => RightData(is, n, t)'
      /\ RightVisibility(is, n, t) => RightVisibility(is, n, t)'
  BY <1>2, RightStays
<1>4. /\ Quiet(n, p.old) => Quiet(n, p.old)' \/ AroundBehind(n, t)'
      /\ stamp[ContentOf[n]].content <= p.old =>
           stamp'[ContentOf[n]].content <= p.old \/ Behind(ContentOf[n], "content", t)'
      /\ stamp[ContentOf[n]].visibility <= p.old =>
           stamp'[ContentOf[n]].visibility <= p.old \/ Behind(ContentOf[n], "visibility", t)'
  BY <1>1, <1>2, BehindStays
<1>5. AroundBehind(n, t)' =>
        RightId(is, n, t)' /\ RightData(is, n, t)' /\ RightVisibility(is, n, t)'
  BY DEF RightId, RightData, RightVisibility
<1>6. RightId(is, n, t)' \/ (is.id = was.id /\ (ok => Quiet(n, p.old)'))
  BY <1>2, <1>3, <1>4, <1>5 DEF Done
<1>7. \/ RightData(is, n, t)'
      \/ /\ is.data = was.data
         /\ ok => Quiet(n, p.old)' /\ stamp'[ContentOf[n]].content <= p.old
  <2>1. Behind(ContentOf[n], "content", t)' => RightData(is, n, t)'
    BY DEF RightData
  <2> QED
    BY <1>2, <1>3, <1>4, <1>5, <2>1 DEF Done
<1>8. \/ RightVisibility(is, n, t)'
      \/ /\ is.hidden = was.hidden
         /\ ok => Quiet(n, p.old)' /\ stamp'[ContentOf[n]].visibility <= p.old
  <2>1. Behind(ContentOf[n], "visibility", t)' => RightVisibility(is, n, t)'
    BY DEF RightVisibility
  <2> QED
    BY <1>2, <1>3, <1>4, <1>5, <2>1 DEF Done
<1> QED
  BY <1>2, <1>6, <1>7, <1>8 DEF Done

-----------------------------------------------------------------------------
(* What the walk has sent covers what it comes to later.                   *)

LEMMA CoverEmits ==
  ASSUME TypeInv, RecordInv, OldInv, Emit, NEW m \in Nodes, m = scan.at,
         NEW o \in Int, o = Scanned.old
  PROVE  /\ scan.old[m] = o => \A n \in Nodes : n > m => scan.old[n] = o
         /\ \A n \in Nodes : n > m =>
              IF SendsContent(m) /\ n \in Below(m)
              THEN Cover(m, n, o)' /\ scan'.old[n] # o
              ELSE /\ scan'.old[n] = scan.old[n]
                   /\ \A a \in Nodes : Cover(a, n, o) => Cover(a, n, o)'
         /\ \A n \in Nodes, a \in Nodes :
              n > m /\ n \in Below(a) /\ a <= m /\ scan'.old[n] = o => record[a].stamp <= o
<1>0. /\ scan.pc = "emit" /\ Flux = {} /\ scan'.at = m + 1 /\ record' = record
      /\ \A n \in Nodes : scan'.old[n] = IF SendsContent(m) /\ Within(n, m)
                                         THEN record[m].stamp ELSE scan.old[n]
  <2>1. PICK k \in Clients, i \in 1..MaxPolls : WalksFor(k, i)
    BY Walks DEF TypeInv, Emit
  <2>2. /\ scan.pc = "emit" /\ scan'.at = scan.at + 1
        /\ \A n \in Nodes : scan'.old[n] = IF SendsContent(scan.at) /\ Within(n, scan.at)
                                           THEN record[scan.at].stamp ELSE scan.old[n]
    BY <2>1, EmitTypes
  <2>3. Flux = {} /\ record' = record
    BY <2>2 DEF Emit, Flux
  <2> QED
    BY <2>2, <2>3
<1>1. /\ \A n \in Nodes : /\ record[n].stamp \in Int /\ scan.old[n] \in Int /\ n \in Nat
                          /\ LastIn[n] \in Nat
      /\ \A a, n \in Nodes : n \in Below(a) <=> a < n /\ n <= LastIn[a]
      /\ \A a, n \in Nodes : n \in Below(a) => LastIn[n] <= LastIn[a]
  <2>1. \A n \in Nodes : scan.old[n] \in Int
    BY Types DEF TypeInv, Scans
  <2> QED
    BY <2>1, StampTypes, Tree DEF TypeInv, Below
<1>2. /\ \A n \in Nodes : n >= m => scan.old[n] = o \/ \E a \in Nodes : Cover(a, n, o)
      /\ \A n \in Nodes, a \in Nodes :
           n >= m /\ n \in Below(a) /\ a < m /\ scan.old[n] = o => record[a].stamp <= o
  BY <1>0 DEF OldInv
<1>3. \A a, n \in Nodes : Cover(a, n, o) =>
        /\ n \in Below(a) /\ a < m /\ scan.old[n] = record[a].stamp /\ record[a].stamp > o
        /\ \A b \in Below(a) : b < m /\ n \in Below(b) => record[b].stamp = record[a].stamp
  BY DEF Cover
<1>4. ASSUME scan.old[m] = o, NEW n \in Nodes, n > m
      PROVE  scan.old[n] = o
  <2>1. ASSUME NEW a \in Nodes, Cover(a, n, o)
        PROVE  FALSE
    <3>1. n \in Below(a) /\ a < m /\ record[a].stamp > o
      BY <1>3, <2>1
    <3>2. m \in Below(a)
      BY <1>1, <1>4, <3>1
    <3> QED
      BY <1>1, <1>2, <1>4, <3>1, <3>2
  <2> QED
    BY <1>1, <1>2, <1>4, <2>1
\* what has been sent between a and m is as old as a
<1>5. ASSUME NEW a \in Nodes, NEW n \in Nodes, n \in Below(m), Cover(a, n, o),
             record[m].stamp <= scan.old[m]
      PROVE  m \in Below(a) /\ record[m].stamp = record[a].stamp
  <2>1. n \in Below(a) /\ a < m /\ record[a].stamp > o
    BY <1>3, <1>5
  <2>2. m \in Below(a)
    BY <1>1, <1>5, <2>1
  <2>3. record[a].stamp <= record[m].stamp
    BY <1>0, <2>2 DEF RecordInv, NestedInv
  <2>4. scan.old[m] # o
    BY <1>1, <1>5, <2>1, <2>3
  <2>5. PICK e \in Nodes : Cover(e, m, o)
    BY <1>1, <1>2, <2>4
  <2>6. m \in Below(e) /\ e < m /\ scan.old[m] = record[e].stamp
    BY <1>3, <2>5
  <2>7. record[e].stamp = record[a].stamp
    <3>1. CASE e = a
      BY <3>1
    <3>2. CASE e < a
      <4>1. a \in Below(e)
        BY <1>1, <2>1, <2>6, <3>2
      <4> QED
        BY <1>3, <2>1, <2>2, <2>5, <4>1
    <3>3. CASE a < e
      <4>1. e \in Below(a) /\ n \in Below(e)
        BY <1>1, <1>5, <2>1, <2>2, <2>6, <3>3
      <4> QED
        BY <1>3, <1>5, <2>6, <4>1
    <3> QED
      BY <1>1, <3>1, <3>2, <3>3
  <2> QED
    BY <1>1, <1>5, <2>2, <2>3, <2>6, <2>7
<1>6. ASSUME NEW n \in Nodes, n > m, SendsContent(m), n \in Below(m)
      PROVE  Cover(m, n, o)' /\ scan'.old[n] # o
  <2>1. scan'.old[n] = record[m].stamp
    BY <1>0, <1>6 DEF Below
  <2>2. record[m].stamp > o
    <3>1. scan.old[m] >= o
      BY <1>1, <1>2, <1>3
    <3> QED
      BY <1>1, <1>6, <3>1 DEF SendsContent
  <2>3. \A b \in Below(m) : ~(b < m + 1)
    BY <1>1 DEF Below
  <2>4. m < m + 1
    BY <1>1
  <2>5. Cover(m, n, o)'
    <3>1. /\ n \in Below(m) /\ m < scan'.at
          /\ scan'.old[n] = record'[m].stamp /\ record'[m].stamp > o
          /\ \A b \in Below(m) : b < scan'.at /\ n \in Below(b) =>
                record'[b].stamp = record'[m].stamp
      BY <1>0, <1>6, <2>1, <2>2, <2>3, <2>4
    <3> QED
      BY <3>1 DEF Cover, Below, Within
  <2> QED
    BY <1>1, <2>1, <2>2, <2>5
<1>7. ASSUME NEW n \in Nodes, n > m, ~(SendsContent(m) /\ n \in Below(m))
      PROVE  /\ scan'.old[n] = scan.old[n]
             /\ \A a \in Nodes : Cover(a, n, o) => Cover(a, n, o)'
  <2>1. scan'.old[n] = scan.old[n]
    BY <1>0, <1>1, <1>7 DEF Below
  <2>2. ASSUME NEW a \in Nodes, Cover(a, n, o)
        PROVE  Cover(a, n, o)'
    <3>1. ASSUME NEW b \in Below(a), b < m + 1, n \in Below(b)
          PROVE  record[b].stamp = record[a].stamp
      <4>1. CASE b = m
        <5>1. record[m].stamp <= scan.old[m]
          BY <1>1, <1>7, <3>1, <4>1 DEF SendsContent
        <5> QED
          BY <1>5, <2>2, <3>1, <4>1, <5>1
      <4>2. CASE b # m
        <5>1. b < m
          BY <1>1, <3>1, <4>2 DEF Below
        <5> QED
          BY <1>3, <2>2, <3>1, <5>1
      <4> QED
        BY <4>1, <4>2
    <3>2. /\ n \in Below(a) /\ a < m + 1
          /\ scan.old[n] = record[a].stamp /\ record[a].stamp > o
      BY <1>1, <1>3, <2>2
    <3>3. /\ n \in Below(a) /\ a < scan'.at
          /\ scan'.old[n] = record'[a].stamp /\ record'[a].stamp > o
          /\ \A b \in Below(a) : b < scan'.at /\ n \in Below(b) =>
                record'[b].stamp = record'[a].stamp
      BY <1>0, <2>1, <3>1, <3>2
    <3> QED
      BY <3>3 DEF Cover, Below, Within
  <2> QED
    BY <2>1, <2>2
<1>8. ASSUME NEW n \in Nodes, NEW a \in Nodes, n > m, n \in Below(a), a <= m, scan'.old[n] = o
      PROVE  record[a].stamp <= o
  <2>1. ~(SendsContent(m) /\ n \in Below(m)) /\ scan.old[n] = o
    BY <1>6, <1>7, <1>8
  <2>2. CASE a < m
    BY <1>1, <1>2, <1>8, <2>1, <2>2
  <2>3. CASE a = m
    <3>1. record[m].stamp <= scan.old[m]
      BY <1>1, <1>8, <2>1, <2>3 DEF SendsContent
    <3>2. ASSUME NEW e \in Nodes, Cover(e, m, o)
          PROVE  FALSE
      <4>1. m \in Below(e) /\ e < m /\ record[e].stamp > o
        BY <1>3, <3>2
      <4>2. n \in Below(e)
        BY <1>1, <1>8, <2>3, <4>1
      <4> QED
        BY <1>1, <1>2, <1>8, <2>1, <4>1, <4>2
    <3>3. scan.old[m] = o
      BY <1>1, <1>2, <3>2
    <3> QED
      BY <2>3, <3>1, <3>3
  <2> QED
    BY <1>1, <1>8, <2>2, <2>3
<1> QED
  BY <1>4, <1>6, <1>7, <1>8

-----------------------------------------------------------------------------
(* What the statements for a node do to a page.                            *)

LEMMA Throws ==
  ASSUME NEW s \in States, NEW u \in Statements, ~s.ok \/ s.divs[u.node].id # u.id,
         NEW v, v = Apply(s, u)
  PROVE  v \in States /\ ~v.ok /\ v.divs = s.divs /\ (~s.ok => v = s)
<1>1. s = [divs |-> s.divs, ok |-> s.ok] /\ s.divs \in [Nodes -> Divs] /\ s.ok \in BOOLEAN
  BY DEF States
<1>2. v = [s EXCEPT !.ok = FALSE]
  BY DEF Apply
<1>3. v.ok = FALSE /\ v.divs = s.divs /\ v \in States
  BY <1>2 DEF States
<1>4. ~s.ok => v = s
  BY <1>1, <1>3 DEF States
<1> QED
  BY <1>3, <1>4

LEMMA Works ==
  ASSUME NEW s \in States, NEW u \in Statements, s.ok, s.divs[u.node].id = u.id,
         NEW v, v = Apply(s, u)
  PROVE  /\ v \in States /\ v.ok /\ v.divs[u.node].id = u.id
         /\ v.divs[u.node].data =
              IF u.kind = "visibility" THEN s.divs[u.node].data ELSE u.cache[u.node].data
         /\ v.divs[u.node].hidden =
              IF u.kind = "visibility" THEN u.hidden ELSE s.divs[u.node].hidden
         /\ \A m \in Nodes \ {u.node} :
              v.divs[m] = IF u.kind = "visibility" \/ m \notin Below(u.node)
                          THEN s.divs[m] ELSE u.cache[m]
<1>1. s = [divs |-> s.divs, ok |-> s.ok] /\ s.divs \in [Nodes -> Divs] /\ s.ok \in BOOLEAN
      /\ u.node \in Nodes /\ s.divs[u.node] \in Divs /\ u.node \notin Below(u.node)
  BY DEF States, Statements, Below
<1>2. v \in States
  BY ApplyType
<1>3. CASE u.kind = "visibility"
  <2> DEFINE e == [s.divs EXCEPT ![u.node].hidden = u.hidden]
  <2>1. v = [s EXCEPT !.divs = e]
    BY <1>3 DEF Apply
  <2>2. \A m \in Nodes : e[m] = IF m = u.node THEN [s.divs[m] EXCEPT !.hidden = u.hidden]
                                             ELSE s.divs[m]
    BY <1>1
  <2> HIDE DEF e
  <2>3. v.divs = e /\ v.ok = s.ok
    BY <1>1, <2>1
  <2> QED
    BY <1>1, <1>2, <1>3, <2>2, <2>3 DEF Divs
<1>4. CASE u.kind # "visibility"
  <2> DEFINE e == [m \in Nodes |-> IF m \in Below(u.node) THEN u.cache[m]
                                   ELSE IF m = u.node
                                        THEN [s.divs[m] EXCEPT !.data = u.cache[m].data]
                                        ELSE s.divs[m]]
  <2>1. v = [s EXCEPT !.divs = e]
    BY <1>4 DEF Apply
  <2>2. \A m \in Nodes : e[m] = IF m \in Below(u.node) THEN u.cache[m]
                                ELSE IF m = u.node
                                     THEN [s.divs[m] EXCEPT !.data = u.cache[m].data]
                                     ELSE s.divs[m]
    OBVIOUS
  <2> HIDE DEF e
  <2>3. v.divs = e /\ v.ok = s.ok
    BY <1>1, <2>1
  <2> QED
    BY <1>1, <1>2, <1>4, <2>2, <2>3 DEF Divs
<1> QED
  BY <1>3, <1>4

LEMMA UpdatesDo ==
  ASSUME TypeOK, NEW n \in Nodes, NEW D \in [Nodes -> Divs], NEW b \in Seq(Statements),
         NEW r, r = Script(D, b), NEW s, s = Script(D, b \o Updates(n))
  PROVE  /\ r \in States /\ s \in States
         /\ ~r.ok \/ (~SendsVisibility(n) /\ ~SendsContent(n)) => s = r
         /\ r.ok /\ r.divs[n].id # record[n].id /\ (SendsVisibility(n) \/ SendsContent(n)) =>
              ~s.ok /\ s.divs = r.divs
         /\ r.ok /\ r.divs[n].id = record[n].id =>
              /\ s.ok
              /\ s.divs[n].id = record[n].id
              /\ s.divs[n].data = IF SendsContent(n) THEN record[n].cache[n].data
                                                     ELSE r.divs[n].data
              /\ s.divs[n].hidden = IF SendsVisibility(n) THEN hidden[ContentOf[n]]
                                                          ELSE r.divs[n].hidden
              /\ \A m \in Nodes \ {n} :
                   s.divs[m] = IF SendsContent(n) /\ m \in Below(n) THEN record[n].cache[m]
                                                                    ELSE r.divs[m]
<1> DEFINE c == IF SendsVisibility(n) THEN Append(b, VisibilityOf(n)) ELSE b
           v == Script(D, c)
<1>1. /\ VisibilityOf(n) \in Statements /\ CacheOf(n) \in Statements
      /\ b \o Updates(n) = IF SendsContent(n) THEN Append(c, CacheOf(n)) ELSE c
      /\ b \o Updates(n) \in Seq(Statements) /\ c \in Seq(Statements)
  BY UpdatesAre, AppendProperties
<1>2. r \in States /\ v \in States /\ s \in States
  BY <1>1, ScriptType
<1> HIDE DEF c
<1>3. PICK x \in Statements : /\ x = VisibilityOf(n)
                              /\ x.kind = "visibility" /\ x.node = n
                              /\ x.id = record[n].id /\ x.hidden = hidden[ContentOf[n]]
  BY <1>1 DEF VisibilityOf
<1>4. PICK y \in Statements : /\ y = CacheOf(n)
                              /\ y.kind = "content" /\ y.node = n
                              /\ y.id = record[n].id /\ y.cache = record[n].cache
  BY <1>1 DEF CacheOf
<1>5. /\ v = IF SendsVisibility(n) THEN Apply(r, x) ELSE r
      /\ s = IF SendsContent(n) THEN Apply(v, y) ELSE v
      /\ n \notin Below(n)
  <2>1. v = IF SendsVisibility(n) THEN Apply(r, x) ELSE r
    BY <1>3, ScriptAppend DEF c
  <2>2. s = IF SendsContent(n) THEN Apply(v, y) ELSE v
    BY <1>1, <1>4, ScriptAppend
  <2> QED
    BY <2>1, <2>2 DEF Below
<1> HIDE DEF v
<1>6. CASE ~r.ok \/ (~SendsVisibility(n) /\ ~SendsContent(n))
  <2>1. v = r
    BY <1>2, <1>3, <1>5, <1>6, Throws
  <2>2. s = r
    BY <1>2, <1>4, <1>5, <1>6, <2>1, Throws
  <2> QED
    BY <1>2, <1>6, <2>2
<1>7. ASSUME r.ok, r.divs[n].id # record[n].id, SendsVisibility(n) \/ SendsContent(n)
      PROVE  ~s.ok /\ s.divs = r.divs
  <2>1. CASE SendsVisibility(n)
    <3>0. v = Apply(r, x) /\ r.ok /\ r.divs[x.node].id # x.id
      BY <1>3, <1>5, <1>7, <2>1
    <3>1. ~v.ok /\ v.divs = r.divs
      BY <1>2, <1>3, <3>0, Throws
    <3> QED
      BY <1>2, <1>4, <1>5, <3>1, Throws
  <2>2. CASE ~SendsVisibility(n)
    BY <1>2, <1>4, <1>5, <1>7, <2>2, Throws
  <2> QED
    BY <2>1, <2>2
<1>8. ASSUME r.ok, r.divs[n].id = record[n].id
      PROVE  /\ s.ok
             /\ s.divs[n].id = record[n].id
             /\ s.divs[n].data = IF SendsContent(n) THEN record[n].cache[n].data
                                                    ELSE r.divs[n].data
             /\ s.divs[n].hidden = IF SendsVisibility(n) THEN hidden[ContentOf[n]]
                                                         ELSE r.divs[n].hidden
             /\ \A m \in Nodes \ {n} :
                  s.divs[m] = IF SendsContent(n) /\ m \in Below(n) THEN record[n].cache[m]
                                                                   ELSE r.divs[m]
  <2>1. /\ v.ok /\ v.divs[n].id = record[n].id /\ v.divs[n].data = r.divs[n].data
        /\ v.divs[n].hidden = IF SendsVisibility(n) THEN hidden[ContentOf[n]]
                                                    ELSE r.divs[n].hidden
        /\ \A m \in Nodes \ {n} : v.divs[m] = r.divs[m]
    <3>1. CASE ~SendsVisibility(n)
      BY <1>5, <1>8, <3>1
    <3>2. CASE SendsVisibility(n)
      <4>1. v = Apply(r, x) /\ r.ok /\ r.divs[x.node].id = x.id
        BY <1>3, <1>5, <1>8, <3>2
      <4> QED
        BY SMTT(30), <1>2, <1>3, <3>2, <4>1, Works
    <3> QED
      BY <3>1, <3>2
  <2>2. CASE ~SendsContent(n)
    BY <1>5, <2>1, <2>2
  <2>3. CASE SendsContent(n)
    <3>1. s = Apply(v, y) /\ v.ok /\ v.divs[y.node].id = y.id
      BY <1>4, <1>5, <2>1, <2>3
    <3>2. /\ s.ok /\ s.divs[n].id = record[n].id /\ s.divs[n].data = record[n].cache[n].data
          /\ s.divs[n].hidden = v.divs[n].hidden
          /\ \A m \in Nodes \ {n} :
               s.divs[m] = IF m \notin Below(n) THEN v.divs[m] ELSE record[n].cache[m]
      <4>1. /\ s.ok /\ s.divs[y.node].id = y.id
            /\ s.divs[y.node].data =
                 IF y.kind = "visibility" THEN v.divs[y.node].data ELSE y.cache[y.node].data
            /\ s.divs[y.node].hidden =
                 IF y.kind = "visibility" THEN y.hidden ELSE v.divs[y.node].hidden
            /\ \A m \in Nodes \ {y.node} :
                 s.divs[m] = IF y.kind = "visibility" \/ m \notin Below(y.node)
                             THEN v.divs[m] ELSE y.cache[m]
        BY SMTT(30), <1>2, <1>4, <3>1, Works
      <4> QED
        BY <1>4, <4>1
    <3> QED
      BY <2>1, <2>3, <3>2
  <2> QED
    BY <2>2, <2>3
<1> QED
  BY <1>2, <1>6, <1>7, <1>8

\* What covers a node has cached it with its id; and with its data, if the node
\* is not newer.
LEMMA CoverFits ==
  ASSUME TypeInv, RecordInv, Flux = {}, NEW m \in Nodes, m = scan.at, NEW o, NEW a \in Nodes,
         Cover(a, m, o)
  PROVE  /\ record[a].cache[m].id = record[m].id
         /\ record[m].stamp <= record[a].stamp =>
              record[a].cache[m].data = record[m].cache[m].data
<1>1. \A n \in Nodes : record[n].stamp \in Int /\ n \in Nat
  BY StampTypes, Tree DEF TypeInv
<1>2. /\ m \in Below(a)
      /\ \A b \in Below(a) : b < m /\ m \in Below(b) => record[b].stamp = record[a].stamp
  BY DEF Cover
<1>3. Unchanged(a, m)
  <2>1. ASSUME NEW b \in Below(a), m \in Below(b)
        PROVE  record[b].stamp <= record[a].stamp
    <3>1. b < m /\ b \in Nodes
      BY <1>1, <2>1 DEF Below, Within
    <3> QED
      BY <1>1, <1>2, <2>1, <3>1
  <2> QED
    BY <2>1 DEF Unchanged
<1> QED
  BY <1>2, <1>3 DEF RecordInv, NestedInv

\* The node that the walk is at is done, if its statements work.
LEMMA EmitsOwn ==
  ASSUME TypeInv, RecordInv, OldInv, Flux = {}, NEW m \in Nodes, m = scan.at,
         NEW p \in Polls, p.old = Scanned.old, ScanSeen(p.stamp), scan.pc = "emit",
         NEW was \in Divs, NEW is \in Divs, ToCome(p, m, was, is, TRUE),
         NEW now \in Divs,
         \/ ~SendsVisibility(m) /\ ~SendsContent(m) /\ now = is
         \/ /\ is.id = record[m].id /\ now.id = record[m].id
            /\ now.data = IF SendsContent(m) THEN record[m].cache[m].data ELSE is.data
            /\ now.hidden = IF SendsVisibility(m) THEN hidden[ContentOf[m]] ELSE is.hidden
  PROVE  Done(p, m, was, now, TRUE)
<1>0. /\ p.old \in Int /\ p.stamp \in Int
      /\ \A n \in Nodes : /\ record[n].stamp \in Int /\ n \in Nat
                          /\ scan.old[n] \in Int
                          /\ stamp[ContentOf[n]].content \in Int
                          /\ stamp[ContentOf[n]].visibility \in Int
  <2>1. \A n \in Nodes : /\ StampOf(ContentOf[n], "content") = stamp[ContentOf[n]].content
                         /\ StampOf(ContentOf[n], "visibility") = stamp[ContentOf[n]].visibility
    BY DEF StampOf
  <2>2. "content" \in Kinds /\ "visibility" \in Kinds
        /\ \A n \in Nodes : n \in Nat /\ ContentOf[n] \in Contents
    BY Tree DEF Kinds
  <2>3. \A n \in Nodes : scan.old[n] \in Int
    BY Types DEF TypeInv, Scans
  <2>4. \A n \in Nodes : /\ stamp[ContentOf[n]].content \in Int
                         /\ stamp[ContentOf[n]].visibility \in Int
    <3>1. \A n \in Nodes : /\ StampOf(ContentOf[n], "content") \in Int
                           /\ StampOf(ContentOf[n], "visibility") \in Int
      BY <2>2, StampTypes DEF TypeInv
    <3> QED
      BY <2>1, <3>1
  <2>5. p.old \in Int /\ p.stamp \in Int
    BY DEF Polls
  <2> QED
    BY <2>2, <2>3, <2>4, <2>5, StampTypes DEF TypeInv
<1>1. /\ CheckedAt(m, p.stamp)
      /\ \A a \in Nodes : m \in Below(a) => CheckedAt(a, p.stamp)
  <2>1. \A a \in Nodes : m \in Below(a) => a <= scan.at - 1
    BY <1>0 DEF Below, Within
  <2> QED
    BY <2>1 DEF ScanSeen, Checked
<1>2. CASE scan.old[m] = p.old
  <2>1. now.id = was.id \/ now.id = record[m].id
    BY <1>2 DEF ToCome
  <2>2. is = was
    BY <1>2 DEF ToCome
  <2>3. Quiet(m, p.old) \/ AroundBehind(m, p.stamp)
    <3>1. ASSUME NEW a \in Nodes, m \in Below(a)
          PROVE  \/ stamp[ContentOf[a]].content <= p.old
                 \/ Behind(ContentOf[a], "content", p.stamp)
      <4>1. a < m
        BY <1>0, <3>1 DEF Below, Within
      <4>2. record[a].stamp <= p.old
        BY <1>0, <1>2, <3>1, <4>1 DEF OldInv
      <4> QED
        BY <1>0, <1>1, <3>1, <4>2 DEF CheckedAt
    <3> QED
      BY <3>1 DEF Quiet, AroundBehind
  <2>4. RightId(now, m, p.stamp) \/ (now.id = was.id /\ Quiet(m, p.old))
    BY <2>1, <2>3 DEF RightId
  <2>5. \/ RightData(now, m, p.stamp)
        \/ /\ now.data = was.data /\ Quiet(m, p.old)
           /\ stamp[ContentOf[m]].content <= p.old
    <3>1. CASE SendsContent(m)
      BY <3>1 DEF RightData
    <3>2. CASE ~SendsContent(m)
      <4>1. now.data = was.data /\ record[m].stamp <= p.old
        BY <1>0, <1>2, <2>2, <3>2 DEF SendsContent
      <4>2. \/ stamp[ContentOf[m]].content <= p.old
            \/ Behind(ContentOf[m], "content", p.stamp)
        BY <1>0, <1>1, <4>1 DEF CheckedAt
      <4> QED
        BY <2>3, <4>1, <4>2 DEF RightData
    <3> QED
      BY <3>1, <3>2
  <2>6. \/ RightVisibility(now, m, p.stamp)
        \/ /\ now.hidden = was.hidden /\ Quiet(m, p.old)
           /\ stamp[ContentOf[m]].visibility <= p.old
    <3>1. CASE SendsVisibility(m)
      BY <3>1 DEF RightVisibility
    <3>2. CASE ~SendsVisibility(m)
      <4>1. now.hidden = was.hidden /\ stamp[ContentOf[m]].visibility <= p.old
        BY <1>0, <1>2, <2>2, <3>2 DEF SendsVisibility
      <4> QED
        BY <2>3, <4>1 DEF RightVisibility
    <3> QED
      BY <3>1, <3>2
  <2> QED
    BY <2>4, <2>5, <2>6 DEF Done
<1>3. CASE scan.old[m] # p.old
  <2>1. PICK a \in Nodes : Cover(a, m, p.old) /\ is = record[a].cache[m]
    BY <1>3 DEF ToCome
  <2>2. m \in Below(a) /\ scan.old[m] = record[a].stamp
    BY <2>1 DEF Cover
  <2>4. /\ record[a].cache[m].id = record[m].id
        /\ record[m].stamp <= record[a].stamp =>
             record[a].cache[m].data = record[m].cache[m].data
    BY <2>1, CoverFits
  <2>5. RightId(now, m, p.stamp)
    BY <2>1, <2>4 DEF RightId
  <2>6. RightData(now, m, p.stamp)
    <3>1. CASE SendsContent(m)
      BY <3>1 DEF RightData
    <3>2. CASE ~SendsContent(m)
      <4>1. now.data = is.data /\ record[m].stamp <= record[a].stamp
        BY <1>0, <2>2, <3>2 DEF SendsContent
      <4> QED
        BY <2>1, <2>4, <4>1 DEF RightData
    <3> QED
      BY <3>1, <3>2
  <2>7. RightVisibility(now, m, p.stamp)
    <3>1. CASE SendsVisibility(m)
      BY <3>1 DEF RightVisibility
    <3>2. CASE ~SendsVisibility(m)
      <4>1. /\ now.hidden = record[a].cache[m].hidden
            /\ stamp[ContentOf[m]].visibility <= record[a].stamp
        BY <1>0, <2>1, <2>2, <3>2 DEF SendsVisibility
      <4>2. \/ record[a].cache[m].hidden = hidden[ContentOf[m]]
            \/ NewerThan(ContentOf[m], "visibility", record[a].stamp)
        BY <2>2 DEF RecordInv, VisibilityInv
      <4>3. ~(StampOf(ContentOf[m], "visibility") > record[a].stamp)
        BY <1>0, <4>1 DEF StampOf
      <4> QED
        BY <4>1, <4>2, <4>3 DEF NewerThan, RightVisibility
    <3> QED
      BY <3>1, <3>2
  <2> QED
    BY <2>5, <2>6, <2>7 DEF Done
<1> QED
  BY <1>2, <1>3

\* Whatever page the answer's script is run on, so far it has done its work on
\* what the walk has passed, unless it has thrown.
LEMMA EmitNodes ==
  ASSUME TypeInv, RecordInv, OldInv, Emit, NEW m \in Nodes, m = scan.at,
         NEW p \in Polls, p = Scanned, ScanSeen(p.stamp),
         NEW D \in [Nodes -> Divs], NEW r, r = Script(D, p.buffer),
         \A n \in Nodes : AtNode(p, D, r, n),
         NEW s, s = Script(D, p.buffer \o Updates(m))
  PROVE  \A n \in Nodes : IF n <= m THEN Done(p, n, D[n], s.divs[n], s.ok)
                                    ELSE ToCome(p, n, D[n], s.divs[n], s.ok)'
<1> DEFINE o == p.old
           sends == SendsVisibility(m) \/ SendsContent(m)
<1>0. /\ o \in Int /\ o = Scanned.old /\ p.buffer \in Seq(Statements)
      /\ scan.pc = "emit" /\ Flux = {} /\ record' = record /\ TypeOK
      /\ \A n \in Nodes : n \in Nat
      /\ \A n \in Nodes : n \in Below(m) => n > m
  <2>1. o \in Int /\ o = Scanned.old /\ p.buffer \in Seq(Statements)
    BY DEF Polls
  <2>2. scan.pc = "emit" /\ Flux = {} /\ record' = record /\ TypeOK
    BY DEF Emit, Flux, TypeInv
  <2> QED
    BY <2>1, <2>2, Tree DEF Below, Within
<1>1. /\ r \in States /\ s \in States
      /\ ~r.ok \/ ~sends => s = r
      /\ r.ok /\ r.divs[m].id # record[m].id /\ sends => ~s.ok /\ s.divs = r.divs
      /\ r.ok /\ r.divs[m].id = record[m].id =>
           /\ s.ok
           /\ s.divs[m].id = record[m].id
           /\ s.divs[m].data = IF SendsContent(m) THEN record[m].cache[m].data
                                                  ELSE r.divs[m].data
           /\ s.divs[m].hidden = IF SendsVisibility(m) THEN hidden[ContentOf[m]]
                                                       ELSE r.divs[m].hidden
           /\ \A n \in Nodes \ {m} :
                s.divs[n] = IF SendsContent(m) /\ n \in Below(m) THEN record[m].cache[n]
                                                                 ELSE r.divs[n]
  <2>1. PICK b \in Seq(Statements) : r = Script(D, b) /\ s = Script(D, b \o Updates(m))
    BY <1>0
  <2>2. /\ r \in States /\ s \in States
        /\ ~r.ok \/ (~SendsVisibility(m) /\ ~SendsContent(m)) => s = r
        /\ r.ok /\ r.divs[m].id # record[m].id /\ (SendsVisibility(m) \/ SendsContent(m)) =>
             ~s.ok /\ s.divs = r.divs
    BY <1>0, <2>1, UpdatesDo
  <2>3. r.ok /\ r.divs[m].id = record[m].id =>
          /\ s.ok
          /\ s.divs[m].id = record[m].id
          /\ s.divs[m].data = IF SendsContent(m) THEN record[m].cache[m].data
                                                 ELSE r.divs[m].data
          /\ s.divs[m].hidden = IF SendsVisibility(m) THEN hidden[ContentOf[m]]
                                                      ELSE r.divs[m].hidden
          /\ \A n \in Nodes \ {m} :
               s.divs[n] = IF SendsContent(m) /\ n \in Below(m) THEN record[m].cache[n]
                                                                ELSE r.divs[n]
    BY SMTT(30), <1>0, <2>1, UpdatesDo
  <2> QED
    BY <2>2, <2>3
<1>2. /\ ToCome(p, m, D[m], r.divs[m], r.ok)
      /\ \A n \in Nodes : n < m => Done(p, n, D[n], r.divs[n], r.ok)
      /\ \A n \in Nodes : n > m => ToCome(p, n, D[n], r.divs[n], r.ok)
  BY <1>0 DEF AtNode
<1>3. /\ scan.old[m] = o => \A n \in Nodes : n > m => scan.old[n] = o
      /\ \A n \in Nodes : n > m =>
           IF SendsContent(m) /\ n \in Below(m)
           THEN Cover(m, n, o)' /\ scan'.old[n] # o
           ELSE /\ scan'.old[n] = scan.old[n]
                /\ \A a \in Nodes : Cover(a, n, o) => Cover(a, n, o)'
  BY <1>0, CoverEmits
\* a script that throws here has not come to what it has not passed
<1>4. ASSUME r.ok, ~s.ok
      PROVE  s.divs = r.divs /\ \A n \in Nodes : n >= m => r.divs[n] = D[n]
  <2>1. r.divs[m].id # record[m].id /\ s.divs = r.divs
    BY <1>1, <1>4
  <2>2. scan.old[m] = o
    <3>1. ASSUME NEW a \in Nodes, Cover(a, m, o), r.divs[m] = record[a].cache[m]
          PROVE  FALSE
      BY <1>0, <2>1, <3>1, CoverFits
    <3> QED
      BY <1>2, <1>4, <3>1 DEF ToCome
  <2>3. ASSUME NEW n \in Nodes, n >= m
        PROVE  r.divs[n] = D[n]
    <3>1. ToCome(p, n, D[n], r.divs[n], r.ok) /\ scan.old[n] = o
      <4>1. n = m \/ n > m
        BY <1>0, <2>3
      <4> QED
        BY <1>2, <1>3, <2>2, <4>1
    <3> QED
      BY <3>1 DEF ToCome
  <2> QED
    BY <2>1, <2>3
<1>5. ~r.ok => s = r /\ \A n \in Nodes : n >= m => r.divs[n] = D[n]
  <2>1. ASSUME ~r.ok, NEW n \in Nodes, n >= m
        PROVE  r.divs[n] = D[n]
    <3>1. n = m \/ n > m
      BY <1>0, <2>1
    <3> QED
      BY <1>2, <2>1, <3>1 DEF ToCome
  <2> QED
    BY <1>1, <2>1
<1>6. s.ok => r.ok /\ (~sends \/ r.divs[m].id = record[m].id)
  BY <1>1
<1>7. ASSUME NEW n \in Nodes, n # m, ~(SendsContent(m) /\ n \in Below(m))
      PROVE  s.divs[n] = r.divs[n]
  BY <1>1, <1>7
<1>8. ASSUME NEW n \in Nodes, n < m
      PROVE  Done(p, n, D[n], s.divs[n], s.ok)
  <2>1. s.divs[n] = r.divs[n]
    BY <1>0, <1>7, <1>8
  <2> QED
    BY <1>2, <1>6, <1>8, <2>1 DEF Done
<1>9. Done(p, m, D[m], s.divs[m], s.ok)
  <2>1. CASE ~s.ok
    <3>1. s.divs[m] = D[m]
      BY <1>0, <1>4, <1>5, <2>1
    <3> QED
      BY <2>1, <3>1 DEF Done
  <2>2. CASE s.ok
    <3>1. r.ok /\ (~sends \/ r.divs[m].id = record[m].id)
      BY <1>6, <2>2
    <3>2. D[m] \in Divs /\ r.divs[m] \in Divs /\ s.divs[m] \in Divs
      BY <1>1 DEF States
    <3>3. ToCome(p, m, D[m], r.divs[m], TRUE)
      BY <1>2, <3>1 DEF ToCome
    <3>4. PICK was \in Divs, is \in Divs, now \in Divs :
            was = D[m] /\ is = r.divs[m] /\ now = s.divs[m]
      BY <3>2
    <3>5. \/ ~SendsVisibility(m) /\ ~SendsContent(m) /\ now = is
          \/ /\ is.id = record[m].id /\ now.id = record[m].id
             /\ now.data = IF SendsContent(m) THEN record[m].cache[m].data ELSE is.data
             /\ now.hidden = IF SendsVisibility(m) THEN hidden[ContentOf[m]] ELSE is.hidden
      BY <1>1, <3>1, <3>4
    <3>6. Done(p, m, was, now, TRUE)
      BY ZenonT(30), <1>0, <3>3, <3>4, <3>5, EmitsOwn
    <3> QED
      BY <2>2, <3>4, <3>6 DEF Done
  <2> QED
    BY <2>1, <2>2
<1>10. ASSUME NEW n \in Nodes, n > m
       PROVE  ToCome(p, n, D[n], s.divs[n], s.ok)'
  <2>1. ~s.ok => s.divs[n] = D[n]
    BY <1>0, <1>4, <1>5, <1>10
  <2>2. CASE SendsContent(m) /\ n \in Below(m)
    <3>1. Cover(m, n, o)' /\ scan'.old[n] # o
      BY <1>3, <1>10, <2>2
    <3>2. s.ok => s.divs[n] = record'[m].cache[n]
      BY <1>0, <1>1, <1>6, <1>10, <2>2
    <3> QED
      BY <2>1, <3>1, <3>2 DEF ToCome
  <2>3. CASE ~(SendsContent(m) /\ n \in Below(m))
    <3>1. s.divs[n] = r.divs[n]
      BY <1>0, <1>7, <1>10, <2>3
    <3>2. /\ scan'.old[n] = scan.old[n]
          /\ \A a \in Nodes : Cover(a, n, o) => Cover(a, n, o)'
      BY <1>3, <1>10, <2>3
    <3>3. ToCome(p, n, D[n], r.divs[n], r.ok)
      BY <1>2, <1>10
    <3>4. scan'.old[n] = o => s.divs[n] = D[n]
      BY <3>1, <3>2, <3>3 DEF ToCome
    <3>5. scan'.old[n] # o /\ s.ok =>
            \E a \in Nodes : Cover(a, n, o)' /\ s.divs[n] = record'[a].cache[n]
      BY <1>0, <1>6, <3>1, <3>2, <3>3 DEF ToCome
    <3> QED
      BY <2>1, <3>4, <3>5 DEF ToCome
  <2> QED
    BY <2>2, <2>3
<1> QED
  BY <1>0, <1>8, <1>9, <1>10

-----------------------------------------------------------------------------
(* The walk goes on.                                                       *)

\* Between two nodes nothing that the walk has passed is touched.
LEMMA WalkKeeps ==
  ASSUME TypeInv, [Next]_vars, ~Restart, scan.pc # "none", ~EndScan, ~Emit
  PROVE  /\ scan'.pc # "none" /\ scan'.at = scan.at /\ scan'.old = scan.old
         /\ Scanned' = Scanned
         /\ \A n \in Nodes : n < scan.at => record'[n] = record[n]
<1>1. PICK k \in Clients, i \in 1..MaxPolls : WalksFor(k, i)
  BY Walks DEF TypeInv
<1>2. Scanned' = Scanned /\ (scan' = scan \/ Scan)
  <2>1. scan'.of = scan.of /\ poll'[k][i] = poll[k][i] /\ (scan' = scan \/ Scan)
    BY <1>1, WalkGoesOn
  <2> QED
    BY <1>1, <2>1 DEF WalksFor, Scanned
<1>3. \A n \in Nodes : n \in Nat
  BY Tree
<1>4. CASE Check
  <2>1. /\ scan'.at = scan.at /\ scan'.old = scan.old /\ scan'.pc \in {"start", "emit"}
    BY <1>4, CheckTypes
  <2> QED
    BY <1>2, <1>4, <2>1 DEF Check
<1>5. CASE RenderStart
  <2>1. /\ scan'.at = scan.at /\ scan'.old = scan.old /\ scan'.pc = "body"
        /\ scan.next \in Flux /\ \A n \in Nodes : n # scan.next => record'[n] = record[n]
    BY <1>5, RenderStartTypes
  <2>2. \A n \in Nodes : n < scan.at => n # scan.next
    BY <1>3, <2>1, FluxIs
  <2> QED
    BY <1>2, <2>1, <2>2
<1>6. CASE RenderBody
  <2>1. /\ scan'.at = scan.at /\ scan'.old = scan.old /\ scan'.pc \in {"emit", "start"}
        /\ scan.at \in Nodes
    BY <1>6, RenderBodyTypes
  <2>2. \A n \in Nodes : n \notin Flux => record'[n] = record[n]
    BY <1>6, Draws
  <2>3. \A n \in Nodes : n < scan.at => n \notin Flux
    BY <1>3, <2>1, FluxIs
  <2> QED
    BY <1>2, <2>1, <2>2, <2>3
<1>7. CASE ~Scan
  <2>1. ASSUME NEW l \in Clients, NEW j \in 1..MaxPolls, Asking(l, j) \/ Lose(l, j)
        PROVE  record' = record
    BY <2>1 DEF Asking, Refresh, Timeout, Snapshot, BeginScan, Deliver, Lose, serverVars
  <2>2. record' = record
    <3>1. \/ UNCHANGED vars \/ Change \/ \E w \in Writers : Stamping(w)
          \/ \E l \in Clients, j \in 1..MaxPolls : Asking(l, j) \/ Lose(l, j)
      BY <1>7 DEF Next
    <3>2. UNCHANGED vars \/ Change \/ (\E w \in Writers : Stamping(w)) => record' = record
      BY DEF vars, serverVars, Change, ChangeData, Toggle, Stamping, TakeStamp, StoreStamp
    <3> QED
      BY <2>1, <3>1, <3>2
  <2> QED
    BY <1>2, <1>7, <2>2
<1> QED
  BY <1>4, <1>5, <1>6, <1>7 DEF Scan

LEMMA CoverKept ==
  ASSUME scan'.at = scan.at, scan'.old = scan.old,
         \A n \in Nodes : n < scan.at => record'[n] = record[n],
         NEW a \in Nodes, NEW n \in Nodes, NEW o, Cover(a, n, o)
  PROVE  Cover(a, n, o)'
<1>1. /\ n \in Below(a) /\ a < scan.at
      /\ scan.old[n] = record[a].stamp /\ record[a].stamp > o
      /\ \A b \in Below(a) : b < scan.at /\ n \in Below(b) => record[b].stamp = record[a].stamp
  BY DEF Cover
<1>2. Below(a) \subseteq Nodes
  BY DEF Below
<1>3. /\ n \in Below(a) /\ a < scan'.at
      /\ scan'.old[n] = record'[a].stamp /\ record'[a].stamp > o
      /\ \A b \in Below(a) : b < scan'.at /\ n \in Below(b) =>
            record'[b].stamp = record'[a].stamp
  BY <1>1, <1>2
<1> QED
  BY <1>3 DEF Cover, Below, Within

LEMMA OldStep ==
  ASSUME TypeInv, TypeInv', RecordInv, OldInv, [Next]_vars, ~Restart
  PROVE  OldInv'
<1> SUFFICES ASSUME scan'.pc # "none"
             PROVE  /\ \A n \in Nodes : n >= scan'.at =>
                         \/ scan'.old[n] = (Scanned.old)'
                         \/ \E a \in Nodes : Cover(a, n, Scanned.old)'
                    /\ \A n \in Nodes, a \in Nodes :
                         n >= scan'.at /\ n \in Below(a) /\ a < scan'.at
                         /\ scan'.old[n] = (Scanned.old)' => record'[a].stamp <= (Scanned.old)'
  BY DEF OldInv, Below, Within
<1>0. \A n \in Nodes : n \in Nat /\ n >= 1
  BY Tree
<1>1. CASE scan.pc = "none"
  <2>1. PICK k \in Clients, i \in 1..MaxPolls : BeginScan(k, i)
    BY <1>1, WalkBegins
  <2>2. /\ WalksFor(k, i)' /\ scan'.at = 1
        /\ \A n \in Nodes : scan'.old[n] = poll[k][i].old
        /\ OnlyPoll(k, i, [poll[k][i] EXCEPT !.pc = "scanning"])
    BY <2>1, BeginScanTypes DEF Root
  <2>3. (Scanned.old)' = poll[k][i].old
    <3>1. poll[k][i] \in Polls
      BY Types DEF TypeInv
    <3>2. Scanned' = poll'[k][i]
      BY <2>2 DEF WalksFor
    <3>3. poll'[k][i] = [poll[k][i] EXCEPT !.pc = "scanning"]
      BY <2>2 DEF OnlyPoll
    <3> QED
      BY <3>1, <3>2, <3>3 DEF Polls
  <2> QED
    BY <1>0, <2>2, <2>3
<1>2. CASE Emit
  <2>1. PICK k \in Clients, i \in 1..MaxPolls : WalksFor(k, i)
    BY <1>2, Walks DEF TypeInv, Emit
  <2>2. PICK m \in Nodes : m = scan.at
    BY <1>2, <2>1, EmitTypes
  <2>3. PICK o \in Int : o = Scanned.old
    BY <1>2, WalkTypes DEF Emit
  <2>4. scan'.at = m + 1 /\ (Scanned.old)' = o /\ record' = record
    <3>1. PICK q \in Polls : OnlyPoll(k, i, q) /\ q.old = poll[k][i].old
      BY <1>2, <2>1, EmitTypes
    <3>2. WalksFor(k, i)' /\ scan'.at = scan.at + 1
      BY <1>2, <2>1, EmitTypes
    <3>3. poll'[k][i] = q
      BY <3>1 DEF OnlyPoll
    <3> QED
      BY <1>2, <2>1, <2>2, <2>3, <3>1, <3>2, <3>3 DEF WalksFor, Emit
  <2>5. /\ \A n \in Nodes : n > m =>
              IF SendsContent(m) /\ n \in Below(m)
              THEN Cover(m, n, o)' /\ scan'.old[n] # o
              ELSE /\ scan'.old[n] = scan.old[n]
                   /\ \A a \in Nodes : Cover(a, n, o) => Cover(a, n, o)'
        /\ \A n \in Nodes, a \in Nodes :
              n > m /\ n \in Below(a) /\ a <= m /\ scan'.old[n] = o => record[a].stamp <= o
    BY <1>2, <2>2, <2>3, CoverEmits
  <2>6. ASSUME NEW n \in Nodes, n >= scan'.at
        PROVE  scan'.old[n] = o \/ \E a \in Nodes : Cover(a, n, o)'
    <3>1. n > m /\ n >= scan.at
      BY <1>0, <2>2, <2>4, <2>6
    <3>2. scan.old[n] = o \/ \E a \in Nodes : Cover(a, n, o)
      BY <1>2, <2>3, <3>1 DEF OldInv, Emit
    <3> QED
      BY <2>5, <3>1, <3>2
  <2>7. ASSUME NEW n \in Nodes, NEW a \in Nodes, n >= scan'.at, n \in Below(a), a < scan'.at,
               scan'.old[n] = o
        PROVE  record'[a].stamp <= o
    <3>1. n > m /\ a <= m
      BY <1>0, <2>4, <2>7
    <3> QED
      BY <2>4, <2>5, <2>7, <3>1
  <2> QED
    BY <2>4, <2>6, <2>7
<1>3. CASE scan.pc # "none" /\ ~Emit
  <2>1. ~EndScan
    BY DEF EndScan, NoScan
  <2>2. /\ scan'.at = scan.at /\ scan'.old = scan.old /\ Scanned' = Scanned
        /\ \A n \in Nodes : n < scan.at => record'[n] = record[n]
    BY <1>3, <2>1, WalkKeeps
  <2>3. PICK o : o = Scanned.old
    OBVIOUS
  <2>4. \A a \in Nodes, n \in Nodes : Cover(a, n, o) => Cover(a, n, o)'
    BY <2>2, CoverKept
  <2>5. /\ \A n \in Nodes : n >= scan.at => scan.old[n] = o \/ \E a \in Nodes : Cover(a, n, o)
        /\ \A n \in Nodes, a \in Nodes :
             n >= scan.at /\ n \in Below(a) /\ a < scan.at /\ scan.old[n] = o =>
               record[a].stamp <= o
    BY <1>3, <2>3 DEF OldInv
  <2> QED
    BY <2>2, <2>3, <2>4, <2>5
<1> QED
  BY <1>1, <1>2, <1>3

-----------------------------------------------------------------------------
(* What a script does stays done, whatever the server does meanwhile.      *)

LEMMA SeenKeeps ==
  ASSUME TypeInv, ServerKeeps, NEW t \in Int, t <= counter, Seen(t), NEW n \in Nodes
  PROVE  SeenAt(n, t) /\ KeptAt(n, t)
<1>1. \A a \in Nodes : CheckedAt(a, t) /\ Passed(ContentOf[a], "visibility", t)
  BY Tree DEF Seen, Checked, Looked
<1>2. RecordsKept(t)
  BY DEF ServerKeeps
<1> QED
  BY <1>1, <1>2 DEF SeenAt, KeptAt, RecordsKept

LEMMA SeenAtEnd ==
  ASSUME TypeInv, scan.pc = "end", NEW t, ScanSeen(t)
  PROVE  Seen(t)
<1>1. scan.at = NrNodes + 1 /\ NrNodes \in Nat
  BY Tree DEF TypeInv, ScanPlace
<1>2. scan.at - 1 = NrNodes
  BY <1>1
<1>3. Flux = {}
  BY DEF Flux
<1> QED
  BY <1>2, <1>3 DEF ScanSeen, Seen, FluxBehind


LEMMA AnswerScriptStep ==
  ASSUME TypeInv, ServerKeeps, SeenInv, AnswerInv, [Next]_vars, ~Restart,
         NEW D \in [Nodes -> Divs], WalkScript(D), AnswerScript(D)
  PROVE  AnswerScript(D)'
<1> SUFFICES ASSUME NEW k \in Clients, NEW i \in 1..MaxPolls, poll'[k][i].pc = "answered",
                    NEW n \in Nodes, NEW r, r = Script(D, poll'[k][i].buffer)
             PROVE  Done(poll[k][i], n, D[n], r.divs[n], r.ok)'
  BY DEF AnswerScript
<1>1. poll[k][i] \in Polls
  BY Types DEF TypeInv
<1>2. ASSUME NEW p \in Polls, p.stamp <= counter, Seen(p.stamp), p.buffer = poll'[k][i].buffer,
             p.old = poll'[k][i].old, p.stamp = poll'[k][i].stamp,
             Done(p, n, D[n], r.divs[n], r.ok)
      PROVE  Done(poll[k][i], n, D[n], r.divs[n], r.ok)'
  <2>1. p.stamp \in Int
    BY DEF Polls
  <2>2. PICK t \in Int : t = p.stamp
    BY <2>1
  <2>3. SeenAt(n, t) /\ KeptAt(n, t)
    BY <1>2, <2>2, SeenKeeps
  <2>4. SeenAt(n, p.stamp) /\ KeptAt(n, p.stamp)
    BY <2>2, <2>3
  <2>5. StampsKept /\ HiddenKept
    BY DEF ServerKeeps
  <2>6. PICK was, is, ok : was = D[n] /\ is = r.divs[n] /\ ok = r.ok
    OBVIOUS
  <2>7. Done(p, n, was, is, ok)'
    BY <1>2, <2>4, <2>5, <2>6, DoneStays
  <2> QED
    BY <1>2, <2>6, <2>7 DEF Done
<1>3. CASE poll'[k][i] = poll[k][i]
  <2>1. Seen(poll[k][i].stamp) /\ poll[k][i].stamp <= counter
    BY <1>3 DEF SeenInv, AnswerInv, TypeInv, ContextInv
  <2>2. Done(poll[k][i], n, D[n], r.divs[n], r.ok)
    BY <1>3 DEF AnswerScript
  <2> QED
    BY <1>1, <1>2, <1>3, <2>1, <2>2
<1>4. CASE poll'[k][i] # poll[k][i]
  <2>1. PICK q \in Polls : /\ poll'[k][i] = q
                           /\ q = NoPoll \/ IsSent(k, q) \/ GoesOn(poll[k][i], q)
    BY <1>4, RequestSteps DEF OnlyPoll
  <2>2. /\ scan.pc = "end" /\ poll[k][i] = Scanned /\ q.stamp = poll[k][i].stamp
        /\ q.old = poll[k][i].old /\ q.buffer = poll[k][i].buffer
    BY <2>1 DEF NoPoll, IsSent, GoesOn
  <2>3. Scanned.stamp <= counter
    BY <2>2, WalkTypes
  <2>4. Seen(Scanned.stamp)
    BY <2>2, SeenAtEnd DEF SeenInv
  <2>5. Done(Scanned, n, D[n], r.divs[n], r.ok)
    <3>1. n < scan.at
      BY <2>2, Tree DEF TypeInv, ScanPlace
    <3> QED
      BY <2>1, <2>2, <3>1 DEF WalkScript, AtNode
  <2> QED
    BY <1>1, <1>2, <2>1, <2>2, <2>3, <2>4, <2>5
<1> QED
  BY <1>3, <1>4

\* Done speaks of the records, the stamps and what is hidden.
LEMMA DoneSame ==
  ASSUME UNCHANGED <<record, stamp, overtaken, hidden>>,
         \A c, kind : Changing(c, kind)' = Changing(c, kind),
         NEW p, NEW n \in Nodes, NEW was, NEW is, NEW ok, Done(p, n, was, is, ok)
  PROVE  Done(p, n, was, is, ok)'
<1>1. \A c, kind, t : Behind(c, kind, t)' = Behind(c, kind, t)
  BY DEF Behind, StampOf, Overtaken
<1>2. \A a, t : AroundBehind(a, t)' = AroundBehind(a, t)
  BY <1>1 DEF AroundBehind, Below, Within
<1>3. \A t : /\ RightId(is, n, t)' = RightId(is, n, t)
             /\ RightData(is, n, t)' = RightData(is, n, t)
             /\ RightVisibility(is, n, t)' = RightVisibility(is, n, t)
  BY <1>1, <1>2 DEF RightId, RightData, RightVisibility
<1>4. \A o : Quiet(n, o)' = Quiet(n, o)
  BY DEF Quiet, Below, Within
<1> QED
  BY <1>3, <1>4 DEF Done

LEMMA WalkScriptStep ==
  ASSUME TypeInv, TypeInv', RecordInv, ServerKeeps, SeenInv, OldInv, AskInv, [Next]_vars,
         ~Restart, NEW D \in [Nodes -> Divs], WalkScript(D)
  PROVE  WalkScript(D)'
<1> SUFFICES ASSUME scan'.pc # "none", NEW r, r = Script(D, (Scanned.buffer)'), NEW n \in Nodes
             PROVE  AtNode(Scanned, D, r, n)'
  BY DEF WalkScript
<1>0. \A a \in Nodes : a \in Nat /\ a >= 1
  BY Tree
<1>1. CASE scan.pc = "none"
  <2>1. PICK k \in Clients, i \in 1..MaxPolls : BeginScan(k, i)
    BY <1>1, WalkBegins
  <2>2. /\ WalksFor(k, i)' /\ scan'.at = 1 /\ poll[k][i].pc = "ready"
        /\ scan'.old[n] = poll[k][i].old
        /\ OnlyPoll(k, i, [poll[k][i] EXCEPT !.pc = "scanning"])
    BY <2>1, BeginScanTypes DEF Root
  <2>3. PICK p \in Polls : p = Scanned' /\ p.old = poll[k][i].old /\ p.buffer = <<>>
    <3>1. poll[k][i] \in Polls /\ poll[k][i].buffer = <<>>
      BY <2>2, Types DEF TypeInv, AskInv
    <3>2. Scanned' = poll'[k][i]
      BY <2>2 DEF WalksFor
    <3>3. poll'[k][i] = [poll[k][i] EXCEPT !.pc = "scanning"]
      BY <2>2 DEF OnlyPoll
    <3>4. Scanned' \in Polls
      BY <2>2, <3>2 DEF OnlyPoll
    <3> QED
      BY <3>1, <3>2, <3>3, <3>4 DEF Polls
  <2>4. r = Start(D)
    BY <2>3, ScriptEmpty
  <2>5. ToCome(p, n, D[n], r.divs[n], r.ok)'
    BY <2>2, <2>3, <2>4 DEF ToCome, Start
  <2>6. ~(n < scan'.at)
    BY <1>0, <2>2
  <2> QED
    BY <2>3, <2>5, <2>6 DEF AtNode
<1>2. CASE Emit
  <2>1. PICK k \in Clients, i \in 1..MaxPolls : WalksFor(k, i)
    BY <1>2, Walks DEF TypeInv, Emit
  <2>2. PICK m \in Nodes : m = scan.at
    BY <1>2, <2>1, EmitTypes
  <2>3. PICK p \in Polls : p = Scanned
    BY <1>2, WalkTypes DEF Emit
  <2>4. PICK q \in Polls : /\ q = Scanned' /\ q.old = p.old /\ q.stamp = p.stamp
                           /\ q.buffer = p.buffer \o Updates(m) /\ scan'.at = m + 1
    <3>1. PICK q \in Polls : /\ OnlyPoll(k, i, q) /\ q.old = poll[k][i].old
                             /\ q.stamp = poll[k][i].stamp
                             /\ q.buffer = poll[k][i].buffer \o Updates(scan.at)
      BY <1>2, <2>1, EmitTypes
    <3>2. WalksFor(k, i)' /\ scan'.at = scan.at + 1
      BY <1>2, <2>1, EmitTypes
    <3>3. poll'[k][i] = q
      BY <3>1 DEF OnlyPoll
    <3>4. Scanned' = q /\ p = poll[k][i]
      BY <2>1, <2>3, <3>2, <3>3 DEF WalksFor
    <3> QED
      BY <2>2, <3>1, <3>2, <3>4
  <2>5. PICK before : before = Script(D, p.buffer)
    OBVIOUS
  <2>6. \A a \in Nodes : AtNode(p, D, before, a)
    BY <1>2, <2>3, <2>5 DEF WalkScript, Emit
  <2>7. IF n <= m THEN Done(p, n, D[n], r.divs[n], r.ok)
                  ELSE ToCome(p, n, D[n], r.divs[n], r.ok)'
    <3>1. ScanSeen(p.stamp)
      BY <1>2, <2>3 DEF SeenInv, Emit
    <3>2. r = Script(D, p.buffer \o Updates(m))
      BY <2>4
    <3> QED
      BY <1>2, <2>2, <2>3, <2>5, <2>6, <3>1, <3>2, EmitNodes
  <2>8. CASE n <= m
    <3>1. /\ UNCHANGED <<record, stamp, overtaken, hidden>>
          /\ \A c, kind : Changing(c, kind)' = Changing(c, kind)
      <4>1. /\ PassBy(ContentOf[m], "visibility") /\ ContentOf[m] \in Contents
            /\ UNCHANGED <<counter, record, stamp, overtaken, hidden>> /\ "visibility" \in Kinds
        BY ZenonT(30), <1>2, <2>2, Tree DEF Emit, Kinds
      <4>2. Scanned.stamp \in Nat
        BY <1>2, WalkTypes DEF Emit
      <4> QED
        BY <4>1, <4>2, Marks DEF RecordInv
    <3>2. PICK was, is, ok : was = D[n] /\ is = r.divs[n] /\ ok = r.ok
      OBVIOUS
    <3>3. Done(p, n, was, is, ok)
      BY <2>7, <2>8, <3>2
    <3>4. Done(p, n, was, is, ok)'
      BY <3>1, <3>3, DoneSame
    <3>5. Done(q, n, was, is, ok)'
      BY <2>4, <3>4 DEF Done
    <3>6. n < scan'.at
      BY <1>0, <2>4, <2>8
    <3> QED
      BY <2>4, <3>2, <3>5, <3>6 DEF AtNode
  <2>9. CASE ~(n <= m)
    <3>1. ToCome(q, n, D[n], r.divs[n], r.ok)'
      BY <2>4, <2>7, <2>9 DEF ToCome
    <3>2. ~(n < scan'.at)
      BY <1>0, <2>4, <2>9
    <3> QED
      BY <2>4, <3>1, <3>2 DEF AtNode
  <2> QED
    BY <2>8, <2>9
<1>3. CASE scan.pc # "none" /\ ~Emit
  <2>1. ~EndScan
    BY DEF EndScan, NoScan
  <2>2. /\ scan'.at = scan.at /\ scan'.old = scan.old /\ Scanned' = Scanned
        /\ \A a \in Nodes : a < scan.at => record'[a] = record[a]
    BY <1>3, <2>1, WalkKeeps
  <2>3. PICK p \in Polls : p = Scanned /\ p.stamp <= counter /\ ScanSeen(p.stamp)
    BY <1>3, WalkTypes DEF SeenInv
  <2>4. AtNode(p, D, r, n)
    BY <1>3, <2>2, <2>3 DEF WalkScript
  <2>5. PICK was, is, ok : was = D[n] /\ is = r.divs[n] /\ ok = r.ok
    OBVIOUS
  <2>6. CASE n < scan.at
    <3>1. SeenAt(n, p.stamp)
      <4>1. n <= scan.at - 1 /\ \A a \in Nodes : n \in Below(a) => a <= scan.at - 1
        <5>1. scan.at \in Int
          BY Types DEF TypeInv, Scans
        <5> QED
          BY <1>0, <2>6, <5>1 DEF Below, Within
      <4> QED
        BY <2>3, <4>1 DEF ScanSeen, Checked, Looked, SeenAt
    <3>2. KeptAt(n, p.stamp)
      BY <2>2, <2>6 DEF KeptAt
    <3>3. Done(p, n, was, is, ok)
      BY <2>4, <2>5, <2>6 DEF AtNode
    <3>4. StampsKept /\ HiddenKept
      BY DEF ServerKeeps
    <3>5. Done(p, n, was, is, ok)'
      BY <2>3, <3>1, <3>2, <3>3, <3>4, DoneStays
    <3> QED
      BY <2>2, <2>3, <2>5, <2>6, <3>5 DEF AtNode
  <2>7. CASE ~(n < scan.at)
    <3>1. ToCome(p, n, D[n], r.divs[n], r.ok)
      BY <2>4, <2>7 DEF AtNode
    <3>2. \A a \in Nodes : Cover(a, n, p.old) => Cover(a, n, p.old)' /\ record'[a] = record[a]
      <4>1. PICK o : o = p.old
        OBVIOUS
      <4>2. \A a \in Nodes : Cover(a, n, o) => Cover(a, n, o)'
        BY <2>2, CoverKept
      <4> QED
        BY <2>2, <4>1, <4>2 DEF Cover
    <3>3. ToCome(p, n, D[n], r.divs[n], r.ok)'
      BY <2>2, <3>1, <3>2 DEF ToCome
    <3> QED
      BY <2>2, <2>3, <2>7, <3>3 DEF AtNode
  <2> QED
    BY <2>6, <2>7
<1> QED
  BY <1>1, <1>2, <1>3

-----------------------------------------------------------------------------
(* Pages.                                                                  *)

LEMMA RightLater ==
  ASSUME TypeOK, NEW n \in Nodes, NEW s \in Int, NEW t \in Int, s <= t, NEW d
  PROVE  /\ RightId(d, n, t) => RightId(d, n, s)
         /\ RightData(d, n, t) => RightData(d, n, s)
         /\ RightVisibility(d, n, t) => RightVisibility(d, n, s)
<1>1. ASSUME NEW m \in Nodes, NEW kind \in Kinds, Behind(ContentOf[m], kind, t)
      PROVE  Behind(ContentOf[m], kind, s)
  BY <1>1, StampTypes, Tree DEF Behind
<1>2. "content" \in Kinds /\ "visibility" \in Kinds
  BY DEF Kinds
<1>3. AroundBehind(n, t) => AroundBehind(n, s)
  BY <1>1, <1>2 DEF AroundBehind
<1> QED
  BY <1>1, <1>2, <1>3 DEF RightId, RightData, RightVisibility

\* The script of an answer for a page that showed what was right for stamp s:
\* what it leaves alone has not changed between s and the answer.
LEMMA ScriptIsRight ==
  ASSUME TypeOK, NEW p \in Polls, NEW n \in Nodes, NEW was, NEW is, Done(p, n, was, is, TRUE),
         NEW s \in Int, p.old <= s, RightAt(was, n, s)
  PROVE  RightAt(is, n, p.stamp)
<1>0. /\ p.old \in Int
      /\ \A m \in Nodes : /\ StampOf(ContentOf[m], "content") = stamp[ContentOf[m]].content
                          /\ StampOf(ContentOf[m], "visibility") = stamp[ContentOf[m]].visibility
                          /\ stamp[ContentOf[m]].content \in Int
                          /\ stamp[ContentOf[m]].visibility \in Int
  <2>1. \A m \in Nodes : /\ StampOf(ContentOf[m], "content") = stamp[ContentOf[m]].content
                         /\ StampOf(ContentOf[m], "visibility") = stamp[ContentOf[m]].visibility
    BY DEF StampOf
  <2>2. "content" \in Kinds /\ "visibility" \in Kinds /\ \A m \in Nodes : ContentOf[m] \in Contents
    BY Tree DEF Kinds
  <2>3. \A m \in Nodes : /\ StampOf(ContentOf[m], "content") \in Int
                         /\ StampOf(ContentOf[m], "visibility") \in Int
    BY <2>2, StampTypes
  <2>4. p.old \in Int
    BY DEF Polls
  <2> QED
    BY <2>1, <2>3, <2>4
<1>1. Quiet(n, p.old) /\ AroundBehind(n, s) => AroundBehind(n, p.stamp)
  BY <1>0 DEF Quiet, AroundBehind, Behind
<1>2. /\ stamp[ContentOf[n]].content <= p.old /\ Behind(ContentOf[n], "content", s) =>
           Behind(ContentOf[n], "content", p.stamp)
      /\ stamp[ContentOf[n]].visibility <= p.old /\ Behind(ContentOf[n], "visibility", s) =>
           Behind(ContentOf[n], "visibility", p.stamp)
  BY <1>0 DEF Behind
<1>3. RightId(is, n, p.stamp)
  BY <1>1 DEF Done, RightAt, RightId
<1>4. RightData(is, n, p.stamp)
  BY <1>1, <1>2 DEF Done, RightAt, RightData
<1>5. RightVisibility(is, n, p.stamp)
  BY <1>1, <1>2 DEF Done, RightAt, RightVisibility
<1> QED
  BY <1>3, <1>4, <1>5 DEF RightAt

\* A page of another server is drawn from the top.
LEMMA ScriptFromTop ==
  ASSUME TypeOK, RootInv, NEW p \in Polls, NEW n \in Nodes, NEW was, NEW is,
         Done(p, n, was, is, TRUE), p.old = -1, n = Root => was.id = RootId
  PROVE  RightAt(is, n, p.stamp)
<1>1. \A m \in Nodes : stamp[ContentOf[m]].content > -1 /\ stamp[ContentOf[m]].visibility > -1
  <2>1. \A m \in Nodes : /\ StampOf(ContentOf[m], "content") = stamp[ContentOf[m]].content
                         /\ StampOf(ContentOf[m], "visibility") = stamp[ContentOf[m]].visibility
    BY DEF StampOf
  <2>2. "content" \in Kinds /\ "visibility" \in Kinds /\ \A m \in Nodes : ContentOf[m] \in Contents
    BY Tree DEF Kinds
  <2>3. \A m \in Nodes : /\ StampOf(ContentOf[m], "content") > -1
                         /\ StampOf(ContentOf[m], "visibility") > -1
    BY <2>2, StampTypes
  <2> QED
    BY <2>1, <2>3
<1>2. \A m \in Nodes : stamp[ContentOf[m]].content \in Int /\ stamp[ContentOf[m]].visibility \in Int
  BY Types, Tree DEF Stamps
<1>3. RightData(is, n, p.stamp) /\ RightVisibility(is, n, p.stamp)
  BY <1>1, <1>2 DEF Done
<1>4. RightId(is, n, p.stamp)
  <2>1. CASE n = Root
    BY <2>1 DEF Done, RightId, RootInv
  <2>2. CASE n # Root
    <3>1. Root \in Nodes /\ n \in Below(Root)
      BY <2>2, Tree, ConstantsAssumption DEF Below, Within, Root
    <3>2. ~Quiet(n, -1)
      BY <1>1, <1>2, <3>1 DEF Quiet
    <3> QED
      BY <3>2 DEF Done
  <2> QED
    BY <2>1, <2>2
<1> QED
  BY <1>3, <1>4 DEF RightAt

\* An answer brings a page to its stamp; a script that throws spoils nothing.
LEMMA PageDelivered ==
  ASSUME TypeInv, RootInv, PageInv, AnswerInv, AskInv,
         NEW k \in Clients, NEW i \in 1..MaxPolls, Deliver(k, i), AnswerScript(page[k].divs)
  PROVE  /\ page'[k].divs[Root].id = RootId
         /\ page'[k].context = context => \A n \in Nodes :
              RightAt(page'[k].divs[n], n, page'[k].timestamp)
<1>1. PICK p \in Polls, D \in [Nodes -> Divs], ts \in Nat, ctx \in Nat :
            /\ p = poll[k][i] /\ D = page[k].divs /\ ts = page[k].timestamp
            /\ ctx = page[k].context
  <2>1. page[k] \in Pages /\ poll[k][i] \in Polls
    BY BrowserTypes DEF TypeInv
  <2> QED
    BY <2>1, FieldTypes
<1>2. PICK r : r = Script(D, p.buffer)
  OBVIOUS
<1>3. /\ p.pc = "answered" /\ TypeOK
      /\ \/ page'[k] = page[k]
         \/ /\ Newer(k, p) /\ r.ok
            /\ page'[k] = [timestamp |-> p.stamp, context |-> p.context, divs |-> r.divs]
         \/ Newer(k, p) /\ ~r.ok /\ page'[k] = [page[k] EXCEPT !.divs = r.divs]
  BY <1>1, <1>2, Delivers DEF TypeInv
<1>4. /\ p.context = context /\ (p.old # -1 => ctx = context /\ p.old <= ts)
      /\ p.old \in Int /\ p.old >= -1 /\ p.stamp \in Nat
  BY <1>1, <1>3 DEF AnswerInv, AskInv, Polls
<1>5. \A n \in Nodes : Done(p, n, D[n], r.divs[n], r.ok)
  BY <1>1, <1>2, <1>3 DEF AnswerScript
<1>6. /\ D[Root].id = RootId
      /\ ctx = context => \A n \in Nodes : RightAt(D[n], n, ts)
  BY <1>1 DEF PageInv
<1>7. CASE page'[k] = page[k]
  BY <1>1, <1>6, <1>7
<1>8. r.divs[Root].id = RootId
  <2>1. Root \in Nodes /\ \A a \in Nodes : Root \notin Below(a)
    BY Tree DEF Below, Within, Root
  <2>2. ~AroundBehind(Root, p.stamp)
    BY <2>1 DEF AroundBehind
  <2> QED
    BY <1>5, <1>6, <2>1, <2>2 DEF Done, RightId, RootInv
<1>9. CASE /\ r.ok
           /\ page'[k] = [timestamp |-> p.stamp, context |-> p.context, divs |-> r.divs]
  <2>1. ASSUME NEW n \in Nodes
        PROVE  RightAt(r.divs[n], n, p.stamp)
    <3>1. PICK was, is : was = D[n] /\ is = r.divs[n]
      OBVIOUS
    <3>2. Done(p, n, was, is, TRUE)
      BY <1>5, <1>9, <3>1 DEF Done
    <3>3. CASE ctx = context
      <4>1. p.old <= ts /\ ts \in Int /\ RightAt(was, n, ts)
        BY <1>4, <1>6, <3>1, <3>3
      <4> QED
        BY <1>3, <3>1, <3>2, <4>1, ScriptIsRight
    <3>4. CASE ctx # context
      <4>1. p.old = -1 /\ (n = Root => was.id = RootId)
        BY <1>4, <1>6, <3>1, <3>4
      <4> QED
        BY <1>3, <3>1, <3>2, <4>1, ScriptFromTop
    <3> QED
      BY <3>3, <3>4
  <2> QED
    BY <1>8, <1>9, <2>1
<1>10. CASE /\ Newer(k, p) /\ ~r.ok
            /\ page'[k] = [page[k] EXCEPT !.divs = r.divs]
  <2>1. page'[k].divs = r.divs /\ page'[k].timestamp = ts /\ page'[k].context = ctx
    <3>1. page[k] \in Pages
      BY <1>3, Types
    <3> QED
      BY <1>1, <1>10, <3>1 DEF Pages
  <2>2. ASSUME NEW n \in Nodes, ctx = context
        PROVE  RightAt(r.divs[n], n, ts)
    <3>1. ts <= p.stamp
      BY <1>1, <1>4, <1>10, <2>2 DEF Newer
    <3>2. PICK was, is : was = D[n] /\ is = r.divs[n]
      OBVIOUS
    <3>3. /\ RightId(is, n, p.stamp) => RightId(is, n, ts)
          /\ RightData(is, n, p.stamp) => RightData(is, n, ts)
          /\ RightVisibility(is, n, p.stamp) => RightVisibility(is, n, ts)
      BY <1>3, <1>4, <3>1, RightLater
    <3>4. RightAt(was, n, ts) /\ Done(p, n, was, is, FALSE)
      BY <1>5, <1>6, <1>10, <2>2, <3>2 DEF Done
    <3>5. RightId(is, n, ts)
      BY <3>3, <3>4 DEF Done, RightAt, RightId
    <3>6. RightData(is, n, ts)
      BY <3>3, <3>4 DEF Done, RightAt, RightData
    <3>7. RightVisibility(is, n, ts)
      BY <3>3, <3>4 DEF Done, RightAt, RightVisibility
    <3> QED
      BY <3>2, <3>5, <3>6, <3>7 DEF RightAt
  <2> QED
    BY <1>8, <2>1, <2>2
<1> QED
  BY <1>3, <1>7, <1>9, <1>10

LEMMA PageStep ==
  ASSUME TypeInv, RootInv, ServerKeeps, SeenInv, PageInv, AnswerInv, AskInv, [Next]_vars,
         ~Restart, \A D \in [Nodes -> Divs] : AnswerScript(D)
  PROVE  PageInv'
<1>0. page \in [Clients -> Pages] /\ counter \in Nat /\ context' = context /\ RootId \in Nat
  <2>1. context' = context
    BY RequestSteps
  <2> QED
    BY <2>1, Types DEF TypeInv, RootId
<1>1. ASSUME NEW k \in Clients, page'[k] = page[k]
      PROVE  /\ page'[k].divs[Root].id = RootId
             /\ page'[k].context = context' =>
                  \A n \in Nodes : RightAt(page[k].divs[n], n, page[k].timestamp)'
  <2>1. page[k] \in Pages
    BY <1>0
  <2>2. ASSUME page[k].context = context, NEW n \in Nodes
        PROVE  RightAt(page[k].divs[n], n, page[k].timestamp)'
    <3>1. PICK t \in Int : t = page[k].timestamp /\ t <= counter /\ Seen(t)
      BY <2>1, <2>2 DEF Pages, SeenInv, TypeInv, ContextInv
    <3>2. PICK d : d = page[k].divs[n]
      OBVIOUS
    <3>3. SeenAt(n, t) /\ KeptAt(n, t) /\ StampsKept /\ HiddenKept
      BY <3>1, SeenKeeps DEF ServerKeeps
    <3>4. RightAt(d, n, t)
      BY <2>2, <3>1, <3>2 DEF PageInv
    <3>5. RightAt(d, n, t)'
      BY <3>1, <3>3, <3>4, RightStays DEF RightAt
    <3> QED
      BY <1>1, <3>1, <3>2, <3>5
  <2> QED
    BY <1>0, <1>1, <2>2 DEF PageInv
<1>2. CASE page' = page
  BY <1>1, <1>2 DEF PageInv
<1>3. ASSUME NEW k \in Clients, NEW i \in 1..MaxPolls, Deliver(k, i)
      PROVE  PageInv'
  <2>1. /\ \A l \in Clients \ {k} : page'[l] = page[l]
        /\ UNCHANGED serverVars /\ UNCHANGED overtaken
    BY <1>3, Delivers DEF TypeInv
  <2>2. /\ page'[k].divs[Root].id = RootId
        /\ page'[k].context = context => \A n \in Nodes :
             RightAt(page'[k].divs[n], n, page'[k].timestamp)
    <3>1. page[k].divs \in [Nodes -> Divs]
      BY <1>0 DEF Pages
    <3> QED
      BY <1>3, <3>1, PageDelivered
  <2>3. ASSUME NEW n \in Nodes, NEW d, NEW t, RightAt(d, n, t)
        PROVE  RightAt(d, n, t)'
    <3>1. UNCHANGED <<record, stamp, overtaken, hidden, writer>>
      BY <2>1 DEF serverVars
    <3>2. \A c, kind : Changing(c, kind)' = Changing(c, kind)
      BY <3>1 DEF Changing
    <3>3. \A c, kind : Behind(c, kind, t)' = Behind(c, kind, t)
      BY <3>1 DEF Behind, StampOf, Overtaken
    <3>4. AroundBehind(n, t)' = AroundBehind(n, t)
      BY <3>3 DEF AroundBehind, Below, Within
    <3> QED
      BY <2>3, <3>1, <3>2, <3>3, <3>4 DEF RightAt, RightId, RightData, RightVisibility
  <2>4. ASSUME NEW n \in Nodes, page'[k].context = context
        PROVE  RightAt(page[k].divs[n], n, page[k].timestamp)'
    <3>1. PICK d, t : d = page'[k].divs[n] /\ t = page'[k].timestamp
      OBVIOUS
    <3>2. RightAt(d, n, t)'
      BY <2>2, <2>3, <2>4, <3>1
    <3> QED
      BY <3>1, <3>2
  <2> QED
    BY <1>0, <1>1, <2>1, <2>2, <2>4 DEF PageInv
<1> QED
  BY <1>2, <1>3, RequestSteps

\* A server that has just been started
Fresh == /\ TypeOK /\ record = InitialRecord
         /\ scan = NoScan /\ writer = [w \in Writers |-> Idle]

LEMMA FreshRecords == Fresh => RecordInv
<1> SUFFICES ASSUME Fresh PROVE RecordInv
  OBVIOUS
<1> USE DEF Fresh
<1>1. \A c, kind : Changing(c, kind) = {}
  BY DEF Changing, Idle
<1>2. /\ Flux = {} /\ scan.pc = "none"
      /\ \A n \in Nodes : /\ record[n].stamp = -1 /\ record[n].cache = NoNodes
                          /\ n # Root => record[n].id = 0
  BY DEF Flux, NoScan, InitialRecord
<1>3. \A n \in Nodes : NewerThan(ContentOf[n], "content", record[n].stamp)
                       /\ \A a \in Nodes : NewerThan(ContentOf[n], "visibility", record[a].stamp)
  <2>1. \A n \in Nodes : ContentOf[n] \in Contents /\ "content" \in Kinds /\ "visibility" \in Kinds
    BY Tree DEF Kinds
  <2>2. \A n \in Nodes : StampOf(ContentOf[n], "content") > -1
                         /\ StampOf(ContentOf[n], "visibility") > -1
    BY <2>1, StampTypes
  <2> QED
    BY <1>2, <2>2 DEF NewerThan
<1>4. StoreInv /\ DataInv /\ VisibilityInv
  BY <1>1, <1>3 DEF StoreInv, DataInv, VisibilityInv
<1>5. NestedInv
  <2>1. \A a \in Nodes, n \in Nodes : n \in Below(a) => n # Root
    BY Tree DEF Below, Within, Root
  <2>2. \A n \in Nodes : NoNodes[n].id = 0 /\ NoNodes[n].data = 0
    BY DEF NoNodes, NoDiv
  <2> QED
    BY <1>2, <2>1, <2>2 DEF NestedInv
<1>6. FluxInv
  BY <1>2 DEF FluxInv, TopDrawn, Drawn, Complete
<1> QED
  BY <1>4, <1>5, <1>6 DEF RecordInv

\* The inductive invariant: what the server has recorded, what stamps have
\* seen, what scripts do to any page, and what the pages show
ServerInv == TypeInv /\ RootInv /\ RecordInv
RequestInv == AnswerInv /\ AskInv /\ OldInv /\ SeenInv
LiveInv == ServerInv /\ RequestInv /\ PageInv /\ ScriptInv([Nodes -> Divs])

LEMMA LiveInit == Init => LiveInv
<1> SUFFICES ASSUME Init PROVE LiveInv
  OBVIOUS
<1>1. TypeInv /\ RootInv /\ AnswerInv /\ AskInv
  BY TypesInit, AnswersInit, Tree DEF Init, RootInv, InitialRecord, RootId
<1>2. RecordInv
  BY <1>1, FreshRecords DEF Init, TypeInv, Fresh
<1>3. /\ scan.pc = "none" /\ \A k \in Clients, i \in 1..MaxPolls : poll[k][i].pc = "none"
      /\ \A k \in Clients : /\ page[k].context # context
                            /\ page[k].divs[Root].id = RootId
  <2>1. /\ scan.pc = "none" /\ \A k \in Clients, i \in 1..MaxPolls : poll[k][i].pc = "none"
    BY DEF Init, NoScan, NoPoll
  <2>2. LoadedPage.divs[Root].id = RootId /\ LoadedPage.context = 0
    BY Tree DEF LoadedPage, NoNodes, NoDiv
  <2>3. context = 1 /\ \A k \in Clients : page[k] = LoadedPage
    BY DEF Init
  <2> QED
    BY <2>1, <2>2, <2>3
<1>4. OldInv /\ SeenInv /\ PageInv /\ ScriptInv([Nodes -> Divs])
  BY <1>3 DEF OldInv, SeenInv, PageInv, ScriptInv, WalkScript, AnswerScript
<1> QED
  BY <1>1, <1>2, <1>4 DEF LiveInv, ServerInv, RequestInv

\* A restart leaves no request under way, and no page of the new server.
LEMMA LiveRestart ==
  ASSUME LiveInv, ~LateAnswers, Restart, TypeInv', RootInv'
  PROVE  LiveInv'
<1>1. /\ scan'.pc = "none" /\ \A k \in Clients, i \in 1..MaxPolls : poll'[k][i].pc = "none"
      /\ page' = page /\ context' = context + 1
  BY DEF Restart, NoScan, NoPoll, clientVars
<1>2. \A k \in Clients : page[k].context # context' /\ page[k].divs[Root].id = RootId
  <2>1. context \in Int /\ \A k \in Clients : page[k].context \in Int /\ page[k].context <= context
    <3>1. page \in [Clients -> Pages] /\ context \in Int
      BY Types, ConstantsAssumption DEF LiveInv, ServerInv, TypeInv
    <3>2. \A k \in Clients : page[k].context <= context
      BY DEF LiveInv, ServerInv, TypeInv, ContextInv
    <3> QED
      BY <3>1, <3>2, ConstantsAssumption DEF Pages
  <2> QED
    BY <1>1, <2>1 DEF LiveInv, PageInv
<1>3. RecordInv'
  <2>1. Fresh'
    BY DEF TypeInv, Restart, Fresh, InitialRecord, NoScan, Idle, NoNodes, NoDiv, Nodes, Root,
           RootId
  <2>2. Fresh' => RecordInv'
    BY FreshRecords, PTL
  <2> QED
    BY <2>1, <2>2
<1>4. AnswerInv' /\ AskInv' /\ OldInv' /\ SeenInv' /\ PageInv' /\ ScriptInv([Nodes -> Divs])'
  BY <1>1, <1>2 DEF AnswerInv, AskInv, OldInv, SeenInv, PageInv, ScriptInv, WalkScript,
                    AnswerScript, Nodes, Divs
<1> QED
  BY <1>3, <1>4 DEF LiveInv, ServerInv, RequestInv

LEMMA LiveStep ==
  ASSUME LiveInv, ~LateAnswers, [Next]_vars
  PROVE  LiveInv'
<1> USE DEF LiveInv, ServerInv, RequestInv
<1>1. TypeInv' /\ RootInv'
  BY TypesStep
<1>2. CASE Restart
  BY <1>1, <1>2, LiveRestart
<1>3. CASE ~Restart
  <2>1. ServerKeeps /\ RecordInv'
    BY <1>1, <1>3, ServerSteps
  <2>2. AnswerInv' /\ AskInv'
    BY AnswersStep
  <2>3. OldInv'
    BY <1>1, <1>3, OldStep
  <2>4. SeenInv'
    BY <1>1, <1>3, SeenStep
  <2>5. \A D \in [Nodes -> Divs] : WalkScript(D) /\ AnswerScript(D)
    BY DEF ScriptInv
  <2>6. PageInv'
    BY <1>3, <2>1, <2>5, PageStep
  <2>7. ASSUME NEW D \in [Nodes -> Divs]
        PROVE  WalkScript(D)' /\ AnswerScript(D)'
    BY <1>1, <1>3, <2>1, <2>5, WalkScriptStep, AnswerScriptStep
  <2>8. ScriptInv([Nodes -> Divs])'
    BY <2>7 DEF ScriptInv, Nodes, Divs
  <2> QED
    BY <1>1, <2>1, <2>2, <2>3, <2>4, <2>6, <2>8
<1> QED
  BY <1>2, <1>3

\* A div that is right for a stamp which covers all changes of the content
\* and of what is around it shows the content as it is.
LEMMA RightIsUpToDate == LiveInv => UpToDate
<1> SUFFICES ASSUME LiveInv, NEW k \in Clients, NEW n \in Nodes,
                    \A a \in Ancestors(n) : /\ Covers(k, ContentOf[a], "content")
                                            /\ overtaken[ContentOf[a]].content # "now"
             PROVE  /\ Shows(k, n)
                    /\ (/\ Covers(k, ContentOf[n], "visibility")
                        /\ overtaken[ContentOf[n]].visibility # "now") => ShowsVisibility(k, n)
  BY DEF UpToDate
<1> USE DEF LiveInv, ServerInv, RequestInv
<1>1. PICK t \in Int : t = page[k].timestamp
  <2>1. page[k] \in Pages
    BY Types DEF TypeInv
  <2> QED
    BY <2>1 DEF Pages
<1>2. ASSUME NEW a \in Nodes, Within(n, a)
      PROVE  /\ page[k].context = context /\ Changing(ContentOf[a], "content") = {}
             /\ ~Behind(ContentOf[a], "content", t)
  <2>1. /\ page[k].context = context /\ Changing(ContentOf[a], "content") = {}
        /\ t >= stamp[ContentOf[a]].content /\ overtaken[ContentOf[a]].content # "now"
    BY <1>1, <1>2 DEF Ancestors, Covers
  <2>2. StampOf(ContentOf[a], "content") = stamp[ContentOf[a]].content
        /\ Overtaken(ContentOf[a], "content") = overtaken[ContentOf[a]].content
    BY DEF StampOf, Overtaken
  <2>3. StampOf(ContentOf[a], "content") \in Int
    BY StampTypes, Tree DEF TypeInv, Kinds
  <2> QED
    BY <2>1, <2>2, <2>3 DEF Behind
<1>3. /\ Within(n, n) /\ page[k].context = context /\ ~AroundBehind(n, t)
  <2>1. Within(n, n)
    BY Tree DEF Within
  <2> QED
    BY <1>2, <2>1 DEF AroundBehind, Below
<1>4. RightAt(page[k].divs[n], n, t) /\ Seen(t)
  BY <1>1, <1>3 DEF PageInv, SeenInv
<1>5. /\ page[k].divs[n].id = record[n].id
      /\ page[k].divs[n].data = record[n].cache[n].data
  BY <1>2, <1>3, <1>4 DEF RightAt, RightId, RightData
<1>6. record[n].cache[n].data = data[ContentOf[n]]
  <2>1. ~(scan.pc = "body" /\ n = scan.next)
    <3>1. ASSUME scan.pc = "body", n = scan.next
          PROVE  FALSE
      <4>1. scan.at \in Nodes /\ Within(n, scan.at) /\ Flux # {}
        BY <3>1 DEF TypeInv, ScanPlace, Flux
      <4>2. Behind(ContentOf[scan.at], "content", t)
        BY <1>4, <4>1 DEF Seen, FluxBehind
      <4> QED
        BY <1>2, <4>1, <4>2
    <3> QED
      BY <3>1
  <2>2. ~NewerThan(ContentOf[n], "content", record[n].stamp)
    <3>1. stamp[ContentOf[n]].content <= record[n].stamp
      BY <1>2, <1>3, <1>4, Tree DEF Seen, Checked, CheckedAt
    <3>2. StampOf(ContentOf[n], "content") = stamp[ContentOf[n]].content
          /\ record[n].stamp \in Int /\ StampOf(ContentOf[n], "content") \in Int
      BY StampTypes, Tree DEF StampOf, TypeInv, Kinds
    <3> QED
      BY <1>2, <1>3, <3>1, <3>2 DEF NewerThan
  <2> QED
    BY <2>1, <2>2 DEF RecordInv, DataInv
<1>7. ASSUME Covers(k, ContentOf[n], "visibility"), overtaken[ContentOf[n]].visibility # "now"
      PROVE  ShowsVisibility(k, n)
  <2>1. /\ t >= stamp[ContentOf[n]].visibility /\ Changing(ContentOf[n], "visibility") = {}
        /\ StampOf(ContentOf[n], "visibility") = stamp[ContentOf[n]].visibility
        /\ Overtaken(ContentOf[n], "visibility") = overtaken[ContentOf[n]].visibility
    BY <1>1, <1>7 DEF Covers, StampOf, Overtaken
  <2>2. StampOf(ContentOf[n], "visibility") \in Int
    BY StampTypes, Tree DEF TypeInv, Kinds
  <2>3. ~Behind(ContentOf[n], "visibility", t)
    BY <1>7, <2>1, <2>2 DEF Behind
  <2> QED
    BY <1>3, <1>4, <2>1, <2>3 DEF RightAt, RightVisibility, ShowsVisibility
<1> QED
  BY <1>5, <1>6, <1>7 DEF Shows

\* Once a page's stamp covers all changes of a content and of what is around
\* it, the page shows that content as it is, whatever changes, refreshes, lost
\* answers, broken scripts and restarts came before; but for changes whose
\* stamp was stored behind a refresh's back, and answers of a killed server.
THEOREM PagesAreUpToDate ==
  ASSUME ~LateAnswers
  PROVE  Spec => []UpToDate
<1>1. Init => LiveInv
  BY LiveInit
<1>2. LiveInv /\ [Next]_vars => LiveInv'
  BY LiveStep
<1>3. LiveInv => UpToDate
  BY RightIsUpToDate
<1> QED
  BY <1>1, <1>2, <1>3, PTL DEF Spec

-----------------------------------------------------------------------------
(* One request at a time: no script is broken.                             *)

\* A content around n has been rendered after t.
Redrawn(n, t) == \E a \in Nodes : n \in Below(a) /\ record[a].stamp > t

\* d has the id of n, as far as t reaches.
HasId(d, n, t) == d.id = record[n].id \/ Redrawn(n, t)

\* A request under way is for what its page still shows: of this server since
\* the stamp of the page, or all of it.
OwnPageInv == \A k \in Clients, i \in 1..MaxPolls : poll[k][i].pc # "none" =>
  \/ poll[k][i].context = page[k].context /\ poll[k][i].old = page[k].timestamp
  \/ /\ poll[k][i].context = context /\ page[k].context # context
     /\ poll[k][i].old = -1

\* The top record is rendered before anything is sent.
RootDrawn ==
  \/ record[Root].stamp > -1
  \/ /\ \A k \in Clients, i \in 1..MaxPolls : poll[k][i].pc # "answered"
     /\ scan.pc # "none" => scan.at = Root /\ scan.pc \in {"check", "start"} /\ ~TopDrawn

\* What is being rendered is newer than all that browsers have or will get.
TopIsNewer == TopDrawn => \A k \in Clients :
  /\ page[k].context = context => record[scan.at].stamp > page[k].timestamp
  /\ \A i \in 1..MaxPolls : poll[k][i].pc = "answered" =>
       record[scan.at].stamp > poll[k][i].stamp

PageIds == \A k \in Clients : page[k].context = context =>
  \A n \in Nodes : HasId(page[k].divs[n], n, page[k].timestamp)

\* The script of p works on page D, and leaves the nodes before m with their ids.
WorksFor(D, p, m) ==
  LET r == Script(D, p.buffer)
  IN  r.ok /\ \A n \in Nodes : n < m => HasId(r.divs[n], n, p.stamp)

WalkWorks == scan.pc # "none" => WorksFor(page[scan.of[1]].divs, Scanned, scan.at)

AnswersWork == \A k \in Clients, i \in 1..MaxPolls :
  poll[k][i].pc = "answered" => WorksFor(page[k].divs, poll[k][i], NrNodes + 1)

IdInv == TopIsNewer /\ PageIds /\ WalkWorks /\ AnswersWork

OwnInv == OwnPageInv /\ RootDrawn /\ (NeverOvertaken => IdInv)

\* What was not overtaken before, and is not now
LEMMA NotOvertakenBefore ==
  ASSUME TypeInv, [Next]_vars, ~Restart, NeverOvertaken'
  PROVE  NeverOvertaken
<1>1. overtaken \in [Contents -> Histories]
  BY Types DEF TypeInv
<1>2. CASE overtaken' = overtaken
  BY <1>2 DEF NeverOvertaken
<1>3. ASSUME NEW w \in Writers, StoreStamp(w), NEW c \in Contents
      PROVE  overtaken[c] = [content |-> "no", visibility |-> "no"]
  <2>1. overtaken[c] \in Histories /\ overtaken'[c] = [content |-> "no", visibility |-> "no"]
    BY <1>1 DEF NeverOvertaken
  <2>2. overtaken'[c].content = "no" /\ overtaken'[c].visibility = "no"
    BY <2>1
  <2> DEFINE x == writer[w].content
             was == IF writer[w].kind = "content" THEN overtaken[x].content
                                                  ELSE overtaken[x].visibility
             is == IF writer[w].passed THEN "now" ELSE IF was = "now" THEN "past" ELSE was
  <2>3. overtaken' = IF writer[w].kind = "content"
                     THEN [overtaken EXCEPT ![x].content = is]
                     ELSE [overtaken EXCEPT ![x].visibility = is]
    BY <1>3 DEF StoreStamp
  <2>4. is = "no" => was = "no"
    OBVIOUS
  <2> HIDE DEF is
  <2>5. overtaken[c].content = "no" /\ overtaken[c].visibility = "no"
    <3>1. CASE x # c
      <4>1. overtaken'[c] = overtaken[c]
        BY <1>1, <2>3, <3>1
      <4> QED
        BY <2>2, <4>1
    <3>2. CASE x = c /\ writer[w].kind = "content"
      <4>1. overtaken'[c] = [overtaken[c] EXCEPT !.content = is]
        BY <1>1, <2>3, <3>2
      <4>2. overtaken'[c].content = is /\ overtaken'[c].visibility = overtaken[c].visibility
        BY <2>1, <4>1 DEF Histories
      <4> QED
        BY <2>2, <2>4, <3>2, <4>2
    <3>3. CASE x = c /\ writer[w].kind # "content"
      <4>1. overtaken'[c] = [overtaken[c] EXCEPT !.visibility = is]
        BY <1>1, <2>3, <3>3
      <4>2. overtaken'[c].visibility = is /\ overtaken'[c].content = overtaken[c].content
        BY <2>1, <4>1 DEF Histories
      <4> QED
        BY <2>2, <2>4, <3>3, <4>2
    <3> QED
      BY <3>1, <3>2, <3>3
  <2> QED
    BY <2>1, <2>5 DEF Histories
<1>4. CASE UNCHANGED vars \/ Change
  <2>1. overtaken' = overtaken
    BY <1>4 DEF vars, Change, ChangeData, Toggle
  <2> QED
    BY <1>2, <2>1
<1>5. CASE \E w \in Writers : Stamping(w)
  <2>1. overtaken' = overtaken \/ \E w \in Writers : StoreStamp(w)
    BY <1>5 DEF Stamping, TakeStamp
  <2> QED
    BY <1>2, <1>3, <2>1 DEF NeverOvertaken
<1>6. ASSUME NEW k \in Clients, NEW i \in 1..MaxPolls, Asking(k, i) \/ Lose(k, i)
      PROVE  overtaken' = overtaken
  BY <1>6 DEF Asking, Refresh, Timeout, Snapshot, BeginScan, Deliver, Lose
<1>7. CASE Scan
  <2>1. overtaken' = overtaken
    BY <1>7 DEF Scan, Check, RenderStart, RenderBody, Emit, EndScan
  <2> QED
    BY <1>2, <2>1
<1> QED
  BY <1>2, <1>4, <1>5, <1>6, <1>7 DEF Next

\* What has been rendered stays; only what is below the top of a subtree that
\* is being rendered gets a new id.
LEMMA IdsStay ==
  ASSUME TypeInv, TypeInv', [Next]_vars, ~Restart,
         \A n \in Nodes : record[n].stamp <= record'[n].stamp
  PROVE  /\ \A n \in Nodes, t \in Int : Redrawn(n, t) => Redrawn(n, t)'
         /\ \A n \in Nodes : record'[n].id # record[n].id =>
              TopDrawn /\ scan.at \in Nodes /\ n \in Below(scan.at)
         /\ TopDrawn /\ TopDrawn' => /\ scan'.at = scan.at /\ scan.at \in Nodes
                                     /\ record'[scan.at].stamp >= record[scan.at].stamp
         /\ ~TopDrawn /\ TopDrawn' =>
              /\ RenderStart /\ scan'.at = scan.at /\ scan.at \in Nodes
              /\ record'[scan.at].stamp = counter
<1>0. /\ \A n \in Nodes : record[n].stamp \in Int /\ record'[n].stamp \in Int /\ n \in Nat
      /\ scan.pc \in {"start", "body"} => scan.at \in Nodes
  <2>1. \A n \in Nodes : record'[n].stamp \in Int
    <3>1. TypeOK' => \A n \in Nodes : record'[n].stamp \in Int
      <4>1. TypeOK' => record' \in [Nodes -> [id : 0..(nextId' - 1), stamp : -1..counter',
                                              cache : [Nodes -> Divs]]] /\ counter' \in Nat
        BY DEF TypeOK
      <4> QED
        BY <4>1
    <3> QED
      BY <3>1 DEF TypeInv
  <2> QED
    BY <2>1, StampTypes, Tree DEF TypeInv, ScanPlace
<1>1. ASSUME NEW n \in Nodes, NEW t \in Int, Redrawn(n, t)
      PROVE  Redrawn(n, t)'
  <2>1. PICK a \in Nodes : n \in Below(a) /\ record[a].stamp > t
    BY <1>1 DEF Redrawn
  <2>2. record'[a].stamp > t
    BY <1>0, <2>1
  <2> QED
    BY <2>1, <2>2 DEF Redrawn, Below, Within
<1>2. CASE RenderStart
  <2>1. /\ scan.pc = "start" /\ scan.at \in Nodes /\ scan.next \in Flux
        /\ scan'.pc = "body" /\ scan'.at = scan.at /\ scan'.next = scan.next
        /\ \A m \in Nodes : m # scan.next => record'[m] = record[m]
        /\ record'[scan.next].stamp = counter
        /\ scan.next = scan.at => record'[scan.at].id = record[scan.at].id
    BY <1>2, RenderStartTypes
  <2>2. scan.next \in Nodes /\ (scan.next # scan.at => scan.next \in Below(scan.at))
    BY <2>1, FluxIs
  <2>3. scan.next # scan.at => TopDrawn
    BY <2>1, <2>2, Tree DEF TopDrawn
  <2>4. ~TopDrawn => scan.next = scan.at
    BY <2>3
  <2> QED
    BY <1>0, <1>1, <1>2, <2>1, <2>2, <2>3, <2>4
<1>3. CASE RenderBody
  <2>1. /\ scan.pc = "body" /\ scan'.at = scan.at /\ scan.at \in Nodes
    BY <1>3, RenderBodyTypes
  <2>2. \A n \in Nodes : record'[n].id = record[n].id
    BY <1>3, Draws
  <2>3. TopDrawn
    BY <2>1 DEF TopDrawn
  <2> QED
    BY <1>0, <1>1, <2>1, <2>2, <2>3
<1>4. CASE record' = record /\ scan' = scan
  <2>1. TopDrawn' = TopDrawn
    BY <1>4 DEF TopDrawn
  <2>2. TopDrawn => scan.at \in Nodes
    BY <1>0 DEF TopDrawn
  <2> QED
    BY <1>0, <1>1, <1>4, <2>1, <2>2
<1>5. CASE record' = record /\ ~TopDrawn /\ ~TopDrawn'
  BY <1>1, <1>5
<1>6. CASE Check
  <2>1. /\ scan.pc = "check" /\ scan.at \in Nodes /\ scan'.at = scan.at
        /\ scan'.pc = "emit" \/ (scan'.pc = "start" /\ scan'.next = scan.at)
    BY <1>6, CheckTypes
  <2>2. ~TopDrawn /\ ~TopDrawn' /\ record' = record
    BY <1>0, <1>6, <2>1 DEF Check, TopDrawn
  <2> QED
    BY <1>5, <2>2
<1>7. CASE Emit \/ EndScan
  <2>1. record' = record /\ scan.pc \in {"emit", "end"}
    BY <1>7 DEF Emit, EndScan
  <2>2. scan'.pc \in {"check", "end", "none"}
    <3>1. PICK k \in Clients, i \in 1..MaxPolls : WalksFor(k, i)
      BY <2>1, Walks DEF TypeInv
    <3> QED
      BY <1>7, <3>1, EmitTypes, EndScanTypes
  <2>3. ~TopDrawn /\ ~TopDrawn'
    BY <2>1, <2>2 DEF TopDrawn
  <2> QED
    BY <1>5, <2>1, <2>3
<1>8. ASSUME NEW k \in Clients, NEW i \in 1..MaxPolls, BeginScan(k, i)
      PROVE  record' = record /\ ~TopDrawn /\ ~TopDrawn'
  <2>1. scan.pc = "none" /\ scan'.pc = "check"
    BY <1>8, BeginScanTypes
  <2> QED
    BY <1>8, <2>1 DEF BeginScan, TopDrawn
<1>9. CASE UNCHANGED vars \/ Change \/ \E w \in Writers : Stamping(w)
  <2>1. record' = record /\ scan' = scan
    BY <1>9 DEF vars, serverVars, Change, ChangeData, Toggle, Stamping, TakeStamp, StoreStamp
  <2> QED
    BY <1>4, <2>1
<1>10. ASSUME NEW k \in Clients, NEW i \in 1..MaxPolls, Asking(k, i) \/ Lose(k, i)
       PROVE  BeginScan(k, i) \/ (record' = record /\ scan' = scan)
  BY <1>10 DEF serverVars, Asking, Refresh, Timeout, Snapshot, Deliver, Lose
<1> QED
  BY <1>2, <1>3, <1>4, <1>5, <1>6, <1>7, <1>8, <1>9, <1>10 DEF Next, Scan

\* What a stamp knows of the ids stays so, if it is older than what is rendered.
LEMMA HasIdStays ==
  ASSUME TypeInv, TypeInv', [Next]_vars, ~Restart,
         \A n \in Nodes : record[n].stamp <= record'[n].stamp,
         NEW n \in Nodes, NEW t \in Int, TopDrawn => record[scan.at].stamp > t
  PROVE  /\ Redrawn(n, t) => Redrawn(n, t)'
         /\ record'[n].id = record[n].id \/ Redrawn(n, t)
<1>1. Redrawn(n, t) => Redrawn(n, t)'
  BY IdsStay
<1>2. ASSUME record'[n].id # record[n].id
      PROVE  Redrawn(n, t)
  <2>1. TopDrawn /\ scan.at \in Nodes /\ n \in Below(scan.at)
    BY <1>2, IdsStay
  <2> QED
    BY <2>1 DEF Redrawn
<1> QED
  BY <1>1, <1>2

\* A browser has one request under way.
LEMMA OneRequest ==
  ASSUME MaxPolls = 1
  PROVE  \A i, j \in 1..MaxPolls : i = j
OBVIOUS

\* A page changes only when the answer to its request arrives; there is a new
\* answer only at the end of a walk.
LEMMA OwnSteps ==
  ASSUME TypeInv, [Next]_vars, ~Restart, MaxPolls = 1, NEW k \in Clients, NEW i \in 1..MaxPolls
  PROVE  /\ page'[k] # page[k] =>
              Deliver(k, i) /\ poll[k][i].pc = "answered" /\ poll'[k][i] = NoPoll
         /\ poll'[k][i].pc = "answered" =>
              /\ page'[k] = page[k]
              /\ poll'[k][i] = poll[k][i] \/ (EndScan /\ WalksFor(k, i))
<1>1. \A j \in 1..MaxPolls : j = i
  BY OneRequest
<1>2. page'[k] # page[k] => Deliver(k, i)
  <2>1. ASSUME page'[k] # page[k]
        PROVE  \E l \in Clients, j \in 1..MaxPolls : Deliver(l, j)
    BY <2>1, RequestSteps
  <2>2. ASSUME NEW l \in Clients, NEW j \in 1..MaxPolls, Deliver(l, j), page'[k] # page[k]
        PROVE  l = k
    BY <2>2, Delivers DEF TypeInv
  <2> QED
    BY <1>1, <2>1, <2>2
<1>3. ASSUME Deliver(k, i)
      PROVE  poll[k][i].pc = "answered" /\ poll'[k][i] = NoPoll
  <2>1. poll[k][i].pc = "answered" /\ OnlyPoll(k, i, NoPoll)
    BY <1>3, Delivers DEF TypeInv
  <2> QED
    BY <2>1 DEF OnlyPoll
<1>4. NoPoll.pc # "answered"
  BY DEF NoPoll
<1>5. ASSUME poll'[k][i].pc = "answered", poll'[k][i] # poll[k][i]
      PROVE  EndScan /\ WalksFor(k, i)
  <2>1. PICK q \in Polls : /\ poll'[k][i] = q
                           /\ q = NoPoll \/ IsSent(k, q) \/ GoesOn(poll[k][i], q)
    BY <1>5, RequestSteps DEF OnlyPoll
  <2>2. scan.pc = "end" /\ scan'.pc = "none"
    BY <1>5, <2>1 DEF NoPoll, IsSent, GoesOn
  <2>3. PICK l \in Clients, j \in 1..MaxPolls : WalksFor(l, j)
    BY <2>2, Walks DEF TypeInv
  <2>4. EndScan
    BY <2>2, <2>3, WalkGoesOn DEF Emit, Scan, Check, RenderStart, RenderBody
  <2>5. l = k /\ j = i
    <3>1. PICK p \in Polls : OnlyPoll(l, j, p)
      BY <2>3, <2>4, EndScanTypes
    <3> QED
      BY <1>5, <3>1 DEF OnlyPoll
  <2> QED
    BY <2>3, <2>4, <2>5
<1> QED
  BY <1>2, <1>3, <1>4, <1>5

LEMMA OwnPageStep ==
  ASSUME TypeInv, [Next]_vars, ~Restart, MaxPolls = 1, OwnPageInv
  PROVE  OwnPageInv'
<1> SUFFICES ASSUME NEW k \in Clients, NEW i \in 1..MaxPolls, poll'[k][i].pc # "none"
             PROVE  \/ /\ poll'[k][i].context = page'[k].context
                       /\ poll'[k][i].old = page'[k].timestamp
                    \/ /\ poll'[k][i].context = context' /\ page'[k].context # context'
                       /\ poll'[k][i].old = -1
  BY DEF OwnPageInv
<1>1. page'[k] = page[k]
  BY OwnSteps DEF NoPoll
<1>2. CASE poll'[k][i] = poll[k][i]
  <2>1. context' = context
    BY RequestSteps
  <2> QED
    BY <1>1, <1>2, <2>1 DEF OwnPageInv
<1>3. CASE poll'[k][i] # poll[k][i]
  <2>1. PICK q \in Polls : /\ context' = context /\ poll'[k][i] = q
                           /\ q = NoPoll \/ IsSent(k, q) \/ GoesOn(poll[k][i], q)
    BY <1>3, RequestSteps DEF OnlyPoll
  <2> QED
    BY <1>1, <2>1 DEF OwnPageInv, NoPoll, IsSent, GoesOn
<1> QED
  BY <1>2, <1>3

LEMMA RootDrawnStep ==
  ASSUME TypeInv, TypeInv', [Next]_vars, ~Restart, MaxPolls = 1, RootDrawn,
         \A n \in Nodes : record[n].stamp <= record'[n].stamp
  PROVE  RootDrawn'
<1>1. /\ Root \in Nodes /\ record[Root].stamp \in Int
      /\ record'[Root].stamp \in Int /\ counter \in Nat
  <2>1. record'[Root].stamp \in Int
    <3>1. Root \in Nodes
      BY Tree
    <3>2. /\ record' \in [Nodes -> [id : 0..(nextId' - 1), stamp : -1..counter',
                                    cache : [Nodes -> Divs]]]
          /\ counter' \in Nat
      BY DEF TypeInv, TypeOK
    <3> QED
      BY <3>1, <3>2
  <2> QED
    BY <2>1, StampTypes, Tree DEF TypeInv
<1>2. CASE record[Root].stamp > -1
  BY <1>1, <1>2 DEF RootDrawn
<1>3. CASE ~(record[Root].stamp > -1)
  <2>1. /\ \A k \in Clients, i \in 1..MaxPolls : poll[k][i].pc # "answered"
        /\ scan.pc # "none" => scan.at = Root /\ scan.pc \in {"check", "start"} /\ ~TopDrawn
    BY <1>3 DEF RootDrawn
  <2>2. ASSUME NEW k \in Clients, NEW i \in 1..MaxPolls
        PROVE  poll'[k][i].pc # "answered"
    <3>1. ~EndScan
      BY <2>1 DEF EndScan
    <3> QED
      BY <2>1, <3>1, OwnSteps
  <2>3. CASE RenderStart
    <3>1. record'[scan.next].stamp = counter /\ scan.next \in Flux /\ scan.pc = "start"
      BY <2>3, RenderStartTypes
    <3>2. scan.next = Root
      <4>1. scan.at = Root /\ ~(scan.next > scan.at) /\ scan.next \in Nodes
            /\ scan.at <= scan.next
        BY <2>1, <3>1, FluxIs DEF TopDrawn
      <4> QED
        BY <4>1, Tree
    <3> QED
      BY <1>1, <3>1, <3>2 DEF RootDrawn
  <2>4. CASE Check
    <3>1. scan.at = Root /\ scan'.at = Root
          /\ IF record[Root].stamp < stamp[ContentOf[Root]].content
             THEN scan'.pc = "start" /\ scan'.next = Root
             ELSE scan'.pc = "emit"
      BY <2>1, <2>4, CheckTypes
    <3>2. stamp[ContentOf[Root]].content \in Int /\ stamp[ContentOf[Root]].content >= 1
      <4>1. StampOf(ContentOf[Root], "content") = stamp[ContentOf[Root]].content
            /\ ContentOf[Root] \in Contents /\ "content" \in Kinds
        BY Tree DEF StampOf, Kinds
      <4> QED
        BY <4>1, StampTypes DEF TypeInv
    <3>3. scan'.pc = "start" /\ scan'.next = Root
      BY <1>1, <1>3, <3>1, <3>2
    <3>4. ~TopDrawn'
      BY <3>1, <3>3, Tree DEF TopDrawn
    <3> QED
      BY <2>2, <3>1, <3>3, <3>4 DEF RootDrawn
  <2>5. ASSUME NEW k \in Clients, NEW i \in 1..MaxPolls, BeginScan(k, i)
        PROVE  RootDrawn'
    <3>1. scan'.pc = "check" /\ scan'.at = Root
      BY <2>5, BeginScanTypes
    <3>2. ~TopDrawn'
      BY <3>1 DEF TopDrawn
    <3> QED
      BY <2>2, <3>1, <3>2 DEF RootDrawn
  <2>6. CASE scan' = scan
    <3>1. TopDrawn' = TopDrawn
      BY <2>6 DEF TopDrawn
    <3> QED
      BY <2>1, <2>2, <2>6, <3>1 DEF RootDrawn
  <2>7. CASE scan' # scan
    <3>1. ~RenderBody /\ ~Emit /\ ~EndScan
      BY <2>1 DEF RenderBody, Emit, EndScan
    <3>2. ASSUME scan.pc # "none"
          PROVE  Check \/ RenderStart
      <4>1. PICK k \in Clients, i \in 1..MaxPolls : WalksFor(k, i)
        BY <3>2, Walks DEF TypeInv
      <4> QED
        BY <2>7, <3>1, <3>2, <4>1, WalkGoesOn DEF Scan
    <3>3. ASSUME scan.pc = "none", scan'.pc # "none"
          PROVE  \E k \in Clients, i \in 1..MaxPolls : BeginScan(k, i)
      BY <3>3, WalkBegins
    <3>4. CASE scan.pc = "none" /\ scan'.pc = "none"
      BY <2>2, <3>4 DEF RootDrawn
    <3> QED
      BY <2>3, <2>4, <2>5, <3>2, <3>3, <3>4
  <2> QED
    BY <2>6, <2>7
<1> QED
  BY <1>2, <1>3

\* A subtree is rendered because of a change that nobody has seen.
LEMMA TopNewerStep ==
  ASSUME TypeInv, TypeInv', [Next]_vars, ~Restart, MaxPolls = 1, SeenInv, AnswerInv,
         NeverOvertaken, TopIsNewer,
         \A n \in Nodes : record[n].stamp <= record'[n].stamp
  PROVE  TopIsNewer'
<1> SUFFICES ASSUME TopDrawn', NEW k \in Clients
             PROVE  /\ page'[k].context = context' =>
                         record'[scan'.at].stamp > page'[k].timestamp
                    /\ \A i \in 1..MaxPolls : poll'[k][i].pc = "answered" =>
                         record'[scan'.at].stamp > poll'[k][i].stamp
  BY DEF TopIsNewer
<1>0. /\ page[k].timestamp \in Int /\ counter \in Int
      /\ page[k].context = context => page[k].timestamp <= counter
      /\ \A i \in 1..MaxPolls : /\ poll[k][i].stamp \in Int
                                /\ poll[k][i].pc = "answered" => poll[k][i].stamp <= counter
  <2>1. /\ page[k] \in Pages /\ counter \in Nat
        /\ \A i \in 1..MaxPolls : poll[k][i] \in Polls
    BY Types DEF TypeInv
  <2> QED
    BY SMTT(30), <2>1 DEF Pages, Polls, TypeInv, ContextInv, AnswerInv
<1>1. /\ context' = context
      /\ \A i \in 1..MaxPolls : poll'[k][i].pc = "answered" => poll'[k][i] = poll[k][i]
  <2>1. context' = context
    BY RequestSteps
  <2>2. ~EndScan
    BY DEF EndScan, NoScan, TopDrawn
  <2> QED
    BY <2>1, <2>2, OwnSteps
<1>2. CASE TopDrawn
  <2>1. /\ scan'.at = scan.at /\ scan.at \in Nodes
        /\ record'[scan.at].stamp >= record[scan.at].stamp
    BY <1>2, IdsStay
  <2>2. record[scan.at].stamp \in Int /\ record'[scan.at].stamp \in Int
    <3>1. /\ record' \in [Nodes -> [id : 0..(nextId' - 1), stamp : -1..counter',
                                    cache : [Nodes -> Divs]]]
          /\ counter' \in Nat
      BY DEF TypeInv, TypeOK
    <3>2. record'[scan.at] \in [id : 0..(nextId' - 1), stamp : -1..counter',
                                cache : [Nodes -> Divs]]
      BY <2>1, <3>1
    <3> QED
      BY <2>1, <3>1, <3>2, StampTypes DEF TypeInv
  <2>3. /\ page[k].context = context => record[scan.at].stamp > page[k].timestamp
        /\ \A i \in 1..MaxPolls : poll[k][i].pc = "answered" =>
             record[scan.at].stamp > poll[k][i].stamp
    BY <1>2 DEF TopIsNewer
  <2>4. page'[k].context = context => record[scan.at].stamp > page'[k].timestamp
    <3>1. CASE page'[k] = page[k]
      BY <2>3, <3>1
    <3>2. ASSUME NEW i \in 1..MaxPolls, Deliver(k, i), page'[k] # page[k]
          PROVE  page'[k].context = context => record[scan.at].stamp > page'[k].timestamp
      <4>1. poll[k][i].pc = "answered"
        BY <3>2, Delivers DEF TypeInv
      <4>2. \/ page'[k].timestamp = poll[k][i].stamp
            \/ page'[k].timestamp = page[k].timestamp /\ page'[k].context = page[k].context
        <5>1. PICK p, r : p = poll[k][i] /\ r = Script(page[k].divs, p.buffer)
          OBVIOUS
        <5>2. \/ page'[k] = [timestamp |-> p.stamp, context |-> p.context, divs |-> r.divs]
              \/ page'[k] = [page[k] EXCEPT !.divs = r.divs]
          BY <3>2, <5>1, Delivers DEF TypeInv
        <5>3. page[k] \in Pages
          BY Types DEF TypeInv
        <5> QED
          BY <5>1, <5>2, <5>3 DEF Pages
      <4> QED
        BY <2>3, <4>1, <4>2
    <3>3. 1 \in 1..MaxPolls
      OBVIOUS
    <3> QED
      BY <3>1, <3>2, <3>3, OwnSteps
  <2>5. page'[k].timestamp \in Int
    <3>1. page' \in [Clients -> Pages]
      <4>1. TypeOK' => page' \in [Clients -> Pages]
        BY DEF TypeOK, Pages
      <4> QED
        BY <4>1 DEF TypeInv
    <3>2. page'[k] \in Pages
      BY <3>1
    <3> QED
      BY <3>2 DEF Pages
  <2> QED
    BY <1>0, <1>1, <2>1, <2>2, <2>3, <2>4, <2>5
<1>3. CASE ~TopDrawn
  <2>1. /\ RenderStart /\ scan'.at = scan.at /\ scan.at \in Nodes
        /\ record'[scan.at].stamp = counter
    BY <1>3, IdsStay
  <2>2. page' = page /\ Flux # {}
    <3>1. scan.next \in Flux
      BY <2>1, RenderStartTypes
    <3> QED
      BY <2>1, <3>1 DEF RenderStart, clientVars
  <2>3. ASSUME NEW t \in Int, Seen(t)
        PROVE  counter > t
    <3>1. Behind(ContentOf[scan.at], "content", t)
      BY <2>2, <2>3 DEF Seen, FluxBehind
    <3>2. /\ Overtaken(ContentOf[scan.at], "content") = "no"
          /\ StampOf(ContentOf[scan.at], "content") \in Nat
          /\ StampOf(ContentOf[scan.at], "content") <= counter
      BY <2>1, StampTypes, Tree DEF NeverOvertaken, Overtaken, TypeInv, Kinds
    <3> QED
      BY <1>0, <3>1, <3>2 DEF Behind
  <2>4. /\ page[k].context = context => Seen(page[k].timestamp)
        /\ \A i \in 1..MaxPolls : poll[k][i].pc = "answered" => Seen(poll[k][i].stamp)
    BY DEF SeenInv
  <2> QED
    BY <1>0, <1>1, <2>1, <2>2, <2>3, <2>4
<1> QED
  BY <1>2, <1>3

\* The page keeps its divs' ids; an answer brings all that it has seen.
LEMMA PageIdsStep ==
  ASSUME TypeInv, TypeInv', [Next]_vars, ~Restart, MaxPolls = 1, TopIsNewer, PageIds,
         AnswersWork,
         \A n \in Nodes : record[n].stamp <= record'[n].stamp
  PROVE  PageIds'
<1> SUFFICES ASSUME NEW k \in Clients, page'[k].context = context', NEW n \in Nodes
             PROVE  HasId(page[k].divs[n], n, page[k].timestamp)'
  BY DEF PageIds
<1>1. context' = context
  BY RequestSteps
<1>2. CASE page'[k] = page[k]
  <2>1. PICK d, t : t \in Int /\ d = page[k].divs[n] /\ t = page[k].timestamp
    <3>1. page[k] \in Pages
      BY Types DEF TypeInv
    <3> QED
      BY <3>1 DEF Pages
  <2>2. HasId(d, n, t)
    BY <1>1, <1>2, <2>1 DEF PageIds
  <2>3. TopDrawn => record[scan.at].stamp > t
    BY <1>1, <1>2, <2>1 DEF TopIsNewer
  <2>4. HasId(d, n, t)'
    BY <2>1, <2>2, <2>3, HasIdStays DEF HasId
  <2> QED
    BY <1>2, <2>1, <2>4
<1>3. CASE page'[k] # page[k]
  <2>1. PICK i \in 1..MaxPolls : Deliver(k, i)
    <3>1. 1 \in 1..MaxPolls
      OBVIOUS
    <3> QED
      BY <1>3, <3>1, OwnSteps
  <2>2. PICK p, r : p = poll[k][i] /\ r = Script(page[k].divs, p.buffer)
    OBVIOUS
  <2>3. /\ p.pc = "answered" /\ UNCHANGED serverVars
        /\ \/ r.ok /\ page'[k] = [timestamp |-> p.stamp, context |-> p.context,
                                  divs |-> r.divs]
           \/ ~r.ok
    BY <1>3, <2>1, <2>2, Delivers DEF TypeInv
  <2>4. r.ok /\ \A m \in Nodes : HasId(r.divs[m], m, p.stamp)
    BY <2>2, <2>3, Tree DEF AnswersWork, WorksFor
  <2>5. page'[k].timestamp = p.stamp /\ page'[k].divs = r.divs
    BY <2>3, <2>4
  <2>6. record' = record
    BY <2>3 DEF serverVars
  <2> QED
    BY <2>4, <2>5, <2>6 DEF HasId, Redrawn, Below, Within
<1> QED
  BY <1>2, <1>3

\* What is sent for a node finds its div on the page that has asked: a content
\* around it has been sent with it, or none has been rendered again.
LEMMA EmitWorks ==
  ASSUME TypeInv, RootInv, RecordInv, OldInv, PageInv, WalkScript(page[scan.of[1]].divs),
         OwnPageInv, RootDrawn, PageIds, WalkWorks, Emit
  PROVE  WorksFor(page[scan.of[1]].divs, Scanned', scan.at + 1)
<1>1. PICK k \in Clients, i \in 1..MaxPolls : WalksFor(k, i)
  BY Walks DEF Emit, TypeInv
<1>2. PICK m \in Nodes, D \in [Nodes -> Divs], p \in Polls :
        /\ m = scan.at /\ D = page[k].divs /\ p = Scanned /\ p = poll[k][i]
        /\ scan.of[1] = k /\ p.pc = "scanning" /\ p.context = context
        /\ p.buffer \in Seq(Statements)
  <2>1. scan.of[1] = k /\ Scanned = poll[k][i] /\ poll[k][i].pc = "scanning"
    BY <1>1 DEF WalksFor
  <2>2. page[k] \in Pages /\ poll[k][i] \in Polls
    BY Types DEF TypeInv
  <2>3. scan.at \in Nodes /\ poll[k][i].context = context
    BY <2>1, EmitTypes, <1>1 DEF TypeInv, ContextInv
  <2> QED
    BY <2>1, <2>2, <2>3 DEF Pages, Polls
<1>3. /\ Scanned'.buffer = p.buffer \o Updates(m) /\ Scanned'.stamp = p.stamp
  <2>1. PICK q \in Polls : /\ OnlyPoll(k, i, q) /\ q.stamp = poll[k][i].stamp
                           /\ q.buffer = poll[k][i].buffer \o Updates(scan.at)
    BY <1>1, EmitTypes
  <2>2. WalksFor(k, i)'
    BY <1>1, EmitTypes
  <2> QED
    BY <1>2, <2>1, <2>2 DEF WalksFor, OnlyPoll
<1>4. PICK r, s : r = Script(D, p.buffer) /\ s = Script(D, p.buffer \o Updates(m))
  OBVIOUS
<1>5. /\ scan.pc = "emit" /\ Flux = {} /\ TypeOK
      /\ p.old \in Int /\ \A n \in Nodes : n \in Nat /\ record[n].stamp \in Int
  BY <1>2, StampTypes, Tree DEF Emit, Flux, TypeInv, Polls
<1>6. r.ok /\ \A n \in Nodes : n < m => HasId(r.divs[n], n, p.stamp)
  BY <1>2, <1>4, <1>5 DEF WalkWorks, WorksFor
<1>7. ToCome(p, m, D[m], r.divs[m], TRUE)
  <2>1. AtNode(p, D, r, m) /\ ~(m < scan.at)
    BY <1>2, <1>4, <1>5 DEF WalkScript
  <2> QED
    BY <1>6, <2>1 DEF AtNode, ToCome
<1>8. r.divs[m].id = record[m].id
  <2>1. CASE scan.old[m] # p.old
    <3>1. PICK a \in Nodes : Cover(a, m, p.old) /\ r.divs[m] = record[a].cache[m]
      BY <1>7, <2>1 DEF ToCome
    <3> QED
      BY <1>2, <1>5, <3>1, CoverFits
  <2>2. CASE scan.old[m] = p.old
    <3>1. r.divs[m] = D[m]
      BY <1>7, <2>2 DEF ToCome
    <3>2. \A a \in Nodes : m \in Below(a) => record[a].stamp <= p.old
      <4>1. ASSUME NEW a \in Nodes, m \in Below(a)
            PROVE  record[a].stamp <= p.old
        <5>1. a < scan.at
          BY <1>2, <4>1, Tree
        <5> QED
          BY <1>2, <1>5, <2>2, <4>1, <5>1 DEF OldInv
      <4> QED
        BY <4>1
    <3>3. ~Redrawn(m, p.old)
      BY <1>5, <3>2 DEF Redrawn
    <3>4. CASE p.context = page[k].context /\ p.old = page[k].timestamp
      <4>1. HasId(D[m], m, p.old)
        BY <1>2, <3>4 DEF PageIds
      <4> QED
        BY <3>1, <3>3, <4>1 DEF HasId
    <3>5. CASE p.old = -1
      <4>1. record[Root].stamp > -1
        BY <1>5 DEF RootDrawn
      <4>2. m = Root
        <5>1. Root \in Nodes /\ (m # Root => m \in Below(Root))
          BY Tree, ConstantsAssumption DEF Below, Within, Root
        <5> QED
          BY <1>5, <3>2, <3>5, <4>1, <5>1
      <4> QED
        BY <1>2, <3>1, <4>2 DEF PageInv, RootInv
    <3> QED
      BY <1>2, <3>4, <3>5 DEF OwnPageInv
  <2> QED
    BY <2>1, <2>2
<1>9. /\ s.ok /\ s.divs[m].id = record[m].id
      /\ \A n \in Nodes : n < m => s.divs[n] = r.divs[n]
  <2>1. /\ s.ok /\ s.divs[m].id = record[m].id
        /\ \A n \in Nodes \ {m} :
             s.divs[n] = IF SendsContent(m) /\ n \in Below(m) THEN record[m].cache[n]
                                                              ELSE r.divs[n]
    <3>1. PICK b \in Seq(Statements) : r = Script(D, b) /\ s = Script(D, b \o Updates(m))
      BY <1>2, <1>4
    <3> QED
      BY <1>5, <1>6, <1>8, <3>1, UpdatesDo
  <2>2. \A n \in Nodes : n < m => n # m /\ n \notin Below(m)
    BY Tree
  <2> QED
    BY <2>1, <2>2
<1>10. \A n \in Nodes : n < m + 1 => HasId(s.divs[n], n, p.stamp)
  <2>1. \A n \in Nodes : n < m + 1 => n < m \/ n = m
    BY <1>5
  <2> QED
    BY <1>6, <1>9, <2>1 DEF HasId
<1> QED
  BY ZenonT(30), <1>2, <1>3, <1>4, <1>9, <1>10 DEF WorksFor

LEMMA WalkWorksStep ==
  ASSUME TypeInv, TypeInv', RootInv, RecordInv, OldInv, PageInv, AskInv, [Next]_vars, ~Restart,
         MaxPolls = 1, \A D \in [Nodes -> Divs] : WalkScript(D),
         OwnPageInv, RootDrawn, PageIds, WalkWorks
  PROVE  WalkWorks'
<1> SUFFICES ASSUME scan'.pc # "none"
             PROVE  WorksFor(page[scan.of[1]].divs, Scanned, scan.at)'
  BY DEF WalkWorks
<1>0. \A n \in Nodes : n \in Nat /\ n >= 1
  BY Tree
<1>1. CASE scan.pc = "none"
  <2>1. PICK k \in Clients, i \in 1..MaxPolls : BeginScan(k, i)
    BY <1>1, WalkBegins
  <2>2. /\ WalksFor(k, i)' /\ scan'.at = Root /\ poll[k][i].pc = "ready"
        /\ OnlyPoll(k, i, [poll[k][i] EXCEPT !.pc = "scanning"])
    BY <2>1, BeginScanTypes
  <2>3. Scanned'.buffer = <<>>
    <3>1. poll[k][i] \in Polls /\ poll[k][i].buffer = <<>>
      BY <2>2, Types DEF TypeInv, AskInv
    <3>2. Scanned' = [poll[k][i] EXCEPT !.pc = "scanning"]
      BY <2>2 DEF WalksFor, OnlyPoll
    <3> QED
      BY <3>1, <3>2 DEF Polls
  <2>4. PICK D : D = (page[scan.of[1]].divs)'
    OBVIOUS
  <2>5. Script(D, <<>>).ok
    BY ScriptEmpty DEF Start
  <2>6. \A n \in Nodes : ~(n < scan'.at)
    BY <1>0, <2>2 DEF Root
  <2> QED
    BY <2>3, <2>4, <2>5, <2>6 DEF WorksFor
<1>2. CASE scan.pc # "none"
  <2>1. PICK k \in Clients, i \in 1..MaxPolls : WalksFor(k, i)
    BY <1>2, Walks DEF TypeInv
  <2>2. scan.of[1] = k /\ poll[k][i].pc = "scanning" /\ page'[k] = page[k]
    BY <2>1, OwnSteps DEF WalksFor
  <2>3. page[k].divs \in [Nodes -> Divs]
    <3>1. page[k] \in Pages
      BY Types DEF TypeInv
    <3> QED
      BY <3>1 DEF Pages
  <2>4. ~EndScan
    BY DEF EndScan, NoScan
  <2>5. CASE Emit
    <3>1. WorksFor(page[scan.of[1]].divs, Scanned', scan.at + 1)
      BY <2>2, <2>3, <2>5, EmitWorks
    <3>2. scan'.of = scan.of /\ scan'.at = scan.at + 1 /\ record' = record
      BY <2>1, <2>5, EmitTypes DEF Emit
    <3>3. PICK D, q, m : /\ D = page[k].divs /\ q = Scanned' /\ m = scan.at + 1
      OBVIOUS
    <3>4. WorksFor(D, q, m)'
      BY <2>2, <3>1, <3>2, <3>3 DEF WorksFor, HasId, Redrawn, Below, Within
    <3> QED
      BY <2>2, <3>2, <3>3, <3>4 DEF WorksFor
  <2>6. CASE ~Emit
    <3>1. /\ scan'.at = scan.at /\ Scanned' = Scanned
          /\ \A n \in Nodes : n < scan.at => record'[n] = record[n]
      BY <1>2, <2>4, <2>6, WalkKeeps
    <3>2. scan'.of = scan.of
      BY <1>2, <2>1, <2>4, <2>6, WalkGoesOn
    <3>3. PICK D, p, m : m \in Int /\ D = page[k].divs /\ p = Scanned /\ m = scan.at
      <4>1. scan.at \in Int
        BY Types DEF TypeInv, Scans
      <4> QED
        BY <4>1
    <3>4. WorksFor(D, p, m)
      BY <1>2, <2>2, <3>3 DEF WalkWorks
    <3>5. ASSUME NEW n \in Nodes, n < m, NEW d, NEW t, HasId(d, n, t)
          PROVE  HasId(d, n, t)'
      <4>1. record'[n] = record[n] /\ \A a \in Nodes : n \in Below(a) => record'[a] = record[a]
        <5>1. \A a \in Nodes : n \in Below(a) => a < m
          BY <1>0, <3>3, <3>5, Tree
        <5> QED
          BY <3>1, <3>3, <3>5, <5>1
      <4> QED
        BY <3>5, <4>1 DEF HasId, Redrawn, Below, Within
    <3>6. WorksFor(D, p, m)'
      BY <3>4, <3>5 DEF WorksFor
    <3> QED
      BY <2>2, <3>1, <3>2, <3>3, <3>6 DEF WorksFor
  <2> QED
    BY <2>5, <2>6
<1> QED
  BY <1>1, <1>2

LEMMA AnswersWorkStep ==
  ASSUME TypeInv, TypeInv', AnswerInv, [Next]_vars, ~Restart, MaxPolls = 1, TopIsNewer,
         WalkWorks, AnswersWork,
         \A n \in Nodes : record[n].stamp <= record'[n].stamp
  PROVE  AnswersWork'
<1> SUFFICES ASSUME NEW k \in Clients, NEW i \in 1..MaxPolls, poll'[k][i].pc = "answered"
             PROVE  WorksFor(page[k].divs, poll[k][i], NrNodes + 1)'
  BY DEF AnswersWork
<1>1. /\ page'[k] = page[k]
      /\ poll'[k][i] = poll[k][i] \/ (EndScan /\ WalksFor(k, i))
  BY OwnSteps
<1>2. poll[k][i] \in Polls
  BY Types DEF TypeInv
<1>3. CASE poll'[k][i] = poll[k][i]
  <2>1. PICK D, p, t : t \in Int /\ D = page[k].divs /\ p = poll[k][i] /\ t = p.stamp
    BY <1>2 DEF Polls
  <2>2. WorksFor(D, p, NrNodes + 1)
    BY <1>3, <2>1 DEF AnswersWork
  <2>3. TopDrawn => record[scan.at].stamp > t
    BY <1>3, <2>1 DEF TopIsNewer
  <2>4. ASSUME NEW n \in Nodes, NEW d, HasId(d, n, t)
        PROVE  HasId(d, n, t)'
    BY <2>1, <2>3, <2>4, HasIdStays DEF HasId
  <2>5. WorksFor(D, p, NrNodes + 1)'
    BY <2>1, <2>2, <2>4 DEF WorksFor
  <2> QED
    BY <1>1, <1>3, <2>1, <2>5 DEF WorksFor
<1>4. CASE EndScan /\ WalksFor(k, i)
  <2>1. /\ scan.pc = "end" /\ scan.at = NrNodes + 1
        /\ poll'[k][i].stamp = poll[k][i].stamp /\ poll'[k][i].buffer = poll[k][i].buffer
    <3>1. PICK q \in Polls : /\ OnlyPoll(k, i, q) /\ q.stamp = poll[k][i].stamp
                             /\ q.buffer = poll[k][i].buffer
      BY <1>4, EndScanTypes
    <3>2. poll'[k][i] = q
      BY <3>1 DEF OnlyPoll
    <3> QED
      BY <1>4, <3>1, <3>2, EndScanTypes
  <2>2. WorksFor(page[k].divs, poll[k][i], NrNodes + 1)
    BY <1>4, <2>1 DEF WalkWorks, WalksFor
  <2>3. record' = record
    BY <1>4 DEF EndScan
  <2> QED
    BY <1>1, <2>1, <2>2, <2>3 DEF WorksFor, HasId, Redrawn, Below, Within
<1> QED
  BY <1>1, <1>3, <1>4

LEMMA OwnStep ==
  ASSUME LiveInv, OwnInv, ~LateAnswers, MaxPolls = 1, [Next]_vars
  PROVE  OwnInv'
<1> USE DEF LiveInv, ServerInv, RequestInv, OwnInv
<1>1. TypeInv' /\ RootInv'
  BY TypesStep
<1>2. CASE Restart
  <2>1. /\ scan'.pc = "none" /\ \A k \in Clients, i \in 1..MaxPolls : poll'[k][i].pc = "none"
        /\ page' = page /\ context' = context + 1
    BY <1>2 DEF Restart, NoScan, NoPoll, clientVars
  <2>2. \A k \in Clients : page[k].context # context'
    <3>1. context \in Int
          /\ \A k \in Clients : page[k].context \in Int /\ page[k].context <= context
      <4>1. page \in [Clients -> Pages] /\ context \in Int
        BY Types, ConstantsAssumption DEF TypeInv
      <4>2. \A k \in Clients : page[k].context <= context
        BY DEF TypeInv, ContextInv
      <4> QED
        BY <4>1, <4>2, ConstantsAssumption DEF Pages
    <3> QED
      BY <2>1, <3>1
  <2> QED
    BY <2>1, <2>2 DEF OwnPageInv, RootDrawn, IdInv, TopIsNewer, TopDrawn, PageIds, WalkWorks,
                      AnswersWork
<1>3. CASE ~Restart
  <2>1. \A n \in Nodes : record[n].stamp <= record'[n].stamp
    BY <1>1, <1>3, ServerSteps DEF ServerKeeps
  <2>2. OwnPageInv' /\ RootDrawn'
    BY <1>1, <1>3, <2>1, OwnPageStep, RootDrawnStep
  <2>3. \A D \in [Nodes -> Divs] : WalkScript(D)
    BY DEF ScriptInv
  <2>4. NeverOvertaken' => NeverOvertaken /\ IdInv
    BY <1>3, NotOvertakenBefore
  <2>5. NeverOvertaken /\ IdInv => TopIsNewer'
    BY <1>1, <1>3, <2>1, TopNewerStep DEF IdInv
  <2>6. IdInv => PageIds' /\ AnswersWork'
    BY <1>1, <1>3, <2>1, PageIdsStep, AnswersWorkStep DEF IdInv
  <2>7. IdInv => WalkWorks'
    BY <1>1, <1>3, <2>3, WalkWorksStep DEF IdInv
  <2> QED
    BY <2>2, <2>4, <2>5, <2>6, <2>7 DEF IdInv
<1> QED
  BY <1>2, <1>3

\* With one chain of requests per browser, the script of every answer finds the
\* divs that it changes, whatever is rendered, lost or started again meanwhile,
\* as long as no stamp has been stored behind a refresh's back.
THEOREM ScriptsFindTheirDivs ==
  ASSUME ~LateAnswers, MaxPolls = 1
  PROVE  Spec => []NoBrokenScript
<1>1. Init => LiveInv /\ OwnInv
  <2> SUFFICES ASSUME Init PROVE LiveInv /\ OwnInv
    OBVIOUS
  <2>1. /\ scan.pc = "none" /\ \A k \in Clients, i \in 1..MaxPolls : poll[k][i].pc = "none"
        /\ \A k \in Clients : page[k].context # context
    <3>1. /\ scan = NoScan /\ context = 1 /\ \A k \in Clients : page[k] = LoadedPage
          /\ \A k \in Clients, i \in 1..MaxPolls : poll[k][i] = NoPoll
      BY DEF Init
    <3>2. NoScan.pc = "none" /\ NoPoll.pc = "none" /\ LoadedPage.context = 0
      BY DEF NoScan, NoPoll, LoadedPage
    <3> QED
      BY <3>1, <3>2
  <2> QED
    BY <2>1, LiveInit DEF OwnInv, OwnPageInv, RootDrawn, IdInv, TopIsNewer, TopDrawn, PageIds,
                          WalkWorks, AnswersWork
<1>2. LiveInv /\ OwnInv /\ [Next]_vars => LiveInv' /\ OwnInv'
  BY LiveStep, OwnStep
<1>3. OwnInv => NoBrokenScript
  <2> SUFFICES ASSUME OwnInv, NeverOvertaken, NEW k \in Clients, NEW i \in 1..MaxPolls,
                      poll[k][i].pc = "answered"
               PROVE  Outcome(k, poll[k][i]).ok
    BY DEF NoBrokenScript
  <2>1. Script(page[k].divs, poll[k][i].buffer).ok
    BY DEF OwnInv, IdInv, AnswersWork, WorksFor
  <2>2. PICK D : D = page[k].divs
    OBVIOUS
  <2>3. Script(D, <<>>).ok
    BY ScriptEmpty DEF Start
  <2> QED
    BY <2>1, <2>2, <2>3 DEF Outcome
<1> QED
  BY <1>1, <1>2, <1>3, PTL DEF Spec
=============================================================================
