-------------------------- MODULE MCRequestParser --------------------------
EXTENDS RequestParser

\* one byte for each word of the protocol
P == 80
G == 71
MCPost    == <<P>>
MCLength  == <<76>>
MCCookie  == <<67>>
MCSession == <<83, Equal>>
Version   == <<72>>

a == 97
n == <<110>>
Texts == {<<>>, <<a>>, <<Space, And>>, <<Percent, Plus>>, <<Percent, 52, NewLine>>}

Crlf == <<Return, NewLine>>
Lf   == <<NewLine>>

Get(file, list, fieldList, sent, end) ==
  [method |-> <<G>>, file |-> file, params |-> list, body |-> <<>>,
   version |-> Version, fields |-> fieldList, session |-> sent, eol |-> end]

CookieField(text) == <<MCCookie, <<Space>> \o text>>
S7 == MCSession \o <<55>>

\* names with dots: ordinary ones, and those that lead up
Files ==
  { Get(file, list, <<CookieField(S7)>>, 7, Crlf) :
      file \in {<<Slash>>} \cup {<<Slash>> \o f : f \in
                  UNION {[1..k -> {a, Dot, Slash}] : k \in 1..4}},
      list \in {<<>>} }

\* what a page sends, with values that need escaping
Callbacks ==
  { Get(<<Slash, a>>, list, <<CookieField(S7)>>, 7, end) :
      list \in {<< <<n, x>> >> : x \in Texts} \cup {<< <<n, x>>, <<<<a>>, y>> >> : x, y \in {<<a>>, <<>>, <<Equal>>}},
      end \in {Crlf, Lf} }

\* fields: none, one without colon, several cookies of which one has a session
Others ==
  { Get(<<Slash>>, <<>>, <<>>, NULL, end) : end \in {Crlf, Lf} } \cup
  { Get(<<Slash>>, <<>>, << <<n>>, CookieField(<<a, Equal, a>>) >>, NULL, end) : end \in {Crlf, Lf} } \cup
  { Get(<<Slash>>, <<>>, << CookieField(<<a>>), <<n, <<>>>>,
                            CookieField(<<a, Equal, a, 59, Space>> \o S7 \o <<50>>) >>, 72, Crlf) } \cup
  { [Get(<<Slash, Dot>>, list, <<>>, NULL, end) EXCEPT !.version = <<>>] :
      list \in {<<>>, << <<n, <<a>>>> >>, << <<n>> >>}, end \in {Crlf, Lf} } \cup
  { [Get(<<>>, <<>>, <<>>, NULL, end) EXCEPT !.version = <<>>, !.method = word] :
      word \in {<<G>>, <<G, Space>>}, end \in {Crlf, Lf} }

Post2(list, end) ==
  LET size == Len(Pairs(list, And, FormEncoded))
      digits == IF size < 10 THEN <<48 + size>> ELSE <<48 + size \div 10, 48 + (size % 10)>>
  IN [Get(<<Slash>>, <<>>, <<CookieField(S7), <<MCLength, <<Space>> \o digits>> >>, 7, end)
        EXCEPT !.method = MCPost, !.body = list]

Forms ==
  { Post2(list, end) :
      list \in {<<>>} \cup {<< <<n, x>> >> : x \in Texts}
               \cup {<< <<n, x>>, <<<<a>>, y>> >> : x \in Texts, y \in {<<>>, <<Space>>}},
      end \in {Crlf, Lf} }

\* more than fits, in the header and in the body
Long == [k \in 1..30 |-> a]
TooLong == { Get(<<Slash>> \o Long, <<>>, <<CookieField(S7)>>, 7, Crlf),
             Post2(<< <<n, Long>> >>, Lf) }

MCRequests == Files \cup Callbacks \cup Others \cup Forms \cup TooLong
=============================================================================
