---------------------------- MODULE UriEncoding ----------------------------
(***************************************************************************)
(* The conversions of texts on their way between browser and server:       *)
(* engine/encoder.cpp, and the JavaScript functions on the other side.  A  *)
(* text is a sequence of bytes.  urlDecode (webthread.cpp) is the same     *)
(* algorithm as decodeUriComponent, in place.                              *)
(***************************************************************************)
EXTENDS Integers, SequencesExt

Space   == 32
Percent == 37
Plus    == 43

Digits  == 48..57
Letters == (65..90) \cup (97..122)

\* the digits of a hexadecimal number, in both cases
HexDigits == Digits \cup (65..70) \cup (97..102)

HexValue(c) == IF c \in Digits THEN c - 48
               ELSE IF c \in 97..102 THEN c - 97 + 10
               ELSE c - 65 + 10

\* hexTab of encodeUriComponent
HexTab(n) == IF n < 10 THEN 48 + n ELSE 65 + n - 10

PercentEncoded(text, safe) ==
  FlattenSeq([k \in DOMAIN text |->
                IF text[k] \in safe THEN <<text[k]>>
                ELSE <<Percent, HexTab(text[k] \div 16), HexTab(text[k] % 16)>>])

-----------------------------------------------------------------------------
(* The server.                                                             *)

\* mutant: a percentage is left as it is
isSafe_Percent == HexDigits \cup {Percent}

\* "only alnum is safe", of which the code takes the hexadecimal digits
isSafe == HexDigits

encodeUriComponent(text) == PercentEncoded(text, isSafe)

\* a byte of two digits; c is an unsigned char
ByteAt(text, k) == 16 * HexValue(text[k + 1]) + HexValue(text[k + 2])

\* the percentage at k is followed by two digits
IsEscape(text, k) == /\ k + 2 <= Len(text)
                     /\ text[k + 1] \in HexDigits
                     /\ text[k + 2] \in HexDigits

\* A percentage that is not followed by two digits ends the text.
decodeUriComponent(text) ==
  LET from[k \in 1..Len(text) + 1] ==
        IF k > Len(text) THEN <<>>
        ELSE IF text[k] = Percent
             THEN IF IsEscape(text, k) THEN <<ByteAt(text, k)>> \o from[k + 3]
                                       ELSE <<>>
        ELSE <<IF text[k] = Plus THEN Space ELSE text[k]>> \o from[k + 1]
  IN from[1]

-----------------------------------------------------------------------------
(* The browser.  Bytes above 127 are those of UTF-8, which encodeURIComponent*)
(* makes of a text first.                                                   *)

\* - _ . ! ~ * ' ( )
JsEncodeURIComponent(text) ==
  PercentEncoded(text, Letters \cup Digits \cup {45, 95, 46, 33, 126, 42, 39, 40, 41})

\* @ * _ + - . /
JsEscape(text) ==
  PercentEncoded(text, Letters \cup Digits \cup {64, 42, 95, 43, 45, 46, 47})

\* a form: * - . _ and a plus for a space
FormEncoded(text) ==
  LET safe == Letters \cup Digits \cup {42, 45, 46, 95}
  IN ReplaceAll(PercentEncoded(text, safe \cup {Space}), Space, Plus)

\* No plus for a space, other than on the server.  (Where a browser throws an
\* error, the text ends.)
JsDecodeURIComponent(text) ==
  LET from[k \in 1..Len(text) + 1] ==
        IF k > Len(text) THEN <<>>
        ELSE IF text[k] = Percent
             THEN IF IsEscape(text, k) THEN <<ByteAt(text, k)>> \o from[k + 3]
                                       ELSE <<>>
        ELSE <<text[k]>> \o from[k + 1]
  IN from[1]
=============================================================================
