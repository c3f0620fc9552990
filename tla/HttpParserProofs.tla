-------------------------- MODULE HttpParserProofs --------------------------
(***************************************************************************)
(* Theorems about the request parsers of the HTTP servers, for requests of *)
(* any size.                                                               *)
(***************************************************************************)
EXTENDS HttpParser, SequenceTheorems, WellFoundedInduction, FiniteSetTheorems, TLAPS

Text == Seq(Alphabet)
Headers == [name : Text, value : Text]
Requests ==
  [method : Text, uri : Text, major : Int, minor : Int, headers : Seq(Headers), content : Text]
Versions == [major : Text, minor : Text]

(* The fields of a request other than its headers *)
Fields == {"method", "uri", "major", "minor", "content"}

TargetStates == {"method_start", "method", "uri"}
VersionStates ==
  {"http_version_h", "http_version_t_1", "http_version_t_2", "http_version_p",
   "http_version_slash", "http_version_major_start", "http_version_major",
   "http_version_minor_start", "http_version_minor", "expecting_newline_1"}
ValueStates == {"header_lws", "space_before_header_value", "header_value"}
HeaderStates == {"header_line_start", "header_name", "expecting_newline_2", "expecting_newline_3"}
States == TargetStates \cup VersionStates \cup ValueStates \cup HeaderStates

(* The states in which the last header is being read *)
InHeader == ValueStates \cup {"header_name", "expecting_newline_2"}

(* The state server4 waits in where the state machine is in one of its own *)
Twins ==
  {<<"method_start", "start">>, <<"method", "method">>, <<"uri", "uri">>,
   <<"http_version_h", "H">>, <<"http_version_t_1", "T">>, <<"http_version_t_2", "TT">>,
   <<"http_version_p", "P">>, <<"http_version_slash", "slash">>,
   <<"http_version_major_start", "major_start">>, <<"http_version_major", "major">>,
   <<"http_version_minor_start", "minor_start">>, <<"http_version_minor", "minor">>,
   <<"expecting_newline_1", "crlf">>, <<"expecting_newline_2", "crlf">>,
   <<"header_line_start", "line">>, <<"header_lws", "lws">>, <<"header_name", "name">>,
   <<"space_before_header_value", "colon">>, <<"header_value", "value">>,
   <<"expecting_newline_3", "last">>}

EightBit(r) == \E i \in DOMAIN r.headers : "8bit" \in Range(r.headers[i].value)
Refused(s, r) == (s \notin TargetStates /\ r.uri = <<>>) \/ EightBit(r)

(* What is known of the state machine in state s with request r *)
Fit(s, r) ==
  /\ r \in Requests
  /\ r.content = <<>>
  /\ s = "method_start" => r = NoRequest
  /\ s \in InHeader => r.headers # <<>>
------------------------------------------------------------------------------
(* A text with a character appended is a text, and not empty. *)
LEMMA AppendText ==
  ASSUME NEW t \in Text, NEW c \in Alphabet
  PROVE  Append(t, c) \in Text /\ Append(t, c) # <<>>
<1>1. Append(t, c) \in Text /\ Len(Append(t, c)) = Len(t) + 1 /\ Len(t) \in Nat
  BY DEF Text
<1> QED BY <1>1 DEF Text

(* Push appends to one of the plain texts and keeps the other fields. *)
LEMMA PushFacts ==
  ASSUME NEW r \in Requests, NEW c \in Alphabet, NEW f \in {"method", "uri", "content"}
  PROVE  /\ Push(r, f, c) \in Requests
         /\ Push(r, f, c).headers = r.headers
         /\ Push(r, f, c)[f] = Append(r[f], c)
         /\ Push(r, f, c)[f] # <<>>
         /\ \A g \in Fields \ {f} : Push(r, f, c)[g] = r[g]
<1> DEFINE a == Append(r[f], c)
<1>0. r[f] \in Text
  BY DEF Requests
<1>1. a \in Text /\ a # <<>>
  BY <1>0, AppendText
<1>2. Push(r, f, c) = [r EXCEPT ![f] = a]
  BY DEF Push
<1> HIDE DEF a
<1>3. [r EXCEPT ![f] = a][f] = a /\ [r EXCEPT ![f] = a].headers = r.headers
  BY DEF Requests
<1>4. [r EXCEPT ![f] = a] \in Requests
  BY <1>1 DEF Requests
<1>5. \A g \in Fields \ {f} : [r EXCEPT ![f] = a][g] = r[g]
  BY DEF Requests, Fields
<1> QED BY <1>1, <1>2, <1>3, <1>4, <1>5 DEF a

(* A digit is worth a number. *)
LEMMA WorthFacts == \A c \in Digits : Worth(c) \in Nat
  BY DEF Digits, Worth

(* PushDigit adds a digit to one of the two numbers and keeps the other    *)
(* fields.                                                                 *)
LEMMA PushDigitFacts ==
  ASSUME NEW r \in Requests, NEW c, is_digit(c), NEW f \in {"major", "minor"}
  PROVE  /\ PushDigit(r, f, c) \in Requests
         /\ PushDigit(r, f, c).headers = r.headers
         /\ PushDigit(r, f, c)[f] = AddDigit(r[f], c)
         /\ \A g \in Fields \ {f} : PushDigit(r, f, c)[g] = r[g]
<1> DEFINE a == AddDigit(r[f], c)
<1>1. r[f] \in Int /\ Worth(c) \in Nat
  BY WorthFacts DEF Requests, is_digit
<1>2. a \in Int
  BY <1>1 DEF AddDigit, Undefined
<1>3. PushDigit(r, f, c) = [r EXCEPT ![f] = a]
  BY DEF PushDigit
<1> HIDE DEF a
<1>4. [r EXCEPT ![f] = a][f] = a /\ [r EXCEPT ![f] = a].headers = r.headers
  BY DEF Requests
<1>5. [r EXCEPT ![f] = a] \in Requests
  BY <1>2 DEF Requests
<1>6. \A g \in Fields \ {f} : [r EXCEPT ![f] = a][g] = r[g]
  BY DEF Requests, Fields
<1> QED BY <1>3, <1>4, <1>5, <1>6 DEF a

(* NoVersion sets the numbers to zero and keeps the other fields. *)
LEMMA NoVersionFacts ==
  ASSUME NEW r \in Requests
  PROVE  /\ NoVersion(r) \in Requests
         /\ NoVersion(r).headers = r.headers
         /\ NoVersion(r).major = 0 /\ NoVersion(r).minor = 0
         /\ \A g \in {"method", "uri", "content"} : NoVersion(r)[g] = r[g]
<1> DEFINE m == [r EXCEPT !.major = 0]
           n == [m EXCEPT !.minor = 0]
<1>1. /\ m \in Requests /\ m.major = 0 /\ m.headers = r.headers
      /\ m.method = r.method /\ m.uri = r.uri /\ m.content = r.content
  BY DEF Requests
<1> HIDE DEF m
<1>2. /\ n \in Requests /\ n.major = m.major /\ n.minor = 0 /\ n.headers = m.headers
      /\ n.method = m.method /\ n.uri = m.uri /\ n.content = m.content
  BY <1>1 DEF Requests
<1>3. NoVersion(r) = n
  BY DEF NoVersion, m
<1> HIDE DEF n
<1> QED BY <1>1, <1>2, <1>3

(* ... whether before or after a character is appended to a text. *)
LEMMA NoVersionPush ==
  ASSUME NEW r \in Requests, NEW c, NEW f \in {"method", "uri"}
  PROVE  Push(NoVersion(r), f, c) = NoVersion(Push(r, f, c))
  BY DEF NoVersion, Push, Requests

(* NewHeader appends a header named by its first character. *)
LEMMA NewHeaderFacts ==
  ASSUME NEW r \in Requests, NEW c \in Alphabet
  PROVE  /\ NewHeader(r, c) \in Requests
         /\ NewHeader(r, c).headers = Append(r.headers, Header(<<c>>, <<>>))
         /\ NewHeader(r, c).headers # <<>>
         /\ \A g \in Fields : NewHeader(r, c)[g] = r[g]
<1>1. Header(<<c>>, <<>>) \in Headers
  BY DEF Header, Headers, Text
<1>2. r.headers \in Seq(Headers)
  BY DEF Requests
<1>3. Append(r.headers, Header(<<c>>, <<>>)) \in Seq(Headers)
  BY <1>1, <1>2
<1>4. Append(r.headers, Header(<<c>>, <<>>)) # <<>>
  BY <1>1, <1>2
<1>5. NewHeader(r, c) = [r EXCEPT !.headers = Append(r.headers, Header(<<c>>, <<>>))]
  BY DEF NewHeader, Push
<1> QED BY <1>3, <1>4, <1>5 DEF Requests, Fields

(* In p, field f of the last header of r has a character more, and all the *)
(* rest is the same.                                                       *)
Grown(r, f, c, p) ==
  LET n == Len(r.headers) IN
  /\ p \in Requests
  /\ n \in 1..n
  /\ Len(p.headers) = n /\ DOMAIN p.headers = 1..n
  /\ DOMAIN r.headers = 1..n
  /\ p.headers # <<>>
  /\ \A i \in 1..n - 1 : p.headers[i] = r.headers[i]
  /\ p.headers[n][f] = Append(r.headers[n][f], c)
  /\ \A g \in {"name", "value"} \ {f} : p.headers[n][g] = r.headers[n][g]
  /\ \A g \in Fields : p[g] = r[g]

(* PushHeader appends to a field of the last header. *)
LEMMA PushHeaderFacts ==
  ASSUME NEW r \in Requests, NEW c \in Alphabet, r.headers # <<>>,
         NEW f \in {"name", "value"}
  PROVE  Grown(r, f, c, PushHeader(r, f, c))
<1> DEFINE n == Len(r.headers)
           a == Append(r.headers[n][f], c)
           h == [r.headers[n] EXCEPT ![f] = a]
           hs == [r.headers EXCEPT ![n] = h]
<1>1. r.headers \in Seq(Headers) /\ n \in 1..n /\ DOMAIN r.headers = 1..n
  BY DEF Requests
<1>2. r.headers[n] \in Headers
  BY <1>1
<1>3. r.headers[n][f] \in Text
  BY <1>2 DEF Headers
<1>4. a \in Text
  BY <1>3 DEF Text
<1> HIDE DEF a
<1>5. h \in Headers /\ h[f] = a /\ \A g \in {"name", "value"} \ {f} : h[g] = r.headers[n][g]
  BY <1>2, <1>4 DEF Headers
<1>6. hs \in Seq(Headers) /\ Len(hs) = n /\ DOMAIN hs = 1..n
  BY <1>1, <1>5
<1>7. hs # <<>> /\ hs[n] = h /\ \A i \in 1..n - 1 : hs[i] = r.headers[i]
  BY <1>1, <1>6
<1>8. PushHeader(r, f, c) = [r EXCEPT !.headers = hs]
  BY DEF PushHeader, a
<1> HIDE DEF hs
<1>9. /\ [r EXCEPT !.headers = hs] \in Requests
      /\ [r EXCEPT !.headers = hs].headers = hs
      /\ \A g \in Fields : [r EXCEPT !.headers = hs][g] = r[g]
  BY <1>6 DEF Requests, Fields
<1> HIDE DEF h
<1> QED BY <1>1, <1>5, <1>6, <1>7, <1>8, <1>9 DEF a, Grown
------------------------------------------------------------------------------
(* What consume makes of a fitting state: the outcome o fits, and a        *)
(* request that server4 has refused stays one it refuses.                  *)
Sound(s, r, o) ==
  /\ o.result \in {"more", "good", "bad"}
  /\ o.result = "more" => o.state \in States
  /\ Fit(o.state, o.req)
  /\ Refused(s, r) => Refused(o.state, o.req)

(* A byte above 127 in a value stays there while the headers stay, *)
LEMMA EightBitSame ==
  ASSUME NEW r, NEW q, q.headers = r.headers PROVE EightBit(r) => EightBit(q)
  BY DEF EightBit

(* as they do when a character is appended elsewhere. *)
LEMMA EightBitPush ==
  ASSUME NEW r \in Requests, NEW c \in Alphabet, EightBit(r),
         NEW f \in {"method", "uri", "content"}
  PROVE  EightBit(Push(r, f, c))
  BY PushFacts DEF EightBit

(* It stays when a header is begun. *)
LEMMA EightBitNewHeader ==
  ASSUME NEW r \in Requests, NEW c \in Alphabet, EightBit(r)
  PROVE  EightBit(NewHeader(r, c))
<1>1. r.headers \in Seq(Headers)
  BY DEF Requests
<1>2. PICK i \in DOMAIN r.headers : "8bit" \in Range(r.headers[i].value)
  BY DEF EightBit
<1>3. /\ i \in DOMAIN Append(r.headers, Header(<<c>>, <<>>))
      /\ Append(r.headers, Header(<<c>>, <<>>))[i] = r.headers[i]
  BY <1>1
<1> QED BY <1>2, <1>3, NewHeaderFacts DEF EightBit

(* What a text holds it still holds, and the character appended too. *)
LEMMA AppendRange ==
  ASSUME NEW t \in Text, NEW c \in Alphabet
  PROVE  Range(t) \subseteq Range(Append(t, c)) /\ c \in Range(Append(t, c))
<1>1. /\ Len(t) \in Nat /\ DOMAIN t = 1..Len(t) /\ DOMAIN Append(t, c) = 1..Len(t) + 1
      /\ Append(t, c)[Len(t) + 1] = c
      /\ \A i \in 1..Len(t) : Append(t, c)[i] = t[i]
  BY DEF Text
<1> QED BY <1>1 DEF Range

(* It stays when a header grows; appended to a value, it is there. *)
LEMMA EightBitPushHeader ==
  ASSUME NEW r \in Requests, NEW c \in Alphabet, r.headers # <<>>,
         NEW f \in {"name", "value"}
  PROVE  /\ EightBit(r) => EightBit(PushHeader(r, f, c))
         /\ f = "value" /\ c = "8bit" => EightBit(PushHeader(r, f, c))
<1> DEFINE n == Len(r.headers)
           p == PushHeader(r, f, c)
<1>0. Grown(r, f, c, p)
  BY PushHeaderFacts
<1> HIDE DEF p
<1>1. /\ n \in 1..n /\ DOMAIN p.headers = 1..n /\ DOMAIN r.headers = 1..n
      /\ \A i \in 1..n - 1 : p.headers[i] = r.headers[i]
      /\ p.headers[n][f] = Append(r.headers[n][f], c)
      /\ \A g \in {"name", "value"} \ {f} : p.headers[n][g] = r.headers[n][g]
  BY <1>0 DEF Grown
<1>2. r.headers[n] \in Headers
  BY <1>1 DEF Requests
<1>3. r.headers[n].value \in Text
  BY <1>2 DEF Headers
<1> HIDE DEF n
<1>4. Range(r.headers[n].value) \subseteq Range(p.headers[n].value)
  BY <1>1, <1>3, AppendRange
<1>5. f = "value" => c \in Range(p.headers[n].value)
  BY <1>1, <1>3, AppendRange
<1>6. EightBit(r) => EightBit(p)
  <2> HAVE EightBit(r)
  <2>1. PICK i \in 1..n : "8bit" \in Range(r.headers[i].value)
    BY <1>1 DEF EightBit
  <2>2. "8bit" \in Range(p.headers[i].value)
    <3>1. CASE i = n
      BY <2>1, <3>1, <1>4
    <3>2. CASE i # n
      <4>1. i \in 1..n - 1
        BY <3>2 DEF n
      <4> QED BY <4>1, <2>1, <1>1
    <3> QED BY <3>1, <3>2
  <2> QED BY <2>2, <1>1 DEF EightBit
<1>7. f = "value" /\ c = "8bit" => EightBit(p)
  BY <1>1, <1>5 DEF EightBit
<1> QED BY <1>6, <1>7 DEF p
------------------------------------------------------------------------------
(* The outcomes of consume that are sound *)
LEMMA SoundEnd ==
  ASSUME NEW s \in States, NEW r \in Requests, r.content = <<>>
  PROVE  Sound(s, r, Bad(r)) /\ Sound(s, r, Good(r))
  BY DEF Sound, Bad, Good, Fit, Refused, States, TargetStates, InHeader, ValueStates

(* To go on is sound when the next state fits and keeps the uri and the    *)
(* 8-bit values.                                                           *)
LEMMA SoundMore ==
  ASSUME NEW s \in States, NEW r, NEW z \in States, NEW q \in Requests, q.content = <<>>,
         z # "method_start", z \in InHeader => q.headers # <<>>,
         s \notin TargetStates => z \notin TargetStates /\ q.uri = r.uri,
         EightBit(r) => EightBit(q)
  PROVE  Sound(s, r, More(z, q))
  BY DEF Sound, More, Fit, Refused

(* So is to expect one character. *)
LEMMA SoundExpect ==
  ASSUME NEW s \in States, NEW r \in Requests, r.content = <<>>,
         NEW z \in States, NEW c, NEW wanted, z # "method_start", z \in InHeader => r.headers # <<>>,
         s \notin TargetStates => z \notin TargetStates
  PROVE  Sound(s, r, Expect(c, wanted, z, r))
  BY SoundMore, SoundEnd DEF Expect

(* consume is sound in the states of the method and the uri. *)
LEMMA TargetSound ==
  ASSUME NEW s \in TargetStates, NEW r, Fit(s, r), NEW c \in Alphabet
  PROVE  Sound(s, r, consume(s, r, c))
<1>1. r \in Requests /\ s \in States /\ r.content = <<>>
  BY DEF Fit, States
<1>2. Sound(s, r, Bad(r))
  BY <1>1, SoundEnd
<1>3. \A f \in {"method", "uri"} :
        Push(r, f, c) \in Requests /\ Push(r, f, c).content = <<>>
  BY <1>1, PushFacts DEF Fields
<1>4. \A f \in {"method", "uri"} : Sound(s, r, More(f, Push(r, f, c)))
  BY <1>1, <1>3, SoundMore, EightBitPush DEF States, TargetStates, InHeader, ValueStates
<1>5. Sound(s, r, More("uri", r)) /\ Sound(s, r, More("http_version_h", r))
  BY <1>1, SoundMore DEF States, TargetStates, VersionStates, InHeader, ValueStates
<1>6. consume(s, r, c) = consume_target(s, r, c)
  BY DEF consume, TargetStates
<1>7. CASE s = "method_start"
  BY <1>7, <1>6, <1>2, <1>4 DEF consume_target
<1>8. CASE s = "method"
  BY <1>8, <1>6, <1>2, <1>4, <1>5 DEF consume_target
<1>9. CASE s = "uri"
  BY <1>9, <1>6, <1>2, <1>4, <1>5 DEF consume_target
<1> QED BY <1>7, <1>8, <1>9 DEF TargetStates

(* consume is sound in the states of the version. *)
LEMMA VersionSound ==
  ASSUME NEW s \in VersionStates, NEW r, Fit(s, r), NEW c \in Alphabet
  PROVE  Sound(s, r, consume(s, r, c))
<1>1. r \in Requests /\ s \in States /\ s \notin TargetStates /\ r.content = <<>>
  BY DEF Fit, States, TargetStates, VersionStates
<1>2. Sound(s, r, Bad(r))
  BY <1>1, SoundEnd
<1>3. ASSUME NEW z \in VersionStates, NEW q \in Requests, q.headers = r.headers,
             q.uri = r.uri, q.content = <<>>
      PROVE  Sound(s, r, More(z, q))
  <2>1. EightBit(r) => EightBit(q)
    BY <1>3, EightBitSame
  <2>2. z \in States /\ z \notin TargetStates /\ z \notin InHeader /\ z # "method_start"
    BY DEF States, TargetStates, VersionStates, InHeader, ValueStates
  <2> QED BY <1>1, <1>3, <2>1, <2>2, SoundMore
<1>4. ASSUME is_digit(c), NEW f \in {"major", "minor"}, NEW z \in VersionStates
      PROVE  Sound(s, r, More(z, PushDigit(r, f, c)))
  <2> DEFINE q == PushDigit(r, f, c)
  <2>1. q \in Requests /\ q.headers = r.headers /\ q.uri = r.uri /\ q.content = r.content
    BY <1>1, <1>4, PushDigitFacts DEF Fields
  <2> HIDE DEF q
  <2>2. Sound(s, r, More(z, q))
    BY <1>1, <1>3, <2>1
  <2> QED BY <2>2 DEF q
<1>5. \A z \in VersionStates \cup {"header_line_start"} :
        \A w : Sound(s, r, Expect(c, w, z, r))
  BY <1>1, SoundExpect
     DEF States, TargetStates, VersionStates, HeaderStates, InHeader, ValueStates
<1>6. consume(s, r, c) = consume_version(s, r, c)
  BY DEF consume, VersionStates
<1>7. CASE s \in {"http_version_h", "http_version_t_1", "http_version_t_2", "http_version_p",
                  "expecting_newline_1"}
  BY <1>7, <1>6, <1>5 DEF consume_version, VersionStates
<1>8. CASE s = "http_version_slash"
  <2>1. Sound(s, r, More("http_version_major_start", NoVersion(r)))
    BY <1>1, <1>3, NoVersionFacts DEF VersionStates
  <2> QED BY <1>8, <1>6, <1>2, <2>1 DEF consume_version
<1>9. CASE s \in {"http_version_major_start", "http_version_major"}
  <2>1. "http_version_major" \in VersionStates /\ "http_version_minor_start" \in VersionStates
    BY DEF VersionStates
  <2> QED BY <1>9, <1>6, <1>2, <1>4, <1>5, <2>1 DEF consume_version
<1>10. CASE s \in {"http_version_minor_start", "http_version_minor"}
  <2>1. "http_version_minor" \in VersionStates /\ "expecting_newline_1" \in VersionStates
    BY DEF VersionStates
  <2> QED BY <1>10, <1>6, <1>2, <1>4, <1>5, <2>1 DEF consume_version
<1> QED BY <1>7, <1>8, <1>9, <1>10 DEF VersionStates

(* consume is sound in the states of a header's value. *)
LEMMA ValueSound ==
  ASSUME NEW s \in ValueStates, NEW r, Fit(s, r), NEW c \in Alphabet
  PROVE  Sound(s, r, consume(s, r, c))
<1>1. /\ r \in Requests /\ s \in States /\ s \notin TargetStates
      /\ r.headers # <<>> /\ r.content = <<>>
  BY DEF Fit, States, TargetStates, ValueStates, InHeader
<1>2. Sound(s, r, Bad(r))
  BY <1>1, SoundEnd
<1>3. Sound(s, r, More("header_value", PushHeader(r, "value", c)))
  <2>1. /\ PushHeader(r, "value", c) \in Requests
        /\ PushHeader(r, "value", c).headers # <<>>
        /\ PushHeader(r, "value", c).uri = r.uri
        /\ PushHeader(r, "value", c).content = <<>>
    BY <1>1, PushHeaderFacts DEF Fields, Grown
  <2>2. EightBit(r) => EightBit(PushHeader(r, "value", c))
    BY <1>1, EightBitPushHeader
  <2> QED BY <2>1, <2>2, <1>1, SoundMore DEF States, TargetStates, ValueStates
<1>4. \A z \in InHeader : Sound(s, r, More(z, r)) /\ \A w : Sound(s, r, Expect(c, w, z, r))
  BY <1>1, SoundMore, SoundExpect DEF States, TargetStates, HeaderStates, InHeader, ValueStates
<1>5. consume(s, r, c) = consume_value(s, r, c)
  BY DEF consume, ValueStates
<1> QED BY <1>2, <1>3, <1>4, <1>5 DEF consume_value, ValueStates, InHeader

(* consume is sound in the other states of the headers. *)
LEMMA HeaderSound ==
  ASSUME NEW s \in HeaderStates, NEW r, Fit(s, r), NEW c \in Alphabet
  PROVE  Sound(s, r, consume(s, r, c))
<1>1. r \in Requests /\ s \in States /\ s \notin TargetStates /\ r.content = <<>>
  BY DEF Fit, States, TargetStates, HeaderStates
<1>2. Sound(s, r, Bad(r)) /\ Sound(s, r, Good(r))
  BY <1>1, SoundEnd
<1>3. Sound(s, r, More("header_name", NewHeader(r, c)))
  <2>1. /\ NewHeader(r, c) \in Requests /\ NewHeader(r, c).headers # <<>>
        /\ NewHeader(r, c).uri = r.uri /\ NewHeader(r, c).content = <<>>
    BY <1>1, NewHeaderFacts DEF Fields
  <2>2. EightBit(r) => EightBit(NewHeader(r, c))
    BY <1>1, EightBitNewHeader
  <2> QED BY <1>1, <2>1, <2>2, SoundMore DEF States, TargetStates, HeaderStates
<1>4. CASE s = "header_line_start"
  <2>1. Sound(s, r, More("expecting_newline_3", r))
    BY <1>1, SoundMore DEF States, TargetStates, HeaderStates, InHeader, ValueStates
  <2>2. r.headers # <<>> => Sound(s, r, More("header_lws", r))
    BY <1>1, SoundMore DEF States, TargetStates, ValueStates
  <2> QED BY <1>4, <1>2, <1>3, <2>1, <2>2 DEF consume, consume_header
<1>5. CASE s = "header_name"
  <2>1. r.headers # <<>>
    BY <1>5 DEF Fit, InHeader
  <2>2. Sound(s, r, More("space_before_header_value", r))
    BY <1>1, <2>1, SoundMore DEF States, TargetStates, ValueStates
  <2>3. /\ PushHeader(r, "name", c) \in Requests
        /\ PushHeader(r, "name", c).headers # <<>>
        /\ PushHeader(r, "name", c).uri = r.uri
        /\ PushHeader(r, "name", c).content = <<>>
    BY <1>1, <2>1, PushHeaderFacts DEF Fields, Grown
  <2>4. EightBit(r) => EightBit(PushHeader(r, "name", c))
    BY <1>1, <2>1, EightBitPushHeader
  <2>5. Sound(s, r, More("header_name", PushHeader(r, "name", c)))
    BY <2>3, <2>4, <1>1, SoundMore DEF States, TargetStates, HeaderStates
  <2> QED BY <1>5, <1>2, <2>2, <2>5 DEF consume, consume_header
<1>6. CASE s = "expecting_newline_2"
  <2>1. Sound(s, r, Expect(c, "lf", "header_line_start", r))
    BY <1>1, SoundExpect DEF States, TargetStates, HeaderStates, InHeader, ValueStates
  <2> QED BY <1>6, <2>1 DEF consume, consume_header
<1>7. CASE s = "expecting_newline_3"
  BY <1>7, <1>2 DEF consume, consume_header
<1> QED BY <1>4, <1>5, <1>6, <1>7 DEF HeaderStates

(* consume is sound in every state. *)
LEMMA ConsumeSound ==
  ASSUME NEW s \in States, NEW r, Fit(s, r), NEW c \in Alphabet
  PROVE  Sound(s, r, consume(s, r, c))
  BY TargetSound, VersionSound, ValueSound, HeaderSound DEF States
------------------------------------------------------------------------------
(* The states in which server4 has set the numbers and the machine has not *)
Unset == {"method", "uri", "http_version_h", "http_version_t_1", "http_version_t_2",
          "http_version_p", "http_version_slash"}

(* The request of server4, where the machine in state s has request r *)
Twin4(s, r) == IF s \in Unset THEN NoVersion(r) ELSE r

(* Natural numbers *)
(* m comes before n: numbers are well-founded, which gives induction. *)
Before == {p \in Nat \X Nat : p[1] < p[2]}

(* Every set of numbers that holds 0 and the successor of each of its      *)
(* numbers holds them all.                                                 *)
LEMMA Induct ==
  ASSUME NEW S, 0 \in S, \A n \in Nat : n \in S => n + 1 \in S
  PROVE  Nat \subseteq S
<1> DEFINE T == Nat \ S
<1>1. SUFFICES ASSUME T # {} PROVE FALSE
  OBVIOUS
<1>2. Before = OpToRel(<, Nat)
  BY DEF Before, OpToRel
<1>3. IsWellFoundedOn(Before, Nat)
  BY <1>2, NatLessThanWellFounded
<1>4. T \in SUBSET Nat
  OBVIOUS
<1> HIDE DEF T
<1>5. PICK x \in T : \A y \in T : ~(<<y, x>> \in Before)
  BY <1>1, <1>3, <1>4, WFMin
<1>6. x \in Nat /\ x \notin S
  BY <1>4 DEF T
<1>7. x # 0 /\ x - 1 \in Nat /\ x - 1 < x
  BY <1>6
<1>8. <<x - 1, x>> \in Before
  BY <1>6, <1>7 DEF Before
<1>9. x - 1 \in S
  BY <1>5, <1>7, <1>8 DEF T
<1> QED BY <1>6, <1>7, <1>9

(* The greatest of some of the first numbers is one of them. *)
LEMMA MaxFacts ==
  ASSUME NEW n \in Nat, NEW S \in SUBSET (1..n), S # {} PROVE Max(S) \in S
<1> DEFINE T == {k \in Nat : n - k \in S}
<1>1. T # {} /\ T \in SUBSET Nat
  <2>1. PICK x \in S : TRUE
    OBVIOUS
  <2>2. n - x \in Nat /\ n - (n - x) = x
    BY <2>1
  <2> QED BY <2>1, <2>2
<1>2. Before = OpToRel(<, Nat)
  BY DEF Before, OpToRel
<1>3. IsWellFoundedOn(Before, Nat)
  BY <1>2, NatLessThanWellFounded
<1> HIDE DEF T
<1>4. PICK k \in T : \A y \in T : ~(<<y, k>> \in Before)
  BY <1>1, <1>3, WFMin
<1>5. k \in Nat /\ n - k \in S
  BY <1>4 DEF T
<1>6. ASSUME NEW y \in S PROVE n - k >= y
  <2>1. n - y \in Nat /\ n - (n - y) = y
    OBVIOUS
  <2>2. n - y \in T
    BY <2>1 DEF T
  <2>3. ~(n - y < k)
    BY <1>4, <1>5, <2>1, <2>2 DEF Before
  <2> QED BY <1>5, <2>1, <2>3
<1> QED BY <1>5, <1>6 DEF Max

(* f[i] is the number that the first i of the digits d write. *)
Sums(f, d, n) == f = [i \in 0..n |-> IF i = 0 THEN 0 ELSE f[i - 1] * 10 + Worth(d[i])]

Summed(f, d, n) ==
  \A i \in 0..n : f[i] = IF i = 0 THEN 0 ELSE f[i - 1] * 10 + Worth(d[i])

(* The values of such a function at its arguments *)
LEMMA SumsAt ==
  ASSUME NEW n, NEW d, NEW f, Sums(f, d, n)
  PROVE  Summed(f, d, n)
<1> DEFINE g == [j \in 0..n |-> IF j = 0 THEN 0 ELSE f[j - 1] * 10 + Worth(d[j])]
<1>1. f = g
  BY DEF Sums
<1>2. \A i \in 0..n : g[i] = IF i = 0 THEN 0 ELSE f[i - 1] * 10 + Worth(d[i])
  OBVIOUS
<1> HIDE DEF g
<1> QED BY <1>1, <1>2 DEF Summed

(* Value chooses such a function and takes its last value. *)
LEMMA ValueIs ==
  ASSUME NEW d PROVE Value(d) = (CHOOSE f : Sums(f, d, Len(d)))[Len(d)]
  BY DEF Value, Sums

(* Such a function can be extended by one digit. *)
LEMMA SumsGrow ==
  ASSUME NEW m \in Nat, NEW d \in [1..m -> Digits], NEW n \in Nat, n < m,
         NEW f \in [0..n -> Nat], Sums(f, d, n)
  PROVE  \E g \in [0..n + 1 -> Nat] : Sums(g, d, n + 1)
<1> DEFINE last == f[n] * 10 + Worth(d[n + 1])
           g == [i \in 0..n + 1 |-> IF i = n + 1 THEN last ELSE f[i]]
<1>0. Summed(f, d, n)
  BY SumsAt
<1>1. last \in Nat
  <2>1. f[n] \in Nat /\ d[n + 1] \in Digits
    OBVIOUS
  <2>2. Worth(d[n + 1]) \in Nat
    BY <2>1, WorthFacts
  <2> QED BY <2>1, <2>2
<1>2. g \in [0..n + 1 -> Nat]
  <2> HIDE DEF last
  <2> QED BY <1>1
<1>3. \A i \in 0..n + 1 : g[i] = IF i = 0 THEN 0 ELSE g[i - 1] * 10 + Worth(d[i])
  <2> TAKE i \in 0..n + 1
  <2>1. CASE i = n + 1
    <3>1. i # 0 /\ g[i] = last /\ g[i - 1] = f[n]
      BY <2>1
    <3> QED BY <2>1, <3>1
  <2>2. CASE i # n + 1
    <3>1. i \in 0..n /\ g[i] = f[i] /\ (i # 0 => g[i - 1] = f[i - 1])
      BY <2>2
    <3>2. f[i] = IF i = 0 THEN 0 ELSE f[i - 1] * 10 + Worth(d[i])
      BY <1>0, <3>1 DEF Summed
    <3> HIDE DEF g
    <3> QED BY <3>1, <3>2
  <2> QED BY <2>1, <2>2
<1>4. Sums(g, d, n + 1)
  <2> HIDE DEF g
  <2> QED BY <1>2, <1>3 DEF Sums
<1> QED BY <1>2, <1>4

(* There is one for every sequence of digits (by induction). *)
LEMMA SumsExist ==
  ASSUME NEW m \in Nat, NEW d \in [1..m -> Digits]
  PROVE  \E f \in [0..m -> Nat] : Sums(f, d, m)
<1> DEFINE S == {n \in Nat : n <= m => \E f \in [0..n -> Nat] : Sums(f, d, n)}
<1>1. 0 \in S
  <2> DEFINE e == [i \in 0..0 |-> 0]
  <2>1. e \in [0..0 -> Nat] /\ Sums(e, d, 0)
    BY DEF Sums
  <2> QED BY <2>1
<1>2. ASSUME NEW n \in Nat, n \in S PROVE n + 1 \in S
  <2>1. CASE n + 1 <= m
    <3>1. n < m /\ n <= m
      BY <2>1
    <3>2. \E f \in [0..n -> Nat] : Sums(f, d, n)
      BY <1>2, <3>1
    <3>3. \E g \in [0..n + 1 -> Nat] : Sums(g, d, n + 1)
      BY <3>1, <3>2, SumsGrow
    <3>4. n + 1 \in Nat
      OBVIOUS
    <3> QED BY <3>3, <3>4
  <2>2. CASE ~(n + 1 <= m)
    BY <2>2
  <2> QED BY <2>1, <2>2
<1>3. Nat \subseteq S
  <2> HIDE DEF S
  <2> QED BY <1>1, <1>2, Induct
<1>4. m \in S
  BY <1>3
<1> QED BY <1>4

Same(f, g, S) == \A i \in S : f[i] = g[i]

(* The values of the first digits depend on those digits only. *)
LEMMA SumsUnique ==
  ASSUME NEW n \in Nat, NEW m \in Nat, m <= n, NEW d, NEW e,
         Same(d, e, 1..m),
         NEW f, Sums(f, d, n), NEW g, Sums(g, e, m)
  PROVE  Same(f, g, 0..m)
<1> DEFINE S == {i \in Nat : i \in 0..m => f[i] = g[i]}
<1>1. 0 \in S
  <2>1. 0 \in 0..n /\ 0 \in 0..m
    OBVIOUS
  <2>2. f[0] = 0 /\ g[0] = 0
    BY <2>1, SumsAt DEF Summed
  <2> QED BY <2>2
<1>2. ASSUME NEW i \in Nat, i \in S PROVE i + 1 \in S
  <2>1. CASE i + 1 \in 0..m
    <3>1. i + 1 \in 0..n /\ i + 1 \in 1..m /\ i \in 0..m /\ i + 1 # 0 /\ i + 1 - 1 = i
      BY <2>1
    <3>2. /\ f[i + 1] = IF i + 1 = 0 THEN 0 ELSE f[i + 1 - 1] * 10 + Worth(d[i + 1])
          /\ g[i + 1] = IF i + 1 = 0 THEN 0 ELSE g[i + 1 - 1] * 10 + Worth(e[i + 1])
      BY <2>1, <3>1, SumsAt DEF Summed
    <3>3. f[i] = g[i]
      BY <1>2, <3>1
    <3>4. d[i + 1] = e[i + 1]
      BY <3>1 DEF Same
    <3> QED BY <3>1, <3>2, <3>3, <3>4
  <2>2. CASE i + 1 \notin 0..m
    BY <2>2
  <2> QED BY <2>1, <2>2
<1>3. Nat \subseteq S
  <2> HIDE DEF S
  <2> QED BY <1>1, <1>2, Induct
<1> QED BY <1>3 DEF Same

(* Value is the last value of a function of sums. *)
LEMMA ValueSums ==
  ASSUME NEW d \in Seq(Digits)
  PROVE  \E f \in [0..Len(d) -> Nat] : Sums(f, d, Len(d)) /\ Value(d) = f[Len(d)]
<1> DEFINE n == Len(d)
           F == CHOOSE f : Sums(f, d, n)
<1>1. n \in Nat /\ d \in [1..n -> Digits]
  OBVIOUS
<1>2. PICK f \in [0..n -> Nat] : Sums(f, d, n)
  BY <1>1, SumsExist
<1>3. Sums(F, d, n)
  BY <1>2
<1>4. Value(d) = F[n]
  BY ValueIs
<1> HIDE DEF F, n
<1>5. F[n] = f[n]
  <2>1. n <= n /\ n \in 0..n
    BY <1>1
  <2>2. Same(d, d, 1..n)
    BY DEF Same
  <2>3. Same(F, f, 0..n)
    BY <1>1, <1>2, <1>3, <2>1, <2>2, SumsUnique
  <2> QED BY <2>1, <2>3 DEF Same
<1> QED BY <1>2, <1>4, <1>5 DEF n

(* The number that digits write, one digit at a time *)
LEMMA ValueFacts ==
  ASSUME NEW d \in Seq(Digits)
  PROVE  /\ Value(d) \in Nat
         /\ Value(<<>>) = 0
         /\ \A c \in Digits : Value(Append(d, c)) = Value(d) * 10 + Worth(c)
<1> DEFINE n == Len(d)
<1>2. n \in Nat /\ n \in 0..n
  OBVIOUS
<1>3. Value(d) \in Nat
  BY <1>2, ValueSums
<1>1. PICK f : Sums(f, d, n) /\ Value(d) = f[n]
  BY ValueSums
<1>4. Value(<<>>) = 0
  <2> DEFINE e == <<>>
  <2>1. e \in Seq(Digits) /\ Len(e) = 0
    OBVIOUS
  <2>2. PICK g \in [0..Len(e) -> Nat] : Sums(g, e, Len(e)) /\ Value(e) = g[Len(e)]
    BY <2>1, ValueSums
  <2>3. 0 \in 0..Len(e)
    BY <2>1
  <2> HIDE DEF e
  <2>4. g[0] = 0
    BY <2>2, <2>3, SumsAt DEF Summed
  <2>5. Value(e) = 0
    BY <2>1, <2>2, <2>4
  <2> QED BY <2>5 DEF e
<1>5. ASSUME NEW c \in Digits PROVE Value(Append(d, c)) = Value(d) * 10 + Worth(c)
  <2> DEFINE e == Append(d, c)
  <2>1. /\ e \in Seq(Digits) /\ Len(e) = n + 1 /\ e[n + 1] = c
        /\ \A i \in 1..n : e[i] = d[i]
    OBVIOUS
  <2>2. PICK g : Sums(g, e, Len(e)) /\ Value(e) = g[Len(e)]
    BY <2>1, ValueSums
  <2> HIDE DEF e, n
  <2>3. /\ Sums(g, e, n + 1) /\ n + 1 \in Nat /\ n <= n + 1 /\ n + 1 \in 0..n + 1
        /\ n + 1 # 0 /\ n + 1 - 1 = n
    BY <1>2, <2>1, <2>2
  <2>4. g[n + 1] = g[n] * 10 + Worth(e[n + 1])
    <3>1. Summed(g, e, n + 1)
      BY <2>3, SumsAt
    <3>2. g[n + 1] = g[n + 1 - 1] * 10 + Worth(e[n + 1])
      BY <1>2, <2>3, <3>1 DEF Summed
    <3> QED BY <2>3, <3>2
  <2>5. g[n] = f[n]
    <3>1. Sums(f, d, n)
      BY <1>1
    <3>2. Same(e, d, 1..n)
      BY <2>1 DEF Same
    <3>3. Same(g, f, 0..n)
      BY <1>2, <2>3, <3>1, <3>2, SumsUnique
    <3> QED BY <1>2, <3>3 DEF Same
  <2>6. Value(e) = g[n + 1]
    BY <2>1, <2>2
  <2>7. Value(e) = Value(d) * 10 + Worth(c)
    BY <1>1, <2>1, <2>4, <2>5, <2>6
  <2> QED BY <2>7 DEF e
<1> QED BY <1>3, <1>4, <1>5

(* A size is a number, whatever its sign. *)
LEMMA SizeNat ==
  ASSUME NEW t \in Text, IsSize(t) PROVE lexical_cast(t) \in Nat
<1> DEFINE u == Unsigned(t)
<1>1. u \in Text
  <2>1. CASE t = <<>>
    BY <2>1 DEF Unsigned
  <2>2. CASE t # <<>>
    <3>1. Tail(t) \in Text
      BY <2>2 DEF Text
    <3> QED BY <3>1 DEF Unsigned
  <2> QED BY <2>1, <2>2
<1>2. (\A i \in DOMAIN u : u[i] \in Digits) /\ Value(u) <= MaxSize
  BY DEF IsSize
<1>3. lexical_cast(t) = IF t[1] = "-" /\ Value(u) # 0 THEN MaxSize + 1 - Value(u) ELSE Value(u)
  BY DEF lexical_cast
<1> HIDE DEF u
<1>4. u \in Seq(Digits)
  BY <1>1, <1>2 DEF Text
<1>5. Value(u) \in Nat /\ MaxSize \in Nat
  BY <1>4, ValueFacts, NumbersAssumption
<1> QED BY <1>2, <1>3, <1>5

(* The length of a content is a number. *)
LEMMA LengthNat ==
  ASSUME NEW r \in Requests, ~BadLength(r) PROVE content_length_(r) \in Nat
<1> DEFINE S == ContentLengths(r)
           n == Len(r.headers)
<1>1. CASE S = {}
  BY <1>1 DEF content_length_
<1>2. CASE S # {}
  <2>0. r.headers \in Seq(Headers)
    BY DEF Requests
  <2>1. /\ n \in Nat /\ DOMAIN r.headers = 1..n
        /\ \A i \in 1..n : r.headers[i].value \in Text
    <3>1. n \in Nat /\ DOMAIN r.headers = 1..n /\ \A i \in 1..n : r.headers[i] \in Headers
      BY <2>0
    <3> QED BY <3>1 DEF Headers
  <2>2. S \in SUBSET (1..n)
    BY <2>1 DEF ContentLengths
  <2>3. Max(S) \in S
    <3> HIDE DEF S
    <3> QED BY <1>2, <2>1, <2>2, MaxFacts
  <2>4. IsSize(r.headers[Max(S)].value) /\ r.headers[Max(S)].value \in Text
    BY <2>1, <2>2, <2>3 DEF BadLength
  <2>5. content_length_(r) = lexical_cast(r.headers[Max(S)].value)
    BY <1>2 DEF content_length_
  <2> QED BY <2>4, <2>5, SizeNat
<1> QED BY <1>1, <1>2
------------------------------------------------------------------------------
(* The outcomes of the two parsers that agree, from state s: the same      *)
(* answer and the same request in corresponding states, or server4 has     *)
(* refused what it alone refuses, or it goes on to the content.            *)
Alike(s, o, o4) ==
  \/ /\ o.result = "more" /\ o4.result = "more"
     /\ <<o.state, o4.state>> \in Twins /\ o.state # "method_start"
     /\ o4.req = Twin4(o.state, o.req)
  \/ /\ o.result = "bad" /\ o4.result = "bad"
     /\ \/ o4.req = o.req
        \/ s \in Unset \cup {"method_start"} /\ o4.req = NoVersion(o.req)
  \/ Refused(o.state, o.req) /\ o4.result = "bad"
  \/ /\ o.result = "good"
     /\ IF BadLength(o.req) THEN o4.result = "bad" ELSE o4 = Content4(o.req)

(* To end alike is to agree. *)
LEMMA AlikeEnd ==
  ASSUME NEW s, NEW r
  PROVE  /\ Alike(s, Bad(r), Bad(r))
         /\ s \in Unset \cup {"method_start"} => Alike(s, Bad(r), Bad(NoVersion(r)))
  BY DEF Alike, Bad

(* So is to go on with one request in corresponding states, *)
LEMMA AlikeMore ==
  ASSUME NEW s, NEW r, NEW z, NEW z4, <<z, z4>> \in Twins, z # "method_start"
  PROVE  /\ z \in Unset => Alike(s, More(z, r), More(z4, NoVersion(r)))
         /\ z \notin Unset => Alike(s, More(z, r), More(z4, r))
  BY DEF Alike, More, Twin4

(* and to expect one character on the way to them. *)
LEMMA AlikeExpect ==
  ASSUME NEW s, NEW r, NEW c, NEW wanted, NEW z, NEW z4, <<z, z4>> \in Twins,
         z # "method_start"
  PROVE  /\ z \in Unset /\ s \in Unset =>
              Alike(s, Expect(c, wanted, z, r), Expect(c, wanted, z4, NoVersion(r)))
         /\ z \notin Unset => Alike(s, Expect(c, wanted, z, r), Expect(c, wanted, z4, r))
  BY AlikeMore, AlikeEnd DEF Expect

(* Server4 may refuse what it alone refuses. *)
LEMMA AlikeRefused ==
  ASSUME NEW s, NEW z, NEW r, NEW q, Refused(z, r) PROVE Alike(s, More(z, r), Bad(q))
  BY DEF Alike, More, Bad

(* Corresponding states in which the machine and server4 read the method  *)
(* and the uri                                                             *)
LEMMA TargetAlike ==
  ASSUME NEW s \in TargetStates, NEW s4, <<s, s4>> \in Twins, NEW r, Fit(s, r),
         NEW c \in Alphabet
  PROVE  Alike(s, consume(s, r, c), consume4(s4, Twin4(s, r), c))
<1> DEFINE q == NoVersion(r)
<1>1. r \in Requests
  BY DEF Fit
<1>2. /\ Push(q, "method", c) = NoVersion(Push(r, "method", c))
      /\ Push(q, "uri", c) = NoVersion(Push(r, "uri", c))
      /\ q.uri = r.uri
  BY <1>1, NoVersionPush, NoVersionFacts
<1>3. /\ Alike(s, More("method", Push(r, "method", c)), More("method", Push(q, "method", c)))
      /\ Alike(s, More("uri", Push(r, "uri", c)), More("uri", Push(q, "uri", c)))
      /\ Alike(s, More("uri", r), More("uri", q))
      /\ Alike(s, More("http_version_h", r), More("H", q))
  <2>1. /\ <<"method", "method">> \in Twins /\ <<"uri", "uri">> \in Twins
        /\ <<"http_version_h", "H">> \in Twins
        /\ "method" \in Unset /\ "uri" \in Unset /\ "http_version_h" \in Unset
    BY DEF Twins, Unset
  <2> HIDE DEF q
  <2>2. \A z \in {"method", "uri"} : \A w : Alike(s, More(z, w), More(z, NoVersion(w)))
    BY <2>1, AlikeMore
  <2>3. Alike(s, More("http_version_h", r), More("H", NoVersion(r)))
    BY <2>1, AlikeMore
  <2> QED BY <1>2, <2>2, <2>3 DEF q
<1>4. Alike(s, Bad(r), Bad(r)) /\ Alike(s, Bad(r), Bad(q))
  BY AlikeEnd DEF Unset, TargetStates
<1>5. consume(s, r, c) = consume_target(s, r, c)
  BY DEF consume, TargetStates
<1> HIDE DEF q
<1>6. CASE s = "method_start"
  <2>1. s4 = "start" /\ r = NoRequest
    BY <1>6 DEF Twins, Fit
  <2>2. consume4(s4, Twin4(s, r), c) =
          IF IsToken(c) THEN More("method", Push(q, "method", c)) ELSE Bad(q)
    BY <2>1 DEF consume4, q
  <2>3. consume_target(s, r, c) = IF IsToken(c) THEN More("method", Push(r, "method", c)) ELSE Bad(r)
    BY <1>6 DEF consume_target
  <2> QED BY <1>3, <1>4, <1>5, <2>2, <2>3
<1>7. CASE s = "method"
  <2>1. s4 = "method" /\ Twin4(s, r) = q
    BY <1>7 DEF Twins, Twin4, Unset, q
  <2>2. ~IsToken(" ")
    BY DEF IsToken, is_tspecial
  <2>3. consume4("method", q, c) =
          IF IsToken(c) THEN More("method", Push(q, "method", c))
          ELSE IF c = " " THEN More("uri", q) ELSE Bad(q)
    BY DEF consume4, Expect
  <2>4. consume_target(s, r, c) =
          IF c = " " THEN More("uri", r)
          ELSE IF IsToken(c) THEN More("method", Push(r, "method", c)) ELSE Bad(r)
    BY <1>7 DEF consume_target
  <2> QED BY <1>3, <1>4, <1>5, <2>1, <2>2, <2>3, <2>4
<1>8. CASE s = "uri"
  <2>1. s4 = "uri" /\ Twin4(s, r) = q
    BY <1>8 DEF Twins, Twin4, Unset, q
  <2>2. r.uri = <<>> => Alike(s, More("http_version_h", r), Bad(q))
    BY AlikeRefused DEF Refused, TargetStates
  <2>3. ~is_ctl(" ")
    BY DEF is_ctl
  <2>4. consume4("uri", q, c) =
          IF ~is_ctl(c) /\ c # " " THEN More("uri", Push(q, "uri", c))
          ELSE IF q.uri = <<>> THEN Bad(q)
          ELSE IF c = " " THEN More("H", q) ELSE Bad(q)
    BY DEF consume4, Expect
  <2>5. consume_target(s, r, c) =
          IF c = " " THEN More("http_version_h", r)
          ELSE IF is_ctl(c) THEN Bad(r) ELSE More("uri", Push(r, "uri", c))
    BY <1>8 DEF consume_target
  <2> QED BY <1>2, <1>3, <1>4, <1>5, <2>1, <2>2, <2>3, <2>4, <2>5
<1> QED BY <1>6, <1>7, <1>8 DEF TargetStates

(* Corresponding states in which both read "HTTP/" *)
LEMMA ProtocolAlike ==
  ASSUME NEW s \in {"http_version_h", "http_version_t_1", "http_version_t_2",
                    "http_version_p", "http_version_slash"},
         NEW s4, <<s, s4>> \in Twins, NEW r, NEW c \in Alphabet
  PROVE  Alike(s, consume(s, r, c), consume4(s4, Twin4(s, r), c))
<1> DEFINE q == NoVersion(r)
<1>1. consume(s, r, c) = consume_version(s, r, c) /\ Twin4(s, r) = q /\ s \in Unset
  BY DEF consume, Twin4, Unset
<1>2. ASSUME NEW z, NEW z4, <<z, z4>> \in Twins, z \in Unset
      PROVE  \A w : Alike(s, Expect(c, w, z, r), Expect(c, w, z4, q))
  <2>1. z # "method_start"
    BY <1>2 DEF Unset
  <2> QED BY <1>1, <1>2, <2>1, AlikeExpect
<1> HIDE DEF q
<1>3. CASE s = "http_version_h"
  <2>1. <<"http_version_t_1", "T">> \in Twins /\ "http_version_t_1" \in Unset /\ s4 = "H"
    BY <1>3 DEF Twins, Unset
  <2> QED BY <1>1, <1>2, <1>3, <2>1 DEF consume_version, consume4
<1>4. CASE s = "http_version_t_1"
  <2>1. <<"http_version_t_2", "TT">> \in Twins /\ "http_version_t_2" \in Unset /\ s4 = "T"
    BY <1>4 DEF Twins, Unset
  <2> QED BY <1>1, <1>2, <1>4, <2>1 DEF consume_version, consume4
<1>5. CASE s = "http_version_t_2"
  <2>1. <<"http_version_p", "P">> \in Twins /\ "http_version_p" \in Unset /\ s4 = "TT"
    BY <1>5 DEF Twins, Unset
  <2> QED BY <1>1, <1>2, <1>5, <2>1 DEF consume_version, consume4
<1>6. CASE s = "http_version_p"
  <2>1. <<"http_version_slash", "slash">> \in Twins /\ "http_version_slash" \in Unset /\ s4 = "P"
    BY <1>6 DEF Twins, Unset
  <2> QED BY <1>1, <1>2, <1>6, <2>1 DEF consume_version, consume4
<1>7. CASE s = "http_version_slash"
  <2>1. s4 = "slash"
    BY <1>7 DEF Twins
  <2>2. consume4("slash", q, c) = IF c = "/" THEN More("major_start", q) ELSE Bad(q)
    BY DEF consume4, Expect
  <2>3. consume_version(s, r, c) =
          IF c = "/" THEN More("http_version_major_start", q) ELSE Bad(r)
    BY <1>7 DEF consume_version, q
  <2>4. Alike(s, More("http_version_major_start", q), More("major_start", q))
    BY AlikeMore DEF Twins, Unset
  <2>5. Alike(s, Bad(r), Bad(q))
    BY <1>1, AlikeEnd DEF q
  <2> QED BY <1>1, <2>1, <2>2, <2>3, <2>4, <2>5
<1> QED BY <1>3, <1>4, <1>5, <1>6, <1>7

(* Corresponding states in which both read the numbers of the version *)
LEMMA NumberAlike ==
  ASSUME NEW s \in VersionStates \ Unset, NEW s4, <<s, s4>> \in Twins, NEW r,
         NEW c \in Alphabet
  PROVE  Alike(s, consume(s, r, c), consume4(s4, Twin4(s, r), c))
<1>1. consume(s, r, c) = consume_version(s, r, c) /\ Twin4(s, r) = r
  BY DEF consume, VersionStates, Twin4
<1>2. Alike(s, Bad(r), Bad(r))
  BY AlikeEnd
<1>3. /\ <<"http_version_minor_start", "minor_start">> \in Twins
      /\ <<"expecting_newline_1", "crlf">> \in Twins
      /\ <<"header_line_start", "line">> \in Twins
      /\ <<"http_version_major", "major">> \in Twins /\ <<"http_version_minor", "minor">> \in Twins
      /\ {"http_version_minor_start", "expecting_newline_1", "header_line_start",
          "http_version_major", "http_version_minor"} \cap (Unset \cup {"method_start"}) = {}
  BY DEF Twins, Unset
<1>4. \A w : /\ Alike(s, Expect(c, w, "http_version_minor_start", r), Expect(c, w, "minor_start", r))
             /\ Alike(s, Expect(c, w, "expecting_newline_1", r), Expect(c, w, "crlf", r))
             /\ Alike(s, Expect(c, w, "header_line_start", r), Expect(c, w, "line", r))
  BY <1>3, AlikeExpect
<1>5. \A q : /\ Alike(s, More("http_version_major", q), More("major", q))
             /\ Alike(s, More("http_version_minor", q), More("minor", q))
  BY <1>3, AlikeMore
<1>6. CASE s = "http_version_major_start"
  BY <1>1, <1>2, <1>5, <1>6 DEF consume_version, consume4, Twins
<1>7. CASE s = "http_version_major"
  BY <1>1, <1>4, <1>5, <1>7 DEF consume_version, consume4, Digits4, Twins
<1>8. CASE s = "http_version_minor_start"
  BY <1>1, <1>2, <1>5, <1>8 DEF consume_version, consume4, Twins
<1>9. CASE s = "http_version_minor"
  BY <1>1, <1>4, <1>5, <1>9 DEF consume_version, consume4, Digits4, Twins
<1>10. CASE s = "expecting_newline_1"
  BY <1>1, <1>4, <1>10 DEF consume_version, consume4, Twins
<1> QED BY <1>6, <1>7, <1>8, <1>9, <1>10 DEF VersionStates, Unset

(* Corresponding states in which both read a value: server4 refuses 8-bit  *)
(* bytes.                                                                  *)
LEMMA ValueAlike ==
  ASSUME NEW s \in ValueStates, NEW s4, <<s, s4>> \in Twins, NEW r, Fit(s, r),
         NEW c \in Alphabet
  PROVE  Alike(s, consume(s, r, c), consume4(s4, Twin4(s, r), c))
<1> DEFINE p == PushHeader(r, "value", c)
<1>1. consume(s, r, c) = consume_value(s, r, c) /\ Twin4(s, r) = r
  BY DEF consume, ValueStates, Twin4, Unset
<1>2. r \in Requests /\ r.headers # <<>>
  BY DEF Fit, InHeader
<1>3. c = "8bit" => EightBit(p)
  BY <1>2, EightBitPushHeader
<1>4. c = "8bit" => Alike(s, More("header_value", p), Bad(r))
  BY <1>3, AlikeRefused DEF Refused
<1> HIDE DEF p
<1>5. Alike(s, Bad(r), Bad(r))
  BY AlikeEnd
<1>6. /\ Alike(s, More("header_value", p), More("value", p))
      /\ Alike(s, More("header_lws", r), More("lws", r))
      /\ Alike(s, More("expecting_newline_2", r), More("crlf", r))
      /\ Alike(s, Expect(c, " ", "header_value", r), Expect(c, " ", "value", r))
  <2>1. /\ <<"header_value", "value">> \in Twins /\ <<"header_lws", "lws">> \in Twins
        /\ <<"expecting_newline_2", "crlf">> \in Twins
        /\ {"header_value", "header_lws", "expecting_newline_2"} \cap (Unset \cup {"method_start"}) = {}
    BY DEF Twins, Unset
  <2> QED BY <2>1, AlikeMore, AlikeExpect
<1>7. /\ c = "8bit" => Value4(r, c) = Bad(r)
      /\ c = "cr" => Value4(r, c) = More("crlf", r)
      /\ is_ctl(c) /\ c # "cr" => Value4(r, c) = Bad(r)
      /\ ~is_ctl(c) /\ c # "8bit" => Value4(r, c) = More("value", p)
  BY DEF Value4, is_char, is_ctl, Expect, p
<1>8. ~IsLws("cr") /\ ~IsLws("8bit") /\ is_ctl("cr") /\ ~is_ctl("8bit")
  BY DEF IsLws, is_ctl
<1>9. CASE s = "header_lws"
  <2>1. s4 = "lws"
    BY <1>9 DEF Twins
  <2>2. consume4(s4, r, c) = IF IsLws(c) THEN More("lws", r) ELSE Value4(r, c)
    BY <2>1 DEF consume4
  <2>3. consume_value(s, r, c) =
          IF c = "cr" THEN More("expecting_newline_2", r)
          ELSE IF IsLws(c) THEN More("header_lws", r)
          ELSE IF is_ctl(c) THEN Bad(r) ELSE More("header_value", p)
    BY <1>9 DEF consume_value, p
  <2> QED BY <1>1, <2>2, <2>3, <1>4, <1>5, <1>6, <1>7, <1>8
<1>10. CASE s = "space_before_header_value"
  BY <1>10, <1>1, <1>6 DEF consume_value, consume4, Twins
<1>11. CASE s = "header_value"
  <2>1. s4 = "value"
    BY <1>11 DEF Twins
  <2>2. consume4(s4, r, c) = Value4(r, c)
    BY <2>1 DEF consume4
  <2>3. consume_value(s, r, c) =
          IF c = "cr" THEN More("expecting_newline_2", r)
          ELSE IF is_ctl(c) THEN Bad(r) ELSE More("header_value", p)
    BY <1>11 DEF consume_value, p
  <2> QED BY <1>1, <2>2, <2>3, <1>4, <1>5, <1>6, <1>7, <1>8
<1> QED BY <1>9, <1>10, <1>11 DEF ValueStates

(* Corresponding states in which both read the rest of a header *)
LEMMA HeaderAlike ==
  ASSUME NEW s \in HeaderStates, NEW s4, <<s, s4>> \in Twins, NEW r,
         NEW c \in Alphabet
  PROVE  Alike(s, consume(s, r, c), consume4(s4, Twin4(s, r), c))
<1>1. consume(s, r, c) = consume_header(s, r, c) /\ Twin4(s, r) = r
  BY DEF consume, HeaderStates, Twin4, Unset
<1>2. Alike(s, Bad(r), Bad(r))
  BY AlikeEnd
<1>3. /\ Alike(s, More("header_name", NewHeader(r, c)), More("name", NewHeader(r, c)))
      /\ Alike(s, More("header_name", PushHeader(r, "name", c)), More("name", PushHeader(r, "name", c)))
      /\ Alike(s, More("space_before_header_value", r), More("colon", r))
      /\ Alike(s, More("header_lws", r), More("lws", r))
      /\ Alike(s, More("expecting_newline_3", r), More("last", r))
      /\ Alike(s, Expect(c, "lf", "header_line_start", r), Expect(c, "lf", "line", r))
  <2>1. /\ <<"header_name", "name">> \in Twins /\ <<"space_before_header_value", "colon">> \in Twins
        /\ <<"header_lws", "lws">> \in Twins /\ <<"expecting_newline_3", "last">> \in Twins
        /\ <<"header_line_start", "line">> \in Twins
        /\ {"header_name", "space_before_header_value", "header_lws", "expecting_newline_3",
            "header_line_start"} \cap (Unset \cup {"method_start"}) = {}
    BY DEF Twins, Unset
  <2> QED BY <2>1, AlikeMore, AlikeExpect
<1>4. ~IsToken(":") /\ ~IsToken("cr") /\ ~IsLws("cr") /\ (IsLws(c) => ~IsToken(c))
  BY DEF IsToken, IsLws, is_tspecial, is_ctl
<1>5. CASE s = "header_line_start"
  <2>1. s4 = "line"
    BY <1>5 DEF Twins
  <2> QED BY <1>5, <2>1, <1>1, <1>2, <1>3, <1>4 DEF consume_header, consume4, Expect
<1>6. CASE s = "header_name"
  <2>1. s4 = "name"
    BY <1>6 DEF Twins
  <2> QED BY <1>6, <2>1, <1>1, <1>2, <1>3, <1>4 DEF consume_header, consume4, Expect
<1>7. CASE s = "expecting_newline_2"
  BY <1>7, <1>1, <1>3 DEF consume_header, consume4, Twins
<1>8. CASE s = "expecting_newline_3"
  <2>1. s4 = "last"
    BY <1>8 DEF Twins
  <2>2. consume4(s4, r, c) = IF c # "lf" \/ BadLength(r) THEN Bad(r) ELSE Content4(r)
    BY <2>1 DEF consume4
  <2>3. consume_header(s, r, c) = IF c = "lf" THEN Good(r) ELSE Bad(r)
    BY <1>8 DEF consume_header
  <2>4. Alike(s, Good(r), IF BadLength(r) THEN Bad(r) ELSE Content4(r))
    BY DEF Alike, Good, Bad
  <2> QED BY <1>1, <1>2, <2>2, <2>3, <2>4
<1> QED BY <1>5, <1>6, <1>7, <1>8 DEF HeaderStates

(* The parsers agree on every byte, from every pair of corresponding       *)
(* states.                                                                 *)
LEMMA ConsumeAlike ==
  ASSUME NEW s \in States, NEW s4, <<s, s4>> \in Twins, NEW r, Fit(s, r), NEW c \in Alphabet
  PROVE  Alike(s, consume(s, r, c), consume4(s4, Twin4(s, r), c))
  BY TargetAlike, ProtocolAlike, NumberAlike, ValueAlike, HeaderAlike
     DEF States, VersionStates, Unset
------------------------------------------------------------------------------
(* The states without numbers are reached from their own alone. *)
LEMMA Backwards ==
  ASSUME NEW s \in States, NEW r, NEW c,
         consume(s, r, c).result = "more",
         consume(s, r, c).state \in Unset \cup {"method_start"}
  PROVE  s \in Unset \cup {"method_start"}
<1>1. SUFFICES ASSUME s \notin Unset, s # "method_start" PROVE FALSE
  OBVIOUS
<1>2. CASE s \in VersionStates
  BY <1>1, <1>2 DEF consume, consume_version, VersionStates, Unset, Expect, More, Bad
<1>3. CASE s \in ValueStates
  BY <1>1, <1>3 DEF consume, consume_value, ValueStates, Unset, Expect, More, Bad
<1>4. CASE s \in HeaderStates
  BY <1>1, <1>4 DEF consume, consume_header, HeaderStates, Unset, Expect, More, Bad, Good
<1> QED BY <1>1, <1>2, <1>3, <1>4 DEF States, TargetStates, Unset

(* The invariant: the state machine is in one of its states with a request *)
(* that fits it, and the two parsers are alike.                            *)
Machine ==
  /\ result \in {"more", "good", "bad"}
  /\ result = "more" => state_ \in States
  /\ Fit(state_, req)
  /\ version \in Versions
  /\ result = "more" /\ state_ \in Unset \cup {"method_start"} => version.major = <<>>
InStep ==
  /\ result4 = result /\ result # "good" /\ after = <<>>
  /\ result = "more" => <<state_, state4>> \in Twins /\ req4 = Twin4(state_, req)
  /\ result = "bad" => req4 = req \/ (version.major = <<>> /\ req4 = NoVersion(req))
InContent ==
  /\ result = "good" /\ ~BadLength(req) /\ after \in Text
  /\ req4 = [req EXCEPT !.content = after]
  /\ after = <<>> \/ Len(after) <= content_length_(req)
  /\ IF Len(after) < content_length_(req)
     THEN result4 = "more" /\ state4 = "content" ELSE result4 = "good"
Alone4 ==
  /\ result4 = "bad"
  /\ \/ Refused(state_, req)
     \/ result = "good" /\ BadLength(req)
Together == InStep \/ InContent \/ Alone4

(* Both parsers start together ... *)
LEMMA MachineInit == ASSUME Init PROVE Machine /\ Together
<1>1. NoRequest \in Requests /\ NoRequest.content = <<>> /\ version \in Versions
  BY DEF Init, NoRequest, Requests, Text, Undefined, Versions
<1>2. Machine
  BY <1>1 DEF Init, Machine, Fit, States, TargetStates, InHeader, ValueStates
<1>3. InStep
  BY DEF Init, InStep, Twins, Twin4, Unset
<1> QED BY <1>2, <1>3 DEF Together

(* What is recorded of a version is texts. *)
LEMMA RecordedFacts ==
  ASSUME NEW v \in Versions, NEW c \in Alphabet, NEW s
  PROVE  /\ Recorded(s, v, c) \in Versions
         /\ s \notin {"http_version_major_start", "http_version_major"} =>
              Recorded(s, v, c).major = v.major
         /\ s \notin {"http_version_minor_start", "http_version_minor"} =>
              Recorded(s, v, c).minor = v.minor
<1>1. v.major \in Text /\ v.minor \in Text
  BY DEF Versions
<1>2. Append(v.major, c) \in Text /\ Append(v.minor, c) \in Text
  BY <1>1, AppendText
<1> QED BY <1>1, <1>2 DEF Recorded, Versions

(* ... the state machine keeps to its states, whatever it is fed ... *)
LEMMA MachineStep == ASSUME Machine, [Next]_vars PROVE Machine'
<1>1. CASE UNCHANGED vars
  BY <1>1 DEF Machine, vars
<1>2. CASE \E c \in Chars : Feed(c)
  <2>1. PICK c \in Chars : Feed(c)
    BY <1>2
  <2>2. c \in Alphabet
    BY CharsAssumption
  <2>3. CASE result = "more"
    <3>1. Sound(state_, req, consume(state_, req, c))
      BY <2>2, <2>3, ConsumeSound DEF Machine
    <3>2. /\ result' = consume(state_, req, c).result
          /\ state_' = consume(state_, req, c).state
          /\ req' = consume(state_, req, c).req
          /\ version' = Recorded(state_, version, c)
      BY <2>1, <2>3 DEF Feed
    <3>3. version' \in Versions
      BY <2>2, <3>2, RecordedFacts DEF Machine
    <3>4. result' = "more" /\ state_' \in Unset \cup {"method_start"} => version'.major = <<>>
      <4>1. SUFFICES ASSUME result' = "more", state_' \in Unset \cup {"method_start"}
                     PROVE  version'.major = <<>>
        OBVIOUS
      <4>2. state_ \in Unset \cup {"method_start"}
        BY <2>2, <2>3, <3>2, <4>1, Backwards DEF Machine
      <4>3. version'.major = version.major
        BY <2>2, <3>2, <4>2, RecordedFacts DEF Machine, Unset
      <4> QED BY <2>3, <4>2, <4>3 DEF Machine
    <3> QED BY <3>1, <3>2, <3>3, <3>4 DEF Sound, Machine
  <2>4. CASE result # "more"
    BY <2>1, <2>4 DEF Feed, Machine
  <2> QED BY <2>3, <2>4
<1> QED BY <1>1, <1>2 DEF Next

(* Content4 answers once the content has its length. *)
LEMMA ContentFacts ==
  ASSUME NEW r \in Requests, NEW t \in Text
  PROVE  LET q == [r EXCEPT !.content = t] IN
         /\ q.content = t /\ q.headers = r.headers
         /\ content_length_(q) = content_length_(r)
         /\ Content4(q) = IF Len(t) < content_length_(r) THEN More("content", q) ELSE Good(q)
<1> DEFINE q == [r EXCEPT !.content = t]
<1>1. q.content = t /\ q.headers = r.headers
  BY DEF Requests
<1>2. content_length_(q) = content_length_(r)
  BY <1>1 DEF content_length_, ContentLengths
<1> QED BY <1>1, <1>2 DEF Content4

(* ... and server4 keeps to it, until both of them have answered. *)
LEMMA TogetherStep == ASSUME Machine, Together, [Next]_vars PROVE Together'
<1>1. CASE UNCHANGED vars
  BY <1>1 DEF Together, InStep, InContent, Alone4, vars
<1>2. CASE \E c \in Chars : Feed(c)
  <2>1. PICK c \in Chars : Feed(c)
    BY <1>2
  <2>2. c \in Alphabet
    BY CharsAssumption
  <2>3. CASE Alone4
    <3>1. CASE result = "more"
      <4>1. Sound(state_, req, consume(state_, req, c))
        BY <2>2, <3>1, ConsumeSound DEF Machine
      <4>2. Alone4'
        BY <4>1, <2>1, <2>3, <3>1 DEF Feed, Sound, Alone4
      <4> QED BY <4>2 DEF Together
    <3>2. CASE result # "more"
      BY <2>1, <2>3, <3>2 DEF Feed, Alone4
    <3> QED BY <3>1, <3>2
  <2>4. CASE InStep
    <3> DEFINE o == consume(state_, req, c)
               o4 == consume4(state4, req4, c)
    <3>1. result = "more" /\ result4 = "more" /\ after = <<>>
      BY <2>1, <2>4 DEF Feed, InStep
    <3>2. Alike(state_, o, o4)
      BY <2>2, <2>4, <3>1, ConsumeAlike DEF Machine, InStep
    <3>3. Sound(state_, req, o)
      BY <2>2, <3>1, ConsumeSound DEF Machine
    <3>4. /\ result' = o.result /\ state_' = o.state /\ req' = o.req /\ after' = <<>>
          /\ result4' = o4.result /\ state4' = o4.state /\ req4' = o4.req
          /\ version' = Recorded(state_, version, c)
      BY <2>1, <3>1 DEF Feed
    <3> HIDE DEF o, o4
    <3>5. CASE /\ o.result = "more" /\ o4.result = "more"
               /\ <<o.state, o4.state>> \in Twins /\ o4.req = Twin4(o.state, o.req)
      BY <3>4, <3>5 DEF Together, InStep
    <3>6. CASE /\ o.result = "bad" /\ o4.result = "bad"
               /\ o4.req = o.req
      BY <3>4, <3>6 DEF Together, InStep
    <3>7. CASE /\ o.result = "bad" /\ o4.result = "bad"
               /\ state_ \in Unset \cup {"method_start"} /\ o4.req = NoVersion(o.req)
      <4>1. version'.major = <<>>
        BY <2>2, <3>1, <3>4, <3>7, RecordedFacts DEF Machine, Unset
      <4> QED BY <3>4, <3>7, <4>1 DEF Together, InStep
    <3>8. CASE Refused(o.state, o.req) /\ o4.result = "bad"
      BY <3>4, <3>8 DEF Together, Alone4
    <3>9. CASE o.result = "good" /\ IF BadLength(o.req) THEN o4.result = "bad" ELSE o4 = Content4(o.req)
      <4>1. CASE BadLength(o.req)
        BY <3>4, <3>9, <4>1 DEF Together, Alone4
      <4>2. CASE ~BadLength(o.req)
        <5>1. o.req \in Requests /\ o.req.content = <<>>
          BY <3>3 DEF Sound, Fit
        <5>2. o.req = [o.req EXCEPT !.content = <<>>] /\ <<>> \in Text /\ Len(<<>>) = 0
          BY <5>1 DEF Requests, Text
        <5>3. o4 = IF 0 < content_length_(o.req) THEN More("content", o.req) ELSE Good(o.req)
          BY <3>9, <4>2, <5>1, <5>2, ContentFacts
        <5>4. content_length_(o.req) \in Nat
          BY <4>2, <5>1, LengthNat
        <5>5. o4.req = o.req
          BY <5>3 DEF More, Good
        <5>6. IF 0 < content_length_(o.req)
              THEN o4.result = "more" /\ o4.state = "content" ELSE o4.result = "good"
          BY <5>3 DEF More, Good
        <5>7. InContent'
          BY <3>4, <3>9, <4>2, <5>2, <5>4, <5>5, <5>6 DEF InContent
        <5> QED BY <5>7 DEF Together
      <4> QED BY <4>1, <4>2
    <3> QED BY <3>2, <3>5, <3>6, <3>7, <3>8, <3>9 DEF Alike
  <2>5. CASE InContent
    <3> DEFINE q == [req EXCEPT !.content = Append(after, c)]
    <3>1. /\ result4 = "more" /\ state4 = "content" /\ result = "good"
          /\ Len(after) < content_length_(req) /\ after \in Text /\ ~BadLength(req)
      BY <2>1, <2>5 DEF Feed, InContent
    <3>2. /\ result' = result /\ req' = req /\ after' = Append(after, c)
          /\ result4' = consume4("content", req4, c).result
          /\ state4' = consume4("content", req4, c).state
          /\ req4' = consume4("content", req4, c).req
      BY <2>1, <3>1 DEF Feed
    <3>3. req \in Requests
      BY DEF Machine, Fit
    <3>4. Append(after, c) \in Text
      BY <2>2, <3>1, AppendText
    <3>5. Push(req4, "content", c) = q
      BY <2>5, <3>3 DEF Push, InContent, Requests
    <3>6. consume4("content", req4, c) = Content4(q)
      BY <3>5 DEF consume4
    <3>7. Content4(q) = IF Len(Append(after, c)) < content_length_(req)
                        THEN More("content", q) ELSE Good(q)
      BY <3>3, <3>4, ContentFacts
    <3>8. Len(Append(after, c)) = Len(after) + 1 /\ Len(after) \in Nat
      BY <2>2, <3>1 DEF Text
    <3>9. content_length_(req) \in Nat
      BY <3>1, <3>3, LengthNat
    <3>10. Len(Append(after, c)) <= content_length_(req)
      BY <3>1, <3>8, <3>9
    <3> HIDE DEF q
    <3>11. req4' = q
      BY <3>2, <3>6, <3>7 DEF More, Good
    <3>12. IF Len(Append(after, c)) < content_length_(req)
           THEN result4' = "more" /\ state4' = "content" ELSE result4' = "good"
      BY <3>2, <3>6, <3>7 DEF More, Good
    <3>13. InContent'
      BY <3>1, <3>2, <3>4, <3>10, <3>11, <3>12 DEF InContent, q
    <3> QED BY <3>13 DEF Together
  <2> QED BY <2>3, <2>4, <2>5 DEF Together
<1> QED BY <1>1, <1>2 DEF Next

(* The state machine of server, server2 and server3 (request_parser.cpp)   *)
(* and the coroutine of server4 answer alike to any bytes, at the same     *)
(* byte and with the same request, but for what server4 refuses: an empty  *)
(* uri, bytes above 127 in a header's value, a Content-Length that is no   *)
(* size.  Where the request has a content, server4 takes exactly that many *)
(* bytes more before it answers.  The bounds of the runs are constants of  *)
(* Feed, so that this holds for requests of any length.                    *)
THEOREM ParsersAgree == Spec => []Agree
<1>1. Init => Machine /\ Together
  BY MachineInit
<1>2. Machine /\ Together /\ [Next]_vars => (Machine /\ Together)'
  BY MachineStep, TogetherStep
<1>3. Machine /\ Together => Agree
  <2> HAVE Machine /\ Together
  <2>1. req \in Requests /\ req.content = <<>>
    BY DEF Machine, Fit
  <2>2. CASE Alone4
    BY <2>2 DEF Alone4, Agree, Refused4, Refused, EightBit, TargetStates
  <2>3. CASE InContent
    <3>1. /\ SameRequest(req, req4, version) /\ req4.content = after
      BY <2>1, <2>3 DEF InContent, SameRequest, Requests
    <3> QED BY <2>3, <3>1 DEF InContent, Agree
  <2>4. CASE InStep
    <3>1. NoVersion(req) = [req EXCEPT !.major = 0, !.minor = 0]
      BY DEF NoVersion
    <3>2. req4 = req \/ (version.major = <<>> /\ req4 = NoVersion(req))
      BY <2>4 DEF InStep, Machine, Twin4
    <3>3. SameRequest(req, req4, version) /\ req4.content = <<>>
      BY <2>1, <3>2, NoVersionFacts DEF SameRequest
    <3> QED BY <2>4, <3>3 DEF InStep, Agree
  <2> QED BY <2>2, <2>3, <2>4 DEF Together
<1> QED BY <1>1, <1>2, <1>3, PTL DEF Spec
------------------------------------------------------------------------------
(* Texts and their concatenation *)
LEMMA TextFacts ==
  /\ <<>> \in Text
  /\ <<":">> \in Text /\ <<":", " ">> \in Text
  /\ <<"cr">> \in Text /\ <<"cr", "lf">> \in Text
  /\ <<" ">> \in Text /\ <<".">> \in Text
  /\ <<" ", "H", "T", "T", "P", "/">> \in Text
  /\ \A a \in Text, b \in Text : a \o b \in Text
<1>1. {" ", ":", ".", "/", "cr", "lf", "H", "T", "P"} \subseteq Alphabet
  BY DEF Alphabet
<1>2. /\ <<>> \in Text
      /\ \A a \in Alphabet : <<a>> \in Text
      /\ \A a \in Alphabet, b \in Alphabet : <<a, b>> \in Text
  BY DEF Text
<1>3. \A a \in Alphabet, b \in Alphabet, d \in Alphabet, e \in Alphabet, g \in Alphabet :
        <<g, a, b, b, d, e>> \in Text
  BY DEF Text
<1>4. \A a \in Text, b \in Text : a \o b \in Text
  BY DEF Text
<1> QED BY <1>1, <1>2, <1>3, <1>4

(* To append to a concatenation is to append to its second part. *)
LEMMA AppendJoin ==
  ASSUME NEW a \in Text, NEW b \in Text, NEW c \in Alphabet
  PROVE  Append(a \o b, c) = a \o Append(b, c)
  BY DEF Text

(* Concatenation is associative. *)
LEMMA Associative ==
  ASSUME NEW a \in Text, NEW b \in Text, NEW d \in Text
  PROVE  (a \o b) \o d = a \o (b \o d)
  BY DEF Text

(* One character, and no character, concatenated *)
LEMMA Joins ==
  /\ \A a \in Text : \A c \in Alphabet : Append(a, c) = a \o <<c>>
  /\ \A a \in Text : a \o <<>> = a
<1>1. \A a \in Text : \A c \in Alphabet : Append(a, c) = a \o <<c>>
  BY DEF Text
<1>2. \A a \in Text : a \o <<>> = a
  BY DEF Text
<1> QED BY <1>1, <1>2

(* The characters of "HTTP/" and of a line's end, one after the other *)
LEMMA Spelled ==
  ASSUME NEW t \in Text
  PROVE  /\ Append(t \o <<" ">>, "H") = t \o <<" ", "H">>
         /\ Append(t \o <<" ", "H">>, "T") = t \o <<" ", "H", "T">>
         /\ Append(t \o <<" ", "H", "T">>, "T") = t \o <<" ", "H", "T", "T">>
         /\ Append(t \o <<" ", "H", "T", "T">>, "P") = t \o <<" ", "H", "T", "T", "P">>
         /\ Append(t \o <<" ", "H", "T", "T", "P">>, "/") = t \o <<" ", "H", "T", "T", "P", "/">>
         /\ Append(t \o <<"cr">>, "lf") = t \o <<"cr", "lf">>
         /\ Append(t \o <<":">>, " ") = t \o <<":", " ">>
<1> DEFINE sp == " "
           co == ":"
           sl == "/"
           cr == "cr"
           lf == "lf"
           hh == "H"
           tt == "T"
           pp == "P"
<1>1. /\ sp \in Alphabet /\ co \in Alphabet /\ sl \in Alphabet /\ cr \in Alphabet
      /\ lf \in Alphabet /\ hh \in Alphabet /\ tt \in Alphabet /\ pp \in Alphabet
  BY DEF Alphabet
<1> HIDE DEF sp, co, sl, cr, lf, hh, tt, pp
<1>2. t \in Seq(Alphabet)
  BY DEF Text
<1>3. Append(t \o <<sp>>, hh) = t \o <<sp, hh>>
  BY <1>1, <1>2
<1>4. Append(t \o <<sp, hh>>, tt) = t \o <<sp, hh, tt>>
  BY <1>1, <1>2
<1>5. Append(t \o <<sp, hh, tt>>, tt) = t \o <<sp, hh, tt, tt>>
  BY <1>1, <1>2
<1>6. Append(t \o <<sp, hh, tt, tt>>, pp) = t \o <<sp, hh, tt, tt, pp>>
  BY <1>1, <1>2
<1>7. Append(t \o <<sp, hh, tt, tt, pp>>, sl) = t \o <<sp, hh, tt, tt, pp, sl>>
  BY <1>1, <1>2
<1>8. Append(t \o <<cr>>, lf) = t \o <<cr, lf>>
  BY <1>1, <1>2
<1>9. Append(t \o <<co>>, sp) = t \o <<co, sp>>
  BY <1>1, <1>2
<1> QED BY <1>3, <1>4, <1>5, <1>6, <1>7, <1>8, <1>9, Zenon DEF sp, co, sl, cr, lf, hh, tt, pp

(* f[i] is the concatenation of the first i of the texts t. *)
Flat(f, t, n) == f = [i \in 1..n |-> IF i = 1 THEN t[i] ELSE f[i - 1] \o t[i]]

(* The value of a flat function at one of its arguments *)
LEMMA FlatAt ==
  ASSUME NEW n, NEW t, NEW f, Flat(f, t, n), NEW i \in 1..n
  PROVE  f[i] = IF i = 1 THEN t[i] ELSE f[i - 1] \o t[i]
<1> DEFINE g == [j \in 1..n |-> IF j = 1 THEN t[j] ELSE f[j - 1] \o t[j]]
<1>1. f = g
  BY DEF Flat
<1>2. g[i] = IF i = 1 THEN t[i] ELSE f[i - 1] \o t[i]
  OBVIOUS
<1> HIDE DEF g
<1> QED BY <1>1, <1>2

(* FlattenSeq chooses a flat function and takes its last value. *)
LEMMA FlattenIs ==
  ASSUME NEW t, NEW n \in Nat, Len(t) = n, n # 0
  PROVE  FlattenSeq(t) = (CHOOSE f : Flat(f, t, n))[n]
  BY DEF FlattenSeq, Flat

(* A flat function can be extended by one text. *)
LEMMA FlatGrows ==
  ASSUME NEW m \in Nat, NEW t \in [1..m -> Text], NEW n \in Nat, n < m,
         NEW f \in [1..n -> Text], Flat(f, t, n)
  PROVE  \E g \in [1..n + 1 -> Text] : Flat(g, t, n + 1)
<1> DEFINE last == IF n = 0 THEN t[1] ELSE f[n] \o t[n + 1]
           g == [i \in 1..n + 1 |-> IF i = n + 1 THEN last ELSE f[i]]
<1>1. last \in Text
  <2>1. CASE n = 0
    BY <2>1
  <2>2. CASE n # 0
    <3>1. f[n] \in Text /\ t[n + 1] \in Text
      BY <2>2
    <3> QED BY <3>1, <2>2 DEF Text
  <2> QED BY <2>1, <2>2
<1>2. g \in [1..n + 1 -> Text]
  <2> HIDE DEF last
  <2> QED BY <1>1
<1>3. \A i \in 1..n + 1 : g[i] = IF i = 1 THEN t[i] ELSE g[i - 1] \o t[i]
  <2> TAKE i \in 1..n + 1
  <2>1. CASE i = n + 1
    BY <2>1
  <2>2. CASE i # n + 1
    <3>1. i \in 1..n /\ g[i] = f[i] /\ (i # 1 => g[i - 1] = f[i - 1])
      BY <2>2
    <3>2. f[i] = IF i = 1 THEN t[i] ELSE f[i - 1] \o t[i]
      BY <3>1 DEF Flat
    <3> QED BY <3>1, <3>2
  <2> QED BY <2>1, <2>2
<1>4. Flat(g, t, n + 1)
  <2> HIDE DEF g
  <2> QED BY <1>2, <1>3 DEF Flat
<1> QED BY <1>2, <1>4

(* There is a flat function for every sequence of texts (by induction). *)
LEMMA FlatExists ==
  ASSUME NEW m \in Nat, NEW t \in [1..m -> Text]
  PROVE  \E f \in [1..m -> Text] : Flat(f, t, m)
<1> DEFINE S == {n \in Nat : n <= m => \E f \in [1..n -> Text] : Flat(f, t, n)}
<1>1. 0 \in S
  <2> DEFINE e == [i \in 1..0 |-> <<>>]
  <2>1. e \in [1..0 -> Text] /\ Flat(e, t, 0)
    BY DEF Flat
  <2> QED BY <2>1
<1>2. ASSUME NEW n \in Nat, n \in S PROVE n + 1 \in S
  <2>1. CASE n + 1 <= m
    <3>1. n < m /\ n <= m
      BY <2>1
    <3>2. PICK f \in [1..n -> Text] : Flat(f, t, n)
      BY <1>2, <3>1
    <3>3. \E g \in [1..n + 1 -> Text] : Flat(g, t, n + 1)
      BY <3>1, <3>2, FlatGrows
    <3> QED BY <3>3
  <2>2. CASE ~(n + 1 <= m)
    BY <2>2
  <2> QED BY <2>1, <2>2
<1>3. Nat \subseteq S
  <2> HIDE DEF S
  <2> QED BY <1>1, <1>2, Induct
<1>4. m \in S
  BY <1>3
<1> QED BY <1>4

(* The concatenations of the first texts depend on those texts only. *)
LEMMA FlatUnique ==
  ASSUME NEW n \in Nat, NEW m \in Nat, m <= n, NEW t, NEW u,
         \A i \in 1..m : t[i] = u[i],
         NEW f, Flat(f, t, n), NEW g, Flat(g, u, m)
  PROVE  \A i \in 1..m : f[i] = g[i]
<1> DEFINE S == {i \in Nat : i \in 1..m => f[i] = g[i]}
<1>1. 0 \in S
  OBVIOUS
<1>2. ASSUME NEW i \in Nat, i \in S PROVE i + 1 \in S
  <2>1. CASE i + 1 \in 1..m
    <3>1. i + 1 \in 1..n /\ t[i + 1] = u[i + 1]
      BY <2>1
    <3>2. /\ f[i + 1] = IF i + 1 = 1 THEN t[i + 1] ELSE f[i + 1 - 1] \o t[i + 1]
          /\ g[i + 1] = IF i + 1 = 1 THEN u[i + 1] ELSE g[i + 1 - 1] \o u[i + 1]
      BY <2>1, <3>1, FlatAt
    <3>3. i + 1 # 1 => f[i + 1 - 1] = g[i + 1 - 1]
      BY <1>2, <2>1
    <3> QED BY <3>1, <3>2, <3>3
  <2>2. CASE i + 1 \notin 1..m
    BY <2>2
  <2> QED BY <2>1, <2>2
<1>3. Nat \subseteq S
  <2> HIDE DEF S
  <2> QED BY <1>1, <1>2, Induct
<1> QED BY <1>3

(* The flat function of one text more extends the one before it. *)
LEMMA FlatPrefix ==
  ASSUME NEW n \in Nat, NEW t, NEW u, \A i \in 1..n : t[i] = u[i],
         NEW f, Flat(f, t, n), NEW g, Flat(g, u, n + 1)
  PROVE  \A i \in 1..n : g[i] = f[i]
<1>1. n <= n + 1 /\ n + 1 \in Nat /\ \A i \in 1..n : u[i] = t[i]
  OBVIOUS
<1> QED BY <1>1, FlatUnique

(* FlattenSeq: the flat function of t exists, and its last value is it. *)
LEMMA FlattenFlat ==
  ASSUME NEW m \in Nat, m # 0, NEW t \in [1..m -> Text]
  PROVE  \E f : Flat(f, t, m) /\ FlattenSeq(t) = f[m] /\ f[m] \in Text
<1> DEFINE F == CHOOSE f : Flat(f, t, m)
<1>1. PICK f \in [1..m -> Text] : Flat(f, t, m)
  BY FlatExists
<1>2. Flat(F, t, m)
  BY <1>1
<1>3. Len(t) = m
  OBVIOUS
<1>4. FlattenSeq(t) = F[m]
  BY <1>3, FlattenIs
<1> HIDE DEF F
<1>5. F[m] = f[m]
  BY <1>1, <1>2, FlatUnique
<1>6. f[m] \in Text
  OBVIOUS
<1> QED BY <1>1, <1>4, <1>5, <1>6

(* One more text is appended to the flat sequence. *)
LEMMA FlattenNext ==
  ASSUME NEW n \in Nat, NEW t \in [1..n -> Text], NEW u \in [1..n + 1 -> Text],
         \A i \in 1..n : t[i] = u[i]
  PROVE  /\ FlattenSeq(t) \in Text
         /\ FlattenSeq(u) = FlattenSeq(t) \o u[n + 1]
<1>1. PICK g : Flat(g, u, n + 1) /\ FlattenSeq(u) = g[n + 1]
  BY FlattenFlat
<1>2. g[n + 1] = IF n + 1 = 1 THEN u[n + 1] ELSE g[n + 1 - 1] \o u[n + 1]
  BY <1>1, FlatAt
<1>3. CASE n = 0
  <2>1. Len(t) = 0 /\ t = <<>>
    BY <1>3
  <2>2. FlattenSeq(t) = <<>>
    BY <2>1 DEF FlattenSeq
  <2>3. u[1] \in Seq(Alphabet)
    BY <1>3 DEF Text
  <2>4. <<>> \o u[1] = u[1]
    BY <2>3
  <2> QED BY <1>1, <1>2, <1>3, <2>2, <2>4 DEF Text
<1>4. CASE n # 0
  <2>1. PICK f : Flat(f, t, n) /\ FlattenSeq(t) = f[n] /\ f[n] \in Text
    BY <1>4, FlattenFlat
  <2>2. \A i \in 1..n : g[i] = f[i]
    <3>1. Flat(g, u, n + 1) /\ Flat(f, t, n)
      BY <1>1, <2>1
    <3>2. n \in Nat /\ \A i \in 1..n : t[i] = u[i]
      OBVIOUS
    <3> QED BY SMTT(30), <3>1, <3>2, FlatPrefix
  <2>3. n \in 1..n /\ n + 1 - 1 = n /\ n + 1 # 1
    BY <1>4
  <2>4. g[n + 1] = g[n] \o u[n + 1] /\ g[n] = f[n]
    BY <1>2, <2>2, <2>3
  <2> QED BY <1>1, <2>1, <2>4
<1> QED BY <1>3, <1>4

(* The lines of the first headers of a request *)
LEMMA LineText ==
  ASSUME NEW h \in Headers PROVE HeaderLine(h) \in Text
<1>1. h.name \in Text /\ h.value \in Text
  BY DEF Headers
<1> QED BY <1>1, TextFacts DEF HeaderLine

(* The lines of n headers are those of n - 1 headers and the line of the   *)
(* last.                                                                   *)
LEMMA HeaderLinesFacts ==
  ASSUME NEW r \in Requests, NEW n \in 0..Len(r.headers)
  PROVE  /\ HeaderLines(r, n) \in Text
         /\ HeaderLines(r, 0) = <<>>
         /\ n # 0 => HeaderLines(r, n) = HeaderLines(r, n - 1) \o HeaderLine(r.headers[n])
<1> DEFINE t(k) == [i \in 1..k |-> HeaderLine(r.headers[i])]
<1>1. \A i \in 1..Len(r.headers) : r.headers[i] \in Headers
  BY DEF Requests
<1>2. Len(r.headers) \in Nat
  BY DEF Requests
<1>3. \A k \in 0..Len(r.headers) : t(k) \in [1..k -> Text]
  BY <1>1, <1>2, LineText
<1>4. HeaderLines(r, 0) = <<>>
  <2>1. Len(t(0)) = 0 /\ t(0) = <<>>
    OBVIOUS
  <2> QED BY <2>1 DEF HeaderLines, FlattenSeq
<1>5. CASE n = 0
  BY <1>4, <1>5, TextFacts
<1>6. CASE n # 0
  <2>1. n - 1 \in Nat /\ n - 1 + 1 = n /\ t(n - 1) \in [1..n - 1 -> Text] /\ t(n) \in [1..n -> Text]
    BY <1>2, <1>3, <1>6
  <2>2. \A i \in 1..n - 1 : t(n - 1)[i] = t(n)[i]
    BY <1>2
  <2>3. t(n)[n] = HeaderLine(r.headers[n])
    BY <1>2, <1>6
  <2>4. FlattenSeq(t(n)) = FlattenSeq(t(n - 1)) \o t(n)[n] /\ FlattenSeq(t(n - 1)) \in Text
    <3> HIDE DEF t
    <3> QED BY <2>1, <2>2, FlattenNext
  <2>5. HeaderLine(r.headers[n]) \in Text
    BY <1>1, <1>2, <1>6, LineText
  <2>6. HeaderLines(r, n) = FlattenSeq(t(n)) /\ HeaderLines(r, n - 1) = FlattenSeq(t(n - 1))
    BY DEF HeaderLines
  <2> HIDE DEF t
  <2>7. HeaderLines(r, n) = HeaderLines(r, n - 1) \o HeaderLine(r.headers[n])
    BY <2>3, <2>4, <2>6
  <2>8. HeaderLines(r, n) \in Text
    BY <2>4, <2>5, <2>6, <2>7, TextFacts
  <2> QED BY <1>4, <1>6, <2>7, <2>8
<1> QED BY <1>5, <1>6

(* Requests with the same first n headers have the same n header lines. *)
LEMMA HeaderLinesSame ==
  ASSUME NEW r \in Requests, NEW q \in Requests, NEW n \in Nat,
         \A i \in 1..n : r.headers[i] = q.headers[i]
  PROVE  HeaderLines(r, n) = HeaderLines(q, n)
<1>1. [i \in 1..n |-> HeaderLine(r.headers[i])] = [i \in 1..n |-> HeaderLine(q.headers[i])]
  OBVIOUS
<1> QED BY <1>1 DEF HeaderLines

------------------------------------------------------------------------------
NoMajor == TargetStates \cup {"http_version_h", "http_version_t_1", "http_version_t_2",
  "http_version_p", "http_version_slash", "http_version_major_start"}
NoMinor == NoMajor \cup {"http_version_major", "http_version_minor_start"}

LastHeader(r) == r.headers[Len(r.headers)]

(* What is still empty in state s *)
Blank(s, r, v) ==
  /\ s \in {"method_start", "method"} => r.uri = <<>>
  /\ s \in NoMajor => v.major = <<>>
  /\ s \in NoMinor => v.minor = <<>>
  /\ s \in TargetStates \cup VersionStates => r.headers = <<>>
  /\ s \in {"header_name", "space_before_header_value"} => LastHeader(r).value = <<>>

Target(r) == r.method \o <<" ">> \o r.uri
Start(r) == Target(r) \o <<" ", "H", "T", "T", "P", "/">>
Above(r, v) == RequestLine(r, v) \o HeaderLines(r, Len(r.headers) - 1)

(* The text t read so far, in state s: how the request r read so far, and  *)
(* the digits v of its version, are written, up to there.                  *)
Written(s, r, v, t) ==
  /\ s = "method_start" => t = <<>>
  /\ s = "method" => t = r.method
  /\ s = "uri" => t = Target(r)
  /\ s = "http_version_h" => t = Target(r) \o <<" ">>
  /\ s = "http_version_t_1" => t = Target(r) \o <<" ", "H">>
  /\ s = "http_version_t_2" => t = Target(r) \o <<" ", "H", "T">>
  /\ s = "http_version_p" => t = Target(r) \o <<" ", "H", "T", "T">>
  /\ s = "http_version_slash" => t = Target(r) \o <<" ", "H", "T", "T", "P">>
  /\ s \in {"http_version_major_start", "http_version_major"} => t = Start(r) \o v.major
  /\ s \in {"http_version_minor_start", "http_version_minor"} =>
       t = Start(r) \o v.major \o <<".">> \o v.minor
  /\ s = "expecting_newline_1" => t = Start(r) \o v.major \o <<".">> \o v.minor \o <<"cr">>
  /\ s = "header_line_start" => t = RequestLine(r, v) \o HeaderLines(r, Len(r.headers))
  /\ s = "header_name" => t = Above(r, v) \o LastHeader(r).name
  /\ s = "space_before_header_value" => t = Above(r, v) \o (LastHeader(r).name \o <<":">>)
  /\ s = "header_value" => t = Above(r, v) \o (LastHeader(r).name \o <<":", " ">> \o LastHeader(r).value)
  /\ s = "expecting_newline_2" =>
       t = Above(r, v) \o (LastHeader(r).name \o <<":", " ">> \o LastHeader(r).value \o <<"cr">>)
  /\ s = "expecting_newline_3" =>
       t = RequestLine(r, v) \o HeaderLines(r, Len(r.headers)) \o <<"cr">>
  /\ s # "header_lws"

(* An outcome of consume that accounts for the text t and the digits v *)
Told(o, v, t) ==
  /\ o.result = "more" => Blank(o.state, o.req, v) /\ Written(o.state, o.req, v, t)
  /\ o.result = "good" => t = Format(o.req, v)

(* To answer "bad" tells of nothing. *)
LEMMA ToldBad == ASSUME NEW r, NEW v, NEW t PROVE Told(Bad(r), v, t)
  BY DEF Told, Bad

(* To go on tells of the text if the next state does. *)
LEMMA ToldMore ==
  ASSUME NEW s, NEW r, NEW v, NEW t, Blank(s, r, v), Written(s, r, v, t)
  PROVE  Told(More(s, r), v, t)
  BY DEF Told, More

(* So does to expect one character, if it is the one. *)
LEMMA ToldExpect ==
  ASSUME NEW s, NEW r, NEW v, NEW t, NEW c, NEW wanted,
         c = wanted => Blank(s, r, v) /\ Written(s, r, v, t)
  PROVE  Told(Expect(c, wanted, s, r), v, t)
  BY ToldBad, ToldMore DEF Expect

(* The texts of a request and of a version *)
LEMMA RequestTexts ==
  ASSUME NEW r \in Requests, NEW v \in Versions
  PROVE  /\ r.method \in Text /\ r.uri \in Text /\ v.major \in Text /\ v.minor \in Text
         /\ Target(r) \in Text /\ Start(r) \in Text
         /\ RequestLine(r, v) = Start(r) \o v.major \o <<".">> \o v.minor \o <<"cr", "lf">>
         /\ Start(r) \o v.major \in Text
         /\ Start(r) \o v.major \o <<".">> \in Text
         /\ Start(r) \o v.major \o <<".">> \o v.minor \in Text
         /\ RequestLine(r, v) \in Text
<1>1. r.method \in Text /\ r.uri \in Text /\ v.major \in Text /\ v.minor \in Text
  BY DEF Requests, Versions
<1>2. Target(r) \in Text
  BY <1>1, TextFacts DEF Target
<1>3. Start(r) \in Text
  BY <1>2, TextFacts DEF Start
<1>4. Start(r) \o v.major \in Text
  BY <1>1, <1>3, TextFacts
<1>5. Start(r) \o v.major \o <<".">> \in Text
  BY <1>4, TextFacts
<1>6. Start(r) \o v.major \o <<".">> \o v.minor \in Text
  BY <1>1, <1>5, TextFacts
<1>7. RequestLine(r, v) = Start(r) \o v.major \o <<".">> \o v.minor \o <<"cr", "lf">>
  BY Zenon DEF RequestLine, Start, Target
<1>8. RequestLine(r, v) \in Text
  BY <1>6, <1>7, TextFacts
<1> QED BY <1>1, <1>2, <1>3, <1>4, <1>5, <1>6, <1>7, <1>8

(* The method and the uri *)
LEMMA TargetTold ==
  ASSUME NEW s \in TargetStates, NEW r, NEW v \in Versions, Fit(s, r), Blank(s, r, v),
         NEW t, Written(s, r, v, t), NEW c \in Alphabet
  PROVE  Told(consume(s, r, c), v, Append(t, c))
<1> DEFINE m == Push(r, "method", c)
           u == Push(r, "uri", c)
<1>1. r \in Requests
  BY DEF Fit
<1>2. /\ r.method \in Text /\ r.uri \in Text /\ Target(r) \in Text
  BY <1>1, RequestTexts
<1>3. consume(s, r, c) = consume_target(s, r, c)
  BY DEF consume, TargetStates
<1>4. m.method = Append(r.method, c) /\ m.uri = r.uri /\ m.headers = r.headers
  BY <1>1, PushFacts DEF Fields
<1>5. u.uri = Append(r.uri, c) /\ u.method = r.method /\ u.headers = r.headers
  BY <1>1, PushFacts DEF Fields
<1>6. v.major = <<>> /\ v.minor = <<>> /\ r.headers = <<>>
  BY DEF Blank, NoMajor, NoMinor
<1> HIDE DEF m, u
<1>7. ASSUME s \in {"method_start", "method"} PROVE Told(More("method", m), v, Append(t, c))
  <2>1. r.uri = <<>>
    BY <1>7 DEF Blank
  <2>2. t = r.method
    <3>1. s = "method_start" => t = <<>> /\ r = NoRequest
      BY DEF Written, Fit
    <3>2. s = "method" => t = r.method
      BY DEF Written
    <3> QED BY <1>7, <3>1, <3>2 DEF NoRequest
  <2>3. Blank("method", m, v)
    BY <2>1, <1>4, <1>6 DEF Blank
  <2>4. Written("method", m, v, Append(t, c))
    BY <2>2, <1>4 DEF Written
  <2> QED BY <2>3, <2>4, ToldMore
<1>8. CASE s = "method_start"
  BY <1>3, <1>7, <1>8, ToldBad DEF consume_target, m
<1>9. CASE s = "method"
  <2>1. t = r.method /\ r.uri = <<>>
    BY <1>9 DEF Written, Blank
  <2>2. " " \in Alphabet
    BY DEF Alphabet
  <2>3. r.method \o <<" ">> \in Text
    BY <1>2, TextFacts
  <2>4. Append(t, " ") = Target(r)
    BY <2>1, <2>2, <2>3, <1>2, Joins DEF Target
  <2>5. Written("uri", r, v, Append(t, " "))
    BY <2>4 DEF Written
  <2>6. Blank("uri", r, v)
    BY <1>6 DEF Blank
  <2>7. c = " " => Told(More("uri", r), v, Append(t, c))
    BY <2>5, <2>6, ToldMore
  <2> QED BY <1>3, <1>7, <1>9, <2>7, ToldBad DEF consume_target, m
<1>10. CASE s = "uri"
  <2>1. t = Target(r)
    BY <1>10 DEF Written
  <2>2. r.method \o <<" ">> \in Text
    BY <1>2, TextFacts
  <2>3. Append(t, c) = Target(u)
    <3>1. Append(r.method \o <<" ">> \o r.uri, c) = r.method \o <<" ">> \o Append(r.uri, c)
      BY <2>2, <1>2, AppendJoin
    <3> QED BY <2>1, <3>1, <1>5 DEF Target
  <2>4. Blank("uri", u, v) /\ Written("uri", u, v, Append(t, c))
    BY <2>3, <1>5, <1>6 DEF Blank, Written
  <2>5. " " \in Alphabet
    BY DEF Alphabet
  <2>6. Append(t, " ") = Target(r) \o <<" ">>
    BY <2>1, <2>5, <1>2, Joins
  <2>7. Written("http_version_h", r, v, Append(t, " "))
    BY <2>6 DEF Written
  <2>8. Blank("http_version_h", r, v)
    BY <1>6 DEF Blank
  <2>9. c = " " => Told(More("http_version_h", r), v, Append(t, c))
    BY <2>7, <2>8, ToldMore
  <2>10. Told(More("uri", u), v, Append(t, c))
    BY <2>4, ToldMore
  <2> QED BY <1>3, <1>10, <2>9, <2>10, ToldBad DEF consume_target, u
<1> QED BY <1>8, <1>9, <1>10 DEF TargetStates

(* The version *)
LEMMA VersionTold ==
  ASSUME NEW s \in VersionStates, NEW r, NEW v \in Versions, Fit(s, r), Blank(s, r, v),
         NEW t, Written(s, r, v, t), NEW c \in Alphabet
  PROVE  Told(consume(s, r, c), Recorded(s, v, c), Append(t, c))
<1> DEFINE j == PushDigit(r, "major", c)
           n == PushDigit(r, "minor", c)
           y == [v EXCEPT !.major = Append(@, c)]
           z == [v EXCEPT !.minor = Append(@, c)]
           o == NoVersion(r)
<1>1. r \in Requests
  BY DEF Fit
<1>2. /\ v.major \in Text /\ v.minor \in Text /\ Target(r) \in Text /\ Start(r) \in Text
      /\ Start(r) \o v.major \in Text /\ Start(r) \o v.major \o <<".">> \in Text
      /\ Start(r) \o v.major \o <<".">> \o v.minor \in Text
      /\ RequestLine(r, v) \in Text
      /\ RequestLine(r, v) = Start(r) \o v.major \o <<".">> \o v.minor \o <<"cr", "lf">>
  BY <1>1, RequestTexts
<1>3. consume(s, r, c) = consume_version(s, r, c)
  BY DEF consume, VersionStates
<1>4. /\ y.major = Append(v.major, c) /\ y.minor = v.minor
      /\ z.minor = Append(v.minor, c) /\ z.major = v.major
  BY DEF Versions
<1>5. /\ is_digit(c) => j.headers = r.headers /\ j.method = r.method /\ j.uri = r.uri
      /\ is_digit(c) => n.headers = r.headers /\ n.method = r.method /\ n.uri = r.uri
  BY <1>1, PushDigitFacts DEF Fields
<1>20. o.headers = r.headers /\ o.method = r.method /\ o.uri = r.uri
  BY <1>1, NoVersionFacts
<1>21. /\ Recorded(s, v, c) = v \/ is_digit(c)
       /\ s \notin {"http_version_major_start", "http_version_major",
                    "http_version_minor_start", "http_version_minor"} => Recorded(s, v, c) = v
       /\ is_digit(c) /\ s \in {"http_version_major_start", "http_version_major"} =>
            Recorded(s, v, c) = y
       /\ is_digit(c) /\ s \in {"http_version_minor_start", "http_version_minor"} =>
            Recorded(s, v, c) = z
  BY DEF Recorded
<1>6. /\ s \in NoMajor => v.major = <<>>
      /\ s \in NoMinor => v.minor = <<>>
      /\ r.headers = <<>>
  BY DEF Blank
<1>7. /\ Append(Target(r) \o <<" ">>, "H") = Target(r) \o <<" ", "H">>
      /\ Append(Target(r) \o <<" ", "H">>, "T") = Target(r) \o <<" ", "H", "T">>
      /\ Append(Target(r) \o <<" ", "H", "T">>, "T") = Target(r) \o <<" ", "H", "T", "T">>
      /\ Append(Target(r) \o <<" ", "H", "T", "T">>, "P")
           = Target(r) \o <<" ", "H", "T", "T", "P">>
      /\ Append(Target(r) \o <<" ", "H", "T", "T", "P">>, "/") = Start(r)
  BY <1>2, Spelled DEF Start
<1> HIDE DEF j, n, y, z, o
<1>8. CASE s = "http_version_h"
  <2>1. Written("http_version_t_1", r, v, Append(t, "H"))
    BY <1>8, <1>7 DEF Written
  <2>2. Blank("http_version_t_1", r, v)
    BY <1>8, <1>6 DEF Blank, NoMajor, NoMinor
  <2> QED BY <1>8, <1>3, <1>21, <2>1, <2>2, ToldExpect DEF consume_version
<1>9. CASE s = "http_version_t_1"
  <2>1. Written("http_version_t_2", r, v, Append(t, "T"))
    BY <1>9, <1>7 DEF Written
  <2>2. Blank("http_version_t_2", r, v)
    BY <1>9, <1>6 DEF Blank, NoMajor, NoMinor
  <2> QED BY <1>9, <1>3, <1>21, <2>1, <2>2, ToldExpect DEF consume_version
<1>10. CASE s = "http_version_t_2"
  <2>1. Written("http_version_p", r, v, Append(t, "T"))
    BY <1>10, <1>7 DEF Written
  <2>2. Blank("http_version_p", r, v)
    BY <1>10, <1>6 DEF Blank, NoMajor, NoMinor
  <2> QED BY <1>10, <1>3, <1>21, <2>1, <2>2, ToldExpect DEF consume_version
<1>11. CASE s = "http_version_p"
  <2>1. Written("http_version_slash", r, v, Append(t, "P"))
    BY <1>11, <1>7 DEF Written
  <2>2. Blank("http_version_slash", r, v)
    BY <1>11, <1>6 DEF Blank, NoMajor, NoMinor
  <2> QED BY <1>11, <1>3, <1>21, <2>1, <2>2, ToldExpect DEF consume_version
<1>12. CASE s = "http_version_slash"
  <2>1. v.major = <<>> /\ v.minor = <<>>
    BY <1>12, <1>6 DEF NoMajor, NoMinor
  <2>2. Start(r) \o v.major = Start(r)
    BY <2>1, <1>2, Joins
  <2>3. Start(o) = Start(r)
    BY <1>20 DEF Start, Target
  <2>4. Append(t, "/") = Start(o) \o v.major
    <3>1. Append(t, "/") = Start(r)
      BY <1>12, <1>7 DEF Written
    <3> QED BY <3>1, <2>2, <2>3
  <2>5. Written("http_version_major_start", o, v, Append(t, "/"))
    BY <2>4 DEF Written
  <2>6. Blank("http_version_major_start", o, v)
    BY <2>1, <1>6, <1>20 DEF Blank
  <2>7. c = "/" => Told(More("http_version_major_start", o), v, Append(t, c))
    BY <2>5, <2>6, ToldMore
  <2> QED BY <1>12, <1>3, <1>21, <2>7, ToldBad DEF consume_version, o
<1>13. ASSUME s \in {"http_version_major_start", "http_version_major"}, is_digit(c)
       PROVE  Told(More("http_version_major", j), y, Append(t, c))
  <2>1. t = Start(r) \o v.major
    BY <1>13 DEF Written
  <2>2. v.minor = <<>>
    BY <1>13, <1>6 DEF NoMinor, NoMajor
  <2>3. Start(j) = Start(r)
    BY <1>5, <1>13 DEF Start, Target
  <2>4. Append(t, c) = Start(j) \o y.major
    <3>1. Append(Start(r) \o v.major, c) = Start(r) \o Append(v.major, c)
      <4>1. Start(r) \in Text /\ v.major \in Text
        BY <1>2
      <4> QED BY <4>1, AppendJoin
    <3> QED BY <2>1, <2>3, <3>1, <1>4
  <2>5. Written("http_version_major", j, y, Append(t, c))
    BY <2>4 DEF Written
  <2>6. Blank("http_version_major", j, y)
    BY <2>2, <1>4, <1>5, <1>6, <1>13 DEF Blank, NoMajor, TargetStates
  <2> QED BY <2>5, <2>6, ToldMore
<1>14. CASE s = "http_version_major_start"
  BY <1>14, <1>3, <1>13, <1>21, ToldBad DEF consume_version, j
<1>15. CASE s = "http_version_major"
  <2>1. t = Start(r) \o v.major
    BY <1>15 DEF Written
  <2>2. v.minor = <<>>
    BY <1>15, <1>6 DEF NoMinor
  <2>3. "." \in Alphabet
    BY DEF Alphabet
  <2>4. Append(t, ".") = Start(r) \o v.major \o <<".">> \o v.minor
    BY <2>1, <2>2, <2>3, <1>2, Joins
  <2>5. Written("http_version_minor_start", r, v, Append(t, "."))
    BY <2>4 DEF Written
  <2>6. Blank("http_version_minor_start", r, v)
    BY <2>2, <1>6 DEF Blank, NoMajor, TargetStates
  <2>7. Told(Expect(c, ".", "http_version_minor_start", r), v, Append(t, c))
    BY <2>5, <2>6, ToldExpect
  <2>8. CASE is_digit(c)
    BY <1>15, <1>3, <1>13, <1>21, <2>8 DEF consume_version, j
  <2>9. CASE ~is_digit(c)
    BY <1>15, <1>3, <1>21, <2>7, <2>9 DEF consume_version
  <2> QED BY <2>8, <2>9
<1>16. ASSUME s \in {"http_version_minor_start", "http_version_minor"}, is_digit(c)
       PROVE  Told(More("http_version_minor", n), z, Append(t, c))
  <2>1. t = Start(r) \o v.major \o <<".">> \o v.minor
    BY <1>16 DEF Written
  <2>2. Start(n) = Start(r)
    BY <1>5, <1>16 DEF Start, Target
  <2>3. Append(t, c) = Start(n) \o z.major \o <<".">> \o z.minor
    <3>1. Append(Start(r) \o v.major \o <<".">> \o v.minor, c)
            = Start(r) \o v.major \o <<".">> \o Append(v.minor, c)
      <4>1. Start(r) \o v.major \o <<".">> \in Text /\ v.minor \in Text
        BY <1>2
      <4> QED BY <4>1, AppendJoin
    <3> QED BY <2>1, <2>2, <3>1, <1>4
  <2>4. Written("http_version_minor", n, z, Append(t, c))
    BY <2>3 DEF Written
  <2>5. Blank("http_version_minor", n, z)
    BY <1>5, <1>6, <1>16 DEF Blank, NoMajor, NoMinor, TargetStates
  <2> QED BY <2>4, <2>5, ToldMore
<1>17. CASE s = "http_version_minor_start"
  BY <1>17, <1>3, <1>16, <1>21, ToldBad DEF consume_version, n
<1>18. CASE s = "http_version_minor"
  <2>1. t = Start(r) \o v.major \o <<".">> \o v.minor
    BY <1>18 DEF Written
  <2>2. "cr" \in Alphabet
    BY DEF Alphabet
  <2>3. Append(t, "cr") = Start(r) \o v.major \o <<".">> \o v.minor \o <<"cr">>
    BY <2>1, <2>2, <1>2, Joins
  <2>4. Written("expecting_newline_1", r, v, Append(t, "cr"))
    BY <2>3 DEF Written
  <2>5. Blank("expecting_newline_1", r, v)
    BY <1>6 DEF Blank, NoMajor, NoMinor, TargetStates
  <2>6. Told(Expect(c, "cr", "expecting_newline_1", r), v, Append(t, c))
    BY <2>4, <2>5, ToldExpect
  <2>7. CASE is_digit(c)
    BY <1>18, <1>3, <1>16, <1>21, <2>7 DEF consume_version, n
  <2>8. CASE ~is_digit(c)
    BY <1>18, <1>3, <1>21, <2>6, <2>8 DEF consume_version
  <2> QED BY <2>7, <2>8
<1>19. CASE s = "expecting_newline_1"
  <2>1. t = Start(r) \o v.major \o <<".">> \o v.minor \o <<"cr">>
    BY <1>19 DEF Written
  <2>2. Append(t, "lf") = RequestLine(r, v)
    BY <2>1, <1>2, Spelled
  <2>3. Len(r.headers) = 0
    BY <1>6
  <2>4. HeaderLines(r, Len(r.headers)) = <<>>
    BY <1>1, <2>3, HeaderLinesFacts
  <2>5. RequestLine(r, v) \o HeaderLines(r, Len(r.headers)) = RequestLine(r, v)
    BY <2>4, <1>2, Joins
  <2>6. Written("header_line_start", r, v, Append(t, "lf"))
    BY <2>2, <2>5 DEF Written
  <2>7. Blank("header_line_start", r, v)
    BY DEF Blank, NoMajor, NoMinor, TargetStates, VersionStates
  <2> QED BY <1>19, <1>3, <1>21, <2>6, <2>7, ToldExpect DEF consume_version
<1> QED BY <1>8, <1>9, <1>10, <1>11, <1>12, <1>14, <1>15, <1>17, <1>18, <1>19 DEF VersionStates

(* The last header of a request that has one *)
LEMMA LastFacts ==
  ASSUME NEW r \in Requests, r.headers # <<>>, NEW v \in Versions
  PROVE  /\ LastHeader(r).name \in Text /\ LastHeader(r).value \in Text
         /\ Above(r, v) \in Text
         /\ Len(r.headers) \in Nat \ {0}
         /\ RequestLine(r, v) \o HeaderLines(r, Len(r.headers)) =
              Above(r, v) \o (LastHeader(r).name \o <<":", " ">> \o LastHeader(r).value \o <<"cr", "lf">>)
<1> DEFINE n == Len(r.headers)
<1>1. n \in Nat /\ n # 0 /\ n \in 1..n
  BY DEF Requests
<1>2. LastHeader(r) \in Headers
  BY <1>1 DEF LastHeader, Requests
<1>3. LastHeader(r).name \in Text /\ LastHeader(r).value \in Text
  BY <1>2 DEF Headers
<1>4. n \in 0..n /\ n - 1 \in 0..n
  BY <1>1
<1>5. RequestLine(r, v) \in Text
  BY RequestTexts
<1>6. HeaderLines(r, n - 1) \in Text
  BY <1>4, HeaderLinesFacts
<1>7. HeaderLine(LastHeader(r)) \in Text
  BY <1>2, LineText
<1>8. HeaderLines(r, n) = HeaderLines(r, n - 1) \o HeaderLine(LastHeader(r))
  BY <1>1, <1>4, HeaderLinesFacts DEF LastHeader
<1>9. RequestLine(r, v) \o HeaderLines(r, n) = Above(r, v) \o HeaderLine(LastHeader(r))
  <2>1. (RequestLine(r, v) \o HeaderLines(r, n - 1)) \o HeaderLine(LastHeader(r))
          = RequestLine(r, v) \o (HeaderLines(r, n - 1) \o HeaderLine(LastHeader(r)))
    BY <1>5, <1>6, <1>7, Associative
  <2> QED BY <2>1, <1>8 DEF Above
<1>10. Above(r, v) \in Text
  BY <1>5, <1>6, TextFacts DEF Above
<1> QED BY <1>1, <1>3, <1>9, <1>10 DEF HeaderLine

(* PushHeader leaves alone what is above the last header, and its other    *)
(* field.                                                                  *)
LEMMA PushHeaderLast ==
  ASSUME NEW r \in Requests, NEW c \in Alphabet, r.headers # <<>>,
         NEW f \in {"name", "value"}, NEW v
  PROVE  LET p == PushHeader(r, f, c) IN
         /\ Above(p, v) = Above(r, v)
         /\ LastHeader(p)[f] = Append(LastHeader(r)[f], c)
         /\ \A g \in {"name", "value"} \ {f} : LastHeader(p)[g] = LastHeader(r)[g]
<1> DEFINE n == Len(r.headers)
           p == PushHeader(r, f, c)
<1>0. Grown(r, f, c, p)
  BY PushHeaderFacts
<1> HIDE DEF p
<1>1. /\ p \in Requests /\ n \in 1..n /\ Len(p.headers) = n
      /\ \A i \in 1..n - 1 : p.headers[i] = r.headers[i]
      /\ p.headers[n][f] = Append(r.headers[n][f], c)
      /\ \A g \in {"name", "value"} \ {f} : p.headers[n][g] = r.headers[n][g]
      /\ \A g \in Fields : p[g] = r[g]
  BY <1>0 DEF Grown
<1>2. n - 1 \in Nat
  BY <1>1
<1> HIDE DEF p
<1>3. HeaderLines(p, n - 1) = HeaderLines(r, n - 1)
  <2> DEFINE k == n - 1
  <2>1. p \in Requests /\ k \in Nat /\ \A i \in 1..k : p.headers[i] = r.headers[i]
    BY <1>1, <1>2
  <2> HIDE DEF k
  <2>2. HeaderLines(p, k) = HeaderLines(r, k)
    BY <2>1, HeaderLinesSame
  <2> QED BY <2>2 DEF k
<1>4. p.method = r.method /\ p.uri = r.uri
  BY <1>1 DEF Fields
<1>5. RequestLine(p, v) = RequestLine(r, v)
  BY <1>4 DEF RequestLine
<1> HIDE DEF n
<1>6. Above(p, v) = Above(r, v)
  BY <1>1, <1>3, <1>5 DEF Above, n
<1>7. LastHeader(p) = p.headers[n] /\ LastHeader(r) = r.headers[n]
  BY <1>1 DEF LastHeader, n
<1> QED BY <1>1, <1>6, <1>7 DEF p

(* NewHeader puts the last header above the one it begins. *)
LEMMA NewHeaderLast ==
  ASSUME NEW r \in Requests, NEW c \in Alphabet, NEW v
  PROVE  LET q == NewHeader(r, c) IN
         /\ Above(q, v) = RequestLine(r, v) \o HeaderLines(r, Len(r.headers))
         /\ LastHeader(q) = Header(<<c>>, <<>>)
<1> DEFINE n == Len(r.headers)
           q == NewHeader(r, c)
<1>1. /\ q \in Requests /\ q.headers = Append(r.headers, Header(<<c>>, <<>>))
      /\ \A g \in Fields : q[g] = r[g]
  BY NewHeaderFacts
<1>2. r.headers \in Seq(Headers) /\ n \in Nat
  BY DEF Requests
<1> HIDE DEF q
<1>3. /\ Len(q.headers) = n + 1 /\ n + 1 - 1 = n
      /\ q.headers[n + 1] = Header(<<c>>, <<>>)
      /\ \A i \in 1..n : q.headers[i] = r.headers[i]
  BY <1>1, <1>2
<1>4. HeaderLines(q, n) = HeaderLines(r, n)
  BY <1>1, <1>2, <1>3, HeaderLinesSame
<1>5. q.method = r.method /\ q.uri = r.uri
  BY <1>1 DEF Fields
<1>6. RequestLine(q, v) = RequestLine(r, v)
  BY <1>5 DEF RequestLine
<1>7. Above(q, v) = RequestLine(r, v) \o HeaderLines(r, n)
  BY <1>3, <1>4, <1>6 DEF Above
<1>8. LastHeader(q) = Header(<<c>>, <<>>)
  BY <1>3 DEF LastHeader
<1> QED BY <1>7, <1>8 DEF q

(* The value of a header *)
LEMMA ValueTold ==
  ASSUME NEW s \in ValueStates, NEW r, NEW v \in Versions, Fit(s, r), Blank(s, r, v),
         NEW t, Written(s, r, v, t), NEW c \in Alphabet
  PROVE  Told(consume(s, r, c), v, Append(t, c))
<1> DEFINE p == PushHeader(r, "value", c)
           a == Above(r, v)
           h == LastHeader(r)
<1>1. r \in Requests /\ r.headers # <<>>
  BY DEF Fit, InHeader
<1>2. consume(s, r, c) = consume_value(s, r, c) /\ s # "header_lws"
  BY DEF consume, ValueStates, Written
<1>3. h.name \in Text /\ h.value \in Text /\ a \in Text
  BY <1>1, LastFacts
<1>4. Above(p, v) = a /\ LastHeader(p).value = Append(h.value, c) /\ LastHeader(p).name = h.name
  BY <1>1, PushHeaderLast
<1>5. h.name \o <<":">> \in Text /\ h.name \o <<":", " ">> \in Text
  BY <1>3, TextFacts
<1>6. h.name \o <<":", " ">> \o h.value \in Text
  BY <1>3, <1>5, TextFacts
<1> HIDE DEF p
<1>7. CASE s = "space_before_header_value"
  <2>1. t = a \o (h.name \o <<":">>) /\ h.value = <<>>
    BY <1>7 DEF Written, Blank
  <2>2. " " \in Alphabet
    BY DEF Alphabet
  <2>3. Append(t, " ") = a \o Append(h.name \o <<":">>, " ")
    BY <2>1, <2>2, <1>3, <1>5, AppendJoin
  <2>4. Append(h.name \o <<":">>, " ") = h.name \o <<":", " ">>
    BY <1>3, Spelled
  <2>5. h.name \o <<":", " ">> \o h.value = h.name \o <<":", " ">>
    BY <2>1, <1>5, Joins
  <2>6. Written("header_value", r, v, Append(t, " "))
    BY <2>3, <2>4, <2>5 DEF Written
  <2>7. Blank("header_value", r, v)
    BY DEF Blank, NoMajor, NoMinor, TargetStates, VersionStates
  <2>8. Told(Expect(c, " ", "header_value", r), v, Append(t, c))
    <3>1. c = " " => Blank("header_value", r, v) /\ Written("header_value", r, v, Append(t, c))
      BY <2>6, <2>7
    <3> HIDE DEF a, h
    <3> QED BY <3>1, ToldExpect
  <2>9. consume_value(s, r, c) = Expect(c, " ", "header_value", r)
    BY <1>7 DEF consume_value
  <2> QED BY <1>2, <2>8, <2>9
<1>8. CASE s = "header_value"
  <2>1. t = a \o (h.name \o <<":", " ">> \o h.value)
    BY <1>8 DEF Written
  <2>2. Append(t, c) = a \o Append(h.name \o <<":", " ">> \o h.value, c)
    BY <2>1, <1>3, <1>6, AppendJoin
  <2>3. Append(h.name \o <<":", " ">> \o h.value, c) = h.name \o <<":", " ">> \o Append(h.value, c)
    BY <1>3, <1>5, AppendJoin
  <2>4. Append(h.name \o <<":", " ">> \o h.value, c) = h.name \o <<":", " ">> \o h.value \o <<c>>
    BY <1>6, Joins
  <2>5. Written("header_value", p, v, Append(t, c))
    BY <2>2, <2>3, <1>4 DEF Written
  <2>6. Blank("header_value", p, v)
    BY DEF Blank, NoMajor, NoMinor, TargetStates, VersionStates
  <2>7. c = "cr" => Written("expecting_newline_2", r, v, Append(t, c))
    BY <2>2, <2>4 DEF Written
  <2>8. Blank("expecting_newline_2", r, v)
    BY DEF Blank, NoMajor, NoMinor, TargetStates, VersionStates
  <2>9. Told(More("header_value", p), v, Append(t, c))
    BY <2>5, <2>6, ToldMore
  <2>10. c = "cr" => Told(More("expecting_newline_2", r), v, Append(t, c))
    BY <2>7, <2>8, ToldMore
  <2> QED BY <1>2, <1>8, <2>9, <2>10, ToldBad DEF consume_value, p
<1> QED BY <1>2, <1>7, <1>8 DEF ValueStates

(* The other states of the headers *)
LEMMA HeaderTold ==
  ASSUME NEW s \in HeaderStates, NEW r, NEW v \in Versions, Fit(s, r), Blank(s, r, v),
         NEW t, Written(s, r, v, t), NEW c \in Alphabet, s = "header_line_start" => ~IsLws(c)
  PROVE  Told(consume(s, r, c), v, Append(t, c))
<1> DEFINE p == PushHeader(r, "name", c)
           q == NewHeader(r, c)
           w == RequestLine(r, v) \o HeaderLines(r, Len(r.headers))
<1>1. r \in Requests
  BY DEF Fit
<1>2. consume(s, r, c) = consume_header(s, r, c)
  BY DEF consume, HeaderStates
<1>3. w \in Text
  <2>1. Len(r.headers) \in 0..Len(r.headers)
    BY <1>1 DEF Requests
  <2>2. HeaderLines(r, Len(r.headers)) \in Text
    BY <1>1, <2>1, HeaderLinesFacts
  <2>3. RequestLine(r, v) \in Text
    BY <1>1, RequestTexts
  <2> QED BY <2>2, <2>3, TextFacts
<1>4. \A z \in {"header_line_start", "expecting_newline_3"} : Blank(z, r, v)
  BY DEF Blank, NoMajor, NoMinor, TargetStates, VersionStates
<1>5. CASE s = "header_line_start"
  <2>1. t = w
    BY <1>5 DEF Written
  <2>2. Append(t, c) = w \o <<c>>
    BY <2>1, <1>3, Joins
  <2>3. Above(q, v) = w /\ LastHeader(q) = Header(<<c>>, <<>>)
    BY <1>1, NewHeaderLast
  <2> HIDE DEF q
  <2>4. LastHeader(q).name = <<c>> /\ LastHeader(q).value = <<>>
    BY <2>3 DEF Header
  <2>5. Written("header_name", q, v, Append(t, c))
    BY <2>2, <2>3, <2>4 DEF Written
  <2>6. Blank("header_name", q, v)
    BY <2>4 DEF Blank, NoMajor, NoMinor, TargetStates, VersionStates
  <2>7. Told(More("header_name", q), v, Append(t, c))
    BY <2>5, <2>6, ToldMore
  <2>8. c = "cr" => Written("expecting_newline_3", r, v, Append(t, c))
    BY <2>2 DEF Written
  <2>9. c = "cr" => Told(More("expecting_newline_3", r), v, Append(t, c))
    BY <2>8, <1>4, ToldMore
  <2> QED BY <1>2, <1>5, <2>7, <2>9, ToldBad DEF consume_header, q
<1>6. CASE s = "header_name"
  <2>1. r.headers # <<>>
    BY <1>6 DEF Fit, InHeader
  <2>2. LastHeader(r).name \in Text /\ Above(r, v) \in Text
    BY <1>1, <2>1, LastFacts
  <2>3. t = Above(r, v) \o LastHeader(r).name /\ LastHeader(r).value = <<>>
    BY <1>6 DEF Written, Blank
  <2>4. Append(t, c) = Above(r, v) \o Append(LastHeader(r).name, c)
    BY <2>2, <2>3, AppendJoin
  <2>5. Append(LastHeader(r).name, c) = LastHeader(r).name \o <<c>>
    BY <2>2, Joins
  <2>6. /\ Above(p, v) = Above(r, v)
        /\ LastHeader(p).name = Append(LastHeader(r).name, c)
        /\ LastHeader(p).value = LastHeader(r).value
    BY <1>1, <2>1, PushHeaderLast
  <2> HIDE DEF p
  <2>7. Written("header_name", p, v, Append(t, c))
    BY <2>4, <2>6 DEF Written
  <2>8. Blank("header_name", p, v)
    BY <2>3, <2>6 DEF Blank, NoMajor, NoMinor, TargetStates, VersionStates
  <2>9. Told(More("header_name", p), v, Append(t, c))
    BY <2>7, <2>8, ToldMore
  <2>10. c = ":" => Written("space_before_header_value", r, v, Append(t, c))
    BY <2>4, <2>5 DEF Written
  <2>11. Blank("space_before_header_value", r, v)
    BY <2>3 DEF Blank, NoMajor, NoMinor, TargetStates, VersionStates
  <2>12. c = ":" => Told(More("space_before_header_value", r), v, Append(t, c))
    BY <2>10, <2>11, ToldMore
  <2> QED BY <1>2, <1>6, <2>9, <2>12, ToldBad DEF consume_header, p
<1>7. CASE s = "expecting_newline_2"
  <2> DEFINE a == Above(r, v)
             h == LastHeader(r)
             b == h.name \o <<":", " ">> \o h.value
  <2>1. r.headers # <<>>
    BY <1>7 DEF Fit, InHeader
  <2>2. /\ h.name \in Text /\ h.value \in Text /\ a \in Text
        /\ w = a \o (b \o <<"cr", "lf">>)
    BY <1>1, <2>1, LastFacts
  <2>3. b \in Text
    BY <2>2, TextFacts
  <2>4. t = a \o (b \o <<"cr">>)
    BY <1>7 DEF Written
  <2> HIDE DEF a, b, w
  <2>5. b \o <<"cr">> \in Text /\ "lf" \in Alphabet
    BY <2>3, TextFacts DEF Alphabet
  <2>6. Append(t, "lf") = a \o Append(b \o <<"cr">>, "lf")
    BY <2>2, <2>4, <2>5, AppendJoin
  <2>7. Append(b \o <<"cr">>, "lf") = b \o <<"cr", "lf">>
    BY <2>3, Spelled
  <2>8. Append(t, "lf") = w
    BY <2>2, <2>6, <2>7
  <2>9. Written("header_line_start", r, v, Append(t, "lf"))
    BY <2>8 DEF Written, w
  <2> QED BY <1>2, <1>4, <1>7, <2>9, ToldExpect DEF consume_header
<1>8. CASE s = "expecting_newline_3"
  <2>1. t = w \o <<"cr">>
    BY <1>8 DEF Written
  <2>2. Append(t, "lf") = w \o <<"cr", "lf">>
    BY <2>1, <1>3, Spelled
  <2>3. Append(t, "lf") = Format(r, v)
    BY <2>2 DEF Format
  <2>4. c = "lf" => Told(Good(r), v, Append(t, c))
    BY <2>3 DEF Told, Good
  <2> QED BY <1>2, <1>8, <2>4, ToldBad DEF consume_header
<1> QED BY <1>5, <1>6, <1>7, <1>8 DEF HeaderStates

(* consume accounts for every byte, from every state. *)
LEMMA ConsumeTold ==
  ASSUME NEW s \in States, NEW r, NEW v \in Versions, Fit(s, r), Blank(s, r, v),
         NEW t, Written(s, r, v, t),
         NEW c \in Alphabet, s = "header_line_start" => ~IsLws(c)
  PROVE  Told(consume(s, r, c), Recorded(s, v, c), Append(t, c))
<1>1. CASE s \in VersionStates
  BY <1>1, VersionTold
<1>2. CASE s \notin VersionStates
  <2>1. Recorded(s, v, c) = v
    BY <1>2 DEF Recorded, VersionStates
  <2>2. Told(consume(s, r, c), v, Append(t, c))
    BY <1>2, TargetTold, ValueTold, HeaderTold DEF States
  <2> QED BY <2>1, <2>2
<1> QED BY <1>1, <1>2

(* What is known of the bytes read while no line continued a header *)
Read ==
  /\ lws \in Nat
  /\ lws = 0 /\ result = "more" =>
       Blank(state_, req, version) /\ Written(state_, req, version, input)
  /\ lws = 0 /\ result = "good" => input = Format(req, version)

(* Nothing is read at first. *)
LEMMA ReadInit == ASSUME Init PROVE Read
  BY DEF Init, Read, Blank, Written, NoRequest

(* Each byte fed is accounted for. *)
LEMMA ReadStep == ASSUME Machine, Read, [Next]_vars PROVE Read'
<1>1. CASE UNCHANGED vars
  BY <1>1 DEF Read, vars
<1>2. CASE \E c \in Chars : Feed(c)
  <2>1. PICK c \in Chars : Feed(c)
    BY <1>2
  <2>2. c \in Alphabet
    BY CharsAssumption
  <2>3. lws' \in Nat /\ (lws' = 0 => lws = 0)
    BY <2>1 DEF Feed, Read
  <2>4. CASE result = "more"
    <3>1. lws' = 0 /\ state_ = "header_line_start" => ~IsLws(c)
      BY <2>1, <2>4 DEF Feed, Read
    <3>2. lws' = 0 =>
            Told(consume(state_, req, c), Recorded(state_, version, c), Append(input, c))
      BY <2>2, <2>3, <2>4, <3>1, ConsumeTold DEF Machine, Read
    <3>3. /\ result' = consume(state_, req, c).result
          /\ state_' = consume(state_, req, c).state
          /\ req' = consume(state_, req, c).req
          /\ version' = Recorded(state_, version, c)
          /\ input' = Append(input, c)
      BY <2>1, <2>4 DEF Feed
    <3> QED BY <2>3, <3>2, <3>3 DEF Read, Told
  <2>5. CASE result # "more"
    <3>1. UNCHANGED <<input, result, state_, req, version>>
      BY <2>1, <2>5 DEF Feed
    <3> QED BY <2>3, <2>5, <3>1 DEF Read
  <2> QED BY <2>4, <2>5
<1> QED BY <1>1, <1>2 DEF Next
------------------------------------------------------------------------------
(* The digits v read of a version's two numbers, in state s, and the       *)
(* numbers that the request r holds                                        *)
Counted(s, r, v) ==
  /\ v.major \in Seq(Digits) /\ v.minor \in Seq(Digits)
  /\ s \in NoMajor => v.major = <<>>
  /\ s \in NoMinor => v.minor = <<>>
  /\ s \notin Unset \cup {"method_start"} => Numbers(r, v)

(* An outcome of consume that counts the digits v *)
Counts(o, v) == o.result # "bad" => Counted(o.state, o.req, v)

(* No digits are zero; one digit more counts as AddDigit does. *)
LEMMA NumberFacts ==
  /\ Number(<<>>) = 0
  /\ \A d \in Seq(Digits), c \in Digits : Number(Append(d, c)) = AddDigit(Number(d), c)
<1>1. Number(<<>>) = 0
  <2>1. <<>> \in Seq(Digits)
    OBVIOUS
  <2>2. Value(<<>>) = 0
    BY <2>1, ValueFacts
  <2> QED BY <2>2, NumbersAssumption DEF Number, Zero
<1>2. ASSUME NEW d \in Seq(Digits), NEW c \in Digits
      PROVE  Number(Append(d, c)) = AddDigit(Number(d), c)
  <2> DEFINE n == Value(d)
             w == Worth(c)
             m == Value(Append(d, c))
  <2>1. n \in Nat /\ w \in Nat /\ m = n * 10 + w /\ MaxInt \in Nat
    BY ValueFacts, WorthFacts, NumbersAssumption
  <2>2. Number(d) = (IF n + Zero <= MaxInt THEN n ELSE Undefined)
    BY DEF Number
  <2>3. Number(Append(d, c)) = (IF m + Zero <= MaxInt THEN m ELSE Undefined)
    BY DEF Number
  <2>4. AddDigit(Number(d), c) =
          IF Number(d) = Undefined \/ Number(d) * 10 + Zero + w > MaxInt
          THEN Undefined ELSE Number(d) * 10 + w
    BY DEF AddDigit
  <2> HIDE DEF n, w, m
  <2>5. CASE n + Zero <= MaxInt
    BY <2>1, <2>2, <2>3, <2>4, <2>5 DEF Zero, Undefined
  <2>6. CASE ~(n + Zero <= MaxInt)
    <3>1. ~(m + Zero <= MaxInt)
      BY <2>1, <2>6 DEF Zero
    <3> QED BY <2>2, <2>3, <2>4, <2>6, <3>1
  <2> QED BY <2>5, <2>6
<1> QED BY <1>1, <1>2

(* The states whose bytes are in neither number *)
LEMMA OtherCounts ==
  ASSUME NEW s \in States, NEW r, Fit(s, r), NEW v, Counted(s, r, v), NEW c \in Alphabet,
         s \notin {"http_version_slash", "http_version_major_start", "http_version_major",
                   "http_version_minor_start", "http_version_minor"}
  PROVE  Counts(consume(s, r, c), v)
<1> DEFINE o == consume(s, r, c)
<1>1. r \in Requests /\ (s \in InHeader => r.headers # <<>>)
  BY DEF Fit
<1>2. CASE s \in TargetStates
  <2>1. o = consume_target(s, r, c)
    BY <1>2 DEF consume, TargetStates
  <2>2. o.result = "bad" \/ o.state \in {"method", "uri", "http_version_h"}
    <3> HIDE DEF o
    <3>1. CASE s = "method_start"
      BY <3>1, <2>1 DEF consume_target, More, Bad
    <3>2. CASE s = "method"
      BY <3>2, <2>1 DEF consume_target, More, Bad
    <3>3. CASE s = "uri"
      BY <3>3, <2>1 DEF consume_target, More, Bad
    <3> QED BY <1>2, <3>1, <3>2, <3>3 DEF TargetStates
  <2>3. v.major = <<>> /\ v.minor = <<>>
    BY <1>2 DEF Counted, NoMajor, NoMinor
  <2> HIDE DEF o
  <2>4. Counts(o, v)
    BY <2>2, <2>3 DEF Counts, Counted, Unset
  <2> QED BY <2>4 DEF o
<1>3. CASE s \in {"http_version_h", "http_version_t_1", "http_version_t_2", "http_version_p"}
  <2>1. o = consume_version(s, r, c)
    BY <1>3 DEF consume
  <2>2. o.result = "bad" \/ o.state \in Unset
    <3> HIDE DEF o
    <3>1. \A w : \A z \in Unset :
            Expect(c, w, z, r).result = "bad" \/ Expect(c, w, z, r).state \in Unset
      BY DEF Expect, More, Bad
    <3>2. \E w : \E z \in Unset : o = Expect(c, w, z, r)
      BY <1>3, <2>1 DEF consume_version, Unset
    <3> QED BY <3>1, <3>2
  <2>3. v.major = <<>> /\ v.minor = <<>>
    BY <1>3 DEF Counted, NoMajor, NoMinor
  <2> HIDE DEF o
  <2>4. Counts(o, v)
    BY <2>2, <2>3 DEF Counts, Counted
  <2> QED BY <2>4 DEF o
<1>4. CASE s \in {"expecting_newline_1"} \cup ValueStates \cup HeaderStates
  <2>1. /\ o.req.major = r.major /\ o.req.minor = r.minor
        /\ o.state \in {"header_line_start", "end"} \cup ValueStates \cup HeaderStates
    <3>0. \A f \in {"name", "value"} : s \in InHeader =>
            PushHeader(r, f, c).major = r.major /\ PushHeader(r, f, c).minor = r.minor
      <4>1. SUFFICES ASSUME s \in InHeader, NEW f \in {"name", "value"}
                     PROVE  /\ PushHeader(r, f, c).major = r.major
                            /\ PushHeader(r, f, c).minor = r.minor
        OBVIOUS
      <4>2. \A g \in Fields : PushHeader(r, f, c)[g] = r[g]
        BY <1>1, <4>1, PushHeaderFacts DEF Grown
      <4> QED BY <4>2 DEF Fields
    <3>1. NewHeader(r, c).major = r.major /\ NewHeader(r, c).minor = r.minor
      BY <1>1, NewHeaderFacts DEF Fields
    <3>2. CASE s = "expecting_newline_1"
      BY <3>2 DEF consume, consume_version, Expect, More, Bad
    <3>3. CASE s \in ValueStates
      <4>1. o = consume_value(s, r, c) /\ s \in InHeader
        BY <3>3 DEF consume, ValueStates, InHeader
      <4>2. PushHeader(r, "value", c).major = r.major /\ PushHeader(r, "value", c).minor = r.minor
        BY <3>0, <4>1
      <4> HIDE DEF o
      <4>3. CASE s = "space_before_header_value"
        BY <4>1, <4>3 DEF consume_value, Expect, More, Bad, ValueStates
      <4>4. CASE s \in {"header_lws", "header_value"}
        BY <4>1, <4>2, <4>4 DEF consume_value, More, Bad, ValueStates, HeaderStates
      <4> QED BY <3>3, <4>3, <4>4 DEF ValueStates
    <3>4. CASE s \in HeaderStates
      <4>1. o = consume_header(s, r, c) /\ (s = "header_name" => s \in InHeader)
        BY <3>4 DEF consume, HeaderStates, InHeader
      <4> QED BY <3>0, <3>1, <3>4, <4>1
              DEF consume_header, Expect, More, Bad, Good, ValueStates, HeaderStates
    <3> QED BY <1>4, <3>2, <3>3, <3>4
  <2>2. Numbers(r, v) /\ v.major \in Seq(Digits) /\ v.minor \in Seq(Digits)
    BY <1>4 DEF Counted, Unset, ValueStates, HeaderStates
  <2> HIDE DEF o
  <2>3. o.state \notin NoMinor
    BY <2>1 DEF NoMinor, NoMajor, TargetStates, ValueStates, HeaderStates
  <2>4. Counts(o, v)
    BY <2>1, <2>2, <2>3 DEF Counts, Counted, Numbers, NoMinor
  <2> QED BY <2>4 DEF o
<1> QED BY <1>2, <1>3, <1>4 DEF States, VersionStates

(* The version: its numbers are zero until their digits are read. *)
LEMMA VersionCounts ==
  ASSUME NEW s, NEW r, Fit(s, r), NEW v \in Versions, Counted(s, r, v), NEW c \in Alphabet,
         s \in {"http_version_slash", "http_version_major_start", "http_version_major",
                "http_version_minor_start", "http_version_minor"}
  PROVE  Counts(consume(s, r, c), Recorded(s, v, c))
<1> DEFINE o == consume(s, r, c)
           w == Recorded(s, v, c)
<1>1. r \in Requests
  BY DEF Fit
<1>2. o = consume_version(s, r, c)
  BY DEF consume
<1>3. v.major \in Seq(Digits) /\ v.minor \in Seq(Digits)
  BY DEF Counted
<1>4. CASE s = "http_version_slash"
  <2>1. v.major = <<>> /\ v.minor = <<>> /\ w = v
    BY <1>4 DEF Counted, NoMajor, NoMinor, Recorded
  <2>2. o.result = "bad" \/ (o.state = "http_version_major_start" /\ o.req = NoVersion(r))
    BY <1>2, <1>4 DEF consume_version, More, Bad
  <2>3. Numbers(NoVersion(r), v)
    BY <2>1, <1>1, NoVersionFacts, NumberFacts DEF Numbers
  <2> HIDE DEF o, w
  <2>4. Counts(o, w)
    BY <1>3, <2>1, <2>2, <2>3 DEF Counts, Counted
  <2> QED BY <2>4 DEF o, w
<1>5. CASE s \in {"http_version_major_start", "http_version_major"} /\ is_digit(c)
  <2>1. v.minor = <<>> /\ Numbers(r, v)
    BY <1>5 DEF Counted, NoMajor, NoMinor, Unset
  <2>2. o = More("http_version_major", PushDigit(r, "major", c))
    BY <1>2, <1>5 DEF consume_version
  <2>3. w.major = Append(v.major, c) /\ w.minor = v.minor
    BY <1>5 DEF Recorded, Versions
  <2>4. /\ PushDigit(r, "major", c).major = AddDigit(r.major, c)
        /\ PushDigit(r, "major", c).minor = r.minor
    BY <1>1, <1>5, PushDigitFacts DEF Fields
  <2>5. c \in Digits
    BY <1>5 DEF is_digit
  <2>6. w.major \in Seq(Digits)
    BY <1>3, <2>3, <2>5
  <2> HIDE DEF w
  <2>7. Numbers(PushDigit(r, "major", c), w)
    BY <1>3, <2>1, <2>3, <2>4, <2>5, NumberFacts DEF Numbers
  <2>8. Counted("http_version_major", PushDigit(r, "major", c), w)
    BY <1>3, <2>1, <2>3, <2>6, <2>7 DEF Counted, NoMajor, TargetStates
  <2>9. Counts(o, w)
    BY <2>2, <2>8 DEF Counts, More
  <2> QED BY <2>9 DEF w
<1>6. CASE s \in {"http_version_minor_start", "http_version_minor"} /\ is_digit(c)
  <2>1. Numbers(r, v)
    BY <1>6 DEF Counted, Unset
  <2>2. o = More("http_version_minor", PushDigit(r, "minor", c))
    BY <1>2, <1>6 DEF consume_version
  <2>3. w.minor = Append(v.minor, c) /\ w.major = v.major
    BY <1>6 DEF Recorded, Versions
  <2>4. /\ PushDigit(r, "minor", c).minor = AddDigit(r.minor, c)
        /\ PushDigit(r, "minor", c).major = r.major
    BY <1>1, <1>6, PushDigitFacts DEF Fields
  <2>5. c \in Digits
    BY <1>6 DEF is_digit
  <2>6. w.minor \in Seq(Digits)
    BY <1>3, <2>3, <2>5
  <2> HIDE DEF w
  <2>7. Numbers(PushDigit(r, "minor", c), w)
    BY <1>3, <2>1, <2>3, <2>4, <2>5, NumberFacts DEF Numbers
  <2>8. Counted("http_version_minor", PushDigit(r, "minor", c), w)
    BY <1>3, <2>3, <2>6, <2>7 DEF Counted, NoMajor, NoMinor, TargetStates
  <2>9. Counts(o, w)
    BY <2>2, <2>8 DEF Counts, More
  <2> QED BY <2>9 DEF w
<1>7. CASE s # "http_version_slash" /\ ~is_digit(c)
  <2>1. Numbers(r, v) /\ w = v
    BY <1>7 DEF Counted, Unset, Recorded
  <2>2. \/ o.result = "bad"
        \/ s = "http_version_major" /\ o.state = "http_version_minor_start" /\ o.req = r
        \/ s = "http_version_minor" /\ o.state = "expecting_newline_1" /\ o.req = r
    <3> HIDE DEF o
    <3>1. CASE s \in {"http_version_major_start", "http_version_minor_start"}
      BY <1>2, <1>7, <3>1 DEF consume_version, Bad
    <3>2. CASE s = "http_version_major"
      <4>1. o = Expect(c, ".", "http_version_minor_start", r)
        BY <1>2, <1>7, <3>2 DEF consume_version
      <4> QED BY <3>2, <4>1 DEF Expect, More, Bad
    <3>3. CASE s = "http_version_minor"
      <4>1. o = Expect(c, "cr", "expecting_newline_1", r)
        BY <1>2, <1>7, <3>3 DEF consume_version
      <4> QED BY <3>3, <4>1 DEF Expect, More, Bad
    <3> QED BY <1>7, <3>1, <3>2, <3>3
  <2>3. s = "http_version_major" => v.minor = <<>>
    BY DEF Counted, NoMinor
  <2> HIDE DEF o, w
  <2>4. Counts(o, w)
    BY <1>3, <2>1, <2>2, <2>3 DEF Counts, Counted, NoMajor, NoMinor, TargetStates
  <2> QED BY <2>4 DEF o, w
<1> QED BY <1>4, <1>5, <1>6, <1>7

(* The machine ends when it accepts. *)
LEMMA GoodEnds ==
  ASSUME NEW s \in States, NEW r, NEW c
  PROVE  consume(s, r, c).result = "good" => consume(s, r, c).state = "end"
<1>1. CASE s \in TargetStates
  BY <1>1 DEF consume, consume_target, TargetStates, More, Bad
<1>2. CASE s \in VersionStates
  BY <1>2 DEF consume, consume_version, VersionStates, Expect, More, Bad
<1>3. CASE s \in ValueStates
  BY <1>3 DEF consume, consume_value, ValueStates, Expect, More, Bad
<1>4. CASE s \in HeaderStates
  BY <1>4 DEF consume, consume_header, HeaderStates, Expect, More, Bad, Good
<1> QED BY <1>1, <1>2, <1>3, <1>4 DEF States

(* The invariant: the numbers of the request are those that its digits     *)
(* write, as far as they are read.                                         *)
Numbered ==
  /\ result # "bad" => Counted(state_, req, version)
  /\ result = "good" => state_ = "end"

(* No digit is read at first. *)
LEMMA NumberedInit == ASSUME Init PROVE Numbered
  BY DEF Init, Numbered, Counted

(* Every byte fed is counted where it is a digit of a number. *)
LEMMA NumberedStep == ASSUME Machine, Numbered, [Next]_vars PROVE Numbered'
<1>1. CASE UNCHANGED vars
  BY <1>1 DEF Numbered, vars
<1>2. CASE \E c \in Chars : Feed(c)
  <2>1. PICK c \in Chars : Feed(c)
    BY <1>2
  <2>2. c \in Alphabet
    BY CharsAssumption
  <2>3. CASE result = "more"
    <3>1. /\ state_ \in States /\ Fit(state_, req) /\ version \in Versions
          /\ Counted(state_, req, version)
      BY <2>3 DEF Machine, Numbered
    <3>2. Counts(consume(state_, req, c), Recorded(state_, version, c))
      <4>1. CASE state_ \in {"http_version_slash", "http_version_major_start",
                             "http_version_major", "http_version_minor_start",
                             "http_version_minor"}
        BY <2>2, <3>1, <4>1, VersionCounts
      <4>2. CASE state_ \notin {"http_version_slash", "http_version_major_start",
                                "http_version_major", "http_version_minor_start",
                                "http_version_minor"}
        <5>1. Recorded(state_, version, c) = version
          BY <4>2 DEF Recorded
        <5> QED BY <2>2, <3>1, <4>2, <5>1, OtherCounts
      <4> QED BY <4>1, <4>2
    <3>3. /\ result' = consume(state_, req, c).result
          /\ state_' = consume(state_, req, c).state
          /\ req' = consume(state_, req, c).req
          /\ version' = Recorded(state_, version, c)
      BY <2>1, <2>3 DEF Feed
    <3>4. result' = "good" => state_' = "end"
      BY <3>1, <3>3, GoodEnds
    <3> QED BY <3>2, <3>3, <3>4 DEF Counts, Numbered
  <2>4. CASE result # "more"
    <3>1. UNCHANGED <<input, result, state_, req, version>>
      BY <2>1, <2>4 DEF Feed
    <3> QED BY <3>1 DEF Numbered
  <2> QED BY <2>3, <2>4
<1> QED BY <1>1, <1>2 DEF Next

(* What request_parser accepts is exactly how the request it returns is    *)
(* written, whatever its length and its number of headers, unless a line   *)
(* continued a header: consume inverts Format.  The numbers it returns are *)
(* those that the digits write, with any zeros before them, up to where an *)
(* int overflows.                                                          *)
THEOREM ParserInverts == Spec => []RoundTrip
<1>1. Init => Machine /\ Read /\ Numbered
  BY MachineInit, ReadInit, NumberedInit
<1>2. Machine /\ Read /\ Numbered /\ [Next]_vars => (Machine /\ Read /\ Numbered)'
  BY MachineStep, ReadStep, NumberedStep
<1>3. Machine /\ Read /\ Numbered => RoundTrip
  <2> HAVE Machine /\ Read /\ Numbered
  <2>1. result = "good" => Numbers(req, version)
    BY DEF Numbered, Counted, Unset
  <2>2. result = "good" /\ lws = 0 => input = Format(req, version)
    BY DEF Read
  <2>3. ASSUME result = "more" /\ lws = 0 /\ state_ = "header_line_start"
        PROVE  input \o <<"cr", "lf">> = Format(req, version)
    BY <2>3 DEF Read, Written, Format
  <2> QED BY <2>1, <2>2, <2>3 DEF RoundTrip
<1> QED BY <1>1, <1>2, <1>3, PTL DEF Spec
=============================================================================
