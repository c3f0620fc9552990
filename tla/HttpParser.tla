----------------------------- MODULE HttpParser -----------------------------
(***************************************************************************)
(* The request parsers of the HTTP servers: the state machine of           *)
(* http/server (the same in server2, server3 and cpp11) and the coroutine  *)
(* of http/server4, fed the same bytes.  A byte is one of a few characters *)
(* that stand for the classes the parsers tell apart.                      *)
(***************************************************************************)
EXTENDS Integers, Sequences, SequencesExt

CONSTANTS
  Chars,        \* the characters fed
  MaxInt,       \* the greatest int
  MaxSize,      \* the greatest std::size_t
  MaxLength,    \* bound: characters in a method, a uri, a name, a content
  MaxDigits,    \* bound: digits in a version
  MaxValue,     \* bound: characters in a header's value
  MaxHeaders,   \* bound: headers of a request
  Plain,        \* some of the characters:
  MaxOdd,       \* bound: characters that are not plain, in all the parts of a request
  MaxLws        \* bound: these, and spaces before the continuation of a header

(* "L" and "l" one letter in both cases, "a" the letters and "special" the *)
(* tspecials, "ctl" the control characters and "8bit" the bytes above 127  *)
(* that have no name of their own                                          *)
Digits == {"0", "1", "2", "3", "4", "5", "6", "7", "8", "9"}
Alphabet ==
  Digits \cup {"L", "l", "a", "H", "T", "P", "+", "-", ".", ":", "/", " ", "tab", "cr", "lf",
               "ctl", "special", "8bit"}

Zero == 48          \* the character '0', as an int
Undefined == -1     \* stands for any value: of an int not yet set, or after an overflow

ASSUME CharsAssumption == Chars \subseteq Alphabet
ASSUME NumbersAssumption == MaxInt \in Nat /\ MaxInt >= Zero /\ MaxSize \in Nat

is_char(c) == c # "8bit"
is_ctl(c) == c \in {"tab", "cr", "lf", "ctl"}
is_tspecial(c) == c \in {":", "/", " ", "tab", "special"}
is_digit(c) == c \in Digits
IsToken(c) == is_char(c) /\ ~is_ctl(c) /\ ~is_tspecial(c)
IsLws(c) == c \in {" ", "tab"}

(* input - '0' *)
Worth(c) ==
  CASE c = "0" -> 0 [] c = "1" -> 1 [] c = "2" -> 2 [] c = "3" -> 3 [] c = "4" -> 4
    [] c = "5" -> 5 [] c = "6" -> 6 [] c = "7" -> 7 [] c = "8" -> 8 [] c = "9" -> 9

(* Mutant of AddDigit: the character itself is added. *)
AddDigitRaw(n, c) ==
  IF n = Undefined \/ n * 10 + Zero + Worth(c) > MaxInt THEN Undefined ELSE n * 10 + Zero + Worth(c)

(* n * 10 + input - '0', an int at every step *)
AddDigit(n, c) ==
  IF n = Undefined \/ n * 10 + Zero + Worth(c) > MaxInt THEN Undefined ELSE n * 10 + Worth(c)

VARIABLES
  input,     \* the bytes that the parser of http/server has taken
  after,     \* the bytes fed since it answered
  result,    \* of consume: "more" (indeterminate), "good" or "bad"
  state_,    \* request_parser::state_
  req,       \* the request
  result4, state4, req4,     \* the parser of server4, which stops at its yields
  lws,       \* history: the number of spaces that continued a header
  version    \* history: the digits of the version's two numbers, as they came

vars == <<input, after, result, state_, req, result4, state4, req4, lws, version>>

(* Only a request of server4 has a content. *)
NoRequest ==
  [method |-> <<>>, uri |-> <<>>, major |-> Undefined, minor |-> Undefined, headers |-> <<>>,
   content |-> <<>>]
NoVersion(r) == [r EXCEPT !.major = 0, !.minor = 0]
Header(name, value) == [name |-> name, value |-> value]

Push(r, field, c) == [r EXCEPT ![field] = Append(@, c)]
NewHeader(r, c) == Push(r, "headers", Header(<<c>>, <<>>))
PushHeader(r, field, c) == [r EXCEPT !.headers[Len(r.headers)][field] = Append(@, c)]
PushDigit(r, field, c) == [r EXCEPT ![field] = AddDigit(@, c)]

(* An outcome of consume: it goes on in state s with request r, or ends. *)
More(s, r) == [result |-> "more", state |-> s, req |-> r]
Good(r) == [result |-> "good", state |-> "end", req |-> r]
Bad(r) == [result |-> "bad", state |-> "end", req |-> r]

Expect(c, wanted, s, r) == IF c = wanted THEN More(s, r) ELSE Bad(r)
------------------------------------------------------------------------------
(* request_parser::consume of http/server, in three parts *)
consume_target(s, r, c) ==
  CASE s = "method_start" -> IF IsToken(c) THEN More("method", Push(r, "method", c)) ELSE Bad(r)
    [] s = "method" ->
         IF c = " " THEN More("uri", r)
         ELSE IF IsToken(c) THEN More(s, Push(r, "method", c)) ELSE Bad(r)
    [] s = "uri" ->
         IF c = " " THEN More("http_version_h", r)
         ELSE IF is_ctl(c) THEN Bad(r) ELSE More(s, Push(r, "uri", c))

consume_version(s, r, c) ==
  CASE s = "http_version_h" -> Expect(c, "H", "http_version_t_1", r)
    [] s = "http_version_t_1" -> Expect(c, "T", "http_version_t_2", r)
    [] s = "http_version_t_2" -> Expect(c, "T", "http_version_p", r)
    [] s = "http_version_p" -> Expect(c, "P", "http_version_slash", r)
    [] s = "http_version_slash" ->
         IF c = "/" THEN More("http_version_major_start", NoVersion(r)) ELSE Bad(r)
    [] s = "http_version_major_start" ->
         IF is_digit(c) THEN More("http_version_major", PushDigit(r, "major", c)) ELSE Bad(r)
    [] s = "http_version_major" ->
         IF is_digit(c) THEN More(s, PushDigit(r, "major", c))
         ELSE Expect(c, ".", "http_version_minor_start", r)
    [] s = "http_version_minor_start" ->
         IF is_digit(c) THEN More("http_version_minor", PushDigit(r, "minor", c)) ELSE Bad(r)
    [] s = "http_version_minor" ->
         IF is_digit(c) THEN More(s, PushDigit(r, "minor", c))
         ELSE Expect(c, "cr", "expecting_newline_1", r)
    [] s = "expecting_newline_1" -> Expect(c, "lf", "header_line_start", r)

(* Mutants of the value: a line that continues it is kept with its spaces; *)
(* the space after the colon may be any character.                         *)
consume_value_spaced(s, r, c) ==
  CASE s = "header_lws" ->
         IF c = "cr" THEN More("expecting_newline_2", r)
         ELSE IF IsLws(c) THEN More(s, PushHeader(r, "value", c))
         ELSE IF is_ctl(c) THEN Bad(r) ELSE More("header_value", PushHeader(r, "value", c))
    [] s = "space_before_header_value" -> Expect(c, " ", "header_value", r)
    [] s = "header_value" ->
         IF c = "cr" THEN More("expecting_newline_2", r)
         ELSE IF is_ctl(c) THEN Bad(r) ELSE More(s, PushHeader(r, "value", c))
consume_value_unspaced(s, r, c) ==
  CASE s = "header_lws" ->
         IF c = "cr" THEN More("expecting_newline_2", r)
         ELSE IF IsLws(c) THEN More(s, r)
         ELSE IF is_ctl(c) THEN Bad(r) ELSE More("header_value", PushHeader(r, "value", c))
    [] s = "space_before_header_value" -> More("header_value", r)
    [] s = "header_value" ->
         IF c = "cr" THEN More("expecting_newline_2", r)
         ELSE IF is_ctl(c) THEN Bad(r) ELSE More(s, PushHeader(r, "value", c))

consume_value(s, r, c) ==
  CASE s = "header_lws" ->
         IF c = "cr" THEN More("expecting_newline_2", r)
         ELSE IF IsLws(c) THEN More(s, r)
         ELSE IF is_ctl(c) THEN Bad(r) ELSE More("header_value", PushHeader(r, "value", c))
    [] s = "space_before_header_value" -> Expect(c, " ", "header_value", r)
    [] s = "header_value" ->
         IF c = "cr" THEN More("expecting_newline_2", r)
         ELSE IF is_ctl(c) THEN Bad(r) ELSE More(s, PushHeader(r, "value", c))

consume_header(s, r, c) ==
  CASE s = "header_line_start" ->
         IF c = "cr" THEN More("expecting_newline_3", r)
         ELSE IF r.headers # <<>> /\ IsLws(c) THEN More("header_lws", r)
         ELSE IF IsToken(c) THEN More("header_name", NewHeader(r, c)) ELSE Bad(r)
    [] s = "header_name" ->
         IF c = ":" THEN More("space_before_header_value", r)
         ELSE IF IsToken(c) THEN More(s, PushHeader(r, "name", c)) ELSE Bad(r)
    [] s = "expecting_newline_2" -> Expect(c, "lf", "header_line_start", r)
    [] s = "expecting_newline_3" -> IF c = "lf" THEN Good(r) ELSE Bad(r)

consume(s, r, c) ==
  CASE s \in {"method_start", "method", "uri"} -> consume_target(s, r, c)
    [] s \in {"header_lws", "space_before_header_value", "header_value"} -> consume_value(s, r, c)
    [] s \in {"header_line_start", "header_name", "expecting_newline_2", "expecting_newline_3"} ->
         consume_header(s, r, c)
    [] OTHER -> consume_version(s, r, c)

(* The number that a sequence of digits writes *)
Value(digits) ==
  LET value[i \in 0..Len(digits)] ==
        IF i = 0 THEN 0 ELSE value[i - 1] * 10 + Worth(digits[i])
  IN value[Len(digits)]

(* boost::lexical_cast<std::size_t>, which throws unless IsSize: digits    *)
(* after an optional sign; a minus gives the two's complement.             *)
Unsigned(text) == IF text # <<>> /\ text[1] \in {"+", "-"} THEN Tail(text) ELSE text
IsSize(text) ==
  /\ Unsigned(text) # <<>>
  /\ \A i \in DOMAIN Unsigned(text) : Unsigned(text)[i] \in Digits
  /\ Value(Unsigned(text)) <= MaxSize
lexical_cast(text) ==
  LET n == Value(Unsigned(text)) IN
  IF text[1] = "-" /\ n # 0 THEN MaxSize + 1 - n ELSE n

(* The name "Content-Length" is one letter here; the last header of that   *)
(* name counts, whatever its case.                                         *)
content_length_name_ == <<"L">>
tolower(c) == IF c = "L" THEN "l" ELSE c
headers_equal(a, b) == Len(a) = Len(b) /\ \A i \in DOMAIN a : tolower(a[i]) = tolower(b[i])
ContentLengths(r) ==
  {i \in DOMAIN r.headers : headers_equal(r.headers[i].name, content_length_name_)}
BadLength(r) == \E i \in ContentLengths(r) : ~IsSize(r.headers[i].value)
content_length_(r) ==
  IF ContentLengths(r) = {} THEN 0 ELSE lexical_cast(r.headers[Max(ContentLengths(r))].value)

(* Mutant of Content4: one byte too many. *)
Content4Inclusive(r) ==
  IF Len(r.content) <= content_length_(r) THEN More("content", r) ELSE Good(r)

(* request_parser::consume of server4, resumed after the yield named s *)
Content4(r) == IF Len(r.content) < content_length_(r) THEN More("content", r) ELSE Good(r)
Value4(r, c) ==
  IF is_char(c) /\ ~is_ctl(c) THEN More("value", PushHeader(r, "value", c))
  ELSE Expect(c, "cr", "crlf", r)
Digits4(s, field, then, next, r, c) ==
  IF is_digit(c) THEN More(s, PushDigit(r, field, c)) ELSE Expect(c, then, next, r)

consume4(s, r, c) ==
  CASE s = "start" ->
         IF IsToken(c) THEN More("method", Push(NoVersion(NoRequest), "method", c))
         ELSE Bad(NoVersion(NoRequest))
    [] s = "method" ->
         IF IsToken(c) THEN More(s, Push(r, "method", c)) ELSE Expect(c, " ", "uri", r)
    [] s = "uri" ->
         IF ~is_ctl(c) /\ c # " " THEN More(s, Push(r, "uri", c))
         ELSE IF r.uri = <<>> THEN Bad(r) ELSE Expect(c, " ", "H", r)
    [] s = "H" -> Expect(c, "H", "T", r)
    [] s = "T" -> Expect(c, "T", "TT", r)
    [] s = "TT" -> Expect(c, "T", "P", r)
    [] s = "P" -> Expect(c, "P", "slash", r)
    [] s = "slash" -> Expect(c, "/", "major_start", r)
    [] s = "major_start" -> IF is_digit(c) THEN More("major", PushDigit(r, "major", c)) ELSE Bad(r)
    [] s = "major" -> Digits4(s, "major", ".", "minor_start", r, c)
    [] s = "minor_start" -> IF is_digit(c) THEN More("minor", PushDigit(r, "minor", c)) ELSE Bad(r)
    [] s = "minor" -> Digits4(s, "minor", "cr", "crlf", r, c)
    [] s = "crlf" -> Expect(c, "lf", "line", r)
    [] s = "line" ->
         IF IsLws(c) THEN IF r.headers = <<>> THEN Bad(r) ELSE More("lws", r)
         ELSE IF IsToken(c) THEN More("name", NewHeader(r, c))
         ELSE Expect(c, "cr", "last", r)
    [] s = "lws" -> IF IsLws(c) THEN More(s, r) ELSE Value4(r, c)
    [] s = "name" ->
         IF IsToken(c) THEN More(s, PushHeader(r, "name", c)) ELSE Expect(c, ":", "colon", r)
    [] s = "colon" -> Expect(c, " ", "value", r)
    [] s = "value" -> Value4(r, c)
    [] s = "last" -> IF c # "lf" \/ BadLength(r) THEN Bad(r) ELSE Content4(r)
    [] s = "content" -> Content4(Push(r, "content", c))
------------------------------------------------------------------------------
Init ==
  /\ input = <<>> /\ after = <<>>
  /\ lws = 0 /\ version = [major |-> <<>>, minor |-> <<>>]
  /\ result = "more" /\ state_ = "method_start" /\ req = NoRequest
  /\ result4 = "more" /\ state4 = "start" /\ req4 = NoRequest

Parts(r, v) ==
  r.method \o r.uri \o v.major \o v.minor
    \o FlattenSeq([i \in DOMAIN r.headers |-> r.headers[i].name \o r.headers[i].value]) \o r.content
Bounded(r, v, spaces) ==
  LET odd == Len(SelectSeq(Parts(r, v), LAMBDA c : c \notin Plain)) IN
  /\ odd <= MaxOdd /\ odd + spaces <= MaxLws
  /\ Len(v.major) + Len(v.minor) <= MaxDigits
  /\ Len(r.method) <= MaxLength /\ Len(r.uri) <= MaxLength
  /\ Len(r.headers) <= MaxHeaders /\ Len(r.content) <= MaxLength
  /\ \A i \in DOMAIN r.headers :
       Len(r.headers[i].name) <= MaxLength /\ Len(r.headers[i].value) <= MaxValue

(* The digits of a version, after the byte c was read in state s *)
Recorded(s, v, c) ==
  CASE is_digit(c) /\ s \in {"http_version_major_start", "http_version_major"} ->
         [v EXCEPT !.major = Append(@, c)]
    [] is_digit(c) /\ s \in {"http_version_minor_start", "http_version_minor"} ->
         [v EXCEPT !.minor = Append(@, c)]
    [] OTHER -> v

(* parse: a parser that has answered is not fed again. *)
Feed(c) ==
  LET one == consume(state_, req, c)
      four == consume4(state4, req4, c) IN
  /\ result = "more" \/ result4 = "more"
  /\ IF result = "more"
     THEN /\ result' = one.result /\ state_' = one.state /\ req' = one.req
          /\ input' = Append(input, c)
          /\ version' = Recorded(state_, version, c)
          /\ UNCHANGED after
     ELSE after' = Append(after, c) /\ UNCHANGED <<input, result, state_, req, version>>
  /\ IF result4 = "more"
     THEN result4' = four.result /\ state4' = four.state /\ req4' = four.req
     ELSE UNCHANGED <<result4, state4, req4>>
  /\ lws' = IF result = "more" /\ state_ \in {"header_line_start", "header_lws"} /\ IsLws(c)
            THEN lws + 1 ELSE lws
  /\ Bounded(req', version', lws') /\ Bounded(req4', version', lws')

Next == \E c \in Chars : Feed(c)

Spec == Init /\ [][Next]_vars
------------------------------------------------------------------------------
(* The request as RFC 1945 writes it, its numbers in the digits of v: what *)
(* the parsers are for.                                                    *)
RequestLine(r, v) ==
  r.method \o <<" ">> \o r.uri \o <<" ", "H", "T", "T", "P", "/">> \o v.major \o <<".">>
    \o v.minor \o <<"cr", "lf">>
HeaderLine(h) == h.name \o <<":", " ">> \o h.value \o <<"cr", "lf">>
HeaderLines(r, n) == FlattenSeq([i \in 1..n |-> HeaderLine(r.headers[i])])
Format(r, v) == RequestLine(r, v) \o HeaderLines(r, Len(r.headers)) \o <<"cr", "lf">>

(* The int that the digits of a number are read as, leading zeros and all. *)
Number(digits) == IF Value(digits) + Zero <= MaxInt THEN Value(digits) ELSE Undefined
Numbers(r, v) == r.major = Number(v.major) /\ r.minor = Number(v.minor)

(* consume inverts Format: what it accepts is exactly how the request it   *)
(* returns is written, in digits whose values are the numbers it returns   *)
(* (a line that continues a header loses its space).                       *)
RoundTrip ==
  /\ result = "good" => Numbers(req, version)
  /\ result = "good" /\ lws = 0 => input = Format(req, version)
  /\ result = "more" /\ lws = 0 /\ state_ = "header_line_start" =>
       input \o <<"cr", "lf">> = Format(req, version)

(* Two requests are the same but for their content, and for numbers of     *)
(* which no digit was read: only server4 has set those.                    *)
SameRequest(r, r4, v) ==
  /\ r.method = r4.method /\ r.uri = r4.uri /\ r.headers = r4.headers
  /\ v.major # <<>> => r.major = r4.major /\ r.minor = r4.minor

(* The two parsers answer alike, at the same byte and with the same        *)
(* request, but for what server4 refuses: an empty uri, bytes above 127 in *)
(* a header, a length of the content that is no size.  Where the request   *)
(* has a content, server4 takes that many bytes more before it answers.    *)
Refused4 ==
  \/ state_ \notin {"method_start", "method", "uri"} /\ req.uri = <<>>
  \/ \E i \in DOMAIN req.headers : "8bit" \in Range(req.headers[i].value)
  \/ result = "good" /\ BadLength(req)
Agree ==
  \/ Refused4 /\ result4 = "bad"
  \/ /\ SameRequest(req, req4, version)
     /\ req4.content = after /\ (after = <<>> \/ Len(after) <= content_length_(req))
     /\ IF result = "good" /\ Len(after) < content_length_(req)
        THEN result4 = "more" ELSE result4 = result
==============================================================================
