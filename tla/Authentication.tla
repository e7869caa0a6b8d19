--------------------------- MODULE Authentication ---------------------------
(***************************************************************************)
(* From a password to a page: wspasswd writes the hash of a user, a realm  *)
(* and a password; the server reads that file once, when it starts; a      *)
(* client sends its credentials in an authorization header, which is       *)
(* parsed and checked by digest_auth before the body is read; the file     *)
(* asked for is served and the answer logged in a second pass, which       *)
(* builds its request object anew.                                          *)
(*                                                                         *)
(* Text is a sequence of characters, each of them a sequence too: <<"a">>  *)
(* for a letter, a mark or a key, <<"md5", t>> for the digest of t (MD5    *)
(* without its collisions).  A browser knows no more than its credentials; *)
(* what other clients send is a parameter, and may hold any digest.         *)
(* Requests are GETs; Router has the rest.                                  *)
(***************************************************************************)
EXTENDS Naturals, SequencesExt, FiniteSets, Result

CONSTANTS
  Letters,                 \* the characters of names, passwords and headers
  Users, Passes, Realms,   \* what wspasswd is given and clients are told
  Targets,                 \* what each target of a request meets: a route
                           \* under digest_auth or not, and a kind of file
  Others,                  \* authorization headers of clients but browsers
  MaxRuns, MaxRequests     \* bounds on runs of wspasswd and on requests

ASSUME TargetsAssumption ==
  \A t \in DOMAIN Targets :
    Targets[t] \in [guarded : BOOLEAN,
                    kind : {"file", "absent", "illegal", "unreadable"}]

ASSUME TextsAssumption ==
  Users \cup Passes \cup Realms \subseteq Seq(Letters)

VARIABLES
  runs,      \* runs of wspasswd
  tool,      \* wspasswd: where it is, and what it knows
  echo,      \* the terminal echoes what is typed
  file,      \* the password file: <<>>, or its text
  written,   \* history: the credentials that a run has written
  server,    \* <<>>, or the m_ha1 of digest_auth
  requests,  \* how many requests were sent
  request,   \* <<>>, or the request being handled
  reply,     \* <<>>, or the last answer of this server, and to whom
  log        \* the lines of ncsa_logger

passwd == <<runs, tool, echo, file, written>>
http   == <<server, requests, request, reply, log>>
vars   == <<passwd, http>>

Colon  == <<":">>
Comma  == <<",">>
Blank  == <<" ">>
Equals == <<"=">>
Quote  == <<"\"">>

\* fmt::format("{}:{}:{}", ...)
WithColons(parts) ==
  FlattenSeq([i \in DOMAIN parts |-> IF i = 1 THEN parts[i] ELSE <<Colon>> \o parts[i]])

\* MD5{...}.hexdigest()
Md5(parts) == <<<<"md5", WithColons(parts)>>>>

HA1(c) == Md5(<<c.user, c.realm, c.pass>>)

Method == <<<<"GET">>>>

Expected(ha1, nonce, uri) == Md5(<<ha1, nonce, Md5(<<Method, uri>>)>>)

-----------------------------------------------------------------------------
(* authorisation::parse.                                                   *)

Keys == {"algorithm", "realm", "uri", "nonce", "nc", "cnonce", "qop",
         "response", "username", "opaque"}

\* parse_field_key
FieldKey(text) ==
  IF \E k \in Keys : text = <<<<k>>>> THEN Ok(text[1][1]) ELSE Err("no_such_subfield")

\* parse_type
Type(text) ==
  IF text \in {<<<<"Basic">>>>, <<<<"Digest">>>>} THEN Ok(text[1][1])
  ELSE Err("invalid_message")

\* the first place of a character in a text, or 0
Find(text, c) == SelectInSeq(text, LAMBDA x : x = c)

Cuts(text) == {i \in 1..Len(text) - 1 : text[i] = Comma /\ text[i + 1] = Blank}

\* views::split at ", ", inside quotes too: each word, by the place where it
\* starts; an empty text has no words
Words(text) ==
  LET starts  == IF text = <<>> THEN {} ELSE {1} \cup {i + 2 : i \in Cuts(text)}
      stop(i) == Min({j \in Cuts(text) : j >= i} \cup {Len(text) + 1})
  IN [i \in starts |-> SubSeq(text, i, stop(i) - 1)]

\* mutant: the opening quote is kept
QuotedValue(word) == SubSeq(word, Find(word, Equals) + 1, Len(word) - 1)

\* what lies between the quotes that are taken to be there
Value(word) == SubSeq(word, Find(word, Equals) + 2, Len(word) - 1)

\* a word is a key, = and a value
Field(word) ==
  LET end == Find(word, Equals) IN
  IF end = 0 THEN Err("invalid_message") ELSE FieldKey(SubSeq(word, 1, end - 1))

\* Nothing follows the =, not even a quote: substr throws.
Bare(word) == IsOk(Field(word)) /\ Find(word, Equals) = Len(word)

\* the words that end the loop before their value is stored; the first one does
Trouble(words) == {i \in DOMAIN words : ~IsOk(Field(words[i])) \/ Bare(words[i])}

\* the map of fields; of two with one key the later one is kept
Fields(words) ==
  LET key(i) == Deref(Field(words[i]))
      last(k) == Max({i \in DOMAIN words : key(i) = k})
  IN [k \in {key(i) : i \in DOMAIN words} |-> Value(words[last(k)])]

TypeOf(value) ==
  LET end == Find(value, Blank) IN
  IF end = 0 THEN Err("bad_message") ELSE Type(SubSeq(value, 1, end - 1))

WordsOf(value) == Words(SubSeq(value, Find(value, Blank) + 1, Len(value)))

Throws(value) ==
  LET words   == WordsOf(value)
      trouble == Trouble(words)
  IN  IsOk(TypeOf(value)) /\ trouble # {} /\ Bare(words[Min(trouble)])

\* of a value on which it does not throw
Parse(value) ==
  LET type    == TypeOf(value)
      words   == WordsOf(value)
      trouble == Trouble(words)
  IN
  IF ~IsOk(type) THEN Err(type.error)
  ELSE IF trouble # {} THEN Err(Field(words[Min(trouble)]).error)
  ELSE Ok(Fields(words))

-----------------------------------------------------------------------------
(* digest_auth.                                                            *)

Needed == {"username", "realm", "uri", "nonce", "response"}

\* mutant: the response is not compared
AcceptsAny(ha1, fields) == Needed \subseteq DOMAIN fields

Accepts(ha1, fields) ==
  /\ Needed \subseteq DOMAIN fields
  /\ fields["response"] = Expected(ha1, fields["nonce"], fields["uri"])

\* do_before_body: whether it passes the request on, or the status it answers
DigestAuth(ha1, header) ==
  LET parsed == Parse(Head(header)) IN
  IF header = <<>> THEN 401
  ELSE IF ~IsOk(parsed) THEN 400
  ELSE IF Accepts(ha1, Deref(parsed)) THEN 0
  ELSE 401

(***************************************************************************)
(* What a browser sends when it was challenged (RFC 7616): every field is  *)
(* quoted, and a quote in a name is escaped.                                *)
(***************************************************************************)
Escaped(text) ==
  FlattenSeq([i \in DOMAIN text |->
                IF text[i] = Quote THEN <<<<"\\">>, Quote>> ELSE <<text[i]>>])

Quoted(key, text) == <<<<key>>, Equals, Quote>> \o text \o <<Quote>>

Nonce == <<<<"nonce">>>>
Uri   == <<<<"/">>>>

\* The challenge names the realm that main gives to digest_auth.
Realm == <<<<"webserial">>>>

Rendered(c) ==
  <<<<"Digest">>, Blank>>
    \o Quoted("username", Escaped(c.user)) \o <<Comma, Blank>>
    \o Quoted("realm", Realm)              \o <<Comma, Blank>>
    \o Quoted("nonce", Nonce)              \o <<Comma, Blank>>
    \o Quoted("uri", Uri)                  \o <<Comma, Blank>>
    \o Quoted("response",
         Expected(HA1([c EXCEPT !.realm = Realm]), Nonce, Uri))

-----------------------------------------------------------------------------
Idle == [at |-> "idle"]

NoUser == "-"

Init ==
  /\ runs = 0
  /\ tool = Idle
  /\ echo = TRUE
  /\ file = <<>>
  /\ written = {}
  /\ server = <<>>
  /\ requests = 0
  /\ request = <<>>
  /\ reply = <<>>
  /\ log = <<>>

(* wspasswd.                                                               *)

\* --user, --realm and --pass
RunWithPass(c) ==
  /\ tool = Idle
  /\ runs < MaxRuns
  /\ runs' = runs + 1
  /\ tool' = [at |-> "open", cred |-> c]
  /\ UNCHANGED <<echo, file, written, http>>

\* no --pass: the input_guard turns the echo off
RunWithPrompt(u, r) ==
  /\ tool = Idle
  /\ runs < MaxRuns
  /\ runs' = runs + 1
  /\ tool' = [at |-> "prompt", user |-> u, realm |-> r]
  /\ echo' = FALSE
  /\ UNCHANGED <<file, written, http>>

\* cin >> pass: blanks are skipped, and the next one ends the word
FirstWord(text) ==
  LET from == SelectInSeq(text, LAMBDA x : x # Blank)
      rest == SubSeq(text, from, Len(text))
      to   == Find(rest, Blank)
  IN IF from = 0 THEN <<>> ELSE IF to = 0 THEN rest ELSE SubSeq(rest, 1, to - 1)

Answer(p) ==
  /\ tool.at = "prompt"
  /\ tool' = [at |-> "open", cred |->
                [user |-> tool.user, realm |-> tool.realm, pass |-> FirstWord(p)]]
  /\ echo' = TRUE
  /\ UNCHANGED <<runs, file, written, http>>

\* the ofstream truncates the file
Open ==
  /\ tool.at = "open"
  /\ tool' = [tool EXCEPT !.at = "write"]
  /\ file' = <<<<>>>>
  /\ UNCHANGED <<runs, echo, written, http>>

\* the error is logged, and the run goes on to its end
OpenFails ==
  /\ tool.at = "open"
  /\ tool' = Idle
  /\ UNCHANGED <<runs, echo, file, written, http>>

\* the hash is in the stream's buffer until its destructor writes it
Write ==
  /\ tool.at = "write"
  /\ tool' = Idle
  /\ file' = <<HA1(tool.cred)>>
  /\ written' = written \cup {tool.cred}
  /\ UNCHANGED <<runs, echo, http>>

\* a signal, or a write that fails, which nothing looks at
Killed ==
  /\ tool # Idle
  /\ tool' = Idle
  /\ UNCHANGED <<runs, echo, file, written, http>>

-----------------------------------------------------------------------------
(* webserial.                                                              *)

\* main: read_all, of a file that exists
Start ==
  /\ server = <<>>
  /\ file # <<>>
  /\ server' = file
  /\ UNCHANGED <<passwd, requests, request, reply, log>>

\* read_all does not look whether the ifstream opened
StartUnreadable ==
  /\ server = <<>>
  /\ file # <<>>
  /\ server' = <<<<>>>>
  /\ UNCHANGED <<passwd, requests, request, reply, log>>

ServerEnds ==
  /\ server' = <<>>
  /\ request' = <<>>
  /\ reply' = <<>>
  /\ UNCHANGED <<passwd, requests, log>>

\* a signal stops the io_context
Stop == server # <<>> /\ ServerEnds

\* a client: a browser with credentials c, or another one, when c is NoOne
Ask(c, header) ==
  /\ server # <<>>
  /\ request = <<>>
  /\ requests < MaxRequests
  /\ requests' = requests + 1
  /\ \E t \in DOMAIN Targets, upgrade \in BOOLEAN :
       request' = <<[cred |-> c, header |-> header, target |-> t,
                     upgrade |-> upgrade, auth |-> "unasked", at |-> "header"]>>
  /\ UNCHANGED <<passwd, server, reply, log>>

Answered(auth, status, name) ==
  /\ request' = <<>>
  /\ reply' = <<[cred |-> request[1].cred, auth |-> auth,
                 status |-> status, name |-> name]>>

\* on_read_header: the router's first pass.  The user name that digest_auth stores
\* in its request object goes with that object.
BeforeBody ==
  LET r == request[1]
      verdict == IF Targets[r.target].guarded
                 THEN DigestAuth(server[1], r.header) ELSE 0 IN
  /\ request # <<>> /\ r.at = "header"
  /\ ~(Targets[r.target].guarded /\ r.header # <<>> /\ Throws(Head(r.header)))
  /\ IF verdict = 0
     THEN /\ request' = <<[r EXCEPT !.at = "body", !.auth =
                              IF Targets[r.target].guarded THEN "passed" ELSE @]>>
          /\ UNCHANGED reply
     ELSE Answered("refused", verdict, NoUser)
  /\ UNCHANGED <<passwd, server, requests, log>>

BeforeBodyThrows ==
  LET r == request[1] IN
  /\ request # <<>> /\ r.at = "header" /\ Targets[r.target].guarded
  /\ r.header # <<>> /\ Throws(Head(r.header))
  /\ ServerEnds

\* serve_files, of a GET
ServeFiles(t) ==
  CASE Targets[t].kind = "illegal" -> 400
    [] Targets[t].kind = "absent"  -> 404
    [] Targets[t].kind = "file"    -> 200
    [] OTHER                       -> 500

\* on_read: the second pass, of a new request object, which has no user name
Handle ==
  LET r == request[1] IN
  /\ request # <<>> /\ r.at = "body" /\ ~r.upgrade
  /\ Answered(r.auth, ServeFiles(r.target), NoUser)
  /\ log' = Append(log, [auth |-> r.auth, user |-> NoUser,
                         status |-> ServeFiles(r.target)])
  /\ UNCHANGED <<passwd, server, requests>>

Unknown == <<<<"<unknown>">>>>

\* mutant: the request was moved from before its header is read
NameMoved(fields) == Unknown

\* cli_handler::handle_request: the name of the session
Name(fields) == IF "username" \in DOMAIN fields THEN fields["username"] ELSE Unknown

\* The header is parsed again, and the result is dereferenced untested.
Usable(header) ==
  header # <<>> /\ ~Throws(Head(header)) /\ ~Ends(Parse(Head(header)))

OnWsUpgrade ==
  LET r == request[1] IN
  /\ request # <<>> /\ r.at = "body" /\ r.upgrade
  /\ Usable(r.header)
  /\ Answered(r.auth, 101, Name(Deref(Parse(Head(r.header)))))
  /\ UNCHANGED <<passwd, server, requests, log>>

\* No header makes a handler without a state; one that does not parse, a result
\* without a value.
OnWsRefused ==
  LET r == request[1] IN
  /\ request # <<>> /\ r.at = "body" /\ r.upgrade
  /\ ~Usable(r.header)
  /\ ServerEnds

-----------------------------------------------------------------------------
Credentials == [user : Users, realm : Realms, pass : Passes]

NoOne == [user |-> <<>>, realm |-> <<>>, pass |-> <<>>]

Tool ==
  \/ \E c \in Credentials : RunWithPass(c)
  \/ \E u \in Users, r \in Realms : RunWithPrompt(u, r)
  \/ \E p \in Passes : Answer(p)
  \/ Open \/ OpenFails \/ Write \/ Killed

Client ==
  \/ \E c \in Credentials : c.realm = Realm /\ Ask(c, <<Rendered(c)>>)
  \/ \E h \in Others : Ask(NoOne, <<h>>)
  \/ Ask(NoOne, <<>>)

Next ==
  \/ Tool \/ Client
  \/ Start \/ StartUnreadable \/ Stop
  \/ BeforeBody \/ BeforeBodyThrows \/ Handle \/ OnWsUpgrade \/ OnWsRefused

Spec == Init /\ [][Next]_vars

-----------------------------------------------------------------------------
\* Names that split leaves in one piece.
Plain(text) == Cuts(text) = {}

\* A browser that is let in has the very user name and password that some run of
\* wspasswd wrote under the server's realm, and that was in the file when the server
\* started, whatever interrupted other runs and whatever its user is called, with a
\* ", " or another field inside the name: an empty file, a file that is being written
\* or was written for others lets no browser in.  (Other clients: EmptyAdmitsNobody.)
AcceptedIsCurrent ==
  \A i \in DOMAIN reply :
    reply[i].auth = "passed" /\ reply[i].cred # NoOne =>
      reply[i].cred \in written /\ server = <<HA1(reply[i].cred)>>

\* Whoever has the credentials that the server read is let in, if the name has no
\* ", " in it: what a browser renders is what parse takes apart and digest_auth
\* hashes, quotes, = and commas in the name included.
KnownIsAccepted ==
  \A i \in DOMAIN reply :
    /\ reply[i].cred # NoOne /\ Plain(reply[i].cred.user)
    /\ server = <<HA1(reply[i].cred)>>
    => reply[i].auth # "refused"

\* A websocket session is registered under the name of the browser's user whom
\* digest_auth let in, although the handler reads it from the header by itself, if that name has no
\* ", " in it: what follows one may be taken for another field.
SessionNamed ==
  \A i \in DOMAIN reply :
    /\ reply[i].auth = "passed" /\ reply[i].status = 101
    /\ reply[i].cred # NoOne /\ Plain(reply[i].cred.user)
    => reply[i].name = Escaped(reply[i].cred.user)

(* Claims of the documentation that the code does not keep.                *)

\* README.md:265, "Currently pages and assets do not require a digest, but the
\* websocket does": on_read upgrades a GET of any target, and cli_handler asks only for
\* a header that parses.
WebsocketsAuthenticated ==
  \A i \in DOMAIN reply : reply[i].status = 101 => reply[i].auth = "passed"

\* README.md:85-87: who is let in has what was written to the file.  When the file is
\* empty or cannot be read, m_ha1 is "", and any client can compute the response that
\* digest_auth takes.
EmptyAdmitsNobody ==
  \A i \in DOMAIN reply : reply[i].auth = "passed" => server # <<<<>>>>

\* README.md:258-260 and middleware.hpp:108-109: the log line, in the common log
\* format, names the user who was authenticated.
UserLogged == \A i \in DOMAIN log : log[i].auth = "passed" => log[i].user # NoUser

\* wspasswd.cpp:44, "interactive, no-echo prompt": the echo is off at the prompt only.
EchoKept == tool = Idle => echo

\* README.md:85-87: the file holds the hash of the desired user, who can log in.
AnyNameAccepted ==
  \A i \in DOMAIN reply :
    reply[i].cred # NoOne /\ server = <<HA1(reply[i].cred)>>
      => reply[i].auth # "refused"
=============================================================================
