------------------------------ MODULE CookieJar ------------------------------
(***************************************************************************)
(* eventlet/green/http/cookiejar.py: a CookieJar with its                  *)
(* DefaultCookiePolicy, the headers it reads and the requests it adds      *)
(* cookies to, and the files of LWPCookieJar and MozillaCookieJar.         *)
(*                                                                         *)
(* Hosts, domains and paths are sequences of characters, of which a label  *)
(* has one or two: what the policy does with them is to compare prefixes   *)
(* and suffixes.  Comments and the syntax of headers and files are left    *)
(* out, and so is the list of top level domains of strict_domain; of a     *)
(* value it matters whether it is whole, of a line what is read of it when *)
(* it is cut.                                                              *)
(***************************************************************************)
EXTENDS Integers, Sequences, SequencesExt, FiniteSets

CONSTANTS
  Policies,     \* records of the arguments of DefaultCookiePolicy
  Requests,     \* records of host, path, port, https, unverifiable, origin
  Responses,    \* records of rfc2965 and netscape, the headers of either protocol:
                \* sequences of records of name, version, domain, path, port, secure,
                \* discard, age
  Digits,       \* the characters that are digits
  MaxResponses, MaxTime, MaxCalls,   \* bounds of the model: of responses, and of these and saves
  Absent, None

VARIABLES
  policy, now,
  jar,       \* _cookies: a set of cookies, one of a domain, a path and a name
  file,      \* the format of the class of the jar, and what the last save() left: how the
             \* first line reads, the lines, what is read of a cut line at the end and
             \* whether it is bad, the cookies to save, and whether all was written
  last,      \* the last call, if it was extract_cookies() or revert(): what it was, the
             \* cookies of RFC 2965 it made, and the jar before it
  given,     \* all cookies that responses have set
  responses, saves

jarVars == <<policy, now, jar, file, last, given, responses, saves>>

NoCall == [what |-> None, made |-> {}, jar |-> {}]
NoFile(format) == [format |-> format, first |-> "none", lines |-> {}, rest |-> {},
                   bad |-> FALSE, kept |-> None, whole |-> FALSE]

JarInit ==
  /\ policy \in Policies
  /\ now = 0 /\ jar = {} /\ given = {}
  /\ file \in {NoFile(format) : format \in {"lwp", "mozilla"}}
  /\ last = NoCall
  /\ responses = 0 /\ saves = 0

-----------------------------------------------------------------------------
(* Hosts and paths *)

Dotted(text) == <<".">> \o text
Starts(text, dot) == text # <<>> /\ Head(text) = dot
Has(text, c) == Contains(text, c)
EndsWith(text, part) == IsSuffix(part, text)

\* IPV4_RE.
IsIPv4(text) == Len(text) > 1 /\ text[Len(text) - 1] = "." /\ text[Len(text)] \in Digits
is_HDN(text) == ~IsIPv4(text) /\ text # <<>> /\ text[1] # "." /\ text[Len(text)] # "."

\* A.rfind(B) > 0: anywhere, not only at the end.
Within(A, B) ==
  LET found == {i \in 1..(Len(A) - Len(B) + 1) : SubSeq(A, i, i + Len(B) - 1) = B}
  IN \E i \in found : i > 1

domain_match(A, B) ==
  \/ A = B
  \/ is_HDN(A) /\ Within(A, B) /\ Starts(B, ".") /\ is_HDN(Tail(B))

user_domain_match(A, B) ==
  IF IsIPv4(A) \/ IsIPv4(B) THEN A = B
  ELSE IF Starts(B, ".") THEN EndsWith(A, B) ELSE A = B

\* eff_request_host().
Erhn(request) == IF Has(request.host, ".") THEN request.host ELSE request.host \o <<".", "local">>

reach(h) ==
  LET b == IF Has(h, ".") THEN SubSeq(h, 1 + CHOOSE i \in 1..Len(h) :
                                 h[i] = "." /\ \A j \in 1..(i - 1) : h[j] # ".", Len(h))
           ELSE <<>>
  IN IF b # <<>> /\ is_HDN(h) /\ (Has(b, ".") \/ b = <<"local">>) THEN Dotted(b) ELSE h

is_third_party(request) == ~domain_match(request.host, reach(request.origin))

IsExpired(cookie, at) == cookie.expires # None /\ cookie.expires <= at

-----------------------------------------------------------------------------
(* DefaultCookiePolicy *)

Blocked(domain) == \E d \in policy.blocked : user_domain_match(domain, d)
NotAllowed(domain) ==
  policy.allowed # None /\ \A d \in policy.allowed : ~user_domain_match(domain, d)

VersionOk(cookie) == IF cookie.version > 0 THEN policy.rfc2965 ELSE policy.netscape

VerifiabilityOk(cookie, request) ==
  request.unverifiable /\ is_third_party(request) =>
    IF cookie.version > 0 THEN ~policy.strict_rfc2965_unverifiable
    ELSE ~policy.strict_ns_unverifiable

SetPathOk(cookie, request) ==
  cookie.path_specified /\ (cookie.version > 0 \/ policy.strict_ns_set_path) =>
    IsPrefix(cookie.path, request.path)

SetDomainOk(cookie, request) ==
  LET domain == cookie.domain
      erhn == Erhn(request)
      undotted == IF Starts(domain, ".") THEN Tail(domain) ELSE domain
      prefix == SubSeq(request.host, 1, Len(request.host) - Len(domain))
  IN /\ ~Blocked(domain) /\ ~NotAllowed(domain)
     /\ cookie.domain_specified =>
          /\ Has(undotted, ".") \/ domain = <<".", "local">>
          /\ cookie.version = 0 =>
               EndsWith(erhn, domain) \/ Starts(erhn, ".") \/ EndsWith(Dotted(erhn), domain)
          /\ cookie.version > 0 \/ "match" \in policy.strict_ns_domain =>
               domain_match(erhn, domain)
          /\ cookie.version > 0 \/ "nodots" \in policy.strict_ns_domain =>
               ~Has(prefix, ".") \/ IsIPv4(request.host)

SetOk(cookie, request) ==
  /\ cookie.version # None /\ VersionOk(cookie)
  /\ VerifiabilityOk(cookie, request)
  /\ SetPathOk(cookie, request) /\ SetDomainOk(cookie, request)
  /\ cookie.port_specified => request.port \in cookie.port

ReturnDomainOk(cookie, request) ==
  LET erhn == Erhn(request)
  IN /\ cookie.version = 0 /\ "nondomain" \in policy.strict_ns_domain
        /\ ~cookie.domain_specified => cookie.domain = erhn
     /\ IF cookie.version > 0 THEN domain_match(erhn, cookie.domain)
        ELSE EndsWith(Dotted(erhn), cookie.domain)

ReturnOk(cookie, request) ==
  /\ VersionOk(cookie) /\ VerifiabilityOk(cookie, request)
  /\ cookie.secure => request.https
  /\ ~IsExpired(cookie, now)
  /\ cookie.port # None => request.port \in cookie.port
  /\ ReturnDomainOk(cookie, request)

\* Faulty: the liberal check is taken for an optimization that may go.
AnyDomain(domain, request) == ~Blocked(domain) /\ ~NotAllowed(domain)

\* domain_return_ok(), of the domains of the table.
DomainReturnOk(domain, request) ==
  /\ EndsWith(Dotted(request.host), domain) \/ EndsWith(Dotted(Erhn(request)), domain)
  /\ ~Blocked(domain) /\ ~NotAllowed(domain)

PathReturnOk(path, request) == IsPrefix(path, request.path)

-----------------------------------------------------------------------------
(* Headers become cookies *)

Key(cookie) == <<cookie.domain, cookie.path, cookie.name>>

\* set_cookie() of some of a sequence of cookies, in turn: the last of a key stays.
Updated(J, cookies, set) ==
  {c \in J : \A i \in set : Key(cookies[i]) # Key(c)}
    \cup {cookies[i] : i \in {j \in set : \A k \in set : k > j => Key(cookies[k]) # Key(cookies[j])}}

LastSlash(path) == CHOOSE i \in 1..Len(path) :
                     path[i] = "/" /\ \A j \in (i + 1)..Len(path) : path[j] # "/"

\* Up to the last slash of the request's path, and with it unless the cookie is one
\* of Netscape's.
DefaultPath(version, request) ==
  LET path == SubSeq(request.path, 1, LastSlash(request.path) - (IF version = 0 THEN 1 ELSE 0))
  IN IF path = <<>> THEN <<"/">> ELSE path

\* parse_ns_headers(): a header of the old protocol without a version has version 0.
OldVersion(header) == IF header.version = None THEN 0 ELSE header.version

\* _cookie_from_cookie_tuple().
CookieOf(header, version, request) ==
  LET specified == header.domain # Absent
  IN [version |-> version, name |-> header.name, value |-> "whole",
      port |-> IF header.port = Absent THEN None
               ELSE IF header.port = None THEN {request.port} ELSE header.port,
      port_specified |-> header.port \notin {Absent, None},
      domain |-> IF ~specified THEN Erhn(request)
                 ELSE IF Starts(header.domain, ".") THEN header.domain ELSE Dotted(header.domain),
      domain_specified |-> specified,
      domain_initial_dot |-> specified /\ Starts(header.domain, "."),
      path |-> IF header.path = Absent THEN DefaultPath(version, request) ELSE header.path,
      path_specified |-> header.path # Absent,
      secure |-> header.secure,
      expires |-> IF header.age = Absent THEN None ELSE now + header.age,
      discard |-> header.discard \/ header.age = Absent]

\* _process_rfc2109_cookies().
AsNetscape == IF policy.rfc2109_as_netscape = None THEN ~policy.rfc2965 ELSE policy.rfc2109_as_netscape
Processed(cookie) == IF cookie.version = 1 /\ AsNetscape THEN [cookie EXCEPT !.version = 0] ELSE cookie

NewCookies(response, request) ==
  LET headers == response.rfc2965
  IN [i \in 1..Len(headers) |-> CookieOf(headers[i], headers[i].version, request)]
OldCookies(response, request) ==
  LET headers == IF policy.netscape THEN response.netscape ELSE <<>>
  IN [i \in 1..Len(headers) |-> CookieOf(headers[i], OldVersion(headers[i]), request)]

\* make_cookies(): a cookie of the old protocol gives way to one of RFC 2965.
MadeNew(response, request) == {c \in ToSet(NewCookies(response, request)) : ~IsExpired(c, now)}
GivesWay(cookie, response, request) ==
  policy.rfc2965 /\ \E c \in MadeNew(response, request) : Key(c) = Key(cookie)

\* extract_cookies(): headers that are expired remove cookies as they are read, before
\* any is set.
Extract(response, request) ==
  LET new == NewCookies(response, request)
      old == OldCookies(response, request)
      cookies == new \o [i \in 1..Len(old) |-> Processed(old[i])]
      set == {i \in 1..Len(cookies) :
                /\ ~IsExpired(cookies[i], now) /\ SetOk(cookies[i], request)
                /\ i > Len(new) => ~GivesWay(cookies[i], response, request)}
      ended == {Key(c) : c \in {d \in ToSet(cookies) : IsExpired(d, now)}}
      none == \/ response.netscape = <<>> /\ ~policy.rfc2965
              \/ response.rfc2965 = <<>> /\ ~policy.netscape
              \/ ~policy.netscape /\ ~policy.rfc2965
  IN /\ responses < MaxResponses /\ responses + saves < MaxCalls
     /\ responses' = responses + 1
     /\ jar' = IF none THEN jar ELSE Updated({c \in jar : Key(c) \notin ended}, cookies, set)
     /\ last' = [what |-> "extract", made |-> MadeNew(response, request), jar |-> jar]
     /\ given' = IF none THEN given ELSE given \cup {cookies[i] : i \in set}
     /\ UNCHANGED <<policy, now, file, saves>>

\* return_ok_version() compares the version of a cookie, which one that was read of a
\* cut line does not have: TypeError.
Asked(cookie, request) == DomainReturnOk(cookie.domain, request) /\ PathReturnOk(cookie.path, request)
Raises(request) == \E c \in jar : Asked(c, request) /\ c.version = None

\* _cookies_for_request().
CookiesFor(request) ==
  IF Raises(request) THEN {} ELSE {c \in jar : Asked(c, request) /\ ReturnOk(c, request)}

\* add_cookie_header() sends CookiesFor(request), and sweeps what is expired.
AddCookieHeader(request) ==
  /\ jar' = IF Raises(request) THEN jar ELSE {c \in jar : ~IsExpired(c, now)}
  /\ last' = NoCall
  /\ UNCHANGED <<policy, now, file, given, responses, saves>>

\* clear_session_cookies(), and clear() of a domain.
ClearSession ==
  /\ jar' = {c \in jar : ~c.discard}
  /\ last' = NoCall
  /\ UNCHANGED <<policy, now, file, given, responses, saves>>

Clear(domain) ==
  /\ \E c \in jar : c.domain = domain
  /\ jar' = {c \in jar : c.domain # domain}
  /\ last' = NoCall
  /\ UNCHANGED <<policy, now, file, given, responses, saves>>

Tick ==
  /\ now < MaxTime
  /\ now' = now + 1
  /\ last' = NoCall
  /\ UNCHANGED <<policy, jar, file, given, responses, saves>>

-----------------------------------------------------------------------------
(* Files *)

Kept(J, ignore_discard, ignore_expires) ==
  {c \in J : (ignore_discard \/ ~c.discard) /\ (ignore_expires \/ ~IsExpired(c, now))}

\* What a line of either format says when it is read.  That of Mozilla has neither
\* version, port, nor what was specified.
Mozilla(cookie) ==
  [cookie EXCEPT !.version = 0, !.port = None, !.port_specified = FALSE,
     !.domain_specified = Starts(cookie.domain, "."),
     !.domain_initial_dot = Starts(cookie.domain, "."),
     !.path_specified = FALSE, !.discard = (cookie.expires = None)]
LWP(cookie) ==
  [cookie EXCEPT !.domain_specified = Starts(cookie.domain, "."),
     !.discard = @ \/ cookie.expires = None]
Line(format, cookie) == IF format = "lwp" THEN LWP(cookie) ELSE Mozilla(cookie)

\* What is read of a line that is cut.  LWP's ends with the version, which is lost; before
\* it are secure, expires and discard, of which the first n are whole, and before these
\* the port and what was specified, which say nothing of a cookie without a version; of
\* a quoted domain that is cut a quote and a part are read.  Mozilla's has all its tabs,
\* and a part of the value.
CutLWP(cookie, n) ==
  [LWP(cookie) EXCEPT !.version = None, !.port = None,
     !.path_specified = FALSE, !.port_specified = FALSE, !.domain_initial_dot = FALSE,
     !.secure = n >= 1 /\ @, !.expires = IF n < 2 THEN None ELSE @,
     !.discard = n < 2 \/ cookie.expires = None \/ (n = 3 /\ @)]
CutDomain(cookie, part) ==
  [CutLWP(cookie, 0) EXCEPT !.domain = part, !.domain_specified = FALSE]
CutLines(format, cookie) ==
  IF format = "lwp" THEN {CutLWP(cookie, n) : n \in 0..3} \cup {CutDomain(cookie, part) : part \in {<<>>, <<"quote">>}}
  ELSE {[Mozilla(cookie) EXCEPT !.value = "part"]}

\* save(): the file is emptied, and left with some of the lines and a part of one, which
\* may be one that is skipped or one that cannot be read, when writing fails or the
\* program dies.
Save(ignore_discard, ignore_expires) ==
  /\ responses + saves < MaxCalls
  /\ saves' = saves + 1
  /\ LET kept == Kept(jar, ignore_discard, ignore_expires)
         written(first, done, rest, bad, whole) ==
           [format |-> file.format, first |-> first, lines |-> {Line(file.format, c) : c \in done},
            rest |-> rest, bad |-> bad, kept |-> kept, whole |-> whole]
     IN \/ file' = written("magic", kept, {}, FALSE, TRUE)
        \/ file' = written("other", {}, {}, FALSE, FALSE)
        \/ \E done \in SUBSET kept : \E c \in kept \ done :
             \/ \E bad \in BOOLEAN : file' = written("magic", done, {}, bad, FALSE)
             \/ \E rest \in CutLines(file.format, c) : file' = written("magic", done, {rest}, FALSE, FALSE)
  /\ last' = NoCall
  /\ UNCHANGED <<policy, now, jar, given, responses>>

\* The program begins again; where the encoding of its locale is another one, what was
\* written may not be decoded, which is noticed with the first line.
Restart ==
  /\ file.kept # None
  /\ jar' = {}
  /\ \E first \in {file.first} \cup (IF file.first = "magic" THEN {"undecodable"} ELSE {}) :
       file' = [file EXCEPT !.first = first]
  /\ last' = NoCall
  /\ UNCHANGED <<policy, now, given, responses, saves>>

\* set_cookie() of what is read: cookies take the place of those of their keys.
Read(J, cookies) == {c \in J : \A d \in cookies : Key(d) # Key(c)} \cup cookies

\* LWP's line of a cookie without a version says "None", which is no number.
BadLines == {c \in file.lines : file.format = "lwp" /\ c.version = None}
Unreadable == file.first # "magic" \/ BadLines # {} \/ file.bad

\* _really_load(), line by line, up to the first that cannot be read.
Loaded(J, ignore_discard, ignore_expires) ==
  LET read(lines) == Kept(lines, ignore_discard, ignore_expires)
  IN IF file.first # "magic" THEN {J}
     ELSE IF BadLines # {} THEN {Read(J, read(lines)) : lines \in SUBSET (file.lines \ BadLines)}
     ELSE {Read(Read(J, read(file.lines)), read(file.rest))}

\* load(): what was read before a line that cannot be read stays.
Load(ignore_discard, ignore_expires) ==
  /\ file.kept # None
  /\ jar' \in Loaded(jar, ignore_discard, ignore_expires)
  /\ last' = NoCall
  /\ UNCHANGED <<policy, now, file, given, responses, saves>>

\* revert(): load() into an empty jar, which is undone for LoadError.  The first line is
\* read outside of the try statement that makes LoadError of other exceptions.
Reverted ==
  IF Unreadable /\ file.first # "undecodable" THEN {jar} ELSE Loaded({}, FALSE, FALSE)

Revert ==
  /\ file.kept # None
  /\ jar' \in Reverted
  /\ last' = [NoCall EXCEPT !.what = IF Unreadable THEN "failed" ELSE "revert", !.jar = jar]
  /\ UNCHANGED <<policy, now, file, given, responses, saves>>

JarNext ==
  \/ \E request \in Requests : AddCookieHeader(request) \/ \E response \in Responses : Extract(response, request)
  \/ ClearSession \/ Tick \/ Restart \/ Revert
  \/ \E c \in jar : Clear(c.domain)
  \/ \E d, e \in BOOLEAN : Load(d, e) \/ Save(d, e)

JarSpec == JarInit /\ [][JarNext]_jarVars

-----------------------------------------------------------------------------
(* Properties *)

\* RFC 2965's domain-match, and Netscape's tail match.
Matches(cookie, request) ==
  LET erhn == Erhn(request)
  IN IF cookie.version > 0
     THEN \/ erhn = cookie.domain
          \/ /\ is_HDN(erhn) /\ Starts(cookie.domain, ".") /\ EndsWith(erhn, cookie.domain)
             /\ Len(erhn) > Len(cookie.domain)
     ELSE EndsWith(Dotted(erhn), cookie.domain)

\* cookiejar.py:1138-1249, 1306-1329.  The check by domain, which the code calls liberal
\* and an optimization, hides no cookie that the strict one would give, and takes back
\* what domain_match() lets through of RFC 2965's: a domain inside of the host.
MatchedExactly ==
  \A request \in Requests : ~Raises(request) =>
    LET sent == CookiesFor(request)
    IN \A c \in jar : c.version # None =>
         (c \in sent <=> /\ c.version > 0 => Matches(c, request)
                         /\ ~Blocked(c.domain) /\ ~NotAllowed(c.domain)
                         /\ IsPrefix(c.path, request.path) /\ ReturnOk(c, request))

\* cookiejar.py:1842-2154, 1390-1418.  Whatever was saved, cut, loaded and reverted, and
\* whenever the program began again: a cookie that a request gets was set by a response,
\* as it is if the files are LWP's, and with this domain, path, name, secure and expires
\* if they are Mozilla's.  What is read of a line that is cut never gets so far.
SentAsSet ==
  \A request \in Requests : \A c \in CookiesFor(request) :
    IF file.format = "lwp" THEN c \in given
    ELSE \E d \in given : Key(d) = Key(c) /\ d.secure = c.secure /\ d.expires = c.expires

\* cookiejar.py:1423-1725.  There is one cookie of a domain, path and name; where a
\* response sets it by both protocols, that of RFC 2965 is kept.
OneOfAKey == \A c, d \in jar : Key(c) = Key(d) => c = d
NewerKept ==
  last.what = "extract" /\ policy.rfc2965 =>
    \A c \in last.made : \A d \in jar \ last.jar : Key(c) = Key(d) => d \in last.made

\* cookiejar.py:1842-1866, 1869-2154.  A revert() that succeeds gives the cookies that
\* were saved, in the format of LWP as they were.  Of a save that was cut it may give only
\* some, without an error: none that was not to be saved, and of the last one the version
\* or a part of the value may be missing.
Restored ==
  last.what = "revert" =>
    LET lwp == file.format = "lwp"
        due == {c \in file.kept : ~IsExpired(c, now) /\ ~(IF lwp THEN c.discard ELSE c.expires = None)}
    IN /\ \A c \in jar : \E d \in file.kept :
            /\ Key(c) = Key(d) /\ c.secure = d.secure /\ c.expires = d.expires
            /\ lwp => c = d \/ c.version = None
       /\ file.whole => IF lwp THEN jar = due ELSE {Key(c) : c \in jar} = {Key(c) : c \in due}

\* cookiejar.py:1846-1847: "Raises LoadError (or OSError) if reversion is not successful;
\* the object's state will not be altered if this happens."
FailureAltersNothing == last.what = "failed" => jar = last.jar
=============================================================================
