------------------------------ MODULE DnsLookup ------------------------------
(***************************************************************************)
(* eventlet/support/greendns.py: getaddrinfo() of one name, through the    *)
(* hosts file (HostsResolver) and the nameservers (ResolverProxy).         *)
(*                                                                         *)
(* A family is "v4" or "v6".  A nameserver's answer is "addr", "nodata",   *)
(* "nxdomain", "timeout" (no answer in time) or "servfail": any other      *)
(* DNSException, which is reported as a definite "no data" (472-473).      *)
(* The lookup waits for each nameserver's answer; the hosts file may be    *)
(* changed, and read again by another lookup, meanwhile.  Addresses are    *)
(* told apart by where they come from: "hosts", "net" or "root" (the same  *)
(* name as a top-level one).                                               *)
(***************************************************************************)
EXTENDS Integers, Sequences, FiniteSets

CONSTANTS
  Requests,   \* of {"v4", "v6", "any", "mapped", "all"}: family and flags
  Answers,    \* of {"addr", "nodata", "nxdomain", "timeout", "servfail"}
  MaxEdits    \* bound of the model: changes of the hosts file

VARIABLES
  request,
  single,     \* the name has one label
  file,       \* families the hosts file has the name for
  edits,
  loaded,     \* families in HostsResolver
  fresh,      \* not yet due to be read again
  todo,       \* what is left: a sequence of [family, net]
  at,         \* "step", "main", "root", "done", "failed"
  found,      \* query(): where the addresses come from, per step
  error,      \* query(): result[1]
  addrs,      \* _getaddrinfo_lookup: <<family, where>>
  err,        \* _getaddrinfo_lookup: err
  asked,      \* the families asked of nameservers
  answered,   \* those a nameserver had an address of
  silent      \* those whose nameserver gave no answer, and nothing definite since

lookupVars == <<request, single, file, edits, loaded, fresh, todo, at, found, error, addrs, err, asked, answered, silent>>

Families == {"v4", "v6"}

\* What _getaddrinfo_lookup asks for, in this order; "all" and "mapped" are
\* for IPv6 addresses, with AI_V4MAPPED, and with AI_ALL as well.
Plan(r) ==
  LET ask(f, n) == [family |-> f, net |-> n]
  IN CASE r = "any" -> <<ask("v6", FALSE), ask("v4", FALSE), ask("v6", TRUE), ask("v4", TRUE)>>
       [] r \in Families -> <<ask(r, TRUE)>>
       [] OTHER -> <<ask("v6", TRUE), ask("v4", TRUE)>>

LookupInit ==
  /\ request \in Requests /\ single \in BOOLEAN
  /\ file \in SUBSET Families /\ edits = 0
  /\ loaded = file /\ fresh \in BOOLEAN
  /\ todo = Plan(request) /\ at = "step"
  /\ found = {} /\ error = "none" /\ addrs = {} /\ err = "none"
  /\ asked = {} /\ answered = {} /\ silent = {}

-----------------------------------------------------------------------------
(* The hosts file *)

Edit(to) ==
  /\ edits < MaxEdits /\ to # file
  /\ edits' = edits + 1
  /\ file' = to
  /\ UNCHANGED <<request, single, loaded, fresh, todo, at, found, error, addrs, err, asked, answered, silent>>

Age ==
  /\ fresh /\ fresh' = FALSE
  /\ UNCHANGED <<request, single, file, edits, loaded, todo, at, found, error, addrs, err, asked, answered, silent>>

\* Another lookup finds that the file is due.
Reload ==
  /\ ~fresh /\ at \in {"main", "root"}
  /\ loaded' = file /\ fresh' = TRUE
  /\ UNCHANGED <<request, single, file, edits, todo, at, found, error, addrs, err, asked, answered, silent>>

-----------------------------------------------------------------------------
(* ResolverProxy.query() and resolve() *)

Family == Head(todo).family

\* Faulty: nameservers are asked although the hosts file has the name.
LeftAlways(rest, have) == rest

\* What _getaddrinfo_lookup asks next, once it has these addresses.
Left(rest, have) ==
  CASE rest = <<>> -> <<>>
    [] request = "any" -> IF have # {} /\ Len(rest) = 2 THEN <<>> ELSE rest
    [] request = "mapped" -> IF have # {} THEN <<>> ELSE rest
    [] OTHER -> rest

\* An error ends the lookup, except that of either family.
Stops(e) == e # "none" /\ request # "any"

\* The addresses of a second lookup for IPv6 replace those of the first.
Merged(new) == IF request \in {"mapped", "all"} /\ new # {} THEN new ELSE addrs \union new

\* A lookup is over, with addresses or an error ("none" is no address).
\* getaddrinfo() raises the error, or EAI_NONAME, if there is no address.
LookupOver(have, e) ==
  LET all == Merged({<<Family, w>> : w \in have})
      rest == IF Stops(e) THEN <<>> ELSE Left(Tail(todo), all)
  IN /\ addrs' = all
     /\ err' = IF e = "none" THEN err ELSE e
     /\ todo' = rest
     /\ at' = IF rest # <<>> THEN "step"
              ELSE IF Stops(e) \/ all = {} THEN "failed" ELSE "done"
     /\ found' = {} /\ error' = "none"

\* _hosts.query(): it reads the file again if that is due.
Hosts ==
  /\ at = "step"
  /\ UNCHANGED <<answered, silent>>
  /\ LET now == IF fresh THEN loaded ELSE file
     IN /\ loaded' = now /\ fresh' = TRUE
        /\ CASE Family \in now -> LookupOver({"hosts"}, "none") /\ UNCHANGED asked
             [] Family \notin now /\ ~Head(todo).net -> LookupOver({}, "none") /\ UNCHANGED asked
             [] OTHER -> at' = "main" /\ asked' = asked \union {Family}
                         /\ UNCHANGED <<todo, found, error, addrs, err>>
  /\ UNCHANGED <<request, single, file, edits>>

\* end() and resolve(): an address wins over an error.
End(have, e) ==
  IF have # {} \/ e \notin {"timeout", "servfail"} THEN LookupOver(have, "none") ELSE LookupOver({}, e)

\* What step() makes of a nameserver's answer; NXDOMAIN is no address.
Have(a, where) == IF a = "addr" THEN found \union {where} ELSE found
Error(a) == IF a \in {"timeout", "nxdomain", "servfail"} THEN a ELSE error

\* What came of the nameservers, for the properties.
Heard(a) ==
  /\ answered' = IF a = "addr" THEN answered \union {Family} ELSE answered
  /\ silent' = CASE a = "timeout" -> IF found = {} THEN silent \union {Family} ELSE silent
                 [] a \in {"addr", "nxdomain"} -> silent \ {Family}
                 [] a = "servfail" -> {}
                 [] OTHER -> silent

\* The main query is answered; a name of one label is also asked for as a
\* top-level one.
MainAnswer(a) ==
  /\ at = "main"
  /\ IF single
     THEN /\ at' = "root"
          /\ found' = Have(a, "net") /\ error' = Error(a)
          /\ UNCHANGED <<todo, addrs, err>>
     ELSE End(Have(a, "net"), Error(a))
  /\ UNCHANGED <<request, single, file, edits, loaded, fresh, asked>>
  /\ Heard(a)

RootAnswer(a) ==
  /\ at = "root"
  /\ End(Have(a, "root"), Error(a))
  /\ UNCHANGED <<request, single, file, edits, loaded, fresh, asked>>
  /\ Heard(a)

LookupNext ==
  \/ Age \/ Reload \/ Hosts
  \/ \E to \in SUBSET Families : Edit(to)
  \/ \E a \in Answers : MainAnswer(a) \/ RootAnswer(a)

LookupSpec == LookupInit /\ [][LookupNext]_lookupVars

-----------------------------------------------------------------------------
(* Properties *)

\* greendns.py:358-419, 454-543.  A name of either family that the hosts file
\* has is not asked of a nameserver; one source answers for a family; an
\* address that was found is not hidden by the failure of another query; and
\* a nameserver that gave no answer is reported as such ("try again") and not
\* taken for "no address", unless a later answer says more: of two errors the
\* later is raised (384, 522), so the "no data" of a failing nameserver takes
\* the place of an earlier "try again", be it of the other family.
LookupSound ==
  /\ request = "any" /\ edits = 0 /\ file # {} => asked = {}
  /\ \A f \in Families : <<f, "hosts">> \in addrs => <<f, "net">> \notin addrs
  /\ at = "failed" /\ request # "all" => addrs = {}
  /\ at = "failed" /\ silent # {} => err = "timeout"
  /\ at = "done" /\ request # "all" => \A f \in answered : \E w \in {"hosts", "net", "root"} : <<f, w>> \in addrs
=============================================================================
