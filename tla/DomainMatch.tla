---------------------------- MODULE DomainMatch ----------------------------
(***************************************************************************)
(* The domain a license is for, from the activation that stores it to the  *)
(* two judges of a host: the admin's test at the server                    *)
(* (license/domain-match.ts) and the gate in the installed client          *)
(* (packages/license-client, client.ts and its copy of domain-match.ts).   *)
(*                                                                         *)
(* A name is its sequence of labels, in lower case, and what follows it: a *)
(* trailing dot, a port, or the one after the other.  A pattern may begin  *)
(* with "*.".                                                              *)
(***************************************************************************)
EXTENDS SequencesExt

CONSTANTS
    Patterns,   \* what activate is given; the DTO admits no dot and no port
    Hosts       \* what the judges are asked about

VARIABLES
    domain,     \* License.domain, which the proof carries to the client
    asked       \* the last host the judges were asked about, with their answers

vars == <<domain, asked>>

WWW == "www"
DOT == "."
PORT == ":80"
Tails == {<<>>, <<DOT>>, <<PORT>>, <<DOT, PORT>>}
Name(labels, tail) == [wild |-> FALSE, labels |-> labels, tail |-> tail]
Wildcard(labels) == [wild |-> TRUE, labels |-> labels, tail |-> <<>>]

NoDomain == Name(<<>>, <<>>)
NotAsked == [host |-> NoDomain, test |-> FALSE, gate |-> FALSE]

-----------------------------------------------------------------------------
(* The regular expressions: each removes what it matches, once.            *)

Stripped(n, t) == IF n.tail # <<>> /\ Last(n.tail) = t
                  THEN [n EXCEPT !.tail = Front(@)] ELSE n
StripPort(n) == Stripped(n, PORT)
StripDot(n) == Stripped(n, DOT)
StripWWW(n) == IF Len(n.labels) > 1 /\ Head(n.labels) = WWW
               THEN [n EXCEPT !.labels = Tail(@)] ELSE n

\* normalizeHost: port, dot, www, in this order.
NormalizeHost(h) == StripWWW(StripDot(StripPort(h)))

\* normalizePattern: the same, behind the "*." that is kept.
NormalizePattern(p) == [NormalizeHost([p EXCEPT !.wild = FALSE]) EXCEPT !.wild = p.wild]

\* domainMatches: the same name, or for a wildcard one that ends with it, label
\* by label.
DomainMatches(p, h) ==
    IF p.wild THEN IsSuffix(p.labels, h.labels) /\ h.tail = p.tail
              ELSE p = h

-----------------------------------------------------------------------------
\* The admin's test: describeMatch normalises the stored domain again.
DescribeMatch(p, h) == DomainMatches(NormalizePattern(p), NormalizeHost(h))

\* The client's gate: the domain as it is in the proof, the host normalised
\* with the dot before the port.
GateHost(h) == StripWWW(StripPort(StripDot(h)))
HostMatchesLicense(p, h) == DomainMatches(p, GateHost(h))

-----------------------------------------------------------------------------
Init == domain = NoDomain /\ asked = NotAsked

\* A new license is stored with its domain in normal form.
Activate(p) ==
    /\ domain = NoDomain
    /\ domain' = NormalizePattern(p)
    /\ UNCHANGED asked

\* The admin tests a host; the installed client is asked for it.
Ask(h) ==
    /\ domain # NoDomain
    /\ asked' = [host |-> h, test |-> DescribeMatch(domain, h),
                 gate |-> HostMatchesLicense(domain, h)]
    /\ UNCHANGED domain

Next ==
    \/ \E p \in Patterns : Activate(p)
    \/ \E h \in Hosts : Ask(h)

Spec == Init /\ [][Next]_vars

-----------------------------------------------------------------------------
(* What the documentation says and the code does not do.                   *)

\* "Tell the admin whether a given host would be allowed through a given
\* license's domain pattern" (license.admin.controller.ts): the test says what
\* the client's gate does.
TestPredictsGate == asked.test = asked.gate
=============================================================================
