---------------------------- MODULE Destinations ----------------------------
(***************************************************************************)
(* Where the runtime may send a request: DestinationPolicy, the names that *)
(* it looks up, and the transport that looks them up again to connect.     *)
(*                                                                         *)
(* A URL is its authority: scheme, host as written (a name, whether in     *)
(* capitals, whether with a trailing dot), port as written and whether it  *)
(* has user information.  An address is the properties that ipaddress      *)
(* reports of it, and of the IPv4 address inside an IPv4-mapped one.       *)
(***************************************************************************)
EXTENDS Integers, FiniteSets

CONSTANTS Names,        \* host names, "" for a host that is missing
          Literals,     \* function from the names that are addresses to those addresses
          Addresses,    \* records [flags, inner], inner with at most one set of flags
          Entries,      \* what an operator may write in the allowlist
          Urls,         \* the URLs of the prepared requests
          Methods       \* the methods of the tools

Unwritten == -1         \* no port in the URL
MaxPort == 65535

Authority ==
    [scheme : STRING, host : [name : STRING, upper : BOOLEAN, dot : BOOLEAN], port : Int,
     userinfo : BOOLEAN]

DestinationAssumption ==
    /\ \A u \in Urls \cup Entries : u \in Authority /\ u.port >= Unwritten
    /\ \A a \in Addresses \cup {Literals[n] : n \in DOMAIN Literals} :
          a.inner = {} \/ \E flags \in a.inner : a.inner = {flags}

VARIABLES policy,    \* the deployment's settings
          dns,       \* what each name resolves to at this moment; {} when it does not
          lookups,   \* the names that the policy has asked for
          request    \* the request under way and how far it has come

vars == <<policy, dns, lookups, request>>

-----------------------------------------------------------------------------
DefaultPort(scheme) == IF scheme = "http" THEN 80 ELSE 443

(* _split_authority raises for another scheme, for a port out of range, a  *)
(* broken authority, and a host that is empty before or after the trailing *)
(* dots are taken off.                                                     *)
Parses(u) ==
    /\ u.scheme \in {"http", "https"}
    /\ u.port <= MaxPort
    /\ u.host.name # ""

(* .hostname is in lower case; host.rstrip(".") takes the dots off.        *)
HostName(host) == host.name

(* port or default: a port written as 0 is taken for none.                 *)
SplitAuthority(u) ==
    [scheme |-> u.scheme, host |-> HostName(u.host), userinfo |-> u.userinfo,
     port |-> IF u.port \in {Unwritten, 0} THEN DefaultPort(u.scheme) ELSE u.port]

OriginOf(a) == <<a.scheme, a.host, a.port>>

(* normalize_origin: an entry without a scheme is taken for https.         *)
WithScheme(e) == IF e.scheme = "" THEN [e EXCEPT !.scheme = "https"] ELSE e

OriginParses(e) == Parses(WithScheme(e)) /\ ~e.userinfo

NormalizeOrigin(e) == OriginOf(SplitAuthority(WithScheme(e)))

(* from_origins: one bad entry and there is no policy, nor a runtime.      *)
FromOrigins(entries, methods, http, loopback, private) ==
    [origins |-> {NormalizeOrigin(e) : e \in entries}, methods |-> methods,
     http |-> http, loopback |-> loopback, private |-> private]

Admitted(entries) == \A e \in entries : OriginParses(e)

-----------------------------------------------------------------------------
(* Mutant: an IPv4-mapped address is judged as it is written. *)
Unwrapped_Never(a) == a.flags

(* The address that packets go to.                                         *)
Unwrapped(a) == IF a.inner = {} THEN a.flags ELSE CHOOSE f \in a.inner : TRUE

(* _check_address                                                          *)
AddressAdmitted(a) ==
    LET flags == Unwrapped(a) IN
    /\ "unparsed" \notin flags
    /\ IF "loopback" \in flags THEN policy.loopback
       ELSE /\ {"multicast", "reserved", "unspecified", "link_local"} \cap flags = {}
            /\ "global" \in flags \/ policy.private

(* What check refuses before it asks for an address.                       *)
StructurallyAllowed(u) ==
    /\ Parses(u)
    /\ u.scheme = "http" => policy.http
    /\ ~u.userinfo
    /\ OriginOf(SplitAuthority(u)) \in policy.origins

Resolved(name) ==
    IF name \in DOMAIN Literals THEN {Literals[name]}
    ELSE IF name \in DOMAIN dns THEN dns[name] ELSE {}

LookedUp(u) == StructurallyAllowed(u)

NoRequest == [pc |-> "idle"]

Init ==
    /\ \E entries \in SUBSET Entries, methods \in SUBSET Methods,
          http, loopback, private \in BOOLEAN :
          /\ Admitted(entries) /\ methods # {}
          /\ policy = FromOrigins(entries, methods, http, loopback, private)
    /\ dns \in [Names \ ({""} \cup DOMAIN Literals) -> {{}} \cup {{a} : a \in Addresses}]
    /\ lookups = {}
    /\ request = NoRequest

(* check_method, then check, at the end of prepare.                        *)
Check(u, method) ==
    LET name == HostName(u.host)
        asked == method \in policy.methods /\ LookedUp(u) /\ name \notin DOMAIN Literals
        passed == /\ method \in policy.methods
                  /\ StructurallyAllowed(u)
                  /\ Resolved(name) # {}
                  /\ \A a \in Resolved(name) : AddressAdmitted(a)
    IN /\ request.pc = "idle"
       /\ lookups' = IF asked THEN lookups \cup {name} ELSE lookups
       /\ request' = [pc |-> IF passed THEN "checked" ELSE "refused", url |-> u,
                      method |-> method, there |-> Resolved(u.host.name)]
       /\ UNCHANGED <<policy, dns>>

(* The transport opens the connection: it looks the name up itself and     *)
(* takes one of the addresses it gets.                                     *)
Connect ==
    /\ request.pc = "checked"
    /\ \E a \in Resolved(request.url.host.name) :
          request' = [pc |-> "sent", url |-> request.url, to |-> a]
    /\ UNCHANGED <<policy, dns, lookups>>

Finish ==
    /\ request.pc \in {"sent", "refused"}
    /\ request' = NoRequest
    /\ UNCHANGED <<policy, dns, lookups>>

(* A name gets other addresses, several of them perhaps, or none.          *)
Rebind(name, addresses) ==
    /\ dns' = [dns EXCEPT ![name] = addresses]
    /\ UNCHANGED <<policy, lookups, request>>

Next ==
    \/ \E u \in Urls, m \in Methods : Check(u, m)
    \/ Connect
    \/ Finish
    \* A name keeps its addresses between the check and the connection; the check does
    \* not reach a name that changes in that moment.
    \/ /\ request.pc # "checked"
       /\ \E name \in DOMAIN dns, addresses \in SUBSET Addresses : Rebind(name, addresses)

Spec == Init /\ [][Next]_vars

-----------------------------------------------------------------------------
(* Two authorities name the same origin when a client would open the same  *)
(* connection for them: capitals and the trailing dot make no difference,  *)
(* and a port that is not written, or 0, is the scheme's own.              *)
Denotes(e, u) ==
    LET scheme == IF e.scheme = "" THEN "https" ELSE e.scheme
        port(x) == IF x.port > 0 THEN x.port ELSE IF scheme = "https" THEN 443 ELSE 80
    IN scheme = u.scheme /\ e.host.name = u.host.name /\ port(e) = port(u)

Listed(u) == \E e \in Entries :
                Denotes(e, u) /\ NormalizeOrigin(e) \in policy.origins /\ OriginParses(e)

(* What an address may be, of the one that packets really go to.  One that *)
(* cannot be parsed may be anything.                                       *)
Acceptable(a) ==
    LET target == UNION (IF a.inner = {} THEN {a.flags} ELSE a.inner)
        ruledOut == {"loopback", "multicast", "reserved", "unspecified", "link_local"} IN
    /\ "unparsed" \notin target
    /\ \/ "loopback" \in target /\ policy.loopback
       \/ ruledOut \cap target = {} /\ ("global" \in target \/ policy.private)

(***************************************************************************)
(* A request leaves only for an origin that the operator listed and only   *)
(* for an address that the settings accept, whichever of a name's          *)
(* addresses the connection takes and however the names have changed       *)
(* since the last request, as long as the name being checked keeps its     *)
(* addresses until the connection is open.                                 *)
(***************************************************************************)
ContactsAllowed ==
    request.pc = "sent" =>
        /\ Listed(request.url)
        /\ Acceptable(request.to)
        /\ request.url.scheme = "http" => policy.http

(***************************************************************************)
(* A request that is refused was refused for a reason: one for a listed    *)
(* origin, in a permitted method, whose host resolves to acceptable        *)
(* addresses only, goes through however the two were written.              *)
(***************************************************************************)
RefusalsJustified ==
    request.pc = "refused" =>
        LET u == request.url IN
        \/ request.method \notin policy.methods
        \/ ~Parses(u) \/ u.userinfo \/ ~Listed(u)
        \/ u.scheme = "http" /\ ~policy.http
        \/ request.there = {}
        \/ \E a \in request.there : ~Acceptable(a)

(***************************************************************************)
(* No lookup is made for a host that the deployment does not list ("a      *)
(* malformed or obviously disallowed URL never causes a DNS lookup",       *)
(* destinations.py:203).                                                   *)
(***************************************************************************)
LookupsListed ==
    \A name \in lookups : \E o \in policy.origins : o[2] = name

(* The three together: a request goes exactly where the settings let it.   *)
DestinationsAdmitted == ContactsAllowed /\ RefusalsJustified /\ LookupsListed
=============================================================================
