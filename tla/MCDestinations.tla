--------------------------- MODULE MCDestinations ---------------------------
(* Destinations for TLC: a name that resolves and one that does not, a     *)
(* literal, the addresses that the checks tell apart, and URLs that differ *)
(* from their allowlist entry in one thing each.                           *)
EXTENDS Integers

Url(scheme, name, upper, dot, port, userinfo) ==
  [scheme |-> scheme, host |-> [name |-> name, upper |-> upper, dot |-> dot],
   port |-> port, userinfo |-> userinfo]

Unwritten == -1
Public == [flags |-> {"global"}, inner |-> {}]
MappedLoopback == [flags |-> {}, inner |-> {{"loopback"}}]
LinkLocal == [flags |-> {"link_local"}, inner |-> {}]
Unparsed == [flags |-> {"unparsed"}, inner |-> {}]

MCNames == {"api", "literal", ""}
MCLiterals == [n \in {"literal"} |-> [flags |-> {"loopback"}, inner |-> {}]]
MCAddresses == {Public, MappedLoopback, LinkLocal, Unparsed}
MCEntries == {Url("", "api", TRUE, FALSE, 443, FALSE),
              Url("http", "literal", FALSE, FALSE, Unwritten, FALSE),
              Url("https", "other", FALSE, FALSE, 70000, FALSE)}
MCUrls == {Url("https", "api", FALSE, TRUE, Unwritten, FALSE),
           Url("https", "api", FALSE, FALSE, 8443, FALSE),
           Url("https", "api", FALSE, FALSE, 443, TRUE),
           Url("http", "literal", FALSE, FALSE, 80, FALSE),
           Url("https", "other", FALSE, FALSE, 0, FALSE),
           Url("ftp", "api", FALSE, FALSE, Unwritten, FALSE),
           Url("https", "", FALSE, TRUE, Unwritten, FALSE),
           Url("https", "api", FALSE, FALSE, 70000, FALSE)}
=============================================================================
