------------------------------ MODULE ContextRef ------------------------------
(***************************************************************************)
(* The durable references "ctx://tenant/session/object" of                 *)
(* internal/contextref: how Encode writes a tenant into the authority of a *)
(* URL and what Parse, through Go's net/url, reads back.                   *)
(*                                                                         *)
(* A tenant id is a sequence of character classes: the classes are what    *)
(* PathEscape and url.Parse tell apart.  Session and object ids are minted *)
(* by the service as letters, digits and "_", which survive both ways, so  *)
(* only the tenant is modelled.                                            *)
(***************************************************************************)
EXTENDS Naturals, Sequences

(***************************************************************************)
(* plain:    letters, - _ . ~ $ & + = : literal in a path segment          *)
(* digit:    0..9, which a port may hold                                   *)
(* colon, at: literal in a path segment, punctuation in an authority       *)
(* percent, high: escaped ("%25", bytes from 0x80), and decoded in a host  *)
(* reserved: the other ASCII bytes ("/", " ", "#", "?", ",", ...), escaped,*)
(*           and an error when a host holds their escape                   *)
(***************************************************************************)
Chars == {"plain", "digit", "colon", "at", "percent", "high", "reserved"}

TenantIds == Seq(Chars) \ {<< >>}

NoHost == << >>     \* Parse's "" beside its error; no tenant id is empty

(* One character as the URL carries it: literal or as %XX.                 *)
PathEscape(c) ==
  [char |-> c, escaped |-> c \in {"percent", "high", "reserved"}]

(* Mutant: url.QueryEscape in the place of url.PathEscape.                 *)
EncodeQuery(tenant) ==
  [i \in DOMAIN tenant |->
     [char |-> tenant[i], escaped |-> tenant[i] \notin {"plain", "digit"}]]

(* The tenant as Encode writes it into the authority of the URL.           *)
Encode(tenant) == [i \in DOMAIN tenant |-> PathEscape(tenant[i])]

IsLiteral(item, c) == item.char = c /\ ~item.escaped

(* strings.LastIndex: the last place of a literal c, 0 when there is none. *)
LastIndex(wire, c) ==
  CHOOSE i \in 0 .. Len(wire) :
    /\ i > 0 => IsLiteral(wire[i], c)
    /\ \A j \in (i + 1) .. Len(wire) : ~IsLiteral(wire[j], c)

(* net/url takes what precedes the last "@" of an authority for user info. *)
HostPart(wire) == SubSeq(wire, LastIndex(wire, "at") + 1, Len(wire))

(* What follows the last ":" of a host is a port: digits, or nothing.      *)
ValidOptionalPort(host) ==
  LET colon == LastIndex(host, "colon")
  IN  colon > 0 => \A j \in (colon + 1) .. Len(host) : IsLiteral(host[j], "digit")

(* A host may carry the escape of "%" or of a byte from 0x80, no other.    *)
DecodableHost(host) ==
  \A j \in DOMAIN host :
    host[j].escaped => host[j].char \in {"percent", "high"}

(* Mutant: u.Hostname(), which drops the port, in the place of u.Host.     *)
ParseHostname(wire) ==
  LET host == HostPart(wire)
      colon == LastIndex(host, "colon")
  IN  IF ValidOptionalPort(host) /\ DecodableHost(host)
      THEN [j \in 1 .. IF colon = 0 THEN Len(host) ELSE colon - 1 |-> host[j].char]
      ELSE NoHost

(* Parse: the host of a reference, or NoHost beside "invalid context ref". *)
Parse(wire) ==
  LET host == HostPart(wire)
  IN  IF ValidOptionalPort(host) /\ DecodableHost(host)
      THEN [j \in DOMAIN host |-> host[j].char]
      ELSE NoHost

(* The tenant that a reference minted for `tenant` names when it is read.  *)
RefTenant(tenant) == Parse(Encode(tenant))

=============================================================================
