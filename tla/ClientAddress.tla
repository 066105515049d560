--------------------------- MODULE ClientAddress ---------------------------
(***************************************************************************)
(* The address a request is counted under: TrustedProxies.ClientIP, over   *)
(* the peer of the connection and the entries of X-Forwarded-For.  An      *)
(* entry is a text: a spelling of an address, or none of any.              *)
(***************************************************************************)
EXTENDS Naturals, Sequences

CONSTANTS Addresses,
          Trusted,   \* the addresses in the configured networks
          Spellings, \* how an address may be written
          Canonical, \* the spelling of net.IP.String and of RemoteAddr
          Malformed  \* no address: net.ParseIP returns nil

ASSUME AddressAssumption ==
  /\ Trusted \subseteq Addresses
  /\ Canonical \in Spellings
  /\ Malformed \notin Addresses

Texts == [ip : Addresses \cup {Malformed}, spelling : Spellings]

(* net.IP.String, and the host part of RemoteAddr (peerIP).                *)
String(ip) == [ip |-> ip, spelling |-> Canonical]

(* contains: a nil address is in no network.                               *)
contains(ip) == ip \in Trusted

(* Faulty variant: the walk starts at the left.                            *)
StopsFromLeft(forwarded, i) ==
  /\ ~contains(forwarded[i].ip)
  /\ \A j \in 1 .. i - 1 : contains(forwarded[j].ip)

(* The walk from the right stops at entry i: everything further right is a *)
(* proxy's.                                                                *)
StopsAt(forwarded, i) ==
  /\ ~contains(forwarded[i].ip)
  /\ \A j \in i + 1 .. Len(forwarded) : contains(forwarded[j].ip)

ClientIP(peer, forwarded) ==
  IF ~contains(peer) THEN String(peer)
  ELSE LET stops == {i \in DOMAIN forwarded : StopsAt(forwarded, i)}
       IN IF \E i \in stops : forwarded[i].ip # Malformed \* else the loop broke off
          THEN String(forwarded[CHOOSE i \in stops : TRUE].ip)
          ELSE String(peer)

-----------------------------------------------------------------------------
(* A request on its way: the client sends a header of its own, each proxy  *)
(* appends the address it was called from, in a spelling of its choice.    *)
Hops(client, path) == <<client>> \o path

Peer(client, path) == Hops(client, path)[Len(path) + 1]

Forwarded(client, path, sent, spell) ==
  sent \o [i \in 1 .. Len(path) |-> [ip |-> Hops(client, path)[i], spelling |-> spell]]
=============================================================================
