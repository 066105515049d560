------------------------- MODULE RateLimiterProofs -------------------------
(***************************************************************************)
(* The limits of a tier hold for any number of replicas, requests, clients *)
(* and proxies, any limit and window, and headers of any length.           *)
(***************************************************************************)
EXTENDS RateLimiter, TLAPS

(* What a request knows while its script is on the way: when the window of *)
(* its key was computed, and that the window was then the current one on a *)
(* clock at most MaxSkew ahead.                                            *)
RequestsHold ==
  \A q \in Requests :
    /\ pc[q] # "idle" => key[q] \in Keys /\ replica[q] \in Replicas
    /\ pc[q] = "count" =>
         /\ window[q] <= since[q] + MaxSkew
         /\ since[q] < window[q] + Window
         /\ since[q] <= now
         /\ now <= since[q] + MaxDelay

(* A counter in Redis outlives its window: it counts everyone let through  *)
(* as long as it is there, and once it is gone its window is over on every *)
(* clock and for every script.                                             *)
CountersHold ==
  \A k \in Keys, w \in Windows :
    /\ count[<<k, w>>] > 0 => /\ admitted[<<k, w>>] <= count[<<k, w>>]
                          /\ w + 2 * Window <= expires[<<k, w>>] + MaxSkew
    /\ count[<<k, w>>] = 0 => admitted[<<k, w>>] = 0 \/ w + 2 * Window <= now + MaxSkew
    /\ admitted[<<k, w>>] <= Limit

(* An entry of memoryCounterStore counts the stretch under way.            *)
EntriesHold ==
  \A r \in Replicas, k \in Keys :
    /\ local[<<r, k>>] > 0 => /\ granted[<<r, k>>] = local[<<r, k>>]
                              /\ reset[<<r, k>>] = opened[<<r, k>>] + Window
    /\ local[<<r, k>>] = 0 => granted[<<r, k>>] = 0 \/ now > opened[<<r, k>>] + Window
    /\ granted[<<r, k>>] <= Limit

(* The inductive invariant.                                                *)
LimitsInv == LimiterTypeOK /\ RequestsHold /\ CountersHold /\ EntriesHold

-----------------------------------------------------------------------------
(* windowIndex * window, for the time x.                                   *)
LEMMA WindowStart ==
  ASSUME NEW x \in Nat
  PROVE  /\ x - (x % Window) \in Nat
         /\ x - (x % Window) <= x
         /\ x < x - (x % Window) + Window
         /\ (x - (x % Window)) % Window = 0
<1>1. x % Window \in 0 .. Window - 1
  BY WindowAssumption
<1>2. x % Window <= x
  BY WindowAssumption
<1>3. (x - (x % Window)) % Window = 0
  BY WindowAssumption
<1>4. QED
  BY <1>1, <1>2, <1>3, WindowAssumption

(* The window a replica computes is the current one on its clock.          *)
LEMMA WindowOfHolds ==
  ASSUME LimiterTypeOK, NEW r \in Replicas
  PROVE  /\ WindowOf(r) \in Windows
         /\ WindowOf(r) <= now + MaxSkew
         /\ now < WindowOf(r) + Window
<1>1. now \in Nat /\ now <= MaxTime /\ skew[r] \in Nat /\ skew[r] <= MaxSkew
  BY WindowAssumption, BoundAssumption DEF LimiterTypeOK
<1>2. now + skew[r] \in Nat
  BY <1>1
<1> DEFINE W == WindowOf(r)
<1>3. /\ W \in Nat /\ W <= now + skew[r] /\ now + skew[r] < W + Window /\ W % Window = 0
  BY <1>2, WindowStart DEF WindowOf
<1> HIDE DEF W
<1>4. W <= now + MaxSkew /\ now < W + Window /\ W \in 0 .. MaxTime + MaxSkew
  BY <1>1, <1>3, WindowAssumption, BoundAssumption
<1>5. QED
  BY <1>3, <1>4 DEF W, Windows

LEMMA ZeroWindow == 0 \in Windows
BY WindowAssumption, BoundAssumption DEF Windows

(* No counters, no requests.                                               *)
LEMMA InitLimits == LimiterInit => LimitsInv
<1> SUFFICES ASSUME LimiterInit PROVE LimitsInv
  OBVIOUS
<1> USE DEF LimiterInit
<1>1. LimiterTypeOK
  BY WindowAssumption, BoundAssumption, ZeroWindow DEF LimiterTypeOK
<1>2. RequestsHold
  BY DEF RequestsHold
<1>3. CountersHold
  BY WindowAssumption DEF CountersHold
<1>4. EntriesHold
  BY WindowAssumption DEF EntriesHold
<1>5. QED
  BY <1>1, <1>2, <1>3, <1>4 DEF LimitsInv

-----------------------------------------------------------------------------
(* The entries of X-Forwarded-For as the last proxy sends them: what the   *)
(* client sent, then the addresses the proxies were called from.           *)
LEMMA ForwardedEntries ==
  ASSUME NEW client \in Addresses, NEW path \in Seq(Trusted), NEW sent \in Seq(Texts),
         NEW spell \in Spellings
  PROVE  LET forwarded == Forwarded(client, path, sent, spell)
         IN /\ forwarded \in Seq(Texts)
            /\ Len(forwarded) = Len(sent) + Len(path)
            /\ \A i \in 1 .. Len(path) :
                 forwarded[Len(sent) + i].ip = IF i = 1 THEN client ELSE path[i - 1]
            /\ \A i \in 1 .. Len(path) : path[i] \in Trusted
            /\ Peer(client, path) = IF Len(path) = 0 THEN client ELSE path[Len(path)]
<1> DEFINE hops == Hops(client, path)
           added == [i \in 1 .. Len(path) |-> [ip |-> hops[i], spelling |-> spell]]
<1>1. /\ Len(path) \in Nat /\ Len(sent) \in Nat
      /\ \A i \in 1 .. Len(path) : path[i] \in Trusted
  OBVIOUS
<1>2. /\ hops \in Seq(Addresses)
      /\ Len(hops) = Len(path) + 1
      /\ \A i \in 1 .. Len(path) + 1 : hops[i] = IF i = 1 THEN client ELSE path[i - 1]
  <2>1. /\ <<client>> \in Seq(Addresses) /\ path \in Seq(Addresses)
        /\ Len(<<client>>) = 1 /\ <<client>>[1] = client
    BY AddressAssumption
  <2>2. QED
    BY <1>1, <2>1 DEF Hops
<1>3. \A i \in 1 .. Len(path) : hops[i] \in Addresses
  <2> SUFFICES ASSUME NEW i \in 1 .. Len(path)
               PROVE  hops[i] \in Addresses
    OBVIOUS
  <2>1. i \in 1 .. Len(path) + 1 /\ (i = 1 \/ i - 1 \in 1 .. Len(path))
    BY <1>1
  <2>2. QED
    BY <1>1, <1>2, <2>1, AddressAssumption
<1> HIDE DEF hops
<1>4. /\ added \in Seq(Texts)
      /\ Len(added) = Len(path)
      /\ \A i \in 1 .. Len(path) : added[i].ip = hops[i]
  <2>1. \A i \in 1 .. Len(path) : [ip |-> hops[i], spelling |-> spell] \in Texts
    BY <1>3 DEF Texts
  <2>2. added \in [1 .. Len(path) -> Texts] /\ \A i \in 1 .. Len(path) : added[i].ip = hops[i]
    BY <2>1
  <2> HIDE DEF added
  <2>3. added \in Seq(Texts) /\ Len(added) = Len(path)
    BY <1>1, <2>2
  <2>4. QED
    BY <2>2, <2>3
<1>5. Forwarded(client, path, sent, spell) = sent \o added
  BY DEF Forwarded, hops
<1> HIDE DEF added
<1>6. /\ sent \o added \in Seq(Texts)
      /\ Len(sent \o added) = Len(sent) + Len(path)
      /\ \A i \in 1 .. Len(path) : (sent \o added)[Len(sent) + i] = added[i]
  BY <1>1, <1>4
<1>7. Peer(client, path) = IF Len(path) = 0 THEN client ELSE path[Len(path)]
  BY <1>1, <1>2 DEF Peer, hops
<1>8. \A i \in 1 .. Len(path) : hops[i] = IF i = 1 THEN client ELSE path[i - 1]
  BY <1>1, <1>2
<1>9. QED
  BY <1>1, <1>4, <1>5, <1>6, <1>7, <1>8

(* ClientIP returns the text of an address: it never makes a key of an     *)
(* entry that does not parse.                                              *)
LEMMA ClientIPTyped ==
  ASSUME NEW client \in Addresses, NEW path \in Seq(Trusted), NEW sent \in Seq(Texts),
         NEW spell \in Spellings
  PROVE  ClientIP(Peer(client, path), Forwarded(client, path, sent, spell)) \in Keys
<1> DEFINE peer == Peer(client, path)
           forwarded == Forwarded(client, path, sent, spell)
           stops == {i \in DOMAIN forwarded : StopsAt(forwarded, i)}
<1>1. forwarded \in Seq(Texts)
  BY ForwardedEntries
<1>2. peer \in Addresses
  <2>1. Len(path) \in Nat /\ (Len(path) # 0 => path[Len(path)] \in Trusted)
    OBVIOUS
  <2>2. peer = IF Len(path) = 0 THEN client ELSE path[Len(path)]
    BY ForwardedEntries
  <2>3. QED
    BY <2>1, <2>2, AddressAssumption
<1> HIDE DEF peer, forwarded
<1>3. \A i, j \in stops : i = j
  <2> SUFFICES ASSUME NEW i \in stops, NEW j \in stops, i < j
               PROVE  FALSE
    BY <1>1
  <2>1. j \in i + 1 .. Len(forwarded)
    BY <1>1
  <2>2. QED
    BY <2>1 DEF StopsAt
<1>4. ASSUME NEW i \in stops, forwarded[i].ip # Malformed
      PROVE  String(forwarded[CHOOSE j \in stops : TRUE].ip) \in Keys
  <2>1. (CHOOSE j \in stops : TRUE) = i
    BY <1>3
  <2>2. forwarded[i].ip \in Addresses
    <3>1. forwarded[i] \in Texts
      BY <1>1
    <3>2. QED
      BY <1>4, <3>1 DEF Texts
  <2>3. QED
    BY <2>1, <2>2 DEF Keys
<1>5. String(peer) \in Keys
  BY <1>2 DEF Keys
<1>6. QED
  BY <1>4, <1>5 DEF ClientIP, peer, forwarded

(* A client outside the trusted networks cannot choose its key: the walk   *)
(* from the right passes the proxies and stops at the entry the outermost  *)
(* of them wrote, which is the client's address.                           *)
LEMMA ClientIPOfClient ==
  ASSUME NEW client \in Addresses \ Trusted, NEW path \in Seq(Trusted),
         NEW sent \in Seq(Texts), NEW spell \in Spellings
  PROVE  ClientIP(Peer(client, path), Forwarded(client, path, sent, spell)) = String(client)
<1> DEFINE peer == Peer(client, path)
           forwarded == Forwarded(client, path, sent, spell)
           stops == {i \in DOMAIN forwarded : StopsAt(forwarded, i)}
           outermost == Len(sent) + 1
<1>1. /\ forwarded \in Seq(Texts)
      /\ Len(forwarded) = Len(sent) + Len(path)
      /\ \A i \in 1 .. Len(path) :
           forwarded[Len(sent) + i].ip = IF i = 1 THEN client ELSE path[i - 1]
      /\ \A i \in 1 .. Len(path) : path[i] \in Trusted
      /\ peer = IF Len(path) = 0 THEN client ELSE path[Len(path)]
      /\ Len(path) \in Nat /\ Len(sent) \in Nat
  BY ForwardedEntries
<1> HIDE DEF peer, forwarded
<1>2. CASE Len(path) = 0
  BY <1>1, <1>2 DEF ClientIP, contains, peer
<1>3. CASE Len(path) # 0
  <2>1. contains(peer)
    BY <1>1, <1>3 DEF contains
  <2>2. /\ outermost \in DOMAIN forwarded
        /\ forwarded[outermost].ip = client
    BY <1>1, <1>3
  <2>3. \A j \in outermost + 1 .. Len(forwarded) : contains(forwarded[j].ip)
    <3> SUFFICES ASSUME NEW j \in outermost + 1 .. Len(forwarded)
                 PROVE  forwarded[j].ip \in Trusted
      BY DEF contains
    <3> DEFINE i == j - Len(sent)
    <3>1. i \in 1 .. Len(path) /\ i # 1 /\ i - 1 \in 1 .. Len(path) /\ j = Len(sent) + i
      BY <1>1
    <3> HIDE DEF i
    <3>2. QED
      BY <1>1, <3>1
  <2>4. outermost \in stops
    BY <2>2, <2>3 DEF StopsAt, contains
  <2>5. \A i \in stops : i = outermost
    <3> SUFFICES ASSUME NEW i \in stops, i # outermost
                 PROVE  FALSE
      OBVIOUS
    <3>1. i \in 1 .. Len(forwarded) /\ StopsAt(forwarded, i)
      BY <1>1
    <3>2. CASE i < outermost
      <4>1. outermost \in i + 1 .. Len(forwarded)
        BY <1>1, <1>3, <3>1, <3>2
      <4>2. QED
        BY <2>2, <3>1, <4>1 DEF StopsAt, contains
    <3>3. CASE i > outermost
      <4>1. i \in outermost + 1 .. Len(forwarded)
        BY <1>1, <3>1, <3>3
      <4>2. QED
        BY <2>3, <3>1, <4>1 DEF StopsAt
    <3>4. QED
      BY <1>1, <3>1, <3>2, <3>3
  <2>6. (CHOOSE i \in stops : TRUE) = outermost
    BY <2>4, <2>5
  <2>7. client # Malformed
    BY AddressAssumption
  <2>8. QED
    BY <2>1, <2>2, <2>4, <2>6, <2>7 DEF ClientIP, peer, forwarded
<1>4. QED
  BY <1>2, <1>3

(* A request that only trusted hosts handled is counted under the nearest. *)
LEMMA ClientIPOfHost ==
  ASSUME NEW host \in Trusted, NEW path \in Seq(Trusted), NEW spell \in Spellings
  PROVE  ClientIP(Peer(host, path), Forwarded(host, path, << >>, spell)) = String(Peer(host, path))
<1> DEFINE peer == Peer(host, path)
           forwarded == Forwarded(host, path, << >>, spell)
<1>1. host \in Addresses /\ << >> \in Seq(Texts) /\ Len(<< >>) = 0
  BY AddressAssumption
<1>2. /\ forwarded \in Seq(Texts)
      /\ Len(forwarded) = Len(path)
      /\ \A i \in 1 .. Len(path) : forwarded[0 + i].ip = IF i = 1 THEN host ELSE path[i - 1]
      /\ \A i \in 1 .. Len(path) : path[i] \in Trusted
      /\ Len(path) \in Nat
  <2>1. PICK sent \in Seq(Texts) : sent = << >>
    BY <1>1
  <2>2. /\ Forwarded(host, path, sent, spell) \in Seq(Texts)
        /\ Len(Forwarded(host, path, sent, spell)) = Len(sent) + Len(path)
        /\ \A i \in 1 .. Len(path) :
             Forwarded(host, path, sent, spell)[Len(sent) + i].ip
               = IF i = 1 THEN host ELSE path[i - 1]
        /\ \A i \in 1 .. Len(path) : path[i] \in Trusted
    BY <1>1, ForwardedEntries
  <2>3. Len(path) \in Nat /\ Len(sent) = 0
    BY <1>1, <2>1
  <2>4. forwarded = Forwarded(host, path, sent, spell)
    BY <2>1
  <2> HIDE DEF forwarded
  <2>5. QED
    BY <2>2, <2>3, <2>4
<1> HIDE DEF peer, forwarded
<1>3. \A i \in DOMAIN forwarded : contains(forwarded[i].ip)
  <2> SUFFICES ASSUME NEW i \in 1 .. Len(path)
               PROVE  forwarded[i].ip \in Trusted
    BY <1>2 DEF contains
  <2>1. 0 + i = i /\ (i = 1 \/ i - 1 \in 1 .. Len(path))
    BY <1>2
  <2>2. QED
    BY <1>2, <2>1
<1>4. {i \in DOMAIN forwarded : StopsAt(forwarded, i)} = {}
  BY <1>3 DEF StopsAt
<1>5. QED
  BY <1>4 DEF ClientIP, peer, forwarded

(* Every key ClientIP can give is one of the tier's keys.                  *)
LEMMA KeysOfTyped ==
  ASSUME NEW client \in Clients
  PROVE  KeysOf[client] \subseteq Keys
<1> SUFFICES ASSUME NEW path \in Paths, NEW sent \in Headers, NEW spell \in Spellings
             PROVE  ClientIP(Peer(client, path), Forwarded(client, path, sent, spell)) \in Keys
  BY DEF KeysOf
<1>1. client \in Addresses /\ path \in Seq(Trusted) /\ sent \in Seq(Texts)
  BY InputAssumption
<1>2. QED
  BY <1>1, ClientIPTyped

(* A request from outside the trusted networks has one key.                *)
LEMMA KeysOfClient ==
  ASSUME NEW client \in Clients \ Trusted, NEW k \in KeysOf[client]
  PROVE  k = String(client)
<1>1. PICK path \in Paths, sent \in Headers, spell \in Spellings :
             k = ClientIP(Peer(client, path), Forwarded(client, path, sent, spell))
  BY DEF KeysOf
<1>2. client \in Addresses /\ path \in Seq(Trusted) /\ sent \in Seq(Texts)
  BY InputAssumption
<1>3. QED
  BY <1>1, <1>2, ClientIPOfClient

(* A request comes: its window is the current one of its replica.          *)
LEMMA ArriveHolds ==
  ASSUME LimitsInv, NEW q \in Requests, Arrive(q)
  PROVE  LimitsInv'
<1> USE DEF LimitsInv
<1>1. PICK r \in Replicas, client \in Clients : \E k \in KeysOf[client] :
        /\ from' = [from EXCEPT ![q] = client]
        /\ key' = [key EXCEPT ![q] = k]
        /\ replica' = [replica EXCEPT ![q] = r]
        /\ window' = [window EXCEPT ![q] = WindowOf(r)]
  BY DEF Arrive
<1>2. PICK k \in Keys : key' = [key EXCEPT ![q] = k]
  BY <1>1, KeysOfTyped
<1>3. /\ WindowOf(r) \in Windows
      /\ WindowOf(r) <= now + MaxSkew
      /\ now < WindowOf(r) + Window
  BY WindowOfHolds
<1>4. client \in Addresses /\ now \in Nat
  BY InputAssumption DEF LimiterTypeOK
<1>5. LimiterTypeOK'
  BY <1>1, <1>2, <1>3, <1>4, BoundAssumption DEF LimiterTypeOK, Arrive, shared, memory, localHistory
<1>6. RequestsHold'
  BY <1>1, <1>2, <1>3, <1>4, WindowAssumption DEF RequestsHold, LimiterTypeOK, Arrive
<1>7. CountersHold' /\ EntriesHold'
  BY DEF CountersHold, EntriesHold, Arrive, shared, memory, localHistory
<1>8. QED
  BY <1>5, <1>6, <1>7

(* A request leaves Middleware, or turns to the local counter.             *)
LEMMA EndHolds ==
  ASSUME LimiterTypeOK, RequestsHold, NEW q \in Requests,
         Done(q) \/ (Degrade(q) /\ pc[q] = "count"),
         UNCHANGED now
  PROVE  /\ pc' \in [Requests -> {"idle", "count", "fallback"}]
         /\ from' \in [Requests -> Addresses \cup {Malformed}]
         /\ key' \in [Requests -> Keys \cup {NoKey}]
         /\ replica' \in [Requests -> Replicas \cup {NoReplica}]
         /\ window' \in [Requests -> Windows]
         /\ since' \in [Requests -> 0 .. MaxTime]
         /\ RequestsHold'
<1>0. 0 \in 0 .. MaxTime
  BY BoundAssumption
<1>1. CASE Done(q)
  <2>1. RequestsHold'
    BY <1>1 DEF LimiterTypeOK, RequestsHold, Done
  <2>2. QED
    BY <1>0, <1>1, <2>1, ZeroWindow DEF LimiterTypeOK, Done
<1>2. CASE Degrade(q) /\ pc[q] = "count"
  <2>1. RequestsHold'
    BY <1>2 DEF LimiterTypeOK, RequestsHold, Degrade
  <2>2. QED
    BY <1>0, <1>2, <2>1, ZeroWindow DEF LimiterTypeOK, Degrade
<1>3. QED
  BY <1>1, <1>2

(* redisCounterScript counts, and keeps a new key for two windows: long    *)
(* enough for every clock and every script in flight.                      *)
LEMMA ScriptHolds ==
  ASSUME LimitsInv, NEW q \in Requests, pc[q] = "count", Script(key[q], window[q]), UNCHANGED now,
         \/ UNCHANGED admitted
         \/ /\ count'[<<key[q], window[q]>>] <= Limit
            /\ admitted' = [admitted EXCEPT ![<<key[q], window[q]>>] = @ + 1]
  PROVE  /\ count' \in [Keys \X Windows -> Nat]
         /\ expires' \in [Keys \X Windows -> Nat]
         /\ admitted' \in [Keys \X Windows -> Nat]
         /\ \A k \in Keys, w \in Windows :
              count'[<<k, w>>] > 0 => expires'[<<k, w>>] \in now .. now + 2 * Window
         /\ CountersHold'
<1> USE DEF LimitsInv
<1> DEFINE e == <<key[q], window[q]>>
<1>1. /\ key[q] \in Keys /\ window[q] \in Windows
      /\ window[q] <= since[q] + MaxSkew
      /\ since[q] < window[q] + Window
      /\ since[q] <= now
      /\ now <= since[q] + MaxDelay
      /\ now \in Nat /\ since[q] \in Nat /\ window[q] \in Nat
  BY DEF RequestsHold, LimiterTypeOK, Windows
<1>2. e \in Keys \X Windows /\ count[e] \in Nat /\ expires[e] \in Nat /\ admitted[e] \in Nat
  BY <1>1 DEF LimiterTypeOK
<1>3. /\ count' = [count EXCEPT ![e] = @ + 1]
      /\ expires' = IF count[e] = 0 THEN [expires EXCEPT ![e] = now + ttl] ELSE expires
  BY DEF Script
<1>4. \A d \in Keys \X Windows : d # e =>
        /\ count'[d] = count[d] /\ expires'[d] = expires[d] /\ admitted'[d] = admitted[d]
  BY <1>2, <1>3 DEF LimiterTypeOK
<1>5. /\ count'[e] = count[e] + 1
      /\ expires'[e] = IF count[e] = 0 THEN now + 2 * Window ELSE expires[e]
      /\ \/ admitted'[e] = admitted[e]
         \/ admitted'[e] = admitted[e] + 1 /\ count[e] + 1 <= Limit
  BY <1>2, <1>3 DEF LimiterTypeOK, ttl
<1>6. /\ count' \in [Keys \X Windows -> Nat]
      /\ expires' \in [Keys \X Windows -> Nat]
      /\ admitted' \in [Keys \X Windows -> Nat]
  <2> HIDE DEF e
  <2>1. count[e] + 1 \in Nat /\ admitted[e] + 1 \in Nat /\ now + ttl \in Nat
    BY <1>1, <1>2, WindowAssumption DEF ttl
  <2>2. count' \in [Keys \X Windows -> Nat]
    BY <1>2, <1>3, <2>1 DEF LimiterTypeOK
  <2>3. expires' \in [Keys \X Windows -> Nat]
    BY <1>2, <1>3, <2>1 DEF LimiterTypeOK
  <2>4. UNCHANGED admitted \/ admitted' = [admitted EXCEPT ![e] = @ + 1]
    BY DEF e
  <2>5. admitted' \in [Keys \X Windows -> Nat]
    BY <1>2, <2>1, <2>4 DEF LimiterTypeOK
  <2>6. QED
    BY <2>2, <2>3, <2>5
<1>7. /\ count[e] > 0 => /\ admitted[e] <= count[e]
                         /\ window[q] + 2 * Window <= expires[e] + MaxSkew
                         /\ expires[e] \in now .. now + 2 * Window
      /\ count[e] = 0 => admitted[e] = 0 \/ window[q] + 2 * Window <= now + MaxSkew
      /\ admitted[e] <= Limit
  BY <1>1 DEF CountersHold, LimiterTypeOK
<1>8. ~(window[q] + 2 * Window <= now + MaxSkew)
  BY <1>1, WindowAssumption
<1>9. /\ expires'[e] \in now .. now + 2 * Window
      /\ admitted'[e] <= count'[e]
      /\ window[q] + 2 * Window <= expires'[e] + MaxSkew
      /\ admitted'[e] <= Limit
      /\ count'[e] > 0
  <2> HIDE DEF e
  <2>1. CASE count[e] = 0
    BY <1>1, <1>2, <1>5, <1>7, <1>8, <2>1, WindowAssumption
  <2>2. CASE count[e] > 0
    BY <1>1, <1>2, <1>5, <1>7, <1>8, <2>2, WindowAssumption
  <2>3. QED
    BY <1>2, <2>1, <2>2
<1> HIDE DEF e
<1>10. \A k \in Keys, w \in Windows :
         count'[<<k, w>>] > 0 => expires'[<<k, w>>] \in now .. now + 2 * Window
  BY <1>4, <1>9 DEF LimiterTypeOK
<1>11. CountersHold'
  <2> SUFFICES ASSUME NEW k \in Keys, NEW w \in Windows
               PROVE  /\ count'[<<k, w>>] > 0 =>
                           /\ admitted'[<<k, w>>] <= count'[<<k, w>>]
                           /\ w + 2 * Window <= expires'[<<k, w>>] + MaxSkew
                      /\ count'[<<k, w>>] = 0 =>
                           admitted'[<<k, w>>] = 0 \/ w + 2 * Window <= now' + MaxSkew
                      /\ admitted'[<<k, w>>] <= Limit
    BY DEF CountersHold
  <2>1. CASE <<k, w>> = e
    BY <1>9, <2>1 DEF e
  <2>2. CASE <<k, w>> # e
    BY <1>4, <2>2 DEF CountersHold
  <2>3. QED
    BY <2>1, <2>2
<1>12. QED
  BY <1>6, <1>10, <1>11

(* The script's answer arrives.                                            *)
LEMMA CountHolds ==
  ASSUME LimitsInv, NEW q \in Requests, Count(q)
  PROVE  LimitsInv'
<1> USE DEF LimitsInv
<1>1. /\ pc[q] = "count" /\ Script(key[q], window[q]) /\ Done(q)
      /\ \/ UNCHANGED admitted
         \/ /\ count'[<<key[q], window[q]>>] <= Limit
            /\ admitted' = [admitted EXCEPT ![<<key[q], window[q]>>] = @ + 1]
      /\ UNCHANGED <<now, skew, memory, tries, localHistory>>
  BY DEF Count
<1>2. /\ count' \in [Keys \X Windows -> Nat]
      /\ expires' \in [Keys \X Windows -> Nat]
      /\ admitted' \in [Keys \X Windows -> Nat]
      /\ \A k \in Keys, w \in Windows :
           count'[<<k, w>>] > 0 => expires'[<<k, w>>] \in now .. now + 2 * Window
      /\ CountersHold'
  BY <1>1, ScriptHolds
<1>3. /\ pc' \in [Requests -> {"idle", "count", "fallback"}]
      /\ from' \in [Requests -> Addresses \cup {Malformed}]
      /\ key' \in [Requests -> Keys \cup {NoKey}]
      /\ replica' \in [Requests -> Replicas \cup {NoReplica}]
      /\ window' \in [Requests -> Windows]
      /\ since' \in [Requests -> 0 .. MaxTime]
      /\ RequestsHold'
  BY <1>1, EndHolds
<1>4. LimiterTypeOK'
  BY <1>1, <1>2, <1>3 DEF LimiterTypeOK, memory, localHistory
<1>5. EntriesHold'
  BY <1>1 DEF EntriesHold, memory, localHistory
<1>6. QED
  BY <1>2, <1>3, <1>4, <1>5

(* The script ran and its answer was lost: counted, and nobody let through.*)
LEMMA AnswerLostHolds ==
  ASSUME LimitsInv, NEW q \in Requests, AnswerLost(q)
  PROVE  LimitsInv'
<1> USE DEF LimitsInv
<1>1. /\ pc[q] = "count" /\ Script(key[q], window[q])
      /\ UNCHANGED <<now, skew, memory, admitted, localHistory>>
  BY DEF AnswerLost
<1>2. /\ count' \in [Keys \X Windows -> Nat]
      /\ expires' \in [Keys \X Windows -> Nat]
      /\ \A k \in Keys, w \in Windows :
           count'[<<k, w>>] > 0 => expires'[<<k, w>>] \in now .. now + 2 * Window
      /\ CountersHold'
  BY <1>1, ScriptHolds
<1>3. /\ pc' \in [Requests -> {"idle", "count", "fallback"}]
      /\ from' \in [Requests -> Addresses \cup {Malformed}]
      /\ key' \in [Requests -> Keys \cup {NoKey}]
      /\ replica' \in [Requests -> Replicas \cup {NoReplica}]
      /\ window' \in [Requests -> Windows]
      /\ since' \in [Requests -> 0 .. MaxTime]
      /\ RequestsHold'
  <2>1. CASE Degrade(q)
    BY <1>1, <2>1, EndHolds
  <2>2. CASE UNCHANGED requestVars
    BY <1>1, <2>2 DEF LimiterTypeOK, RequestsHold, requestVars
  <2>3. QED
    BY <2>1, <2>2 DEF AnswerLost
<1>4. tries' \in 0 .. MaxTries
  BY BoundAssumption DEF AnswerLost, LimiterTypeOK
<1>5. LimiterTypeOK'
  BY <1>1, <1>2, <1>3, <1>4 DEF LimiterTypeOK, memory, localHistory
<1>6. EntriesHold'
  BY <1>1 DEF EntriesHold, memory, localHistory
<1>7. QED
  BY <1>2, <1>3, <1>5, <1>6

(* Redis fails without a trace.                                            *)
LEMMA RedisFailsHolds ==
  ASSUME LimitsInv, NEW q \in Requests, RedisFails(q)
  PROVE  LimitsInv'
<1> USE DEF LimitsInv, RedisFails
<1>1. /\ pc' \in [Requests -> {"idle", "count", "fallback"}]
      /\ from' \in [Requests -> Addresses \cup {Malformed}]
      /\ key' \in [Requests -> Keys \cup {NoKey}]
      /\ replica' \in [Requests -> Replicas \cup {NoReplica}]
      /\ window' \in [Requests -> Windows]
      /\ since' \in [Requests -> 0 .. MaxTime]
      /\ RequestsHold'
  BY EndHolds
<1>2. LimiterTypeOK'
  BY <1>1 DEF LimiterTypeOK, shared, memory, localHistory
<1>3. CountersHold' /\ EntriesHold'
  BY DEF CountersHold, EntriesHold, shared, memory, localHistory
<1>4. QED
  BY <1>1, <1>2, <1>3

(* memoryCounterStore.Allow: the entry and the stretch it counts begin and *)
(* grow together.                                                          *)
LEMMA FallbackHolds ==
  ASSUME LimitsInv, NEW q \in Requests, Fallback(q)
  PROVE  LimitsInv'
<1> USE DEF LimitsInv
<1> DEFINE k == key[q]
           r == replica[q]
           e == <<r, k>>
<1>1. pc[q] = "fallback" /\ Done(q) /\ UNCHANGED <<now, skew, shared, tries, admitted>>
  BY DEF Fallback
<1>2. /\ pc' \in [Requests -> {"idle", "count", "fallback"}]
      /\ from' \in [Requests -> Addresses \cup {Malformed}]
      /\ key' \in [Requests -> Keys \cup {NoKey}]
      /\ replica' \in [Requests -> Replicas \cup {NoReplica}]
      /\ window' \in [Requests -> Windows]
      /\ since' \in [Requests -> 0 .. MaxTime]
      /\ RequestsHold'
  BY <1>1, EndHolds
<1>3. r \in Replicas /\ k \in Keys /\ e \in Replicas \X Keys
  BY <1>1 DEF RequestsHold
<1>4. /\ now \in Nat /\ now \in 0 .. MaxTime /\ Window \in Nat /\ Limit \in Nat \ {0}
      /\ local[e] \in 0 .. Limit /\ local[e] \in Nat /\ reset[e] \in Nat
      /\ opened[e] \in Nat /\ granted[e] \in Nat
  BY <1>3, WindowAssumption, BoundAssumption DEF LimiterTypeOK
<1>5. /\ local[e] > 0 => granted[e] = local[e] /\ reset[e] = opened[e] + Window
      /\ local[e] = 0 => granted[e] = 0 \/ now > opened[e] + Window
      /\ granted[e] <= Limit
  BY <1>3 DEF EntriesHold
<1>6. \/ /\ local[e] = 0 \/ now > reset[e]
         /\ local' = [local EXCEPT ![e] = 1]
         /\ reset' = [reset EXCEPT ![e] = now + Window]
         /\ Grant(r, k)
      \/ /\ local[e] # 0 /\ ~(now > reset[e]) /\ local[e] < Limit
         /\ local' = [local EXCEPT ![e] = @ + 1]
         /\ UNCHANGED reset
         /\ Grant(r, k)
      \/ UNCHANGED <<memory, localHistory>>
  BY DEF Fallback, Expired, HasRoom
<1>7. Grant(r, k) =>
        \/ /\ granted[e] = 0 \/ now > opened[e] + Window
           /\ opened' = [opened EXCEPT ![e] = now]
           /\ granted' = [granted EXCEPT ![e] = 1]
        \/ /\ ~(granted[e] = 0 \/ now > opened[e] + Window)
           /\ UNCHANGED opened
           /\ granted' = [granted EXCEPT ![e] = @ + 1]
  BY DEF Grant
<1> HIDE DEF k, r, e
<1>8. CASE UNCHANGED <<memory, localHistory>>
  <2>1. LimiterTypeOK'
    BY <1>1, <1>2, <1>8 DEF LimiterTypeOK, shared, memory, localHistory
  <2>2. CountersHold' /\ EntriesHold'
    BY <1>1, <1>8 DEF CountersHold, EntriesHold, shared, memory, localHistory
  <2>3. QED
    BY <1>2, <2>1, <2>2
<1>9. CASE \E l \in 1 .. Limit, t \in Nat, o \in 0 .. MaxTime :
             /\ local' = [local EXCEPT ![e] = l]
             /\ reset' = [reset EXCEPT ![e] = t]
             /\ opened' = [opened EXCEPT ![e] = o]
             /\ granted' = [granted EXCEPT ![e] = l]
             /\ t = o + Window
  <2>1. PICK l \in 1 .. Limit, t \in Nat, o \in 0 .. MaxTime :
             /\ local' = [local EXCEPT ![e] = l]
             /\ reset' = [reset EXCEPT ![e] = t]
             /\ opened' = [opened EXCEPT ![e] = o]
             /\ granted' = [granted EXCEPT ![e] = l]
             /\ t = o + Window
    BY <1>9
  <2>2. l \in Nat /\ l > 0 /\ l <= Limit /\ l \in 0 .. Limit
    BY <1>4
  <2>3. LimiterTypeOK'
    BY <1>1, <1>2, <2>1, <2>2 DEF LimiterTypeOK, shared
  <2>4. CountersHold'
    BY <1>1 DEF CountersHold, shared
  <2>5. EntriesHold'
    <3> SUFFICES ASSUME NEW s \in Replicas, NEW j \in Keys
                 PROVE  /\ local'[<<s, j>>] > 0 => /\ granted'[<<s, j>>] = local'[<<s, j>>]
                                                   /\ reset'[<<s, j>>] = opened'[<<s, j>>] + Window
                        /\ local'[<<s, j>>] = 0 => \/ granted'[<<s, j>>] = 0
                                                   \/ now' > opened'[<<s, j>>] + Window
                        /\ granted'[<<s, j>>] <= Limit
      BY DEF EntriesHold
    <3>1. CASE <<s, j>> = e
      BY <1>3, <2>1, <2>2, <3>1 DEF LimiterTypeOK
    <3>2. CASE <<s, j>> # e
      <4>1. /\ local'[<<s, j>>] = local[<<s, j>>] /\ reset'[<<s, j>>] = reset[<<s, j>>]
            /\ opened'[<<s, j>>] = opened[<<s, j>>] /\ granted'[<<s, j>>] = granted[<<s, j>>]
        BY <2>1, <3>2 DEF LimiterTypeOK
      <4>2. QED
        BY <1>1, <4>1 DEF EntriesHold
    <3>3. QED
      BY <3>1, <3>2
  <2>6. QED
    BY <1>2, <2>3, <2>4, <2>5
<1>10. CASE /\ local[e] = 0 \/ now > reset[e]
            /\ local' = [local EXCEPT ![e] = 1]
            /\ reset' = [reset EXCEPT ![e] = now + Window]
            /\ Grant(r, k)
  <2>1. granted[e] = 0 \/ now > opened[e] + Window
    BY <1>4, <1>5, <1>10
  <2>2. opened' = [opened EXCEPT ![e] = now] /\ granted' = [granted EXCEPT ![e] = 1]
    BY <1>7, <1>10, <2>1
  <2>3. 1 \in 1 .. Limit /\ now + Window \in Nat
    BY <1>4
  <2>4. QED
    BY <1>4, <1>9, <1>10, <2>2, <2>3
<1>11. CASE /\ local[e] # 0 /\ ~(now > reset[e]) /\ local[e] < Limit
            /\ local' = [local EXCEPT ![e] = @ + 1]
            /\ UNCHANGED reset
            /\ Grant(r, k)
  <2>1. /\ local[e] > 0 /\ granted[e] = local[e] /\ reset[e] = opened[e] + Window
        /\ ~(granted[e] = 0 \/ now > opened[e] + Window)
    BY <1>4, <1>5, <1>11
  <2>2. UNCHANGED opened /\ granted' = [granted EXCEPT ![e] = local[e] + 1]
    BY <1>7, <1>11, <2>1
  <2>3. /\ reset' = [reset EXCEPT ![e] = reset[e]]
        /\ opened' = [opened EXCEPT ![e] = opened[e]]
        /\ local' = [local EXCEPT ![e] = local[e] + 1]
    BY <1>3, <1>11, <2>2 DEF LimiterTypeOK
  <2>4. local[e] + 1 \in 1 .. Limit /\ opened[e] \in 0 .. MaxTime
    BY <1>3, <1>4, <1>11, <2>1 DEF LimiterTypeOK
  <2>5. QED
    BY <1>4, <1>9, <2>1, <2>2, <2>3, <2>4
<1>12. QED
  BY <1>6, <1>8, <1>10, <1>11

(* The cleanup drops only entries whose stretch is over.                   *)
LEMMA CleanupHolds ==
  ASSUME LimitsInv, NEW r \in Replicas, Cleanup(r)
  PROVE  LimitsInv'
<1> USE DEF LimitsInv
<1>1. \A s \in Replicas, k \in Keys :
        \/ local'[<<s, k>>] = local[<<s, k>>] /\ reset'[<<s, k>>] = reset[<<s, k>>]
        \/ /\ local[<<s, k>>] > 0 /\ now > reset[<<s, k>>]
           /\ local'[<<s, k>>] = 0 /\ reset'[<<s, k>>] = 0
  BY DEF Cleanup, Drops, Expired
<1>2. UNCHANGED <<now, skew, shared, requestVars, tries, admitted, localHistory>>
  BY DEF Cleanup
<1>3. local' \in [Replicas \X Keys -> 0 .. Limit] /\ reset' \in [Replicas \X Keys -> Nat]
  BY WindowAssumption DEF Cleanup, LimiterTypeOK
<1>4. LimiterTypeOK'
  BY <1>2, <1>3 DEF LimiterTypeOK, shared, requestVars, localHistory
<1>5. RequestsHold' /\ CountersHold'
  BY <1>2 DEF RequestsHold, CountersHold, shared, requestVars
<1>6. EntriesHold'
  <2> SUFFICES ASSUME NEW s \in Replicas, NEW k \in Keys
               PROVE  /\ local'[<<s, k>>] > 0 => /\ granted'[<<s, k>>] = local'[<<s, k>>]
                                                 /\ reset'[<<s, k>>] = opened'[<<s, k>>] + Window
                      /\ local'[<<s, k>>] = 0 => \/ granted'[<<s, k>>] = 0
                                                 \/ now' > opened'[<<s, k>>] + Window
                      /\ granted'[<<s, k>>] <= Limit
    BY DEF EntriesHold
  <2>1. UNCHANGED <<now, opened, granted>>
    BY <1>2 DEF localHistory
  <2>2. /\ local[<<s, k>>] > 0 => /\ granted[<<s, k>>] = local[<<s, k>>]
                                  /\ reset[<<s, k>>] = opened[<<s, k>>] + Window
        /\ local[<<s, k>>] = 0 => granted[<<s, k>>] = 0 \/ now > opened[<<s, k>>] + Window
        /\ granted[<<s, k>>] <= Limit
    BY DEF EntriesHold
  <2>3. CASE local'[<<s, k>>] = local[<<s, k>>] /\ reset'[<<s, k>>] = reset[<<s, k>>]
    BY <2>1, <2>2, <2>3
  <2>4. CASE /\ local[<<s, k>>] > 0 /\ now > reset[<<s, k>>]
             /\ local'[<<s, k>>] = 0 /\ reset'[<<s, k>>] = 0
    BY <2>1, <2>2, <2>4
  <2>5. QED
    BY <1>1, <2>3, <2>4
<1>7. QED
  BY <1>4, <1>5, <1>6

(* Time passes; a key that expires leaves a window nobody uses any more.   *)
LEMMA TickHolds ==
  ASSUME LimitsInv, Tick
  PROVE  LimitsInv'
<1> USE DEF LimitsInv
<1>1. /\ now \in Nat /\ now' = now + 1 /\ now' \in 0 .. MaxTime
      /\ UNCHANGED <<skew, memory, requestVars, tries, admitted, localHistory>>
  BY BoundAssumption DEF Tick, LimiterTypeOK
<1>2. \A k \in Keys, w \in Windows :
        /\ count[<<k, w>>] \in Nat /\ expires[<<k, w>>] \in Nat
        /\ \/ /\ expires[<<k, w>>] <= now + 1
              /\ count'[<<k, w>>] = 0 /\ expires'[<<k, w>>] = 0
           \/ /\ expires[<<k, w>>] > now + 1
              /\ count'[<<k, w>>] = count[<<k, w>>] /\ expires'[<<k, w>>] = expires[<<k, w>>]
  <2> SUFFICES ASSUME NEW e \in Keys \X Windows
               PROVE  /\ count[e] \in Nat /\ expires[e] \in Nat
                      /\ \/ /\ expires[e] <= now + 1
                            /\ count'[e] = 0 /\ expires'[e] = 0
                         \/ /\ expires[e] > now + 1
                            /\ count'[e] = count[e] /\ expires'[e] = expires[e]
    OBVIOUS
  <2>1. count[e] \in Nat /\ expires[e] \in Nat
    BY DEF LimiterTypeOK
  <2>2. /\ count'[e] = IF expires[e] <= now + 1 THEN 0 ELSE count[e]
        /\ expires'[e] = IF expires[e] <= now + 1 THEN 0 ELSE expires[e]
    BY DEF Tick
  <2>3. QED
    BY <1>1, <2>1, <2>2
<1>3. count' \in [Keys \X Windows -> Nat] /\ expires' \in [Keys \X Windows -> Nat]
  BY DEF Tick, LimiterTypeOK
<1>4. \A k \in Keys, w \in Windows :
        count'[<<k, w>>] > 0 => expires'[<<k, w>>] \in now' .. now' + 2 * Window
  BY <1>1, <1>2, WindowAssumption DEF LimiterTypeOK
<1>5. LimiterTypeOK'
  BY <1>1, <1>3, <1>4 DEF LimiterTypeOK, memory, requestVars, localHistory
<1>6. RequestsHold'
  <2>1. \A q \in Requests : pc[q] = "count" => now < since[q] + MaxDelay
    BY DEF Tick
  <2>2. QED
    BY <1>1, <2>1, WindowAssumption DEF RequestsHold, requestVars, LimiterTypeOK
<1>7. CountersHold'
  <2>1. \A w \in Windows : w \in Nat
    BY DEF Windows
  <2> SUFFICES ASSUME NEW k \in Keys, NEW w \in Windows
               PROVE  /\ count'[<<k, w>>] > 0 =>
                           /\ admitted'[<<k, w>>] <= count'[<<k, w>>]
                           /\ w + 2 * Window <= expires'[<<k, w>>] + MaxSkew
                      /\ count'[<<k, w>>] = 0 =>
                           admitted'[<<k, w>>] = 0 \/ w + 2 * Window <= now' + MaxSkew
                      /\ admitted'[<<k, w>>] <= Limit
    BY DEF CountersHold
  <2>2. /\ count[<<k, w>>] > 0 => /\ admitted[<<k, w>>] <= count[<<k, w>>]
                                  /\ w + 2 * Window <= expires[<<k, w>>] + MaxSkew
        /\ count[<<k, w>>] = 0 => admitted[<<k, w>>] = 0 \/ w + 2 * Window <= now + MaxSkew
        /\ admitted[<<k, w>>] <= Limit
    BY DEF CountersHold
  <2>3. w \in Nat /\ 2 * Window \in Nat /\ MaxSkew \in Nat /\ UNCHANGED admitted
    BY <1>1, <2>1, WindowAssumption
  <2>4. CASE /\ expires[<<k, w>>] <= now + 1
             /\ count'[<<k, w>>] = 0 /\ expires'[<<k, w>>] = 0
    BY <1>1, <1>2, <2>2, <2>3, <2>4
  <2>5. CASE /\ expires[<<k, w>>] > now + 1
             /\ count'[<<k, w>>] = count[<<k, w>>] /\ expires'[<<k, w>>] = expires[<<k, w>>]
    BY <1>1, <2>2, <2>3, <2>5
  <2>6. QED
    BY <1>2, <2>4, <2>5
<1>8. EntriesHold'
  <2> SUFFICES ASSUME NEW s \in Replicas, NEW k \in Keys
               PROVE  /\ local'[<<s, k>>] > 0 => /\ granted'[<<s, k>>] = local'[<<s, k>>]
                                                 /\ reset'[<<s, k>>] = opened'[<<s, k>>] + Window
                      /\ local'[<<s, k>>] = 0 => \/ granted'[<<s, k>>] = 0
                                                 \/ now' > opened'[<<s, k>>] + Window
                      /\ granted'[<<s, k>>] <= Limit
    BY DEF EntriesHold
  <2>1. UNCHANGED <<local, reset, opened, granted>>
    BY <1>1 DEF memory, localHistory
  <2>2. opened[<<s, k>>] \in Nat /\ Window \in Nat
    BY WindowAssumption DEF LimiterTypeOK
  <2>3. /\ local[<<s, k>>] > 0 => /\ granted[<<s, k>>] = local[<<s, k>>]
                                  /\ reset[<<s, k>>] = opened[<<s, k>>] + Window
        /\ local[<<s, k>>] = 0 => granted[<<s, k>>] = 0 \/ now > opened[<<s, k>>] + Window
        /\ granted[<<s, k>>] <= Limit
    BY DEF EntriesHold
  <2>4. QED
    BY <1>1, <2>1, <2>2, <2>3
<1>9. QED
  BY <1>5, <1>6, <1>7, <1>8

LEMMA LimitsStep ==
  ASSUME LimitsInv, [LimiterNext]_limiterVars
  PROVE  LimitsInv'
<1>1. CASE UNCHANGED limiterVars
  BY <1>1 DEF LimitsInv, LimiterTypeOK, RequestsHold, CountersHold, EntriesHold, limiterVars,
              shared, memory, requestVars, localHistory
<1>2. CASE Tick
  BY <1>2, TickHolds
<1>3. ASSUME NEW r \in Replicas, Cleanup(r)
      PROVE  LimitsInv'
  BY <1>3, CleanupHolds
<1>4. ASSUME NEW q \in Requests,
             Arrive(q) \/ Count(q) \/ AnswerLost(q) \/ RedisFails(q) \/ Fallback(q)
      PROVE  LimitsInv'
  BY <1>4, ArriveHolds, CountHolds, AnswerLostHolds, RedisFailsHolds, FallbackHolds
<1>5. QED
  BY <1>1, <1>2, <1>3, <1>4 DEF LimiterNext

(* The limits of a tier: across the replicas no window of a client admits  *)
(* more than Limit requests on the shared counter, and without Redis no    *)
(* process lets more than Limit through in a window.                       *)
THEOREM LimitsHold == LimiterSpec => [](LimiterTypeOK /\ SharedQuota /\ LocalCap)
<1>1. LimitsInv => LimiterTypeOK /\ SharedQuota /\ LocalCap
  BY DEF LimitsInv, SharedQuota, LocalCap, CountersHold, EntriesHold
<1>2. LimitsInv /\ [LimiterNext]_limiterVars => LimitsInv'
  BY LimitsStep
<1>3. QED
  BY <1>1, <1>2, InitLimits, PTL DEF LimiterSpec

(* The first half of KeysAreClients, with what makes it inductive.         *)
ClientsKeyed ==
  /\ pc \in [Requests -> {"idle", "count", "fallback"}]
  /\ from \in [Requests -> Addresses \cup {Malformed}]
  /\ key \in [Requests -> Keys \cup {NoKey}]
  /\ \A q \in Requests : pc[q] # "idle" /\ from[q] \notin Trusted => key[q] = String(from[q])

LEMMA ClientsStep ==
  ASSUME LimitsInv, LimitsInv', ClientsKeyed, [LimiterNext]_limiterVars
  PROVE  ClientsKeyed'
<1>1. /\ pc' \in [Requests -> {"idle", "count", "fallback"}]
      /\ from' \in [Requests -> Addresses \cup {Malformed}]
      /\ key' \in [Requests -> Keys \cup {NoKey}]
  BY DEF LimitsInv, LimiterTypeOK
<1>2. CASE UNCHANGED <<pc, from, key>>
  BY <1>2 DEF ClientsKeyed
<1>3. ASSUME NEW q \in Requests, Done(q) \/ Degrade(q), pc[q] # "idle"
      PROVE  ClientsKeyed'
  BY <1>1, <1>3 DEF ClientsKeyed, Done, Degrade
<1>4. ASSUME NEW q \in Requests, Arrive(q)
      PROVE  ClientsKeyed'
  <2>1. PICK client \in Clients : \E k \in KeysOf[client] :
          /\ from' = [from EXCEPT ![q] = client]
          /\ key' = [key EXCEPT ![q] = k]
          /\ pc' = [pc EXCEPT ![q] = "count"]
    BY <1>4 DEF Arrive
  <2>2. PICK k \in KeysOf[client] :
          /\ from' = [from EXCEPT ![q] = client]
          /\ key' = [key EXCEPT ![q] = k]
          /\ pc' = [pc EXCEPT ![q] = "count"]
    BY <2>1
  <2>3. client \notin Trusted => k = String(client)
    BY KeysOfClient
  <2>4. QED
    BY <1>1, <2>2, <2>3 DEF ClientsKeyed
<1>5. QED
  <2>1. ASSUME NEW q \in Requests, Count(q) \/ AnswerLost(q) \/ RedisFails(q) \/ Fallback(q)
        PROVE  ClientsKeyed'
    <3>1. CASE Count(q)
      BY <1>3, <3>1 DEF Count
    <3>2. CASE AnswerLost(q)
      BY <1>2, <1>3, <3>2 DEF AnswerLost, requestVars
    <3>3. CASE RedisFails(q)
      BY <1>3, <3>3 DEF RedisFails
    <3>4. CASE Fallback(q)
      BY <1>3, <3>4 DEF Fallback
    <3>5. QED
      BY <2>1, <3>1, <3>2, <3>3, <3>4
  <2>2. CASE Tick \/ (\E r \in Replicas : Cleanup(r)) \/ UNCHANGED limiterVars
    BY <1>2, <2>2 DEF Tick, Cleanup, limiterVars, requestVars
  <2>3. QED
    BY <1>4, <2>1, <2>2 DEF LimiterNext

(* A client is counted under its own address, whatever it sends.           *)
THEOREM KeysHold == LimiterSpec => []KeysAreClients
<1>1. LimiterInit => ClientsKeyed
  BY DEF LimiterInit, ClientsKeyed
<1>2. ClientsKeyed => KeysAreClients
  <2> SUFFICES ASSUME NEW host \in Trusted, NEW path \in Paths, NEW spell \in Spellings
               PROVE  ClientIP(Peer(host, path), Forwarded(host, path, << >>, spell))
                        = String(Peer(host, path))
    BY DEF ClientsKeyed, KeysAreClients
  <2>1. path \in Seq(Trusted)
    BY InputAssumption
  <2>2. QED
    BY <2>1, ClientIPOfHost
<1>3. LimitsInv /\ LimitsInv' /\ ClientsKeyed /\ [LimiterNext]_limiterVars => ClientsKeyed'
  BY ClientsStep
<1>4. LimitsInv /\ [LimiterNext]_limiterVars => LimitsInv'
  BY LimitsStep
<1>5. QED
  BY <1>1, <1>2, <1>3, <1>4, InitLimits, PTL DEF LimiterSpec
=============================================================================
