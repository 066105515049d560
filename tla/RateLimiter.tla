---------------------------- MODULE RateLimiter ----------------------------
(***************************************************************************)
(* The rate limiter of one tier: fixed windows counted in Redis for every  *)
(* replica together, and the counters each process falls back to when      *)
(* Redis does not answer.  Replicas disagree about the time of day; a      *)
(* script may run a while after the window of its key was computed.        *)
(***************************************************************************)
EXTENDS Naturals, FiniteSets, ClientAddress

CONSTANTS Replicas,
          Requests,    \* requests in flight at once
          Limit, Window,
          MaxSkew,     \* how far the clock of a replica may be ahead of the slowest
          MaxDelay,    \* how long redis.Script.Run tries, retries included
          Clients,     \* the addresses requests come from
          Headers,     \* what a client may put into X-Forwarded-For
          Paths,       \* the proxies a request may pass, outermost first
          NoReplica, NoKey,
          MaxTime, MaxTries \* bounds of the instance

Keys == {String(ip) : ip \in Addresses}
Windows == {w \in 0 .. MaxTime + MaxSkew : w % Window = 0}

ASSUME WindowAssumption ==
  /\ Limit \in Nat \ {0}
  /\ Window \in Nat \ {0}
  /\ MaxSkew \in Nat
  /\ MaxDelay \in Nat
  /\ MaxSkew + MaxDelay < Window
ASSUME InputAssumption ==
  Clients \subseteq Addresses /\ Headers \subseteq Seq(Texts) /\ Paths \subseteq Seq(Trusted)
ASSUME BoundAssumption == MaxTime \in Nat /\ MaxTries \in Nat
ASSUME NoneAssumption == NoReplica \notin Replicas /\ NoKey \notin Keys

VARIABLES
  now,       \* time as the slowest clock shows it
  skew,      \* how far the clock of a replica is ahead
  \* Redis: the counter of a key and a window, the window named by its start
  count,     \* count[<<k, w>>]; 0: no such key
  expires,   \* when the key goes
  \* memoryCounterStore.clients of each process
  local,     \* local[<<r, k>>].count; 0: no entry
  reset,     \* local[<<r, k>>].resetTime
  \* a request in Middleware
  pc,
  from,      \* the address it came from
  key,       \* what ClientIP made of it
  replica,   \* the process that serves it
  window,    \* windowIndex
  since,     \* when windowIndex was computed
  tries,     \* calls of the script so far, retries included
  \* history
  admitted,  \* admitted[<<k, w>>]: requests let through on the shared counter
  opened,    \* opened[<<r, k>>]: the first request let through on the local counter in a
             \* stretch of a window, one stretch beginning after the other ended
  granted    \* granted[<<r, k>>]: requests let through in that stretch

shared == <<count, expires>>
memory == <<local, reset>>
requestVars == <<pc, from, key, replica, window, since>>
localHistory == <<opened, granted>>
limiterVars == <<now, skew, shared, memory, requestVars, tries, admitted, localHistory>>

(* Types; a key that is there has a lifetime, so no counter stays for ever.*)
LimiterTypeOK ==
  /\ now \in 0 .. MaxTime
  /\ skew \in [Replicas -> 0 .. MaxSkew]
  /\ count \in [Keys \X Windows -> Nat]
  /\ expires \in [Keys \X Windows -> Nat]
  /\ \A k \in Keys, w \in Windows :
       count[<<k, w>>] > 0 => expires[<<k, w>>] \in now .. now + 2 * Window
  /\ local \in [Replicas \X Keys -> 0 .. Limit]
  /\ reset \in [Replicas \X Keys -> Nat]
  /\ pc \in [Requests -> {"idle", "count", "fallback"}]
  /\ from \in [Requests -> Addresses \cup {Malformed}]
  /\ key \in [Requests -> Keys \cup {NoKey}]
  /\ replica \in [Requests -> Replicas \cup {NoReplica}]
  /\ window \in [Requests -> Windows]
  /\ since \in [Requests -> 0 .. MaxTime]
  /\ tries \in 0 .. MaxTries
  /\ admitted \in [Keys \X Windows -> Nat]
  /\ opened \in [Replicas \X Keys -> 0 .. MaxTime]
  /\ granted \in [Replicas \X Keys -> Nat]

LimiterInit ==
  /\ now = 0
  /\ skew \in [Replicas -> 0 .. MaxSkew]
  /\ count = [e \in Keys \X Windows |-> 0]
  /\ expires = [e \in Keys \X Windows |-> 0]
  /\ local = [e \in Replicas \X Keys |-> 0]
  /\ reset = [e \in Replicas \X Keys |-> 0]
  /\ pc = [q \in Requests |-> "idle"]
  /\ from = [q \in Requests |-> Malformed]
  /\ key = [q \in Requests |-> NoKey]
  /\ replica = [q \in Requests |-> NoReplica]
  /\ window = [q \in Requests |-> 0]
  /\ since = [q \in Requests |-> 0]
  /\ tries = 0
  /\ admitted = [e \in Keys \X Windows |-> 0]
  /\ opened = [e \in Replicas \X Keys |-> 0]
  /\ granted = [e \in Replicas \X Keys |-> 0]

-----------------------------------------------------------------------------
(* The start of the window the clock of r is in: windowIndex * window.     *)
WindowOf(r) == (now + skew[r]) - ((now + skew[r]) % Window)

(* Faulty variant: room for the skew of the clocks, none for a slow Redis. *)
WindowAndSkew == Window + MaxSkew

ttl == 2 * Window

(* The keys a request of an address can get, by header, proxies, spelling. *)
KeysOf == [client \in Clients |->
             {ClientIP(Peer(client, path), Forwarded(client, path, sent, spell)) :
                path \in Paths, sent \in Headers, spell \in Spellings}]

(* Middleware: the key of the request, then the shared store's Allow up to *)
(* the call of the script.                                                 *)
Arrive(q) ==
  /\ pc[q] = "idle"
  /\ tries < MaxTries
  /\ \E r \in Replicas, client \in Clients : \E k \in KeysOf[client] :
       /\ from' = [from EXCEPT ![q] = client]
       /\ key' = [key EXCEPT ![q] = k]
       /\ replica' = [replica EXCEPT ![q] = r]
       /\ window' = [window EXCEPT ![q] = WindowOf(r)]
  /\ since' = [since EXCEPT ![q] = now]
  /\ tries' = tries + 1
  /\ pc' = [pc EXCEPT ![q] = "count"]
  /\ UNCHANGED <<now, skew, shared, memory, admitted, localHistory>>

Done(q) ==
  /\ pc' = [pc EXCEPT ![q] = "idle"]
  /\ from' = [from EXCEPT ![q] = Malformed]
  /\ key' = [key EXCEPT ![q] = NoKey]
  /\ replica' = [replica EXCEPT ![q] = NoReplica]
  /\ window' = [window EXCEPT ![q] = 0]
  /\ since' = [since EXCEPT ![q] = 0]

(* The shared store failed: allow turns to the local one.                  *)
Degrade(q) ==
  /\ pc' = [pc EXCEPT ![q] = "fallback"]
  /\ window' = [window EXCEPT ![q] = 0]
  /\ since' = [since EXCEPT ![q] = 0]
  /\ UNCHANGED <<from, key, replica>>

(* redisCounterScript: INCR, and PEXPIRE for a new key, in one step.       *)
Script(k, w) ==
  /\ count' = [count EXCEPT ![<<k, w>>] = @ + 1]
  /\ expires' = IF count[<<k, w>>] = 0 THEN [expires EXCEPT ![<<k, w>>] = now + ttl] ELSE expires

(* Its answer arrives: the request goes on, or is refused with a 429.      *)
Count(q) ==
  LET k == key[q]
      w == window[q]
  IN /\ pc[q] = "count"
     /\ Script(k, w)
     /\ admitted' = IF count'[<<k, w>>] <= Limit
                    THEN [admitted EXCEPT ![<<k, w>>] = @ + 1]
                    ELSE admitted
     /\ Done(q)
     /\ UNCHANGED <<now, skew, memory, tries, localHistory>>

(* Redis counts, and the answer is lost: the client library tries again or *)
(* gives up.                                                               *)
AnswerLost(q) ==
  /\ pc[q] = "count"
  /\ Script(key[q], window[q])
  /\ \/ /\ tries < MaxTries
        /\ tries' = tries + 1
        /\ UNCHANGED requestVars
     \/ Degrade(q) /\ UNCHANGED tries
  /\ UNCHANGED <<now, skew, memory, admitted, localHistory>>

(* An error without effect.                                                *)
RedisFails(q) ==
  /\ pc[q] = "count"
  /\ Degrade(q)
  /\ UNCHANGED <<now, skew, shared, memory, tries, admitted, localHistory>>

(* A request goes through on the local counter.                            *)
Grant(r, k) ==
  IF granted[<<r, k>>] = 0 \/ now > opened[<<r, k>>] + Window
  THEN opened' = [opened EXCEPT ![<<r, k>>] = now] /\ granted' = [granted EXCEPT ![<<r, k>>] = 1]
  ELSE granted' = [granted EXCEPT ![<<r, k>>] = @ + 1] /\ UNCHANGED opened

(* memoryCounterStore.Allow, under its mutex.                              *)
Expired(r, k) == now > reset[<<r, k>>]

(* Faulty variant: one too many.                                           *)
UpToLimit(r, k) == local[<<r, k>>] <= Limit

HasRoom(r, k) == local[<<r, k>>] < Limit

Fallback(q) ==
  LET k == key[q]
      r == replica[q]
      fresh == local[<<r, k>>] = 0 \/ Expired(r, k)
  IN /\ pc[q] = "fallback"
     /\ \/ /\ fresh
           /\ local' = [local EXCEPT ![<<r, k>>] = 1]
           /\ reset' = [reset EXCEPT ![<<r, k>>] = now + Window]
           /\ Grant(r, k)
        \/ /\ ~fresh
           /\ HasRoom(r, k)
           /\ local' = [local EXCEPT ![<<r, k>>] = @ + 1]
           /\ Grant(r, k)
           /\ UNCHANGED reset
        \/ /\ ~fresh
           /\ ~HasRoom(r, k)
           /\ UNCHANGED <<memory, localHistory>>
     /\ Done(q)
     /\ UNCHANGED <<now, skew, shared, tries, admitted>>

(* Faulty variant: the comparison the other way round.                     *)
DropsCurrent(r, k) == local[<<r, k>>] > 0 /\ reset[<<r, k>>] >= now

(* The periodic cleanup drops an entry of memoryCounterStore.              *)
Drops(r, k) == local[<<r, k>>] > 0 /\ Expired(r, k)

Cleanup(r) ==
  /\ \E k \in Keys : Drops(r, k)
  /\ local' = [e \in Replicas \X Keys |-> IF e[1] = r /\ Drops(r, e[2]) THEN 0 ELSE local[e]]
  /\ reset' = [e \in Replicas \X Keys |-> IF e[1] = r /\ Drops(r, e[2]) THEN 0 ELSE reset[e]]
  /\ UNCHANGED <<now, skew, shared, requestVars, tries, admitted, localHistory>>

(* Time passes, for everyone; Redis drops what expired; no script runs     *)
(* longer than MaxDelay after the window of its key was computed.          *)
Tick ==
  /\ now < MaxTime
  /\ \A q \in Requests : pc[q] = "count" => now < since[q] + MaxDelay
  /\ now' = now + 1
  /\ count' = [e \in Keys \X Windows |-> IF expires[e] <= now + 1 THEN 0 ELSE count[e]]
  /\ expires' = [e \in Keys \X Windows |-> IF expires[e] <= now + 1 THEN 0 ELSE expires[e]]
  /\ UNCHANGED <<skew, memory, requestVars, tries, admitted, localHistory>>

LimiterNext ==
  \/ \E q \in Requests : Arrive(q) \/ Count(q) \/ AnswerLost(q) \/ RedisFails(q) \/ Fallback(q)
  \/ \E r \in Replicas : Cleanup(r)
  \/ Tick

LimiterSpec == LimiterInit /\ [][LimiterNext]_limiterVars

-----------------------------------------------------------------------------
(* The limit holds across replicas: the shared counter of a key lets at    *)
(* most Limit requests of a window through, however the clocks disagree    *)
(* and however late a script runs; no counter is dropped early and grants  *)
(* a second allowance.                                                     *)
SharedQuota == \A k \in Keys, w \in Windows : admitted[<<k, w>>] <= Limit

(* "The local counter still caps what this replica will serve": without    *)
(* Redis a process lets at most Limit requests of a client through in a    *)
(* window from the first one on, whenever the cleanup comes by.            *)
LocalCap == \A r \in Replicas, k \in Keys : granted[<<r, k>>] <= Limit

(* A request from outside the trusted networks is counted under the one    *)
(* text of the address it came from, whatever header it sent and whatever  *)
(* proxies it passed; one that only trusted hosts handled is counted under *)
(* the nearest of them.                                                    *)
KeysAreClients ==
  /\ \A q \in Requests : pc[q] # "idle" /\ from[q] \notin Trusted => key[q] = String(from[q])
  /\ \A host \in Trusted, path \in Paths, spell \in Spellings :
       ClientIP(Peer(host, path), Forwarded(host, path, << >>, spell)) = String(Peer(host, path))
=============================================================================
