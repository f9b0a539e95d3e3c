---------------------------- MODULE CacheService ----------------------------
(***************************************************************************)
(* CacheService (src/core/cache/cache.service.ts) of several Node          *)
(* processes on one Redis, with the ioredis client it owns.                *)
(*                                                                         *)
(* A method answers at once with its fallback when it has no client or     *)
(* stats.connected is false; else it awaits one command (mset: a pipeline) *)
(* and its catch answers the fallback.  ioredis queues commands while the  *)
(* link is down, sends again those whose reply was lost with it, and       *)
(* rejects what is queued after maxRetriesPerRequest attempts; it never    *)
(* stops reconnecting.  stats.connected is written at the two ends of the  *)
(* module's life and nowhere else.                                         *)
(*                                                                         *)
(* A value stands for its JSON text, a pattern of keys() for the keys it   *)
(* matches, and an answer that is an array for the number of its non-null  *)
(* elements.  The counters of getStats() and the log lines are left out.   *)
(***************************************************************************)
EXTENDS Integers, FiniteSets

CONSTANTS
  Procs,      \* Node processes
  Calls,      \* calls of a method of CacheService, each made once
  Keys,       \* keys of the Redis database
  MaxValue,   \* bound: INCR is not executed on a value this high
  NoProc

ASSUME KeysAssumption == IsFiniteSet(Keys)
ASSUME NoProcAssumption == NoProc \notin Procs
ASSUME MaxValueAssumption == MaxValue \in Nat \ {0}

VARIABLES
  mode,        \* REDIS_ENABLED and REDIS_MODE, the same in every process
  client,      \* client[p]: "none", "down" between connections, "up" or "ended"
  connected,   \* connected[p]: stats.connected
  value,       \* value[k] in Redis, or Null
  expiring,    \* keys with a TTL
  at,          \* where each call is
  job,         \* its method and arguments
  todo,        \* keys its command has not acted on yet
  result,      \* the reply under way, then the answer
  ran,         \* history: calls whose command Redis has executed
  errors,      \* history: calls with a rejected command
  unlinked     \* history: processes whose connection at start failed

redis == <<value, expiring>>
links == <<mode, client, connected, unlinked>>
calls == <<at, job, todo, result, ran, errors>>
vars == <<links, redis, calls>>

Null == -3
Values == -1 .. MaxValue

OneKey == {"get", "set", "exists", "expire", "ttl", "incr", "decr"}
ManyKeys == {"del", "mget", "mset", "keys"}
NoKeys == {"clear", "ping"}

\* ex: a TTL above zero was given.
Job(p, op, K, v, ex) == [proc |-> p, op |-> op, keys |-> K, val |-> v, ex |-> ex]
Jobs ==
  [proc : Procs, op : OneKey \cup ManyKeys \cup NoKeys, keys : SUBSET Keys,
   val : Values, ex : BOOLEAN]
NoJob == Job(NoProc, "none", {}, 0, FALSE)

TypeOK ==
  /\ mode \in {"disabled", "direct", "cluster"}
  /\ client \in [Procs -> {"none", "down", "up", "ended"}]
  /\ connected \in [Procs -> BOOLEAN]
  /\ value \in [Keys -> Values \cup {Null}]
  /\ expiring \subseteq {k \in Keys : value[k] # Null}
  /\ at \in [Calls -> {"idle", "waiting", "executed", "answered"}]
  /\ \A c \in Calls : IF at[c] = "idle" THEN job[c] = NoJob ELSE job[c] \in Jobs
  /\ todo \in [Calls -> SUBSET Keys]
  /\ \A c \in Calls : result[c] \in Int
  /\ ran \subseteq Calls /\ errors \subseteq Calls
  /\ unlinked \subseteq Procs

Init ==
  /\ mode \in {"disabled", "direct", "cluster"}
  /\ client = [p \in Procs |-> "none"]
  /\ connected = [p \in Procs |-> FALSE]
  /\ value = [k \in Keys |-> Null] /\ expiring = {}
  /\ at = [c \in Calls |-> "idle"]
  /\ job = [c \in Calls |-> NoJob]
  /\ todo = [c \in Calls |-> {}]
  /\ result = [c \in Calls |-> Null]
  /\ ran = {} /\ errors = {}
  /\ unlinked = {}

-----------------------------------------------------------------------------
(* The connection.                                                         *)

\* Mutant: the cluster branch forgets the flag.
StartUnflagged(p) ==
  /\ client[p] = "none" /\ mode = "cluster"
  /\ client' = [client EXCEPT ![p] = "down"]
  /\ UNCHANGED <<mode, connected, unlinked, redis, calls>>

\* onModuleInit.  Direct: connect() is awaited, and a rejected one leaves a client
\* that goes on reconnecting.  Cluster: nothing is awaited.  Disabled, or a
\* cluster without nodes: no client.
Start(p) ==
  /\ client[p] = "none"
  /\ \/ /\ mode = "direct"
        /\ client' = [client EXCEPT ![p] = "up"]
        /\ connected' = [connected EXCEPT ![p] = TRUE]
        /\ UNCHANGED unlinked
     \/ /\ mode = "direct"
        /\ client' = [client EXCEPT ![p] = "down"]
        /\ unlinked' = unlinked \cup {p}
        /\ UNCHANGED connected
     \/ /\ mode = "cluster"
        /\ client' = [client EXCEPT ![p] = "down"]
        /\ connected' = [connected EXCEPT ![p] = TRUE]
        /\ UNCHANGED unlinked
  /\ UNCHANGED <<mode, redis, calls>>

\* ioredis has a connection again.
Reconnect(p) ==
  /\ client[p] = "down"
  /\ client' = [client EXCEPT ![p] = "up"]
  /\ UNCHANGED <<mode, connected, unlinked, redis, calls>>

Of(p, label) == {c \in Calls : at[c] = label /\ job[c].proc = p}

\* The connection breaks: commands without a reply will be sent again.
Drop(p) ==
  /\ client[p] = "up"
  /\ client' = [client EXCEPT ![p] = "down"]
  /\ at' = [c \in Calls |-> IF c \in Of(p, "executed") THEN "waiting" ELSE at[c]]
  /\ todo' = [c \in Calls |-> IF c \in Of(p, "executed") THEN job[c].keys ELSE todo[c]]
  /\ UNCHANGED <<mode, connected, unlinked, redis, job, result, ran, errors>>

\* onModuleDestroy.  quit() comes after the commands before it; when it rejects,
\* stats.connected stays true.
Quit(p) ==
  /\ client[p] \in {"down", "up"} /\ Of(p, "waiting") \cup Of(p, "executed") = {}
  /\ client' = [client EXCEPT ![p] = "ended"]
  /\ connected' \in {connected, [connected EXCEPT ![p] = FALSE]}
  /\ UNCHANGED <<mode, unlinked, redis, calls>>

\* The process dies, its calls with it, and is started anew.
Crash(p) ==
  LET gone == {c \in Calls : job[c].proc = p} IN
  /\ client[p] # "none"
  /\ client' = [client EXCEPT ![p] = "none"]
  /\ connected' = [connected EXCEPT ![p] = FALSE]
  /\ unlinked' = unlinked \ {p}
  /\ at' = [c \in Calls |-> IF c \in gone THEN "idle" ELSE at[c]]
  /\ job' = [c \in Calls |-> IF c \in gone THEN NoJob ELSE job[c]]
  /\ todo' = [c \in Calls |-> IF c \in gone THEN {} ELSE todo[c]]
  /\ result' = [c \in Calls |-> IF c \in gone THEN Null ELSE result[c]]
  /\ ran' = ran \ gone /\ errors' = errors \ gone
  /\ UNCHANGED <<mode, redis>>

-----------------------------------------------------------------------------
(* The methods, up to their await and after it.                            *)

\* The answer without a client, or of a catch: null, -2, false, 0 or nothing.
Fallback(op) == CASE op = "get" -> Null [] op = "ttl" -> -2 [] OTHER -> 0

\* Mutant: the catch of set answers true as well.
CaughtSet(op) == IF op \in {"mset", "set"} THEN 1 ELSE Fallback(op)

\* exec() resolves with the errors of the single commands: mset answers true.
Caught(op) == IF op = "mset" THEN 1 ELSE Fallback(op)

\* isConnected
Usable(p) == client[p] # "none" /\ connected[p]

\* A method is called: the guard, and the command that is awaited.
Call(c, j) ==
  /\ at[c] = "idle"
  /\ job' = [job EXCEPT ![c] = j]
  /\ IF Usable(j.proc) /\ ~(j.op \in {"del", "mget", "mset"} /\ j.keys = {})
     THEN /\ at' = [at EXCEPT ![c] = "waiting"]
          /\ todo' = [todo EXCEPT ![c] = j.keys]
          /\ UNCHANGED result
     ELSE /\ at' = [at EXCEPT ![c] = "answered"]
          /\ result' = [result EXCEPT ![c] = Fallback(j.op)]
          /\ UNCHANGED todo
  /\ UNCHANGED <<ran, errors>>

\* The command of c is rejected, and the catch answers.
Rejected(C) ==
  /\ at' = [c \in Calls |-> IF c \in C THEN "answered" ELSE at[c]]
  /\ result' = [c \in Calls |-> IF c \in C THEN Caught(job[c].op) ELSE result[c]]
  /\ todo' = [c \in Calls |-> IF c \in C THEN {} ELSE todo[c]]
  /\ errors' = errors \cup C
  /\ UNCHANGED <<job, ran>>

\* Mutant: maxRetriesPerRequest is null.
GiveUpNever(p) == client[p] = "none" /\ Of(p, "waiting") # {} /\ Rejected(Of(p, "waiting")) /\ UNCHANGED <<links, redis>>

\* The link has been down for maxRetriesPerRequest attempts, or was ended.
GiveUp(p) ==
  /\ client[p] \in {"down", "ended"} /\ Of(p, "waiting") # {}
  /\ Rejected(Of(p, "waiting"))
  /\ UNCHANGED <<links, redis>>

Sent(c) == at[c] = "waiting" /\ client[job[c].proc] = "up"

\* Redis refuses a command: out of memory, read-only, not an integer.
Refuse(c) ==
  /\ Sent(c) /\ job[c].op # "mset"
  /\ Rejected({c})
  /\ UNCHANGED <<links, redis>>

\* The reply arrives before the link breaks.
Settle(c) ==
  /\ at[c] = "executed" /\ client[job[c].proc] = "up"
  /\ at' = [at EXCEPT ![c] = "answered"]
  /\ UNCHANGED <<links, redis, job, todo, result, ran, errors>>

-----------------------------------------------------------------------------
(* Redis.                                                                  *)

Found(j) == {k \in j.keys : value[k] # Null}

Replied(c, n) ==
  /\ at' = [at EXCEPT ![c] = "executed"]
  /\ result' = [result EXCEPT ![c] = n]
  /\ todo' = [todo EXCEPT ![c] = {}]
  /\ ran' = ran \cup {c}
  /\ UNCHANGED <<job, errors>>

Sending(c, op) == Sent(c) /\ job[c].op = op

\* A command that only reads.
Reading(c, op, n) ==
  /\ Sending(c, op)
  /\ Replied(c, n)
  /\ UNCHANGED <<links, redis>>

KeyOf(j) == CHOOSE k \in j.keys : TRUE

Get(c) == Reading(c, "get", value[KeyOf(job[c])])
Exists(c) == Reading(c, "exists", Cardinality(Found(job[c])))
Ttl(c) ==
  Reading(c, "ttl",
    IF Found(job[c]) = {} THEN -2 ELSE IF Found(job[c]) \subseteq expiring THEN 1 ELSE -1)
KeysMatching(c) == Reading(c, "keys", Cardinality(Found(job[c])))
MGet(c) == Reading(c, "mget", Cardinality(Found(job[c])))
Ping(c) == Reading(c, "ping", 1)

\* SET with and without EX
Store(K, j) ==
  /\ value' = [k \in Keys |-> IF k \in K THEN j.val ELSE value[k]]
  /\ expiring' = IF j.ex THEN expiring \cup K ELSE expiring \ K

\* Mutant: the TTL of a deleted key stays.
ForgetValue(K) ==
  /\ value' = [k \in Keys |-> IF k \in K THEN Null ELSE value[k]]
  /\ UNCHANGED expiring

Forget(K) ==
  /\ value' = [k \in Keys |-> IF k \in K THEN Null ELSE value[k]]
  /\ expiring' = expiring \ K

Set(c) == Sending(c, "set") /\ Store(job[c].keys, job[c]) /\ Replied(c, 1) /\ UNCHANGED links

Del(c) ==
  /\ Sending(c, "del")
  /\ Forget(job[c].keys)
  /\ Replied(c, Cardinality(Found(job[c])))
  /\ UNCHANGED links

\* EXPIRE with no time left deletes the key.
Expire(c) ==
  /\ Sending(c, "expire")
  /\ IF job[c].ex THEN expiring' = expiring \cup Found(job[c]) /\ UNCHANGED value
     ELSE Forget(job[c].keys)
  /\ Replied(c, Cardinality(Found(job[c])))
  /\ UNCHANGED links

Clear(c) == Sending(c, "clear") /\ Forget(Keys) /\ Replied(c, 0) /\ UNCHANGED links

\* INCR and DECR count from 0 when the key does not exist.
Counting(c, op, by) ==
  LET k == KeyOf(job[c])
      new == (IF value[k] = Null THEN 0 ELSE value[k]) + by
  IN  /\ Sending(c, op) /\ new \in Values
      /\ value' = [value EXCEPT ![k] = new]
      /\ Replied(c, new)
      /\ UNCHANGED <<links, expiring>>

Incr(c) == Counting(c, "incr", 1)
Decr(c) == Counting(c, "decr", -1)

\* One SET of the pipeline of mset, executed or refused; exec() resolves after the last.
Pipelined(c) ==
  /\ Sending(c, "mset")
  /\ \E k \in todo[c] :
       /\ \/ Store({k}, job[c]) /\ UNCHANGED errors
          \/ errors' = errors \cup {c} /\ UNCHANGED redis
       /\ todo' = [todo EXCEPT ![c] = @ \ {k}]
  /\ IF todo'[c] # {} THEN UNCHANGED <<at, result, ran>>
     ELSE /\ at' = [at EXCEPT ![c] = "executed"]
          /\ result' = [result EXCEPT ![c] = 1]
          /\ ran' = ran \cup {c}
  /\ UNCHANGED <<links, job>>

\* A key reaches its TTL.
KeyExpires(k) ==
  /\ k \in expiring
  /\ Forget({k})
  /\ UNCHANGED <<links, calls>>

Execute(c) ==
  \/ Get(c) \/ Exists(c) \/ Ttl(c) \/ KeysMatching(c) \/ MGet(c) \/ Ping(c)
  \/ Set(c) \/ Del(c) \/ Expire(c) \/ Clear(c) \/ Incr(c) \/ Decr(c) \/ Pipelined(c)

Connection(p) == Start(p) \/ Reconnect(p) \/ Drop(p) \/ Quit(p)

Command ==
  \/ \E p \in Procs : GiveUp(p)
  \/ \E c \in Calls : Execute(c) \/ Settle(c) \/ Refuse(c)
  \/ \E k \in Keys : KeyExpires(k)
=============================================================================
