-------------------------- MODULE CacheClientsProofs --------------------------
(***************************************************************************)
(* Proofs about CacheClients and the CacheService below it, for every set  *)
(* of processes, calls, keys and clients.  Neither the fairness of         *)
(* ClientsSpec nor the bound Together is used.                             *)
(***************************************************************************)
EXTENDS CacheClients, FiniteSetTheorems, TLAPS

(***************************************************************************)
(* What holds of every call, whoever made it.                              *)
(***************************************************************************)
CallsTyped ==
  /\ job \in [Calls -> Jobs \cup {NoJob}]
  /\ result \in [Calls -> Int]
  /\ \A c \in Calls :
       /\ todo[c] \subseteq job[c].keys
       /\ at[c] # "idle" /\ job[c].op \in OneKey => job[c].keys # {}
       /\ at[c] = "idle" \/ job[c].op = "get" => result[c] \in Values \cup {Null}

\* An answer is positive because the command was executed, and what is executed and
\* sent again after its reply was lost has been executed all the same.
Honest ==
  /\ \A c \in Calls : at[c] = "executed" => c \in ran
  /\ PositiveMeansDone

Linked == \A p \in Procs : client[p] \in {"down", "up"} => connected[p] \/ p \in unlinked

\* The page's key is read, and written with a TTL.
PageKept ==
  /\ \A c \in Calls : Page \in job[c].keys =>
       job[c].op = "get" \/ (job[c].op = "set" /\ job[c].ex)
  /\ EntriesExpire

\* What the clients know of their calls.
Served ==
  /\ \A r \in Requests :
       /\ stage[r] # "idle" => host[r] \in Procs
       /\ at[<<r, "get">>] # "idle" => job[<<r, "get">>].op = "get"
  /\ \A h \in Checks :
       /\ at[<<h, "ping">>] # "idle" =>
            job[<<h, "ping">>].op = "ping" /\ job[<<h, "ping">>].proc = host[h]
  /\ HealthTruthful

Inv == ClientsTypeOK /\ CallsTyped /\ Honest /\ Linked /\ PageKept /\ Served

LEMMA VersionsTyped == 0 .. MaxValue \subseteq Values
BY MaxValueAssumption DEF Values

LEMMA ClientCalls ==
  /\ \A r \in Requests : <<r, "get">> \in Calls /\ <<r, "set">> \in Calls
  /\ \A h \in Checks : <<h, "ping">> \in Calls
  /\ \A o \in Others : <<o, "other">> \in Calls
BY CallsAssumption DEF CallsOf

LEMMA JobsTyped ==
  ASSUME NEW p \in Procs, NEW op \in OneKey \cup ManyKeys \cup NoKeys,
         NEW K \in SUBSET Keys, NEW v \in Values, NEW ex \in BOOLEAN
  PROVE  /\ Job(p, op, K, v, ex) \in Jobs
         /\ Job(p, op, K, v, ex).proc = p /\ Job(p, op, K, v, ex).op = op
         /\ Job(p, op, K, v, ex).keys = K /\ Job(p, op, K, v, ex).val = v
         /\ Job(p, op, K, v, ex).ex = ex
BY DEF Job, Jobs

LEMMA InitInv == ClientsInit => Inv
<1> SUFFICES ASSUME ClientsInit PROVE Inv
  OBVIOUS
<1> USE DEF ClientsInit, Init
<1>1. ClientsTypeOK
  BY MaxValueAssumption DEF ClientsTypeOK, TypeOK, Values, Null, Hosts, Stages
<1>2. CallsTyped
  BY DEF CallsTyped, NoJob, Job, Null
<1>3. Honest
  BY DEF Honest, PositiveMeansDone
<1>4. Linked
  BY DEF Linked
<1>5. PageKept
  BY PageAssumption DEF PageKept, EntriesExpire, NoJob, Job
<1>6. Served
  BY ClientCalls DEF Served, HealthTruthful
<1> QED
  BY <1>1, <1>2, <1>3, <1>4, <1>5, <1>6 DEF Inv

(***************************************************************************)
(* The steps of CacheService.                                              *)
(***************************************************************************)
Service == TypeOK /\ CallsTyped /\ Honest /\ Linked /\ PageKept

RedisKept ==
  /\ value \in [Keys -> Values \cup {Null}]
  /\ expiring \subseteq {k \in Keys : value[k] # Null}
  /\ EntriesExpire

\* Redis answers a command.
LEMMA RepliedStep ==
  ASSUME Service, NEW c \in Calls, NEW op, Sending(c, op), NEW n \in Int, Replied(c, n),
         op = "get" => n \in Values \cup {Null}, UNCHANGED links, RedisKept'
  PROVE  Service'
<1> USE DEF Service, TypeOK, Replied, Sending, Sent, links
<1>1. TypeOK'
  BY DEF RedisKept, CallsTyped
<1>2. CallsTyped'
  BY DEF CallsTyped
<1>3. Honest'
  BY DEF Honest, PositiveMeansDone
<1>4. Linked'
  BY DEF Linked
<1>5. PageKept'
  BY DEF PageKept, RedisKept
<1> QED
  BY <1>1, <1>2, <1>3, <1>4, <1>5

\* Commands are rejected.
LEMMA RejectedStep ==
  ASSUME Service, NEW C \in SUBSET Calls, \A c \in C : at[c] # "idle", Rejected(C),
         UNCHANGED <<links, redis>>
  PROVE  Service'
<1> USE DEF Service, TypeOK, Rejected, links, redis
<1>1. \A c \in Calls : /\ Caught(job[c].op) \in Int
                       /\ job[c].op = "get" => Caught(job[c].op) = Null
  BY DEF Caught, Fallback, Null
<1>2. TypeOK'
  BY <1>1
<1>3. CallsTyped'
  BY <1>1 DEF CallsTyped
<1>4. Honest'
  BY DEF Honest, PositiveMeansDone, Caught
<1>5. Linked'
  BY DEF Linked
<1>6. PageKept'
  BY DEF PageKept, EntriesExpire
<1> QED
  BY <1>2, <1>3, <1>4, <1>5, <1>6

\* A method is called.
LEMMA CallStep ==
  ASSUME Service, NEW c \in Calls, NEW j \in Jobs, Call(c, j), UNCHANGED <<links, redis>>,
         j.op \in OneKey => j.keys # {},
         Page \in j.keys => j.op = "get" \/ (j.op = "set" /\ j.ex)
  PROVE  Service' /\ job'[c] = j
<1> USE DEF Service, TypeOK, Call, links, redis
<1>1. Fallback(j.op) \in Int /\ (j.op = "get" => Fallback(j.op) = Null)
  BY DEF Fallback, Null
<1>2. job'[c] = j /\ job' \in [Calls -> Jobs \cup {NoJob}]
  BY DEF CallsTyped
<1>3. TypeOK'
  <2>1. todo' \in [Calls -> SUBSET Keys]
    BY DEF Jobs
  <2>2. \A d \in Calls : result'[d] \in Int
    BY <1>1 DEF CallsTyped
  <2>3. at' \in [Calls -> {"idle", "waiting", "executed", "answered"}]
    OBVIOUS
  <2>4. \A d \in Calls : IF at'[d] = "idle" THEN job'[d] = NoJob ELSE job'[d] \in Jobs
    BY DEF CallsTyped
  <2> QED
    BY <2>1, <2>2, <2>3, <2>4
<1>4. CallsTyped'
  <2>1. result' \in [Calls -> Int]
    BY <1>1 DEF CallsTyped
  <2>2. ASSUME NEW d \in Calls
        PROVE  /\ todo'[d] \subseteq job'[d].keys
               /\ at'[d] # "idle" /\ job'[d].op \in OneKey => job'[d].keys # {}
               /\ at'[d] = "idle" \/ job'[d].op = "get" => result'[d] \in Values \cup {Null}
    <3>1. CASE d = c
      <4>1. at[c] = "idle" /\ job[c] = NoJob /\ at'[c] # "idle"
        OBVIOUS
      <4>2. todo[c] = {} /\ result[c] \in Values \cup {Null}
        BY <4>1 DEF CallsTyped, NoJob, Job
      <4>3. todo'[c] \subseteq j.keys
        BY <4>2
      <4>4. j.op = "get" => result'[c] \in Values \cup {Null}
        BY <1>1, <4>2 DEF CallsTyped
      <4> QED
        BY <1>2, <3>1, <4>1, <4>3, <4>4
    <3>2. CASE d # c
      BY <3>2 DEF CallsTyped
    <3> QED
      BY <3>1, <3>2
  <2> QED
    BY <1>2, <2>1, <2>2 DEF CallsTyped
<1>5. Honest'
  BY DEF Honest, PositiveMeansDone, CallsTyped
<1>6. Linked'
  BY DEF Linked
<1>7. PageKept'
  BY <1>2 DEF PageKept, EntriesExpire, CallsTyped
<1> QED
  BY <1>2, <1>3, <1>4, <1>5, <1>6, <1>7

LEMMA ReadingStep ==
  ASSUME Service, NEW c \in Calls, NEW op, NEW n, Reading(c, op, n), n \in Int,
         op = "get" => n \in Values \cup {Null}
  PROVE  Service'
BY RepliedStep DEF Reading, redis, RedisKept, Service, TypeOK, PageKept, EntriesExpire

LEMMA FoundCounted ==
  ASSUME NEW K \in SUBSET Keys, NEW j, j.keys = K
  PROVE  Found(j) \subseteq Keys /\ Cardinality(Found(j)) \in Int
<1>1. Found(j) \subseteq Keys
  BY DEF Found
<1> QED
  BY <1>1, KeysAssumption, FS_Subset, FS_CardinalityType

\* A command under way is one of its method, with the keys the method needs.
LEMMA SentJob ==
  ASSUME Service, NEW c \in Calls, Sent(c)
  PROVE  /\ job[c] \in Jobs /\ job[c].keys \subseteq Keys /\ job[c].val \in Values
         /\ job[c].ex \in BOOLEAN /\ todo[c] \subseteq job[c].keys
         /\ job[c].op \in OneKey => KeyOf(job[c]) \in job[c].keys /\ KeyOf(job[c]) \in Keys
<1>1. job[c] \in Jobs
  BY DEF Service, TypeOK, Sent
<1>2. job[c].op \in OneKey => job[c].keys # {}
  BY DEF Service, CallsTyped, Sent
<1>3. todo[c] \subseteq job[c].keys
  BY DEF Service, CallsTyped
<1> QED
  BY <1>1, <1>2, <1>3 DEF Jobs, KeyOf

LEMMA RedisAfter ==
  ASSUME Service, NEW K \in SUBSET Keys
  PROVE  /\ Forget(K) => RedisKept'
         /\ \A j \in Jobs : (Page \in K => j.ex) /\ Store(K, j) => RedisKept'
<1> USE DEF Service, TypeOK, PageKept, RedisKept, EntriesExpire
<1>1. Forget(K) => RedisKept'
  BY PageAssumption DEF Forget
<1>2. ASSUME NEW j \in Jobs, Page \in K => j.ex, Store(K, j) PROVE RedisKept'
  <2>1. j.val \in Values /\ j.val # Null
    BY MaxValueAssumption DEF Jobs, Values, Null
  <2> QED
    BY <1>2, <2>1, PageAssumption DEF Store
<1> QED
  BY <1>1, <1>2

LEMMA ExecuteStep ==
  ASSUME Service, NEW c \in Calls, Execute(c)
  PROVE  Service'
<1>1. Sent(c)
  BY DEF Execute, Get, Exists, Ttl, KeysMatching, MGet, Ping, Set, Del, Expire, Clear, Incr,
         Decr, Pipelined, Reading, Counting, Sending
<1> DEFINE j == job[c]
<1>2. /\ j \in Jobs /\ j.keys \subseteq Keys /\ j.val \in Values /\ j.ex \in BOOLEAN
      /\ todo[c] \subseteq j.keys
      /\ j.op \in OneKey => KeyOf(j) \in j.keys /\ KeyOf(j) \in Keys
  BY <1>1, SentJob
<1>3. Found(j) \subseteq Keys /\ Cardinality(Found(j)) \in Int
  BY <1>2, FoundCounted
<1>4. Page \in j.keys => j.op = "get" \/ (j.op = "set" /\ j.ex)
  BY DEF Service, PageKept
<1>5. CASE Get(c)
  <2>1. value[KeyOf(j)] \in Values \cup {Null}
    BY <1>2, <1>5 DEF Get, Reading, Sending, OneKey, Service, TypeOK
  <2>2. value[KeyOf(j)] \in Int
    BY <2>1 DEF Values, Null
  <2> QED
    BY <1>5, <2>1, <2>2, ReadingStep DEF Get
<1>6. CASE Exists(c) \/ KeysMatching(c) \/ MGet(c)
  BY <1>3, <1>6, ReadingStep DEF Exists, KeysMatching, MGet
<1>7. CASE Ttl(c)
  BY <1>7, ReadingStep DEF Ttl
<1>8. CASE Ping(c)
  BY <1>8, ReadingStep DEF Ping
<1>9. CASE Set(c)
  <2>1. RedisKept'
    BY <1>2, <1>4, <1>9, RedisAfter DEF Set, Sending
  <2> QED
    BY <1>9, <2>1, RepliedStep DEF Set
<1>10. CASE Del(c)
  <2>1. RedisKept'
    BY <1>2, <1>10, RedisAfter DEF Del
  <2> QED
    BY <1>3, <1>10, <2>1, RepliedStep DEF Del
<1>11. CASE Expire(c)
  <2>1. CASE j.ex
    <3>1. RedisKept'
      <4>1. expiring' = expiring \cup Found(j) /\ value' = value
        BY <1>11, <2>1 DEF Expire
      <4>2. Found(j) \subseteq {k \in Keys : value[k] # Null}
        BY <1>3 DEF Found
      <4> QED
        BY <4>1, <4>2 DEF RedisKept, Service, TypeOK, PageKept, EntriesExpire
    <3> QED
      BY <1>3, <1>11, <3>1, RepliedStep DEF Expire
  <2>2. CASE ~j.ex
    <3>1. RedisKept'
      BY <1>2, <1>11, <2>2, RedisAfter DEF Expire
    <3> QED
      BY <1>3, <1>11, <3>1, RepliedStep DEF Expire
  <2> QED
    BY <2>1, <2>2
<1>12. CASE Clear(c)
  <2>1. RedisKept'
    BY <1>12, RedisAfter DEF Clear
  <2> QED
    BY <1>12, <2>1, RepliedStep DEF Clear
<1>13. ASSUME NEW op \in {"incr", "decr"}, NEW by \in {1, -1}, Counting(c, op, by)
       PROVE  Service'
  <2> DEFINE k == KeyOf(j)
             new == (IF value[k] = Null THEN 0 ELSE value[k]) + by
  <2>1. /\ Sending(c, op) /\ new \in Values /\ value' = [value EXCEPT ![k] = new]
        /\ Replied(c, new) /\ UNCHANGED <<links, expiring>>
    BY <1>13 DEF Counting
  <2>2. k \in j.keys /\ k \in Keys /\ k # Page
    BY <1>2, <1>4, <1>13, <2>1 DEF Sending, OneKey
  <2>3. new # Null /\ new \in Int
    BY <2>1 DEF Values, Null
  <2> HIDE DEF k, new
  <2>4. RedisKept'
    BY <2>1, <2>2, <2>3, PageAssumption
    DEF RedisKept, Service, TypeOK, PageKept, EntriesExpire
  <2> QED
    BY <1>13, <2>1, <2>3, <2>4, RepliedStep
<1>14. CASE Pipelined(c)
  <2> USE DEF Pipelined, Sending, Sent
  <2>1. PICK k \in todo[c] :
          /\ \/ Store({k}, j) /\ UNCHANGED errors
             \/ errors' = errors \cup {c} /\ UNCHANGED redis
          /\ todo' = [todo EXCEPT ![c] = @ \ {k}]
    BY <1>14
  <2>2. RedisKept'
    <3>1. CASE Store({k}, j)
      BY <1>2, <1>4, <1>14, <2>1, <3>1, RedisAfter
    <3>2. CASE UNCHANGED redis
      BY <3>2 DEF redis, RedisKept, Service, TypeOK, PageKept, EntriesExpire
    <3> QED
      BY <2>1, <3>1, <3>2
  <2>3. /\ UNCHANGED <<links, job>> /\ errors \subseteq errors' /\ errors' \subseteq Calls
        /\ \A d \in Calls : d = c \/ (at'[d] = at[d] /\ result'[d] = result[d])
        /\ \/ UNCHANGED <<at, result, ran>>
           \/ /\ at' = [at EXCEPT ![c] = "executed"]
              /\ result' = [result EXCEPT ![c] = 1]
              /\ ran' = ran \cup {c}
    BY <1>14, <2>1 DEF Service, TypeOK, CallsTyped
  <2>4. TypeOK'
    BY <1>14, <2>1, <2>2, <2>3 DEF RedisKept, Service, TypeOK, links, CallsTyped
  <2>5. CallsTyped'
    BY <1>14, <2>1, <2>3 DEF Service, TypeOK, CallsTyped
  <2>6. Honest'
    BY <1>14, <2>1, <2>3 DEF Service, TypeOK, Honest, PositiveMeansDone
  <2>7. Linked' /\ PageKept'
    BY <2>2, <2>3 DEF Service, Linked, PageKept, links, RedisKept
  <2> QED
    BY <2>4, <2>5, <2>6, <2>7 DEF Service
<1> QED
  BY <1>5, <1>6, <1>7, <1>8, <1>9, <1>10, <1>11, <1>12, <1>13, <1>14 DEF Execute, Incr, Decr

LEMMA CommandStep ==
  ASSUME Service, Command
  PROVE  Service'
<1>1. ASSUME NEW p \in Procs, GiveUp(p) PROVE Service'
  BY <1>1, RejectedStep DEF GiveUp, Of
<1>2. ASSUME NEW c \in Calls, Execute(c) PROVE Service'
  BY <1>2, ExecuteStep
<1>3. ASSUME NEW c \in Calls, Settle(c) PROVE Service'
  <2> USE DEF Service, TypeOK, Settle, links, redis
  <2>1. TypeOK'
    BY <1>3
  <2>2. CallsTyped'
    BY <1>3 DEF CallsTyped
  <2>3. Honest'
    BY <1>3 DEF Honest, PositiveMeansDone
  <2>4. Linked' /\ PageKept'
    BY <1>3 DEF Linked, PageKept, EntriesExpire
  <2> QED
    BY <2>1, <2>2, <2>3, <2>4
<1>4. ASSUME NEW c \in Calls, Refuse(c) PROVE Service'
  BY <1>4, RejectedStep DEF Refuse, Sent
<1>5. ASSUME NEW k \in Keys, KeyExpires(k) PROVE Service'
  <2>1. RedisKept'
    BY <1>5, RedisAfter DEF KeyExpires
  <2> QED
    BY <1>5, <2>1 DEF KeyExpires, RedisKept, Service, TypeOK, CallsTyped, Honest,
       PositiveMeansDone, Linked, PageKept, links, calls
<1> QED
  BY <1>1, <1>2, <1>3, <1>4, <1>5 DEF Command

LEMMA ConnectionStep ==
  ASSUME Service, NEW p \in Procs, Connection(p)
  PROVE  Service'
<1> USE DEF Service, TypeOK, links, redis
<1>1. ASSUME Start(p) \/ Reconnect(p) \/ Quit(p) PROVE Service'
  <2>1. UNCHANGED <<mode, redis, calls>>
    BY <1>1 DEF Start, Reconnect, Quit
  <2>2. TypeOK'
    BY <1>1, <2>1 DEF Start, Reconnect, Quit, calls
  <2>3. Linked'
    BY <1>1, <2>1 DEF Start, Reconnect, Quit, Linked
  <2>4. CallsTyped' /\ Honest' /\ PageKept'
    BY <2>1 DEF CallsTyped, Honest, PositiveMeansDone, PageKept, EntriesExpire, calls
  <2> QED
    BY <2>2, <2>3, <2>4
<1>2. ASSUME Drop(p) PROVE Service'
  <2>1. TypeOK'
    BY <1>2 DEF Drop, Of, Jobs
  <2>2. CallsTyped'
    BY <1>2 DEF Drop, Of, CallsTyped
  <2>3. Honest'
    BY <1>2 DEF Drop, Of, Honest, PositiveMeansDone
  <2>4. Linked' /\ PageKept'
    BY <1>2 DEF Drop, Linked, PageKept, EntriesExpire
  <2> QED
    BY <2>1, <2>2, <2>3, <2>4
<1> QED
  BY <1>1, <1>2 DEF Connection

LEMMA CrashStep ==
  ASSUME Service, NEW p \in Procs, Crash(p)
  PROVE  /\ Service'
         /\ \A c \in Calls :
              \/ job[c].proc = p /\ at'[c] = "idle"
              \/ /\ job[c].proc # p /\ job'[c] = job[c] /\ at'[c] = at[c]
                 /\ c \in ran => c \in ran'
<1> USE DEF Service, TypeOK, links, redis, Crash
<1>1. TypeOK'
  BY DEF Null
<1>2. CallsTyped'
  <2>1. job' \in [Calls -> Jobs \cup {NoJob}]
    BY DEF CallsTyped
  <2>2. result' \in [Calls -> Int]
    BY DEF CallsTyped, Null
  <2>3. NoJob.keys = {}
    BY DEF NoJob, Job
  <2> QED
    BY <2>1, <2>2, <2>3 DEF CallsTyped
<1>3. Honest'
  BY DEF Honest, PositiveMeansDone
<1>4. Linked'
  BY DEF Linked
<1>5. PageKept'
  BY DEF PageKept, EntriesExpire, NoJob, Job
<1> QED
  BY <1>1, <1>2, <1>3, <1>4, <1>5

(***************************************************************************)
(* The steps of the clients.                                               *)
(***************************************************************************)
ClientsTyped ==
  /\ around \in Together
  /\ row \in 0 .. MaxValue /\ database \in BOOLEAN
  /\ stage \in [Requests -> Stages]
  /\ host \in [Hosts -> Procs \cup {NoProc}]
  /\ body \in [Requests -> Values \cup {Null}]
  /\ probe \in [Checks -> {"none", "pending", "up", "down"}]
  /\ verdict \in [Checks -> {"none", "basic", "detailed", "ok", "error", "detailed ok"}]

LEMMA InvParts == Inv <=> Service /\ ClientsTyped /\ Served
BY DEF Inv, Service, ClientsTypeOK, ClientsTyped

\* A step of the service leaves its clients as they are.
LEMMA ServiceStep ==
  ASSUME Inv, Service', UNCHANGED <<world, served, health, job>>, ran \subseteq ran',
         \A c \in Calls : at'[c] # "idle" => at[c] # "idle"
  PROVE  Inv'
<1>1. ClientsTyped'
  BY InvParts DEF ClientsTyped, world, served, health
<1>2. Served'
  BY InvParts, ClientCalls DEF Served, HealthTruthful, world, served, health
<1> QED
  BY <1>1, <1>2, InvParts DEF Inv, Service, ClientsTypeOK, ClientsTyped

\* A step of a client beside its calls leaves the service as it is.
LEMMA ServiceIdle ==
  ASSUME Service, UNCHANGED vars
  PROVE  Service' /\ UNCHANGED <<at, job, result, ran>>
BY DEF Service, TypeOK, CallsTyped, Honest, PositiveMeansDone, Linked, PageKept,
   EntriesExpire, vars, links, redis, calls

LEMMA RequestStep ==
  ASSUME Inv, NEW r \in Requests, Step(r)
  PROVE  Inv'
<1> USE DEF ClientsTyped, Stages, Hosts, Advance, world, served, health
<1>1. Service /\ ClientsTyped /\ Served
  BY InvParts
<1>2. CASE Looked(r)
  <2>1. Service' /\ UNCHANGED <<at, job, result, ran>>
    BY <1>1, <1>2, ServiceIdle DEF Looked
  <2>2. result[<<r, "get">>] \in Values \cup {Null}
    BY <1>1, <1>2, ClientCalls DEF Looked, Served, Service, CallsTyped
  <2>3. ClientsTyped'
    BY <1>1, <1>2, <2>2 DEF Looked
  <2>4. Served'
    BY <1>1, <1>2, <2>1 DEF Looked, Served, HealthTruthful
  <2> QED
    BY <2>1, <2>3, <2>4, InvParts DEF Inv, Service, ClientsTypeOK
<1>3. CASE HandlerThrows(r)
  <2>1. Service' /\ UNCHANGED <<at, job, result, ran>>
    BY <1>1, <1>3, ServiceIdle DEF HandlerThrows
  <2>2. ClientsTyped'
    BY <1>1, <1>3 DEF HandlerThrows
  <2>3. Served'
    BY <1>1, <1>3, <2>1 DEF HandlerThrows, Served, HealthTruthful
  <2> QED
    BY <2>1, <2>2, <2>3, InvParts DEF Inv, Service, ClientsTypeOK
<1>4. CASE Handle(r)
  <2>1. ClientsTyped'
    BY <1>1, <1>4, VersionsTyped DEF Handle
  <2>2. CASE UNCHANGED calls
    <3>1. Service' /\ UNCHANGED <<at, job, result, ran>>
      BY <1>1, <1>4, <2>2, ServiceIdle DEF Handle, vars
    <3>2. Served'
      BY <1>1, <1>4, <3>1 DEF Handle, Served, HealthTruthful
    <3> QED
      BY <2>1, <3>1, <3>2, InvParts DEF Inv, Service, ClientsTypeOK
  <2>3. CASE Call(<<r, "set">>, Job(host[r], "set", {Page}, row, TtlSeconds > 0))
    <3> DEFINE c == <<r, "set">>
               j == Job(host[r], "set", {Page}, row, TtlSeconds > 0)
    <3>1. c \in Calls
      BY ClientCalls
    <3>2. TtlSeconds > 0
      BY PageAssumption DEF TtlSeconds, DEFAULT_CACHE_TTL
    <3>3. j \in Jobs /\ j.op = "set" /\ j.keys = {Page} /\ j.ex
      <4>1. host[r] \in Procs /\ row \in Values
        BY <1>1, <1>4, VersionsTyped DEF Handle, Served
      <4>2. "set" \in OneKey \cup ManyKeys \cup NoKeys /\ {Page} \in SUBSET Keys
        BY PageAssumption DEF OneKey
      <4> QED
        BY <3>2, <4>1, <4>2 DEF Job, Jobs
    <3> HIDE DEF j
    <3>4. Service'
      BY <1>1, <1>4, <2>3, <3>1, <3>3, CallStep DEF Handle, j
    <3>5. \A d \in Calls : d # c => at'[d] = at[d] /\ job'[d] = job[d]
      BY <1>1, <2>3 DEF Call, Service, TypeOK, CallsTyped
    <3>6. \A q \in Requests : c # <<q, "get">> /\ <<q, "get">> \in Calls
      BY ClientCalls
    <3>7. \A h \in Checks : c # <<h, "ping">> /\ <<h, "ping">> \in Calls
      BY ClientCalls
    <3>8. Served'
      <4>1. /\ UNCHANGED <<host, probe, verdict, ran>>
            /\ stage' = [stage EXCEPT ![r] = "served"]
        BY <1>4, <2>3 DEF Handle, Call
      <4>2. stage[r] # "idle"
        BY <1>4 DEF Handle
      <4>3. ASSUME NEW q \in Requests
            PROVE  /\ stage'[q] # "idle" => host'[q] \in Procs
                   /\ at'[<<q, "get">>] # "idle" => job'[<<q, "get">>].op = "get"
        <5>1. stage'[q] # "idle" => host'[q] \in Procs
          BY <1>1, <4>1, <4>2 DEF Served
        <5>2. at'[<<q, "get">>] = at[<<q, "get">>] /\ job'[<<q, "get">>] = job[<<q, "get">>]
          BY <3>5, <3>6
        <5> QED
          BY <1>1, <5>1, <5>2 DEF Served
      <4>4. ASSUME NEW h \in Checks
            PROVE  /\ at'[<<h, "ping">>] # "idle" =>
                        job'[<<h, "ping">>].op = "ping" /\ job'[<<h, "ping">>].proc = host'[h]
        <5>1. at'[<<h, "ping">>] = at[<<h, "ping">>] /\ job'[<<h, "ping">>] = job[<<h, "ping">>]
          BY <3>5, <3>7
        <5> QED
          BY <1>1, <4>1, <5>1 DEF Served
      <4>5. HealthTruthful'
        BY <1>1, <4>1 DEF Served, HealthTruthful
      <4> QED
        BY <4>3, <4>4, <4>5 DEF Served
    <3> QED
      BY <2>1, <3>4, <3>8, InvParts DEF Inv, Service, ClientsTypeOK
  <2> QED
    BY <1>4, <2>2, <2>3 DEF Handle
<1> QED
  BY <1>2, <1>3, <1>4 DEF Step

LEMMA InterceptStep ==
  ASSUME Inv, NEW r \in Requests, NEW p \in Procs, Intercept(r, p)
  PROVE  Inv'
<1> USE DEF ClientsTyped, Stages, Hosts, Advance, world, served, health
<1>1. Service /\ ClientsTyped /\ Served
  BY InvParts
<1>2. ClientsTyped'
  BY <1>1 DEF Intercept
<1>3. \A h \in Checks : host'[h] = host[h]
  BY <1>1, ClientsAssumption DEF Intercept
<1>4. /\ \A q \in Requests : stage'[q] # "idle" => host'[q] \in Procs
      /\ UNCHANGED <<links, redis, probe, verdict, ran>>
  BY <1>1 DEF Intercept, Served, Call, calls
<1>5. CASE UNCHANGED calls
  <2>1. Service' /\ UNCHANGED <<at, job, result, ran>>
    BY <1>1, <1>4, <1>5, ServiceIdle DEF vars
  <2>2. Served'
    BY <1>1, <1>3, <1>4, <2>1 DEF Served, HealthTruthful
  <2> QED
    BY <1>2, <2>1, <2>2, InvParts DEF Inv, Service, ClientsTypeOK
<1>6. CASE Call(<<r, "get">>, Job(p, "get", {Page}, 0, FALSE))
  <2> DEFINE c == <<r, "get">>
             j == Job(p, "get", {Page}, 0, FALSE)
  <2>1. c \in Calls
    BY ClientCalls
  <2>2. j \in Jobs /\ j.op = "get" /\ j.keys = {Page}
    <3>1. /\ "get" \in OneKey \cup ManyKeys \cup NoKeys
          /\ {Page} \in SUBSET Keys /\ 0 \in Values
      BY PageAssumption, MaxValueAssumption DEF OneKey, Values
    <3> QED
      BY <3>1 DEF Job, Jobs
  <2> HIDE DEF j
  <2>3. Service' /\ job'[c] = j
    BY <1>1, <1>4, <1>6, <2>1, <2>2, CallStep DEF j
  <2>4. \A d \in Calls : d # c => at'[d] = at[d] /\ job'[d] = job[d]
    BY <1>1, <1>6 DEF Call, Service, TypeOK, CallsTyped
  <2>5. \A q \in Requests : q # r => c # <<q, "get">> /\ <<q, "get">> \in Calls
    BY ClientCalls
  <2>6. \A h \in Checks : c # <<h, "ping">> /\ <<h, "ping">> \in Calls
    BY ClientCalls
  <2>7. Served'
    <3>1. ASSUME NEW q \in Requests
          PROVE  at'[<<q, "get">>] # "idle" => job'[<<q, "get">>].op = "get"
      <4>1. CASE q = r
        BY <2>2, <2>3, <4>1
      <4>2. CASE q # r
        <5>1. at'[<<q, "get">>] = at[<<q, "get">>] /\ job'[<<q, "get">>] = job[<<q, "get">>]
          BY <2>4, <2>5, <4>2
        <5> QED
          BY <1>1, <5>1 DEF Served
      <4> QED
        BY <4>1, <4>2
    <3>2. ASSUME NEW h \in Checks
          PROVE  at'[<<h, "ping">>] # "idle" =>
                   job'[<<h, "ping">>].op = "ping" /\ job'[<<h, "ping">>].proc = host'[h]
      <4>1. at'[<<h, "ping">>] = at[<<h, "ping">>] /\ job'[<<h, "ping">>] = job[<<h, "ping">>]
        BY <2>4, <2>6
      <4> QED
        BY <1>1, <1>3, <4>1 DEF Served
    <3>3. HealthTruthful'
      BY <1>1, <1>4 DEF Served, HealthTruthful
    <3> QED
      BY <1>4, <3>1, <3>2, <3>3 DEF Served
  <2> QED
    BY <1>2, <2>3, <2>7, InvParts DEF Inv, Service, ClientsTypeOK
<1> QED
  BY <1>5, <1>6 DEF Intercept

LEMMA CheckStep ==
  ASSUME Inv, NEW h \in Checks, NEW p \in Procs, NEW kind \in {"basic", "detailed"},
         Check(h, p, kind)
  PROVE  Inv'
<1> USE DEF ClientsTyped, Hosts, world, served, health
<1> DEFINE c == <<h, "ping">>
           j == Job(p, "ping", {}, 0, FALSE)
<1>1. Service /\ ClientsTyped /\ Served
  BY InvParts
<1>2. ClientsTyped'
  BY <1>1 DEF Check
<1>3. /\ Call(c, j) /\ UNCHANGED <<links, redis, stage, ran>>
      /\ host' = [host EXCEPT ![h] = p] /\ verdict[h] = "none"
      /\ verdict' = [verdict EXCEPT ![h] = kind] /\ probe' = [probe EXCEPT ![h] = "pending"]
  BY DEF Check, Call
<1>4. c \in Calls
  BY ClientCalls
<1>5. j \in Jobs /\ j.op = "ping" /\ j.keys = {} /\ j.proc = p
  <2>1. "ping" \in OneKey \cup ManyKeys \cup NoKeys /\ 0 \in Values
    BY MaxValueAssumption DEF NoKeys, Values
  <2> QED
    BY <2>1 DEF Job, Jobs
<1>6. "ping" \notin OneKey
  BY DEF OneKey
<1> HIDE DEF j
<1>7. Service' /\ job'[c] = j
  BY <1>1, <1>3, <1>4, <1>5, <1>6, CallStep
<1>8. \A d \in Calls : d # c => at'[d] = at[d] /\ job'[d] = job[d]
  BY <1>1, <1>3 DEF Call, Service, TypeOK, CallsTyped
<1>9. Served'
  <2>1. ASSUME NEW q \in Requests
        PROVE  /\ stage'[q] # "idle" => host'[q] \in Procs
               /\ at'[<<q, "get">>] # "idle" => job'[<<q, "get">>].op = "get"
    <3>1. stage'[q] # "idle" => host'[q] \in Procs
      BY <1>1, <1>3 DEF Served
    <3>2. <<q, "get">> # c /\ <<q, "get">> \in Calls
      BY ClientCalls
    <3>3. at'[<<q, "get">>] = at[<<q, "get">>] /\ job'[<<q, "get">>] = job[<<q, "get">>]
      BY <1>8, <3>2
    <3> QED
      BY <1>1, <3>1, <3>3 DEF Served
  <2>2. ASSUME NEW g \in Checks
        PROVE  at'[<<g, "ping">>] # "idle" =>
                 job'[<<g, "ping">>].op = "ping" /\ job'[<<g, "ping">>].proc = host'[g]
    <3>1. CASE g = h
      BY <1>1, <1>3, <1>5, <1>7, <3>1
    <3>2. CASE g # h
      <4>1. <<g, "ping">> # c /\ <<g, "ping">> \in Calls
        BY <3>2, ClientCalls
      <4>2. at'[<<g, "ping">>] = at[<<g, "ping">>] /\ job'[<<g, "ping">>] = job[<<g, "ping">>]
        BY <1>8, <4>1
      <4>3. host'[g] = host[g]
        BY <1>1, <1>3, <3>2
      <4> QED
        BY <1>1, <4>2, <4>3 DEF Served
    <3> QED
      BY <3>1, <3>2
  <2>3. HealthTruthful'
    BY <1>1, <1>3 DEF Served, HealthTruthful
  <2> QED
    BY <2>1, <2>2, <2>3 DEF Served
<1> QED
  BY <1>2, <1>7, <1>9, InvParts DEF Inv, Service, ClientsTypeOK

LEMMA ProbingStep ==
  ASSUME Inv, NEW h \in Checks, Probing(h)
  PROVE  Inv'
<1> USE DEF ClientsTyped, world, served, health
<1>1. Service /\ ClientsTyped /\ Served
  BY InvParts
<1>2. Service' /\ UNCHANGED <<at, job, result, ran, stage, host>>
  BY <1>1, ServiceIdle DEF Probing, CheckDatabase, Conclude
<1>3. CASE CheckDatabase(h)
  <2>1. ClientsTyped'
    BY <1>1, <1>3 DEF CheckDatabase
  <2>2. HealthTruthful'
    BY <1>1, <1>2, <1>3 DEF CheckDatabase, Served, HealthTruthful
  <2>3. Served'
    BY <1>1, <1>2, <2>2 DEF Served
  <2> QED
    BY <1>2, <2>1, <2>3, InvParts DEF Inv, Service, ClientsTypeOK
<1>4. CASE Conclude(h)
  <2>1. Verdict(h) \in {"detailed ok", "ok", "error"}
    BY DEF Verdict
  <2>2. ClientsTyped'
    BY <1>1, <1>4, <2>1 DEF Conclude
  <2>3. Verdict(h) = "ok" => probe[h] = "up" /\ <<h, "ping">> \in ran
    <3> DEFINE c == <<h, "ping">>
    <3>1. c \in Calls /\ at[c] = "answered" /\ job[c].op = "ping"
      BY <1>1, <1>4, ClientCalls DEF Conclude, Served
    <3>2. result[c] # 0 => c \in ran
      BY <1>1, <3>1 DEF Service, Honest, PositiveMeansDone, Fallback
    <3> QED
      BY <3>2 DEF Verdict
  <2>4. HealthTruthful'
    BY <1>1, <1>2, <1>4, <2>3 DEF Conclude, Served, HealthTruthful
  <2>5. Served'
    BY <1>1, <1>2, <2>4 DEF Served
  <2> QED
    BY <1>2, <2>2, <2>5, InvParts DEF Inv, Service, ClientsTypeOK
<1> QED
  BY <1>3, <1>4 DEF Probing

LEMMA OtherStep ==
  ASSUME Inv, NEW o \in Others, NEW p \in Procs, OtherCall(o, p)
  PROVE  Inv'
<1> DEFINE c == <<o, "other">>
<1>1. Service /\ ClientsTyped /\ Served
  BY InvParts
<1>2. PICK op \in OtherOps, K \in SUBSET (Keys \ {Page}), ex \in BOOLEAN :
        /\ op \in OneKey => Cardinality(K) = 1
        /\ Call(c, Job(p, op, K, 1, ex))
  BY DEF OtherCall
<1> DEFINE j == Job(p, op, K, 1, ex)
<1>3. UNCHANGED <<links, redis, world, served, health, ran>>
  BY <1>2 DEF OtherCall, Call
<1>4. c \in Calls
  BY ClientCalls
<1>5. j \in Jobs /\ j.op = op /\ j.keys = K
  <2>1. op \in OneKey \cup ManyKeys \cup NoKeys /\ K \in SUBSET Keys /\ 1 \in Values
    BY ClientsAssumption, MaxValueAssumption DEF Values
  <2> QED
    BY <2>1 DEF Job, Jobs
<1>6. op \in OneKey => K # {}
  BY <1>2, FS_EmptySet
<1> HIDE DEF j
<1>7. Service'
  BY <1>1, <1>2, <1>3, <1>4, <1>5, <1>6, CallStep DEF j
<1>8. \A d \in Calls : d # c => at'[d] = at[d] /\ job'[d] = job[d]
  BY <1>1, <1>2 DEF Call, Service, TypeOK, CallsTyped
<1>9. /\ \A q \in Requests : c # <<q, "get">> /\ <<q, "get">> \in Calls
      /\ \A h \in Checks : c # <<h, "ping">> /\ <<h, "ping">> \in Calls
  BY ClientCalls
<1>10. /\ \A q \in Requests : /\ at'[<<q, "get">>] = at[<<q, "get">>]
                              /\ job'[<<q, "get">>] = job[<<q, "get">>]
       /\ \A h \in Checks : /\ at'[<<h, "ping">>] = at[<<h, "ping">>]
                            /\ job'[<<h, "ping">>] = job[<<h, "ping">>]
  BY <1>8, <1>9
<1>11. HealthTruthful'
  BY <1>1, <1>3 DEF Served, HealthTruthful, health
<1>12. Served'
  BY <1>1, <1>3, <1>10, <1>11 DEF Served, served
<1>13. ClientsTyped'
  BY <1>1, <1>3 DEF ClientsTyped, world, served, health
<1> QED
  BY <1>7, <1>12, <1>13, InvParts DEF Inv, Service, ClientsTypeOK, ClientsTyped

LEMMA DeathStep ==
  ASSUME Inv, NEW p \in Procs, Dies(p)
  PROVE  Inv'
<1> USE DEF ClientsTyped, Hosts, Stages, world
<1>1. Service /\ ClientsTyped /\ Served
  BY InvParts
<1>2. /\ Crash(p) /\ UNCHANGED world
      /\ stage' = [r \in Requests |-> IF host[r] = p THEN "idle" ELSE stage[r]]
      /\ body' = [r \in Requests |-> IF host[r] = p THEN Null ELSE body[r]]
      /\ probe' = [h \in Checks |-> IF host[h] = p THEN "none" ELSE probe[h]]
      /\ verdict' = [h \in Checks |-> IF host[h] = p THEN "none" ELSE verdict[h]]
      /\ host' = [h \in Hosts |-> IF host[h] = p THEN NoProc ELSE host[h]]
  BY <1>1 DEF Dies
<1>3. /\ Service'
      /\ \A c \in Calls :
           \/ job[c].proc = p /\ at'[c] = "idle"
           \/ /\ job[c].proc # p /\ job'[c] = job[c] /\ at'[c] = at[c]
              /\ c \in ran => c \in ran'
  BY <1>1, <1>2, CrashStep
<1>4. ClientsTyped'
  BY <1>1, <1>2
<1>5. ASSUME NEW q \in Requests
      PROVE  /\ stage'[q] # "idle" => host'[q] \in Procs
             /\ at'[<<q, "get">>] # "idle" => job'[<<q, "get">>].op = "get"
  <2>1. stage'[q] # "idle" => host'[q] \in Procs
    BY <1>1, <1>2 DEF Served
  <2>2. at'[<<q, "get">>] # "idle" => job'[<<q, "get">>].op = "get"
    BY <1>1, <1>3, ClientCalls DEF Served
  <2> QED
    BY <2>1, <2>2
<1>6. ASSUME NEW h \in Checks
      PROVE  /\ at'[<<h, "ping">>] # "idle" =>
                  job'[<<h, "ping">>].op = "ping" /\ job'[<<h, "ping">>].proc = host'[h]
             /\ verdict'[h] = "ok" => probe'[h] = "up" /\ <<h, "ping">> \in ran'
  <2> DEFINE c == <<h, "ping">>
  <2>1. c \in Calls /\ h \in Hosts
    BY ClientCalls
  <2>2. at[c] # "idle" => job[c].op = "ping" /\ job[c].proc = host[h]
    BY <1>1 DEF Served
  <2>3. at[c] = "idle" => job[c].proc = NoProc
    <3>1. at[c] = "idle" => job[c] = NoJob
      BY <1>1, <2>1 DEF Service, TypeOK
    <3>2. NoJob.proc = NoProc
      BY DEF NoJob, Job
    <3> QED
      BY <3>1, <3>2
  <2>4. CASE host[h] = p
    <3>1. verdict'[h] = "none"
      BY <1>2, <2>4
    <3>2. at'[c] = "idle"
      BY <1>3, <2>1, <2>2, <2>4
    <3> QED
      BY <3>1, <3>2
  <2>5. CASE host[h] # p
    <3>1. host'[h] = host[h] /\ verdict'[h] = verdict[h] /\ probe'[h] = probe[h]
      BY <1>2, <2>1, <2>5
    <3>2. job[c].proc # p
      BY <2>2, <2>3, <2>5, NoProcAssumption
    <3>3. job'[c] = job[c] /\ at'[c] = at[c] /\ (c \in ran => c \in ran')
      BY <1>3, <2>1, <3>2
    <3>4. verdict[h] = "ok" => probe[h] = "up" /\ c \in ran
      BY <1>1 DEF Served, HealthTruthful
    <3> QED
      BY <2>2, <3>1, <3>3, <3>4
  <2> QED
    BY <2>4, <2>5
<1>7. Served'
  BY <1>5, <1>6 DEF Served, HealthTruthful
<1> QED
  BY <1>3, <1>4, <1>7, InvParts DEF Inv, Service, ClientsTypeOK

LEMMA StepInv == Inv /\ [ClientsNext]_allVars => Inv'
<1> SUFFICES ASSUME Inv, [ClientsNext]_allVars PROVE Inv'
  OBVIOUS
<1> DEFINE Forward == /\ UNCHANGED job /\ ran \subseteq ran'
                      /\ \A c \in Calls : at'[c] # "idle" => at[c] # "idle"
<1>1. Service /\ ClientsTyped /\ Served
  BY InvParts
<1>2. CASE Write \/ DatabaseFlips \/ UNCHANGED allVars
  <2>1. Service' /\ UNCHANGED <<at, job, result, ran>>
    BY <1>1, <1>2, ServiceIdle DEF Write, DatabaseFlips, allVars
  <2>2. ClientsTyped'
    <3>1. row' \in 0 .. MaxValue
      <4>1. CASE Write
        <5>1. row \in 0 .. MaxValue /\ row < MaxValue /\ row' = row + 1
          BY <1>1, <4>1 DEF ClientsTyped, Write
        <5> QED
          BY <5>1, MaxValueAssumption
      <4>2. CASE row' = row
        BY <1>1, <4>2 DEF ClientsTyped
      <4> QED
        BY <1>2, <4>1, <4>2 DEF DatabaseFlips, allVars, world
    <3>2. database' \in BOOLEAN
      BY <1>1, <1>2 DEF ClientsTyped, Write, DatabaseFlips, allVars, world
    <3> QED
      BY <1>1, <1>2, <3>1, <3>2
      DEF ClientsTyped, Write, DatabaseFlips, allVars, world, served, health
  <2>3. Served'
    BY <1>1, <1>2, <2>1
    DEF Served, HealthTruthful, Write, DatabaseFlips, allVars, served, health
  <2> QED
    BY <2>1, <2>2, <2>3, InvParts DEF Inv, Service, ClientsTypeOK, ClientsTyped
<1>3. CASE UNCHANGED <<world, served, health>> /\ Command
  <2>1. Service'
    BY <1>1, <1>3, CommandStep
  <2>2. Forward
    <3> USE DEF Service, TypeOK
    <3>1. ASSUME NEW c \in Calls, NEW n, Sent(c), Replied(c, n) PROVE Forward
      BY <1>1, <3>1 DEF Replied, Sent
    <3>2. ASSUME NEW c \in Calls, Execute(c)
          PROVE  (\E n : Sent(c) /\ Replied(c, n)) \/ Pipelined(c)
      BY <3>2 DEF Execute, Get, Exists, Ttl, KeysMatching, MGet, Ping, Set, Del, Expire,
         Clear, Incr, Decr, Reading, Counting, Sending
    <3>3. ASSUME NEW c \in Calls, Pipelined(c) PROVE Forward
      BY <1>1, <3>3 DEF Pipelined, Sending, Sent
    <3>4. ASSUME NEW C \in SUBSET Calls, Rejected(C), \A c \in C : at[c] # "idle"
          PROVE  Forward
      BY <1>1, <3>4 DEF Rejected
    <3>5. ASSUME NEW c \in Calls, Settle(c) \/ Refuse(c) PROVE Forward
      BY <1>1, <3>5, <3>4 DEF Settle, Refuse, Sent
    <3>6. ASSUME NEW p \in Procs, GiveUp(p) PROVE Forward
      BY <3>4, <3>6 DEF GiveUp, Of
    <3>7. ASSUME NEW k \in Keys, KeyExpires(k) PROVE Forward
      BY <3>7 DEF KeyExpires, calls
    <3> QED
      BY <1>3, <3>1, <3>2, <3>3, <3>5, <3>6, <3>7 DEF Command
  <2> QED
    BY <1>3, <2>1, <2>2, ServiceStep
<1>4. ASSUME NEW p \in Procs, Connection(p), UNCHANGED <<world, served, health>>
      PROVE  Inv'
  <2>1. Service'
    BY <1>1, <1>4, ConnectionStep
  <2>2. Forward
    BY <1>1, <1>4 DEF Connection, Start, Reconnect, Drop, Quit, Of, calls, Service, TypeOK
  <2> QED
    BY <1>4, <2>1, <2>2, ServiceStep
<1> QED
  BY <1>2, <1>3, <1>4, RequestStep, InterceptStep, CheckStep, ProbingStep, OtherStep,
     DeathStep
  DEF ClientsNext, Environment, Request, HealthCheck

(***************************************************************************)
(* The theorems.                                                           *)
(***************************************************************************)
LEMMA Invariance == ClientsSpec => []Inv
BY InitInv, StepInv, PTL DEF ClientsSpec

\* Every variable of the service and of its clients keeps its type: a value that is
\* read into a response is a value of the page.
THEOREM ClientsTypeCorrect == ClientsSpec => []ClientsTypeOK
<1>1. Inv => ClientsTypeOK
  BY DEF Inv
<1> QED
  BY <1>1, Invariance, PTL

\* Whatever the link does, an answer other than the fallback means that Redis has
\* executed the command.
THEOREM AnswersAreHonest == ClientsSpec => []PositiveMeansDone
<1>1. Inv => PositiveMeansDone
  BY DEF Inv, Honest
<1> QED
  BY <1>1, Invariance, PTL

\* Only a process whose first connection failed leaves a working link unused.
THEOREM LinkIsUsed == ClientsSpec => []LinkUsedUnlessStartFailed
<1>1. Inv => LinkUsedUnlessStartFailed
  BY DEF Inv, Linked, LinkUsedUnlessStartFailed
<1> QED
  BY <1>1, Invariance, PTL

\* What the interceptor caches always has a TTL.
THEOREM PagesExpire == ClientsSpec => []EntriesExpire
<1>1. Inv => EntriesExpire
  BY DEF Inv, PageKept
<1> QED
  BY <1>1, Invariance, PTL

\* /health says ok only after the database has answered and Redis has executed a PING
\* of the same check.
THEOREM HealthIsTruthful == ClientsSpec => []HealthTruthful
<1>1. Inv => HealthTruthful
  BY DEF Inv, Served
<1> QED
  BY <1>1, Invariance, PTL
===============================================================================
