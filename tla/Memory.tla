------------------------------ MODULE Memory ------------------------------
(***************************************************************************)
(* The memory of the runs and the services under it: the embeddings of     *)
(* llama.cpp, the Qdrant collection of semantic memory (M2), the cache of  *)
(* embeddings, episodes (M1) and procedures (M3) in Postgres.  The worker  *)
(* prepares the collection when it starts and retrieves from the three     *)
(* tiers before a run (memory-orchestrator.ts, retrieveContext); the API   *)
(* serves POST /memory/write, GET /memory/search and save-dag.  The        *)
(* episode of a run and the planner's view of memory are in RunPipeline.   *)
(*                                                                         *)
(* A vector is the model that computed it, [name, dim]; a provider is what *)
(* its probe found.  A server that does not report the name of its model   *)
(* is known as "llama-cpp-unknown".                                        *)
(*                                                                         *)
(* served     the model llama.cpp serves, or Nothing while it is down      *)
(* collection [dim, points]; dim 0: there is none.  A point is [model,     *)
(*            label], the label being its payload's embedding_model        *)
(* cache      embedding:llama_cpp:{model}:{hash} of the message of the run *)
(* worker     the worker process: pc, provider, and of the retrieval under *)
(*            way its tier, the vector of the message and what was found   *)
(* delivery   how often the job of the run has been delivered              *)
(* log        the MEMORY_* events, each with its delivery; only the first  *)
(*            RUN_CONTEXT_PREPARED is read, so they are a set              *)
(* trouble    failed calls since the worker started, and the tiers whose   *)
(*            event was not appended: read by the properties only          *)
(* requests   the requests of M2 the API serves                            *)
(* saving     the procedures that are stored and not announced yet         *)
(***************************************************************************)
EXTENDS Integers, FiniteSets, FiniteSetsExt, Sequences

CONSTANTS Models,         \* the models that llama.cpp may serve
          Requests,       \* writers and searchers of M2; a writer's record has its id
          Episodes,       \* the episodes of the chat, which RunPipeline writes
          Procedures,     \* the ids save-dag gives to procedures
          MaxDeliveries,  \* bound on deliveries
          MaxChanges,     \* bound on changes of the served model
          MaxFaults,      \* bound on failed calls
          MaxRestarts     \* bound on restarts of the worker and of the API

\* DevEmbeddingProvider.
DevModel == [name |-> "dev-hash-384", dim |-> 384]

ASSUME MemoryAssumption ==
  /\ Models \subseteq [name : STRING, dim : Nat \ {0}] /\ DevModel \notin Models
  /\ Episodes \in Nat
  /\ MaxDeliveries \in Nat /\ MaxChanges \in Nat /\ MaxFaults \in Nat /\ MaxRestarts \in Nat

VARIABLES served, collection, cache, worker, fallback, delivery, log, trouble,
          embedder, requests, procedures, saving, changes, faults, restarts

apiVars == <<embedder, requests, saving>>
bounds == <<changes, faults, restarts>>
workerVars == <<worker, delivery, cache, trouble>>
vars == <<served, collection, workerVars, fallback, log, apiVars, procedures, bounds>>

Nothing == [name |-> "none", dim |-> 0]
Absent  == [dim |-> 0, points |-> <<>>]
Tiers   == {"M1", "M2", "M3"}
TopK    == [M1 |-> 3, M2 |-> 5, M3 |-> 3]
NoneFound == [t \in Tiers |-> 0]
Off == [pc |-> "off", provider |-> Nothing, tier |-> "M1", vector |-> Nothing, found |-> NoneFound]
Idle == [op |-> "none", pc |-> "idle", provider |-> Nothing, vector |-> Nothing]

Lesser(a, b) == IF a < b THEN a ELSE b

Fault == faults < MaxFaults /\ faults' = faults + 1
NoFault == UNCHANGED faults

Init ==
  /\ served \in Models \cup {Nothing} /\ collection = Absent
  /\ cache = [n \in {m.name : m \in Models \cup {DevModel}} |-> Nothing]
  /\ worker = Off /\ fallback \in BOOLEAN /\ delivery = 0 /\ log = {}
  /\ trouble = [calls |-> FALSE, unlogged |-> {}]
  /\ embedder = Nothing /\ requests = [r \in Requests |-> Idle]
  /\ procedures = {} /\ saving = {}
  /\ changes = 0 /\ faults = 0 /\ restarts = 0

-----------------------------------------------------------------------------
(* The services.                                                           *)

\* llama.cpp stops, starts, or starts with another model.
ServerChanges ==
  /\ changes < MaxChanges /\ changes' = changes + 1
  /\ served' \in (Models \cup {Nothing}) \ {served}
  /\ UNCHANGED <<collection, workerVars, fallback, log, apiVars, procedures, faults, restarts>>

\* createEmbeddingProvider with EMBEDDING_PROVIDER=llama_cpp, and the probe.
Providers(devFallback) ==
  IF served # Nothing THEN {served} ELSE IF devFallback THEN {DevModel} ELSE {}

\* embed of a provider: the vectors it may return, none when it throws.
Embeddings(p) ==
  IF p = DevModel THEN {DevModel}
  ELSE IF served # Nothing /\ served.dim = p.dim THEN {served} ELSE {}

\* Mutant: a cached vector is used whatever its length.
AnyLength(p) == IF cache[p.name] # Nothing THEN {cache[p.name]} ELSE {}

\* What the cache has for a provider; no vector of another length is used.
Cached(p) == IF cache[p.name] # Nothing /\ cache[p.name].dim = p.dim THEN {cache[p.name]} ELSE {}

\* Qdrant accepts points of the collection's dimension only.
Upserted(id, vector, label) ==
  [collection EXCEPT !.points = [i \in DOMAIN @ \cup {id} |->
     IF i = id THEN [model |-> vector, label |-> label] ELSE @[i]]]

\* search of WorkerM2Store: [] when the response is not ok, which it is not for a
\* vector of another dimension or without a collection.
Hits(vector) == IF vector.dim = collection.dim THEN Cardinality(DOMAIN collection.points) ELSE 0

-----------------------------------------------------------------------------
(* The worker's startup.  A failed call is never fatal.                    *)

To(pc) == [worker EXCEPT !.pc = pc]
Troubled == [trouble EXCEPT !.calls = TRUE]

WorkerStart ==
  /\ worker.pc = "off"
  /\ \E p \in Providers(fallback) : worker' = [Off EXCEPT !.pc = "validate", !.provider = p]
  /\ trouble' = [trouble EXCEPT !.calls = FALSE]
  /\ UNCHANGED <<served, collection, cache, fallback, delivery, log, apiVars, procedures, bounds>>

\* Mutant: the dimension of an existing collection is not compared.
AlwaysStale == collection.dim # 0

Stale == collection.dim # 0 /\ collection.dim # worker.provider.dim

\* A step of startup: it calls Qdrant; when the call fails, trouble is remembered.
Startup(from, effect, next, failed) ==
  /\ worker.pc = from
  /\ \/ NoFault /\ collection' = effect /\ worker' = To(next) /\ UNCHANGED trouble
     \/ Fault /\ collection' \in {collection, effect} /\ trouble' = Troubled
        /\ \E pc \in failed : worker' = To(pc)
  /\ UNCHANGED <<served, cache, fallback, delivery, log, apiVars, procedures, changes, restarts>>

\* validateQdrantDimension: the GET, then the DELETE.
Validate == Startup("validate", collection, IF Stale THEN "delete" ELSE "ensure", {"ensure"})
Delete == Startup("delete", Absent, "ensure", {"ensure"})

\* Mutant: the collection is left to the first upsert.
LeftToUpsert == "idle"

AfterEnsure == IF collection.dim # 0 THEN "idle" ELSE "create"

\* ensureCollection: the GET, then the PUT, whose response is not looked at and which
\* does nothing when there is a collection.
Ensure == Startup("ensure", collection, AfterEnsure, {"create", "idle"})
Create ==
  Startup("create",
          IF collection.dim # 0 THEN collection ELSE [dim |-> worker.provider.dim, points |-> <<>>],
          "idle", {"idle"})

WorkerCrash ==
  /\ worker.pc # "off" /\ restarts < MaxRestarts /\ restarts' = restarts + 1
  /\ worker' = Off
  /\ UNCHANGED <<served, collection, cache, delivery, trouble, fallback, log, apiVars, procedures, changes, faults>>

-----------------------------------------------------------------------------
(* retrieveContext: tier by tier, each in a try of its own.                *)

\* Mutant: what was found outlives the job.
FoundBefore == worker.found

FoundAtStart == NoneFound

\* The job of the run is delivered, or delivered again.
Take ==
  /\ worker.pc = "idle" /\ delivery < MaxDeliveries /\ delivery' = delivery + 1
  /\ worker' = [worker EXCEPT !.pc = "read", !.found = FoundAtStart]
  /\ UNCHANGED <<served, collection, cache, trouble, fallback, log, apiVars, procedures, bounds>>

NextTier(w) ==
  CASE w.tier = "M1" -> [w EXCEPT !.tier = "M2", !.pc = "embed"]
    [] w.tier = "M2" -> [w EXCEPT !.tier = "M3", !.pc = "read", !.vector = Nothing]
    [] OTHER -> [w EXCEPT !.pc = "context"]

\* embed of CachedEmbeddingProvider.  A read of the cache that fails or finds nothing
\* is a miss, and a write of it that fails is none.
EmbedQuery ==
  /\ worker.pc = "embed"
  /\ \/ \E v \in Cached(worker.provider) :
          worker' = [worker EXCEPT !.pc = "read", !.vector = v] /\ UNCHANGED cache
     \/ \E v \in Embeddings(worker.provider) :
          /\ worker' = [worker EXCEPT !.pc = "read", !.vector = v]
          /\ cache' \in {cache, [cache EXCEPT ![worker.provider.name] = v]}
     \/ /\ Embeddings(worker.provider) = {}
        /\ worker' = NextTier(worker) /\ UNCHANGED cache
  /\ UNCHANGED <<served, collection, delivery, trouble, fallback, log, apiVars, procedures, bounds>>

\* getRecentEpisodes, searchSemantic and searchProcedures; the text of a procedure
\* matches the message or does not.
Results(t) ==
  CASE t = "M1" -> {Lesser(TopK["M1"], Episodes)}
    [] t = "M2" -> {Lesser(TopK["M2"], Hits(worker.vector))}
    [] OTHER -> {Lesser(TopK["M3"], n) : n \in 0 .. Cardinality(procedures)}

Read ==
  /\ worker.pc = "read"
  /\ \/ \E n \in Results(worker.tier) :
          worker' = [worker EXCEPT !.pc = "log", !.found[worker.tier] = n] /\ NoFault
     \/ Fault /\ worker' = NextTier(worker)
  /\ UNCHANGED <<served, collection, cache, delivery, trouble, fallback, log, apiVars, procedures, changes, restarts>>

Retrieved(t) == [type |-> "MEMORY_RETRIEVED", delivery |-> delivery, tier |-> t, count |-> worker.found[t]]

\* The append of MEMORY_RETRIEVED; a failure leaves the count as it is.
LogTier ==
  /\ worker.pc = "log" /\ worker' = NextTier(worker)
  /\ \/ NoFault /\ log' = log \cup {Retrieved(worker.tier)} /\ UNCHANGED trouble
     \/ /\ Fault /\ log' \in {log, log \cup {Retrieved(worker.tier)}}
        /\ trouble' = [trouble EXCEPT !.unlogged = @ \cup {<<delivery, worker.tier>>}]
  /\ UNCHANGED <<served, collection, cache, delivery, fallback, apiVars, procedures, changes, restarts>>

Prepared == [type |-> "RUN_CONTEXT_PREPARED", delivery |-> delivery, found |-> worker.found]

\* RUN_CONTEXT_PREPARED; what follows in the job is in RunPipeline.
LogContext ==
  /\ worker.pc = "context" /\ worker' = [worker EXCEPT !.pc = "idle", !.tier = "M1"]
  /\ \/ NoFault /\ log' = log \cup {Prepared}
     \/ Fault /\ log' \in {log, log \cup {Prepared}}
  /\ UNCHANGED <<served, collection, cache, delivery, trouble, fallback, apiVars, procedures, changes, restarts>>

-----------------------------------------------------------------------------
(* The API.                                                                *)

Api == UNCHANGED <<served, workerVars, fallback, procedures, saving, log, changes, restarts>>

\* A writer's POST /memory/write for M2, or a GET /memory/search, calls getEmbedder: it
\* has the memoised provider or probes.  With a provider a search changes nothing.
GetEmbedder(r, op) ==
  /\ requests[r].pc = "idle" /\ (op = "search" => embedder = Nothing)
  /\ requests' = [requests EXCEPT ![r] =
       [op |-> op, pc |-> IF embedder = Nothing THEN "probe" ELSE "embed",
        provider |-> embedder, vector |-> Nothing]]
  /\ UNCHANGED <<collection, embedder, faults>> /\ Api

\* The probe ends: without llama.cpp the development provider stays for good.
Probed(r) ==
  /\ requests[r].pc = "probe"
  /\ \E p \in Providers(TRUE) :
       /\ embedder' = p
       /\ requests' = [requests EXCEPT ![r] =
            IF @.op = "search" THEN Idle ELSE [@ EXCEPT !.pc = "embed", !.provider = p]]
  /\ UNCHANGED <<collection, faults>> /\ Api

\* A failed embedding is a 500.
EmbedRecord(r) ==
  /\ requests[r].pc = "embed"
  /\ \/ \E v \in Embeddings(requests[r].provider) :
          requests' = [requests EXCEPT ![r].pc = "upsert", ![r].vector = v]
     \/ /\ Embeddings(requests[r].provider) = {}
        /\ requests' = [requests EXCEPT ![r] = Idle]
  /\ UNCHANGED <<collection, embedder, faults>> /\ Api

\* The PUT of the point and the response.
Upsert(r) ==
  /\ requests[r].pc = "upsert"
  /\ LET fits == requests[r].vector.dim = collection.dim
         stored == IF fits THEN Upserted(r, requests[r].vector, requests[r].provider.name) ELSE collection
     IN  \/ NoFault /\ collection' = stored
         \/ Fault /\ collection' \in {collection, stored}
  /\ requests' = [requests EXCEPT ![r] = Idle]
  /\ UNCHANGED embedder /\ Api

Written(p) == [type |-> "MEMORY_WRITTEN", delivery |-> 0, procedure |-> p]

\* The insert, and then MEMORY_WRITTEN.
SaveStep(p) ==
  \/ /\ p \notin procedures
     /\ procedures' = procedures \cup {p} /\ saving' = saving \cup {p} /\ UNCHANGED log
  \/ /\ p \in saving
     /\ log' = log \cup {Written(p)} /\ saving' = saving \ {p} /\ UNCHANGED procedures

\* POST /memory/procedures/save-dag.  MEMORY_WRITE_REQUESTED, which nothing reads, is left
\* out: its failure is that of the insert.  A failed call ends the request with a 500; a
\* later attempt has another id, which one that was not stored may stand for.
SaveDag(p) ==
  /\ \/ SaveStep(p) /\ NoFault
     \/ /\ Fault /\ p \in saving /\ saving' = saving \ {p}
        /\ log' \in {log, log \cup {Written(p)}} /\ UNCHANGED procedures
     \/ /\ Fault /\ p \notin procedures /\ procedures' = procedures \cup {p}
        /\ UNCHANGED <<saving, log>>
  /\ UNCHANGED <<served, collection, workerVars, fallback, embedder, requests, changes, restarts>>

\* The API restarts: requests under way and the memoised provider are gone.
ApiRestart ==
  /\ restarts < MaxRestarts /\ restarts' = restarts + 1
  /\ embedder' = Nothing /\ requests' = [r \in Requests |-> Idle]
  /\ saving' = {}
  /\ UNCHANGED <<served, collection, workerVars, fallback, log, procedures, changes, faults>>

Worker ==
  \/ WorkerStart \/ Validate \/ Delete \/ Ensure \/ Create
  \/ Take \/ EmbedQuery \/ Read \/ LogTier \/ LogContext

Next ==
  \/ ServerChanges \/ Worker \/ WorkerCrash \/ ApiRestart
  \/ \E r \in Requests : \/ \E op \in {"write", "search"} : GetEmbedder(r, op)
                         \/ Probed(r) \/ EmbedRecord(r) \/ Upsert(r)
  \/ \E p \in Procedures : SaveDag(p)

Spec == Init /\ [][Next]_vars

-----------------------------------------------------------------------------
(* Properties.                                                             *)

Vectors == Models \cup {DevModel, Nothing}
Counts == [Tiers -> Nat]

\* The types; every stored vector has the dimension of the collection, the vector of a
\* query that of the provider, and a worker that is up has a provider.
TypeOK ==
  /\ served \in Vectors \ {DevModel}
  /\ collection.dim \in {v.dim : v \in Vectors}
  /\ DOMAIN collection.points \subseteq Requests
  /\ \A i \in DOMAIN collection.points : /\ collection.points[i].model \in Vectors
                                         /\ collection.points[i].model.dim = collection.dim
  /\ \A n \in DOMAIN cache : cache[n] \in Vectors
  /\ worker.provider \in Vectors /\ worker.found \in Counts
  /\ worker.vector \in Vectors /\ worker.vector.dim \in {0, worker.provider.dim}
  /\ worker.pc \in {"off", "validate", "delete", "ensure", "create", "idle",
                    "read", "embed", "log", "context"}
  /\ (worker.pc # "off") = (worker.provider # Nothing)
  /\ embedder \in Vectors /\ \A r \in Requests : requests[r].vector \in Vectors
  /\ procedures \subseteq Procedures /\ \A e \in log : e.delivery \in 0 .. delivery

\* A worker that came up without a failed call, and only such a worker, can rely on a
\* collection of its provider's dimension, whatever it found there and whatever the API
\* writes meanwhile.
UpIsReady ==
  worker.pc \in {"idle", "read", "embed", "log", "context"} /\ ~trouble.calls
    => collection.dim = worker.provider.dim

\* The search of a run sees every point of a collection the worker has prepared: no
\* vector of another dimension, cached under the name of the provider's model or
\* computed by a server that was exchanged, turns it into an empty answer.
SearchSeesAll ==
  worker.pc = "read" /\ worker.tier = "M2" /\ worker'.pc = "log" /\ ~trouble.calls
    => worker'.found["M2"] = Lesser(TopK["M2"], Cardinality(DOMAIN collection.points))

\* A stored point is lost only by a worker whose provider could not search it: a
\* restart with the same model, a crash during startup or a failed call loses none.
NothingLost ==
  \A i \in DOMAIN collection.points :
    i \in DOMAIN collection'.points
      \/ (worker.pc = "delete" /\ worker.provider.dim # collection.dim)

\* No step loses a point that could be found, or misses one that is there.
PointsAreKept == [][SearchSeesAll /\ NothingLost]_vars

\* What RUN_CONTEXT_PREPARED counts for a tier was retrieved for this delivery of the job:
\* a MEMORY_RETRIEVED of that size is there, unless its append reported failure.
ContextBacked ==
  \A c \in {e \in log : e.type = "RUN_CONTEXT_PREPARED"}, t \in Tiers :
    c.found[t] > 0 /\ <<c.delivery, t>> \notin trouble.unlogged =>
      [type |-> "MEMORY_RETRIEVED", delivery |-> c.delivery, tier |-> t, count |-> c.found[t]] \in log

\* A procedure that the log announces can be retrieved: save-dag fails, or the API
\* restarts, before the event or after the row.
AnnouncedIsStored == \A e \in log : e.type = "MEMORY_WRITTEN" => e.procedure \in procedures

\* What the log says of the memory, the memory can answer for.
LogIsBacked == ContextBacked /\ AnnouncedIsStored

=============================================================================
