---------------------------- MODULE MemoryProofs ----------------------------
(***************************************************************************)
(* Theorems about Memory, for every set of models, requests and            *)
(* procedures and every bound on deliveries, changes of the server,        *)
(* failed calls and restarts.                                              *)
(***************************************************************************)
EXTENDS Memory, FiniteSetTheorems, TLAPS

Names == {m.name : m \in Models \cup {DevModel}}
WorkerType ==
  [pc : {"off", "validate", "delete", "ensure", "create", "idle", "read", "embed", "log", "context"},
   provider : Vectors, tier : Tiers, vector : Vectors, found : Counts]
RequestType ==
  [op : {"none", "write", "search"}, pc : {"idle", "probe", "embed", "upsert"},
   provider : Vectors, vector : Vectors]

Shape ==
  /\ served \in Models \cup {Nothing} /\ embedder \in Vectors
  /\ cache \in [Names -> Vectors]
  /\ worker \in WorkerType /\ requests \in [Requests -> RequestType]
  /\ trouble \in [calls : BOOLEAN, unlogged : SUBSET (Nat \X Tiers)]
  /\ delivery \in Nat
  /\ saving \subseteq procedures /\ procedures \subseteq Procedures /\ IsFiniteSet(procedures)
  /\ fallback \in BOOLEAN

\* The points have the dimension of their collection, and none is without one: a request
\* that upserts has a vector.
PointsInv ==
  /\ DOMAIN collection = {"dim", "points"}
  /\ collection.dim \in {v.dim : v \in Vectors}
  /\ DOMAIN collection.points \subseteq Requests /\ IsFiniteSet(DOMAIN collection.points)
  /\ \A i \in DOMAIN collection.points :
       /\ collection.points[i].model \in Vectors
       /\ collection.points[i].model.dim = collection.dim
  /\ collection.dim = 0 => DOMAIN collection.points = {}
  /\ \A r \in Requests : requests[r].pc = "upsert" => requests[r].vector.dim # 0

Starting == {"off", "validate", "delete", "ensure", "create", "idle"}

\* The tier that the retrieval is at, and the vector it searches with.
WorkerInv ==
  /\ worker.pc # "off" <=> worker.provider # Nothing
  /\ worker.vector.dim \in {0, worker.provider.dim}
  /\ worker.pc \in Starting => worker.tier = "M1"
  /\ worker.pc = "embed" => worker.tier = "M2"
  /\ worker.pc = "read" /\ worker.tier = "M2" => worker.vector.dim = worker.provider.dim

\* What startup knows of the collection before it is done, as long as its calls succeed.
ReadyInv ==
  /\ worker.pc = "delete" => collection.dim # worker.provider.dim
  /\ trouble.calls = FALSE =>
       /\ worker.pc \in {"ensure", "create"} => collection.dim \in {0, worker.provider.dim}
       /\ worker.pc \in {"idle", "read", "embed", "log", "context"} =>
            collection.dim = worker.provider.dim

\* What the retrieval under way has found is in the log, or about to be, or its append
\* has failed.
FoundInv ==
  worker.pc \in {"read", "embed", "log", "context"} =>
    \A t \in Tiers : worker.found[t] > 0 =>
      \/ worker.pc = "log" /\ worker.tier = t
      \/ <<delivery, t>> \in trouble.unlogged
      \/ Retrieved(t) \in log

DeliveryInv == \A e \in log : e.delivery \in 0 .. delivery

IInv == Shape /\ PointsInv /\ WorkerInv /\ ReadyInv /\ FoundInv /\ DeliveryInv /\ LogIsBacked

-----------------------------------------------------------------------------
(* Vectors.                                                                *)

LEMMA VectorFacts ==
  /\ Models \subseteq Vectors /\ DevModel \in Vectors /\ Nothing \in Vectors
  /\ \A m \in Models \cup {DevModel} : m # Nothing /\ m.dim \in Nat /\ m.dim # 0 /\ m.name \in Names
  /\ Nothing.dim = 0 /\ DevModel # Nothing /\ DevModel \notin Models
BY MemoryAssumption DEF Vectors, DevModel, Nothing, Names

LEMMA ProviderFacts ==
  ASSUME served \in Models \cup {Nothing}, NEW b \in BOOLEAN, NEW p \in Providers(b)
  PROVE  p \in Vectors /\ p # Nothing
BY VectorFacts DEF Providers

LEMMA EmbeddingFacts ==
  ASSUME served \in Models \cup {Nothing}, NEW p, NEW v \in Embeddings(p)
  PROVE  v \in Vectors /\ v.dim = p.dim /\ v.dim # 0
BY VectorFacts DEF Embeddings

LEMMA CachedFacts ==
  ASSUME cache \in [Names -> Vectors], NEW p \in Vectors, p # Nothing, NEW v \in Cached(p)
  PROVE  v \in Vectors /\ v.dim = p.dim
<1>1. p.name \in Names
  BY VectorFacts DEF Vectors
<1> QED BY <1>1 DEF Cached

LEMMA NextTierFacts ==
  ASSUME NEW w \in WorkerType
  PROVE  /\ NextTier(w) \in WorkerType
         /\ NextTier(w).provider = w.provider /\ NextTier(w).found = w.found
         /\ NextTier(w).vector \in {w.vector, Nothing}
         /\ NextTier(w).pc \in {"embed", "read", "context"}
         /\ NextTier(w).pc = "embed" => NextTier(w).tier = "M2"
         /\ NextTier(w).pc = "read" => NextTier(w).tier = "M3"
BY VectorFacts DEF NextTier, WorkerType, Tiers

LEMMA ResultFacts ==
  ASSUME IInv, NEW t \in Tiers, NEW n \in Results(t)
  PROVE  n \in Nat
<1>1. Cardinality(DOMAIN collection.points) \in Nat /\ Cardinality(procedures) \in Nat
  BY FS_CardinalityType DEF IInv, PointsInv, Shape
<1> QED BY <1>1, MemoryAssumption DEF Results, Lesser, TopK, Tiers, Hits

-----------------------------------------------------------------------------
(* What is not touched keeps its part of the invariant.                    *)

LEMMA SamePoints == PointsInv /\ UNCHANGED <<collection, requests>> => PointsInv'
BY DEF PointsInv

LEMMA SameWorker == WorkerInv /\ UNCHANGED worker => WorkerInv'
BY DEF WorkerInv

LEMMA SameReady ==
  ReadyInv /\ UNCHANGED worker /\ collection'.dim = collection.dim /\ trouble'.calls = trouble.calls
    => ReadyInv'
BY DEF ReadyInv

\* The log, its deliveries, the tiers without an event and the procedures only grow.
LEMMA SameLog ==
  ASSUME UNCHANGED log, delivery' = delivery, trouble'.unlogged = trouble.unlogged,
         procedures \subseteq procedures'
  PROVE  /\ DeliveryInv => DeliveryInv'
         /\ LogIsBacked => LogIsBacked'
BY DEF DeliveryInv, LogIsBacked, ContextBacked, AnnouncedIsStored

LEMMA SameFound ==
  ASSUME FoundInv, delivery' = delivery, trouble'.unlogged = trouble.unlogged, log \subseteq log',
         \/ worker'.pc \notin {"read", "embed", "log", "context"}
         \/ worker' = worker
         \/ worker.pc \in {"read", "embed"} /\ worker'.found = worker.found
  PROVE  FoundInv'
<1>1. ASSUME worker'.found = worker.found
      PROVE  \A t \in Tiers : Retrieved(t)' = Retrieved(t)
  BY <1>1 DEF Retrieved
<1> QED BY <1>1 DEF FoundInv

-----------------------------------------------------------------------------
(* The server and the startup of the worker.                               *)

LEMMA InitIInv == Init => IInv
<1> SUFFICES ASSUME Init PROVE IInv
  OBVIOUS
<1>1. Shape
  <2>1. cache \in [Names -> Vectors]
    BY VectorFacts, Zenon DEF Init, Names
  <2>2. NoneFound \in Counts
    BY DEF NoneFound, Counts
  <2>3. worker \in WorkerType
    BY <2>2, VectorFacts DEF Init, Off, WorkerType, Tiers
  <2>4. requests \in [Requests -> RequestType]
    BY VectorFacts DEF Init, Idle, RequestType
  <2>5. IsFiniteSet(procedures)
    BY FS_EmptySet DEF Init
  <2> QED BY <2>1, <2>3, <2>4, <2>5, VectorFacts DEF Init, Shape
<1>2. PointsInv
  <2>1. DOMAIN collection = {"dim", "points"} /\ collection.dim = 0 /\ DOMAIN collection.points = {}
    BY DEF Init, Absent
  <2>2. 0 \in {v.dim : v \in Vectors}
    BY VectorFacts
  <2>3. \A r \in Requests : requests[r].pc # "upsert"
    BY DEF Init, Idle
  <2> QED BY <2>1, <2>2, <2>3, FS_EmptySet DEF PointsInv
<1>3. WorkerInv /\ ReadyInv /\ FoundInv
  BY VectorFacts DEF Init, Off, WorkerInv, ReadyInv, FoundInv, Starting
<1>4. DeliveryInv /\ LogIsBacked
  BY DEF Init, DeliveryInv, LogIsBacked, ContextBacked, AnnouncedIsStored
<1> QED BY <1>1, <1>2, <1>3, <1>4 DEF IInv

LEMMA ServerKeeps == IInv /\ ServerChanges => IInv'
<1> SUFFICES ASSUME IInv, ServerChanges PROVE IInv'
  OBVIOUS
<1> USE DEF IInv, workerVars, apiVars
<1>1. Shape'
  BY DEF ServerChanges, Shape
<1>2. PointsInv' /\ WorkerInv' /\ ReadyInv' /\ FoundInv'
  <2>1. /\ UNCHANGED <<worker, collection, requests, delivery, log>>
        /\ trouble'.calls = trouble.calls /\ trouble'.unlogged = trouble.unlogged
    BY DEF ServerChanges
  <2> QED BY <2>1, SamePoints, SameWorker, SameReady, SameFound
<1>3. DeliveryInv' /\ LogIsBacked'
  BY SameLog DEF ServerChanges
<1> QED BY <1>1, <1>2, <1>3

LEMMA StartKeeps == IInv /\ WorkerStart => IInv'
<1> SUFFICES ASSUME IInv, WorkerStart PROVE IInv'
  OBVIOUS
<1> USE DEF IInv, apiVars, bounds
<1>0. PICK p \in Providers(fallback) : worker' = [Off EXCEPT !.pc = "validate", !.provider = p]
  BY DEF WorkerStart
<1>1. p \in Vectors /\ p # Nothing
  BY ProviderFacts DEF Shape
<1>2. /\ worker' = [pc |-> "validate", provider |-> p, tier |-> "M1", vector |-> Nothing, found |-> NoneFound]
      /\ NoneFound \in Counts
  BY <1>0 DEF Off, NoneFound, Counts
<1>3. Shape'
  <2>1. worker' \in WorkerType
    BY <1>1, <1>2, VectorFacts DEF WorkerType, Tiers
  <2>2. trouble' \in [calls : BOOLEAN, unlogged : SUBSET (Nat \X Tiers)]
    BY DEF WorkerStart, Shape
  <2> QED BY <2>1, <2>2 DEF WorkerStart, Shape
<1>4. PointsInv'
  BY SamePoints DEF WorkerStart
<1>5. WorkerInv' /\ ReadyInv'
  BY <1>1, <1>2, VectorFacts DEF WorkerInv, ReadyInv, Starting
<1>6. trouble'.unlogged = trouble.unlogged
  BY DEF WorkerStart, Shape
<1>7. FoundInv' /\ DeliveryInv' /\ LogIsBacked'
  BY <1>2, <1>6, SameFound, SameLog DEF WorkerStart
<1> QED BY <1>3, <1>4, <1>5, <1>7

LEMMA CrashKeeps == IInv /\ WorkerCrash => IInv'
<1> SUFFICES ASSUME IInv, WorkerCrash PROVE IInv'
  OBVIOUS
<1> USE DEF IInv, apiVars
<1>1. Off \in WorkerType
  <2>1. NoneFound \in Counts
    BY DEF NoneFound, Counts
  <2> QED BY <2>1, VectorFacts DEF Off, WorkerType, Tiers
<1>2. Shape' /\ PointsInv'
  BY <1>1, SamePoints DEF WorkerCrash, Shape
<1>3. WorkerInv' /\ ReadyInv'
  BY VectorFacts DEF WorkerCrash, Off, WorkerInv, ReadyInv, Starting
<1>4. FoundInv' /\ DeliveryInv' /\ LogIsBacked'
  BY SameFound, SameLog DEF WorkerCrash, Off
<1> QED BY <1>2, <1>3, <1>4

\* A step of startup, of which only the collection and the next step matter.
LEMMA StartupStep ==
  ASSUME IInv, NEW from \in Starting \ {"off", "idle"}, NEW effect,
         NEW next \in Starting \ {"off"}, NEW failed, failed \subseteq Starting \ {"off", "delete"},
         Startup(from, effect, next, failed),
         effect \in {collection, Absent, [dim |-> worker.provider.dim, points |-> <<>>]},
         next = "delete" => effect.dim # worker.provider.dim,
         trouble.calls = FALSE /\ next \in {"ensure", "create"} => effect.dim \in {0, worker.provider.dim},
         trouble.calls = FALSE /\ next = "idle" => effect.dim = worker.provider.dim
  PROVE  IInv'
<1> USE DEF IInv, apiVars
<1>1. /\ worker.pc = from /\ UNCHANGED <<served, cache, fallback, delivery, log, apiVars, procedures>>
      /\ collection' \in {collection, effect}
      /\ \/ collection' = effect /\ worker' = To(next) /\ UNCHANGED trouble
         \/ trouble' = Troubled /\ \E pc \in failed : worker' = To(pc)
  BY DEF Startup
<1>2. worker \in WorkerType /\ trouble \in [calls : BOOLEAN, unlogged : SUBSET (Nat \X Tiers)]
  BY DEF Shape
<1>3. PICK pc \in {next} \cup failed : worker' = [worker EXCEPT !.pc = pc]
  BY <1>1 DEF To
<1>4. /\ worker' \in WorkerType /\ worker'.pc = pc /\ worker'.provider = worker.provider
      /\ worker'.tier = worker.tier /\ worker'.vector = worker.vector /\ pc \in Starting \ {"off"}
  BY <1>2, <1>3 DEF WorkerType, Starting
<1>5. /\ trouble' \in [calls : BOOLEAN, unlogged : SUBSET (Nat \X Tiers)]
      /\ trouble'.unlogged = trouble.unlogged
      /\ trouble'.calls = FALSE => trouble.calls = FALSE /\ pc = next /\ collection' = effect
      /\ pc = "delete" => pc = next /\ collection' = effect
  <2>1. CASE collection' = effect /\ worker' = To(next) /\ UNCHANGED trouble
    BY <1>2, <1>4, <2>1 DEF To, WorkerType
  <2>2. CASE trouble' = Troubled /\ \E q \in failed : worker' = To(q)
    <3>1. pc \in failed
      BY <1>2, <1>4, <2>2 DEF To, WorkerType
    <3> QED BY <1>2, <2>2, <3>1 DEF Troubled
  <2> QED BY <1>1, <2>1, <2>2
<1>6. Shape'
  BY <1>1, <1>4, <1>5 DEF Shape
<1>7. PointsInv'
  <2>1. CASE collection' = collection
    BY <1>1, <2>1, SamePoints
  <2>2. CASE collection' # collection
    <3>1. /\ DOMAIN collection' = {"dim", "points"} /\ DOMAIN collection'.points = {}
          /\ collection'.dim \in {0, worker.provider.dim}
      BY <1>1, <2>2 DEF Absent
    <3>2. collection'.dim \in {v.dim : v \in Vectors}
      BY <1>2, <3>1, VectorFacts DEF WorkerType
    <3> QED BY <1>1, <3>1, <3>2, FS_EmptySet DEF PointsInv
  <2> QED BY <2>1, <2>2
<1>8. WorkerInv'
  BY <1>1, <1>4 DEF WorkerInv, Starting
<1>9. ReadyInv'
  BY <1>4, <1>5 DEF ReadyInv, Starting
<1>10. FoundInv' /\ DeliveryInv' /\ LogIsBacked'
  BY <1>1, <1>4, <1>5, SameFound, SameLog DEF Starting
<1> QED BY <1>6, <1>7, <1>8, <1>9, <1>10

LEMMA StartupKeeps == IInv /\ (Validate \/ Delete \/ Ensure \/ Create) => IInv'
<1> SUFFICES ASSUME IInv, Validate \/ Delete \/ Ensure \/ Create PROVE IInv'
  OBVIOUS
<1>0. ReadyInv /\ worker.provider \in Vectors
  BY DEF IInv, Shape, WorkerType
<1>1. CASE Validate
  <2>1. trouble.calls = FALSE /\ ~Stale => collection.dim \in {0, worker.provider.dim}
    BY DEF Stale
  <2> QED BY <1>1, <2>1, StartupStep DEF Validate, Stale, Starting
<1>2. CASE Delete
  BY <1>2, StartupStep DEF Delete, Absent, Starting
<1>3. CASE Ensure
  <2>1. worker.pc = "ensure"
    BY <1>3 DEF Ensure, Startup
  <2> QED BY <1>0, <1>3, <2>1, StartupStep DEF Ensure, AfterEnsure, Starting, ReadyInv
<1>4. CASE Create
  <2>1. worker.pc = "create"
    BY <1>4 DEF Create, Startup
  <2> QED BY <1>0, <1>4, <2>1, StartupStep DEF Create, Starting, ReadyInv
<1> QED BY <1>1, <1>2, <1>3, <1>4

-----------------------------------------------------------------------------
(* The retrieval.                                                          *)

LEMMA TakeKeeps == IInv /\ Take => IInv'
<1> SUFFICES ASSUME IInv, Take PROVE IInv'
  OBVIOUS
<1> USE DEF IInv, apiVars, bounds
<1>0. worker \in WorkerType /\ NoneFound \in Counts /\ \A t \in Tiers : NoneFound[t] = 0
  BY DEF Shape, NoneFound, Counts
<1>1. /\ worker.pc = "idle" /\ delivery' = delivery + 1 /\ UNCHANGED <<trouble, log, collection, requests>>
      /\ worker' \in WorkerType /\ worker'.pc = "read" /\ worker'.found = NoneFound
      /\ worker'.tier = worker.tier /\ worker'.provider = worker.provider /\ worker'.vector = worker.vector
  BY <1>0 DEF Take, FoundAtStart, WorkerType
<1>2. Shape'
  BY <1>1 DEF Take, Shape
<1>3. PointsInv' /\ WorkerInv' /\ ReadyInv'
  BY <1>1, SamePoints DEF WorkerInv, ReadyInv, Starting
<1>4. FoundInv'
  BY <1>0, <1>1 DEF FoundInv
<1>5. DeliveryInv'
  BY <1>1 DEF DeliveryInv, Shape
<1>6. LogIsBacked'
  BY <1>1 DEF Take, LogIsBacked, ContextBacked, AnnouncedIsStored
<1> QED BY <1>2, <1>3, <1>4, <1>5, <1>6

LEMMA EmbedQueryKeeps == IInv /\ EmbedQuery => IInv'
<1> SUFFICES ASSUME IInv, EmbedQuery PROVE IInv'
  OBVIOUS
<1> USE DEF IInv, apiVars, bounds
<1>0. /\ worker \in WorkerType /\ worker.pc = "embed" /\ worker.tier = "M2"
      /\ worker.provider \in Vectors /\ worker.provider # Nothing
      /\ UNCHANGED <<served, collection, requests, delivery, trouble, log, embedder, fallback, procedures, saving>>
  BY DEF Shape, EmbedQuery, WorkerInv, WorkerType
<1> DEFINE Embedded ==
      /\ worker' \in WorkerType /\ cache' \in [Names -> Vectors]
      /\ worker'.found = worker.found /\ worker'.provider = worker.provider
      /\ \/ worker'.pc = "read" /\ worker'.vector.dim = worker.provider.dim
         \/ worker'.pc = "read" /\ worker'.tier = "M3" /\ worker'.vector.dim \in {0, worker.vector.dim}
<1>1. Embedded
  <2>1. ASSUME NEW v \in Vectors, v.dim = worker.provider.dim,
               worker' = [worker EXCEPT !.pc = "read", !.vector = v],
               cache' \in {cache, [cache EXCEPT ![worker.provider.name] = v]}
        PROVE  Embedded
    <3>1. cache' \in [Names -> Vectors]
      BY <2>1 DEF Shape
    <3>2. /\ worker' \in WorkerType /\ worker'.found = worker.found
          /\ worker'.provider = worker.provider /\ worker'.pc = "read" /\ worker'.vector = v
      BY <1>0, <2>1 DEF WorkerType
    <3> QED BY <2>1, <3>1, <3>2
  <2>2. ASSUME worker' = NextTier(worker), UNCHANGED cache
        PROVE  Embedded
    BY <1>0, <2>2, NextTierFacts, VectorFacts DEF NextTier, Shape, WorkerType
  <2> QED BY <1>0, <2>1, <2>2, CachedFacts, EmbeddingFacts DEF EmbedQuery, Shape
<1>2. Shape'
  BY <1>0, <1>1 DEF Shape
<1>3. PointsInv' /\ WorkerInv' /\ ReadyInv'
  BY <1>0, <1>1, SamePoints DEF WorkerInv, ReadyInv, Starting
<1>4. FoundInv' /\ DeliveryInv' /\ LogIsBacked'
  BY <1>0, <1>1, SameFound, SameLog
<1> QED BY <1>2, <1>3, <1>4

LEMMA ReadKeeps == IInv /\ Read => IInv'
<1> SUFFICES ASSUME IInv, Read PROVE IInv'
  OBVIOUS
<1> USE DEF IInv, apiVars
<1>0. /\ worker \in WorkerType /\ worker.pc = "read"
      /\ UNCHANGED <<served, cache, collection, requests, delivery, trouble, log, embedder, fallback,
                     procedures, saving>>
  BY DEF Shape, Read
<1>1. CASE worker' = NextTier(worker)
  <2>1. /\ worker' \in WorkerType /\ worker'.provider = worker.provider
        /\ worker'.found = worker.found /\ worker'.vector \in {worker.vector, Nothing}
        /\ worker'.pc \in {"embed", "read", "context"}
        /\ worker'.pc = "embed" => worker'.tier = "M2"
        /\ worker'.pc = "read" => worker'.tier = "M3"
    BY <1>0, <1>1, NextTierFacts
  <2>2. Shape' /\ PointsInv'
    BY <1>0, <2>1, SamePoints DEF Shape
  <2>3. WorkerInv' /\ ReadyInv'
    BY <1>0, <2>1, VectorFacts DEF WorkerInv, ReadyInv, Starting
  <2>4. FoundInv' /\ DeliveryInv' /\ LogIsBacked'
    BY <1>0, <2>1, SameFound, SameLog
  <2> QED BY <2>2, <2>3, <2>4
<1>2. ASSUME NEW n \in Results(worker.tier),
             worker' = [worker EXCEPT !.pc = "log", !.found[worker.tier] = n]
      PROVE  IInv'
  <2>0. n \in Nat /\ worker.found \in Counts /\ worker.tier \in Tiers
    BY <1>0, <1>2, ResultFacts DEF WorkerType
  <2>1. /\ worker' \in WorkerType /\ worker'.provider = worker.provider
        /\ worker'.vector = worker.vector /\ worker'.tier = worker.tier /\ worker'.pc = "log"
        /\ \A t \in Tiers \ {worker.tier} : worker'.found[t] = worker.found[t]
    BY <1>0, <1>2, <2>0 DEF WorkerType, Counts
  <2>2. Shape' /\ PointsInv'
    BY <1>0, <2>1, SamePoints DEF Shape
  <2>3. WorkerInv' /\ ReadyInv'
    BY <1>0, <2>1 DEF WorkerInv, ReadyInv, Starting
  <2>4. FoundInv'
    <3>1. \A t \in Tiers \ {worker.tier} : Retrieved(t)' = Retrieved(t)
      BY <1>0, <2>1 DEF Retrieved
    <3> QED BY <1>0, <2>1, <3>1 DEF FoundInv
  <2>5. DeliveryInv' /\ LogIsBacked'
    BY <1>0, SameLog
  <2> QED BY <2>2, <2>3, <2>4, <2>5
<1> QED BY <1>1, <1>2 DEF Read

\* The log gains an event of the current delivery.
LEMMA LogGains ==
  ASSUME Shape, DeliveryInv, LogIsBacked, NEW e, log' \in {log, log \cup {e}},
         e.delivery \in 0 .. delivery, delivery' = delivery,
         trouble.unlogged \subseteq trouble'.unlogged, procedures' = procedures,
         e.type = "MEMORY_WRITTEN" => e.procedure \in procedures,
         e.type = "RUN_CONTEXT_PREPARED" => \A t \in Tiers :
           e.found[t] > 0 /\ <<e.delivery, t>> \notin trouble.unlogged =>
             [type |-> "MEMORY_RETRIEVED", delivery |-> e.delivery, tier |-> t, count |-> e.found[t]] \in log
  PROVE  DeliveryInv' /\ LogIsBacked'
<1>1. DeliveryInv'
  BY DEF DeliveryInv
<1>2. AnnouncedIsStored'
  BY DEF LogIsBacked, AnnouncedIsStored
<1>3. ContextBacked'
  BY DEF LogIsBacked, ContextBacked
<1> QED BY <1>1, <1>2, <1>3 DEF LogIsBacked

LEMMA LogTierKeeps == IInv /\ LogTier => IInv'
<1> SUFFICES ASSUME IInv, LogTier PROVE IInv'
  OBVIOUS
<1> USE DEF IInv, apiVars
<1>0. /\ worker \in WorkerType /\ worker.pc = "log" /\ worker.tier \in Tiers
      /\ UNCHANGED <<served, cache, collection, requests, delivery, embedder, fallback, procedures, saving>>
      /\ trouble \in [calls : BOOLEAN, unlogged : SUBSET (Nat \X Tiers)] /\ delivery \in Nat
      /\ worker' = NextTier(worker)
  BY DEF Shape, LogTier, WorkerType
<1>1. /\ worker' \in WorkerType /\ worker'.provider = worker.provider
      /\ worker'.found = worker.found /\ worker'.vector \in {worker.vector, Nothing}
      /\ worker'.pc \in {"embed", "read", "context"}
      /\ worker'.pc = "embed" => worker'.tier = "M2"
      /\ worker'.pc = "read" => worker'.tier = "M3"
  BY <1>0, NextTierFacts
<1>2. /\ trouble' \in [calls : BOOLEAN, unlogged : SUBSET (Nat \X Tiers)]
      /\ trouble'.calls = trouble.calls /\ trouble.unlogged \subseteq trouble'.unlogged
      /\ log' \in {log, log \cup {Retrieved(worker.tier)}}
      /\ Retrieved(worker.tier) \in log' \/ <<delivery, worker.tier>> \in trouble'.unlogged
  BY <1>0 DEF LogTier
<1>3. Shape' /\ PointsInv'
  BY <1>0, <1>1, <1>2, SamePoints DEF Shape
<1>4. WorkerInv' /\ ReadyInv'
  BY <1>0, <1>1, <1>2, VectorFacts DEF WorkerInv, ReadyInv, Starting
<1>5. FoundInv'
  <2>1. \A t \in Tiers : Retrieved(t)' = Retrieved(t)
    BY <1>0, <1>1 DEF Retrieved
  <2> QED BY <1>0, <1>1, <1>2, <2>1 DEF FoundInv
<1>6. DeliveryInv' /\ LogIsBacked'
  <2>1. Retrieved(worker.tier).delivery \in 0 .. delivery /\ Retrieved(worker.tier).type = "MEMORY_RETRIEVED"
    BY <1>0 DEF Retrieved
  <2> QED BY <1>0, <1>2, <2>1, LogGains
<1> QED BY <1>3, <1>4, <1>5, <1>6

LEMMA LogContextKeeps == IInv /\ LogContext => IInv'
<1> SUFFICES ASSUME IInv, LogContext PROVE IInv'
  OBVIOUS
<1> USE DEF IInv, apiVars
<1>0. /\ worker \in WorkerType /\ worker.pc = "context" /\ delivery \in Nat
      /\ UNCHANGED <<served, cache, collection, requests, delivery, trouble, embedder, fallback,
                     procedures, saving>>
      /\ log' \in {log, log \cup {Prepared}}
  BY DEF Shape, LogContext
<1>1. /\ worker' \in WorkerType /\ worker'.provider = worker.provider
      /\ worker'.vector = worker.vector /\ worker'.pc = "idle" /\ worker'.tier = "M1"
  BY <1>0 DEF LogContext, WorkerType, Tiers
<1>2. Shape' /\ PointsInv'
  BY <1>0, <1>1, SamePoints DEF Shape
<1>3. WorkerInv' /\ ReadyInv' /\ FoundInv'
  BY <1>0, <1>1 DEF WorkerInv, ReadyInv, FoundInv, Starting
<1>4. DeliveryInv' /\ LogIsBacked'
  <2>1. /\ Prepared.type = "RUN_CONTEXT_PREPARED" /\ Prepared.delivery = delivery
        /\ Prepared.found = worker.found
    BY DEF Prepared
  <2>2. \A t \in Tiers : worker.found[t] > 0 /\ <<delivery, t>> \notin trouble.unlogged =>
          [type |-> "MEMORY_RETRIEVED", delivery |-> delivery, tier |-> t, count |-> worker.found[t]] \in log
    BY <1>0 DEF FoundInv, Retrieved
  <2> QED BY <1>0, <2>1, <2>2, LogGains
<1> QED BY <1>2, <1>3, <1>4

-----------------------------------------------------------------------------
(* The API.                                                                *)

\* A request goes on; the worker and the log are left alone.
LEMMA ApiStepKeeps ==
  ASSUME IInv, UNCHANGED <<served, workerVars, fallback, procedures, saving, log>>,
         embedder' \in Vectors, requests' \in [Requests -> RequestType],
         PointsInv', collection'.dim = collection.dim
  PROVE  IInv'
<1> USE DEF IInv, workerVars
<1>1. Shape'
  BY DEF Shape
<1>2. WorkerInv' /\ ReadyInv'
  BY SameWorker, SameReady
<1>3. FoundInv' /\ DeliveryInv' /\ LogIsBacked'
  BY SameFound, SameLog
<1> QED BY <1>1, <1>2, <1>3

\* One request goes on and the collection stays.
LEMMA RequestKeeps ==
  ASSUME IInv, NEW r \in Requests, NEW q \in RequestType, requests' = [requests EXCEPT ![r] = q],
         UNCHANGED <<served, collection, workerVars, fallback, procedures, saving, log>>,
         embedder' \in Vectors, q.pc = "upsert" => q.vector.dim # 0
  PROVE  IInv'
<1>1. requests' \in [Requests -> RequestType] /\ requests'[r] = q
      /\ \A s \in Requests \ {r} : requests'[s] = requests[s]
  BY DEF IInv, Shape
<1>2. PointsInv'
  BY <1>1 DEF IInv, PointsInv
<1> QED BY <1>1, <1>2, ApiStepKeeps

LEMMA GetEmbedderKeeps ==
  ASSUME IInv, NEW r \in Requests, NEW op \in {"write", "search"}, GetEmbedder(r, op)
  PROVE  IInv'
<1> DEFINE q == [op |-> op, pc |-> IF embedder = Nothing THEN "probe" ELSE "embed",
                 provider |-> embedder, vector |-> Nothing]
<1>1. embedder \in Vectors
  BY DEF IInv, Shape
<1>2. q \in RequestType /\ q.pc # "upsert"
  BY <1>1, VectorFacts DEF RequestType
<1>3. /\ requests' = [requests EXCEPT ![r] = q] /\ UNCHANGED embedder
      /\ UNCHANGED <<served, collection, workerVars, fallback, procedures, saving, log>>
  BY DEF GetEmbedder, Api
<1> HIDE DEF q
<1> QED BY <1>1, <1>2, <1>3, RequestKeeps

LEMMA ProbedKeeps == ASSUME IInv, NEW r \in Requests, Probed(r) PROVE IInv'
<1>1. PICK p \in Providers(TRUE) :
        /\ embedder' = p
        /\ requests' = [requests EXCEPT ![r] =
             IF requests[r].op = "search" THEN Idle ELSE [requests[r] EXCEPT !.pc = "embed", !.provider = p]]
  BY DEF Probed, IInv, Shape
<1> DEFINE q == IF requests[r].op = "search" THEN Idle ELSE [requests[r] EXCEPT !.pc = "embed", !.provider = p]
<1>2. p \in Vectors /\ requests[r] \in RequestType
  BY ProviderFacts DEF IInv, Shape
<1>3. q \in RequestType /\ q.pc # "upsert"
  BY <1>2, VectorFacts DEF RequestType, Idle
<1>4. requests' = [requests EXCEPT ![r] = q] /\ embedder' \in Vectors
      /\ UNCHANGED <<served, collection, workerVars, fallback, procedures, saving, log>>
  BY <1>1, <1>2 DEF Probed, Api
<1> HIDE DEF q
<1> QED BY <1>3, <1>4, RequestKeeps

LEMMA EmbedRecordKeeps == ASSUME IInv, NEW r \in Requests, EmbedRecord(r) PROVE IInv'
<1>1. /\ UNCHANGED <<served, collection, workerVars, fallback, procedures, saving, log, embedder>>
      /\ requests \in [Requests -> RequestType] /\ embedder \in Vectors
  BY DEF EmbedRecord, Api, IInv, Shape
<1>2. ASSUME NEW v \in Embeddings(requests[r].provider),
             requests' = [requests EXCEPT ![r].pc = "upsert", ![r].vector = v]
      PROVE  IInv'
  <2> DEFINE q == [requests[r] EXCEPT !.pc = "upsert", !.vector = v]
  <2>1. v \in Vectors /\ v.dim # 0
    BY <1>2, EmbeddingFacts DEF IInv, Shape
  <2>2. q \in RequestType /\ q.vector.dim # 0
    BY <1>1, <2>1 DEF RequestType
  <2>3. requests' = [requests EXCEPT ![r] = q]
    BY <1>1, <1>2
  <2> HIDE DEF q
  <2> QED BY <1>1, <2>2, <2>3, RequestKeeps
<1>3. ASSUME requests' = [requests EXCEPT ![r] = Idle] PROVE IInv'
  <2>1. Idle \in RequestType /\ Idle.pc # "upsert"
    BY VectorFacts DEF Idle, RequestType
  <2> QED BY <1>1, <1>3, <2>1, RequestKeeps
<1> QED BY <1>2, <1>3 DEF EmbedRecord

LEMMA UpsertKeeps == ASSUME IInv, NEW r \in Requests, Upsert(r) PROVE IInv'
<1> DEFINE stored == Upserted(r, requests[r].vector, requests[r].provider.name)
<1>1. /\ UNCHANGED <<served, workerVars, fallback, procedures, saving, log, embedder>>
      /\ requests \in [Requests -> RequestType] /\ embedder \in Vectors
      /\ requests' = [requests EXCEPT ![r] = Idle] /\ PointsInv
      /\ requests[r].pc = "upsert" /\ requests[r].vector.dim # 0 /\ requests[r].vector \in Vectors
  BY DEF Upsert, Api, IInv, Shape, PointsInv, RequestType
<1>2. Idle \in RequestType /\ Idle.pc # "upsert"
  BY VectorFacts DEF Idle, RequestType
<1>3. CASE collection' = collection
  BY <1>1, <1>2, <1>3, RequestKeeps
<1>4. CASE collection' = stored /\ requests[r].vector.dim = collection.dim
  <2>1. /\ DOMAIN collection' = {"dim", "points"} /\ collection'.dim = collection.dim
        /\ collection'.points = [i \in DOMAIN collection.points \cup {r} |->
             IF i = r THEN [model |-> requests[r].vector, label |-> requests[r].provider.name]
             ELSE collection.points[i]]
    BY <1>1, <1>4 DEF Upserted, PointsInv
  <2>2. requests' \in [Requests -> RequestType] /\ \A s \in Requests : requests'[s].pc = "upsert" =>
          requests[s].pc = "upsert" /\ requests'[s].vector = requests[s].vector
    BY <1>1, <1>2
  <2>3. IsFiniteSet(DOMAIN collection'.points) /\ DOMAIN collection'.points \subseteq Requests
    BY <1>1, <2>1, FS_AddElement DEF PointsInv
  <2>4. \A i \in DOMAIN collection'.points : /\ collection'.points[i].model \in Vectors
                                             /\ collection'.points[i].model.dim = collection'.dim
    BY <1>1, <1>4, <2>1 DEF PointsInv
  <2>5. PointsInv'
    BY <1>1, <1>4, <2>1, <2>2, <2>3, <2>4 DEF PointsInv
  <2> QED BY <1>1, <2>1, <2>2, <2>5, ApiStepKeeps
<1> QED BY <1>1, <1>3, <1>4 DEF Upsert

LEMMA SaveDagKeeps == ASSUME IInv, NEW p \in Procedures, SaveDag(p) PROVE IInv'
<1> USE DEF IInv, workerVars
<1>1. UNCHANGED <<served, collection, worker, delivery, cache, trouble, fallback, embedder, requests>>
  BY DEF SaveDag
<1>2. Written(p).delivery = 0 /\ Written(p).type = "MEMORY_WRITTEN" /\ Written(p).procedure = p
  BY DEF Written
<1>3. /\ procedures' \in {procedures, procedures \cup {p}} /\ saving' \subseteq procedures'
      /\ log' \in {log, log \cup {Written(p)}}
      /\ log' # log => p \in procedures /\ procedures' = procedures
  BY DEF SaveDag, SaveStep, Shape
<1>4. Shape'
  BY <1>1, <1>3, FS_AddElement DEF Shape
<1>5. PointsInv' /\ WorkerInv' /\ ReadyInv' /\ FoundInv'
  BY <1>1, <1>3, SamePoints, SameWorker, SameReady, SameFound
<1>6. DeliveryInv' /\ LogIsBacked'
  <2>1. CASE log' = log
    BY <1>1, <1>3, <2>1, SameLog
  <2>2. CASE log' # log
    <3>1. Written(p).delivery \in 0 .. delivery
      BY <1>2 DEF Shape
    <3> QED BY <1>1, <1>2, <1>3, <2>2, <3>1, LogGains
  <2> QED BY <2>1, <2>2
<1> QED BY <1>4, <1>5, <1>6

LEMMA ApiRestartKeeps == IInv /\ ApiRestart => IInv'
<1> SUFFICES ASSUME IInv, ApiRestart PROVE IInv'
  OBVIOUS
<1> USE DEF IInv, workerVars
<1>1. Idle \in RequestType /\ Idle.pc # "upsert" /\ Nothing \in Vectors
  BY VectorFacts DEF Idle, RequestType
<1>2. Shape'
  BY <1>1 DEF ApiRestart, Shape
<1>3. PointsInv'
  BY <1>1 DEF ApiRestart, PointsInv
<1>4. WorkerInv' /\ ReadyInv' /\ FoundInv'
  BY SameWorker, SameReady, SameFound DEF ApiRestart
<1>5. DeliveryInv' /\ LogIsBacked'
  BY SameLog DEF ApiRestart
<1> QED BY <1>2, <1>3, <1>4, <1>5

-----------------------------------------------------------------------------
(* The theorems.                                                           *)

LEMMA NextIInv == IInv /\ [Next]_vars => IInv'
<1> SUFFICES ASSUME IInv, [Next]_vars PROVE IInv'
  OBVIOUS
<1>1. CASE UNCHANGED vars
  <2> USE <1>1 DEF IInv, vars, workerVars, apiVars
  <2>1. Shape'
    BY DEF Shape
  <2>2. PointsInv' /\ WorkerInv' /\ ReadyInv' /\ FoundInv'
    BY SamePoints, SameWorker, SameReady, SameFound
  <2>3. DeliveryInv' /\ LogIsBacked'
    BY SameLog
  <2> QED BY <2>1, <2>2, <2>3
<1>2. CASE Worker \/ WorkerCrash
  BY <1>2, StartKeeps, StartupKeeps, TakeKeeps, EmbedQueryKeeps, ReadKeeps, LogTierKeeps,
     LogContextKeeps, CrashKeeps DEF Worker
<1> QED BY <1>1, <1>2, ServerKeeps, ApiRestartKeeps, GetEmbedderKeeps, ProbedKeeps, EmbedRecordKeeps,
           UpsertKeeps, SaveDagKeeps DEF Next

LEMMA IInvImplies == IInv => TypeOK /\ UpIsReady /\ LogIsBacked
<1> SUFFICES ASSUME IInv PROVE TypeOK /\ UpIsReady /\ LogIsBacked
  OBVIOUS
<1> USE DEF IInv
<1>1. TypeOK
  <2>1. served \in Vectors \ {DevModel}
    BY VectorFacts DEF Shape
  <2>2. \A n \in DOMAIN cache : cache[n] \in Vectors
    BY DEF Shape
  <2>3. \A r \in Requests : requests[r].vector \in Vectors
    BY DEF Shape, RequestType
  <2>4. (worker.pc # "off") = (worker.provider # Nothing)
    BY DEF WorkerInv
  <2> QED BY <2>1, <2>2, <2>3, <2>4 DEF TypeOK, Shape, PointsInv, WorkerInv, DeliveryInv, WorkerType
<1>2. UpIsReady
  BY DEF UpIsReady, ReadyInv, Shape
<1> QED BY <1>1, <1>2

\* Every variable keeps its type: in particular a stored vector always has the dimension of
\* its collection and the vector of a query that of the worker's provider, whichever models
\* the server has served and whatever of them the cache has kept.
THEOREM TypeCorrect == Spec => []TypeOK
<1> QED BY InitIInv, NextIInv, IInvImplies, PTL DEF Spec

\* A worker that started without a failed call has a collection of its provider's dimension.
THEOREM UpReady == Spec => []UpIsReady
<1> QED BY InitIInv, NextIInv, IInvImplies, PTL DEF Spec

\* A context counts only what was retrieved for the same delivery, and a procedure that was
\* announced is stored.
THEOREM LogBacked == Spec => []LogIsBacked
<1> QED BY InitIInv, NextIInv, IInvImplies, PTL DEF Spec

\* A prepared collection is searched whole, and a point is lost only when a worker of
\* another dimension deletes the collection.
THEOREM PointsKept == Spec => PointsAreKept
<1>1. IInv /\ [Next]_vars => [SearchSeesAll /\ NothingLost]_vars
  <2> SUFFICES ASSUME IInv, Next PROVE SearchSeesAll /\ NothingLost
    BY DEF vars, workerVars, apiVars, bounds, SearchSeesAll, NothingLost
  <2> USE DEF IInv
  <2>1. SearchSeesAll
    <3> SUFFICES ASSUME worker.pc = "read", worker.tier = "M2", worker'.pc = "log", ~trouble.calls
                 PROVE  worker'.found["M2"] = Lesser(TopK["M2"], Cardinality(DOMAIN collection.points))
      BY DEF SearchSeesAll
    <3>1. worker \in WorkerType
      BY DEF Shape
    <3>2. Read
      <4>1. CASE UNCHANGED worker
        BY <4>1
      <4>2. CASE Worker /\ ~Read
        BY <4>2 DEF Worker, WorkerStart, Validate, Delete, Ensure, Create, Startup, Take, EmbedQuery,
           LogTier, LogContext
      <4>3. CASE WorkerCrash
        BY <4>3 DEF WorkerCrash, Off
      <4> QED BY <4>1, <4>2, <4>3 DEF Next, ServerChanges, ApiRestart, GetEmbedder, Probed, EmbedRecord,
              Upsert, SaveDag, Api, workerVars
    <3>3. PICK n \in Results("M2") : worker' = [worker EXCEPT !.pc = "log", !.found["M2"] = n]
      BY <3>1, <3>2, NextTierFacts DEF Read
    <3>4. n = Lesser(TopK["M2"], Hits(worker.vector))
      BY <3>3 DEF Results
    <3>5. worker.vector.dim = collection.dim
      BY DEF WorkerInv, ReadyInv, Shape
    <3> QED BY <3>1, <3>3, <3>4, <3>5 DEF Hits, WorkerType, Counts, Tiers
  <2>2. NothingLost
    <3> SUFFICES ASSUME NEW i \in DOMAIN collection.points
                 PROVE  \/ i \in DOMAIN collection'.points
                        \/ worker.pc = "delete" /\ worker.provider.dim # collection.dim
      BY DEF NothingLost
    <3>1. CASE UNCHANGED collection
      BY <3>1
    <3>2. CASE Delete
      BY <3>2 DEF Delete, Startup, ReadyInv
    <3>3. CASE Create
      BY <3>3 DEF Create, Startup, PointsInv
    <3>4. ASSUME NEW r \in Requests, Upsert(r) PROVE i \in DOMAIN collection'.points
      <4>1. CASE collection' = Upserted(r, requests[r].vector, requests[r].provider.name)
        BY <4>1 DEF Upserted, PointsInv
      <4> QED BY <3>4, <4>1 DEF Upsert
    <3> QED BY <3>1, <3>2, <3>3, <3>4 DEF Next, Worker, ServerChanges, WorkerStart, WorkerCrash, Validate,
            Ensure, Startup, Take, EmbedQuery, Read, LogTier, LogContext, ApiRestart, GetEmbedder,
            Probed, EmbedRecord, SaveDag
  <2> QED BY <2>1, <2>2
<1> QED BY <1>1, InitIInv, NextIInv, PTL DEF Spec, PointsAreKept

=============================================================================
