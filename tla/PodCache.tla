------------------------------ MODULE PodCache ------------------------------
(***************************************************************************)
(* A collection pass over a changing cluster (src/collect.rs, `collect`,   *)
(* `collect_node_stats`, `struct PodCache`): the pod list is held between  *)
(* passes and refetched when it is old or was seen to lack a container;    *)
(* the kubelet of each node is asked for its containers, whose series are  *)
(* labelled with the images the held list has for them.                    *)
(*                                                                         *)
(* Pods start, run and go between any two calls of a pass.  A pod is       *)
(* represented by one container.  Of the samples passes hand to the store, *)
(* the model keeps, for each container, the image label of the latest in   *)
(* its usage series and the newest time in its resource series; that the   *)
(* store refuses a sample no newer than its series is left to SampleStore. *)
(* The image "unknown" is Unnamed.                                         *)
(*                                                                         *)
(* A pass knows the time by one reading of now(), the system clock, which  *)
(* may be set: a pass may read the same as the one before it, or less.     *)
(***************************************************************************)
EXTENDS Integers

CONSTANTS
  Containers,       \* (namespace, pod, container) names
  Nodes,
  NodeOf,           \* Containers -> Nodes
  Listed,           \* those that are in spec.containers of their pods: not
                    \* native sidecars, which are in spec.initContainers
  Images,
  Unnamed, Unset, Absent, NoList,
  Worlds,           \* what is fixed for a behaviour: see `world`
  RefreshInterval   \* POD_REFRESH_INTERVAL_SECONDS

\* What a pod says of its image, and what is held of a pod list.
Pods  == [spec : Images, status : Images \cup {Unset}]
Lists == [image : [Containers -> Images \cup {Absent}],
          fetchedAt : Nat, stale : BOOLEAN]

\* from_env clamps the interval to at least 1.
ASSUME CollectAssumption ==
  /\ NodeOf \in [Containers -> Nodes]
  /\ Listed \subseteq Containers
  /\ \A w \in Worlds : /\ w.imagesOf \in [Containers -> SUBSET Images]
                       /\ w.readings \subseteq Nat
  /\ Unnamed \notin Images /\ Unset \notin Images /\ Absent \notin Images
  /\ Unnamed # Absent /\ Absent \notin Pods /\ NoList \notin Lists
  /\ RefreshInterval \in Nat \ {0}

VARIABLES
  \* The cluster.
  world,       \* .failing: which of the calls "nodes", "pods", "stats" may
               \* fail; .imagesOf: Containers -> the images its pods, one
               \* after the other, may name and resolve to; .readings: what
               \* now() may read (a bound, in the instances)
  api,         \* Containers -> the pod's images in the API server, or Absent
  running,     \* the containers the kubelets report
  \* The collector.
  pc,          \* "idle"; "listing", until the pod list is there; "scraping"
  started,     \* `now` of the pass
  cache,       \* PodCache, or NoList
  todo,        \* nodes whose kubelets are still to be asked
  unnamed,     \* has one of them reported a container without a known image?
  \* What has been handed to the store.
  label,       \* Containers -> the image its latest sample is labelled with,
               \* Absent if the pod that runs now has none
  wrong,       \* ... and how many in a row had another than the pod's; 2 is
               \* two or more
  resourceAt,  \* Containers -> the newest time of its resource samples
  \* Of the past.
  newest,       \* the latest reading that any pass has made of the clock
  deletedAfter, \* Containers -> `newest` when its pod was last deleted
  changed       \* has the cluster changed since the list was fetched?

clusterVars == <<world, api, running, deletedAfter>>
passVars    == <<pc, started, newest, cache, todo, unnamed>>
sampleVars  == <<label, wrong, resourceAt>>
vars == <<clusterVars, passVars, sampleVars, changed>>

Failing  == world.failing
ImagesOf == world.imagesOf
Readings == world.readings

ClusterTypes ==
  /\ world \in Worlds
  /\ api \in [Containers -> Pods \cup {Absent}]
  /\ running \subseteq Containers
  /\ deletedAfter \in [Containers -> Nat]

PassTypes ==
  /\ pc \in {"idle", "listing", "scraping"}
  /\ newest \in Nat /\ started \in 0..newest
  /\ cache # NoList => cache \in Lists /\ cache.fetchedAt <= newest
  /\ todo \subseteq Nodes

SampleTypes ==
  /\ label \in [Containers -> Images \cup {Unnamed, Absent}]
  /\ wrong \in [Containers -> 0..2]
  /\ resourceAt \in [Containers -> Nat]

TypeOK ==
  /\ ClusterTypes
  /\ PassTypes
  /\ SampleTypes
  /\ unnamed \in BOOLEAN
  /\ changed \in BOOLEAN

-----------------------------------------------------------------------------
\* The resolved image where the kubelet has reported one.
ImageOf(pod) == IF pod.status # Unset THEN pod.status ELSE pod.spec

\* What a fetched pod list tells: containers and containerStatuses are read,
\* their init counterparts are not.
ListedImages ==
  [c \in Containers |-> IF c \in Listed /\ api[c] # Absent
                        THEN ImageOf(api[c]) ELSE Absent]

\* Variants with a bug, for mutation runs: a list that is exactly as old as
\* the interval is kept; the interval is not looked at.
NeedsRefreshLate(now) ==
  cache # NoList => cache.stale \/ now - cache.fetchedAt > RefreshInterval

NeedsRefreshAlways(now) == TRUE

\* PodCache::needs_refresh
NeedsRefresh(now) ==
  cache # NoList => cache.stale \/ now - cache.fetchedAt >= RefreshInterval

\* The image label of a container's series.
LabelOf(c) == IF cache.image[c] \in Images THEN cache.image[c] ELSE Unnamed

-----------------------------------------------------------------------------
Init ==
  /\ world \in Worlds
  /\ api = [c \in Containers |-> Absent]
  /\ running = {}
  /\ deletedAfter = [c \in Containers |-> 0]
  /\ pc = "idle" /\ started = 0 /\ newest = 0 /\ cache = NoList
  /\ todo = {} /\ unnamed = FALSE
  /\ label = [c \in Containers |-> Absent]
  /\ wrong = [c \in Containers |-> 0]
  /\ resourceAt = [c \in Containers |-> 0]
  /\ changed = FALSE

\* The cluster.  A pod is in the API server before its container runs, and
\* until after it has stopped; the image may be resolved at any time.
CreatePod(c, image) ==
  /\ api[c] = Absent
  /\ api' = [api EXCEPT ![c] = [spec |-> image, status |-> Unset]]
  /\ changed' = TRUE
  /\ UNCHANGED <<world, running, deletedAfter, passVars, sampleVars>>

ResolveImage(c, image) ==
  /\ api[c] # Absent
  /\ api[c].status = Unset
  /\ api' = [api EXCEPT ![c].status = image]
  /\ changed' = TRUE
  /\ UNCHANGED <<world, running, deletedAfter, passVars, sampleVars>>

StartContainer(c) ==
  /\ api[c] # Absent /\ c \notin running
  /\ running' = running \cup {c}
  /\ changed' = TRUE
  /\ UNCHANGED <<world, api, deletedAfter, passVars, sampleVars>>

StopContainer(c) ==
  /\ c \in running
  /\ running' = running \ {c}
  /\ changed' = TRUE
  /\ UNCHANGED <<world, api, deletedAfter, passVars, sampleVars>>

\* A pod that takes the name later has series of its own to begin with.
DeletePod(c) ==
  /\ api[c] # Absent /\ c \notin running
  /\ api' = [api EXCEPT ![c] = Absent]
  /\ deletedAfter' = [deletedAfter EXCEPT ![c] = newest]
  /\ label' = [label EXCEPT ![c] = Absent]
  /\ wrong' = [wrong EXCEPT ![c] = 0]
  /\ changed' = TRUE
  /\ UNCHANGED <<world, running, passVars, resourceAt>>

Cluster ==
  \E c \in Containers :
    \/ \E image \in ImagesOf[c] : CreatePod(c, image) \/ ResolveImage(c, image)
    \/ StartContainer(c) \/ StopContainer(c) \/ DeletePod(c)

-----------------------------------------------------------------------------
\* collector_loop reads the clock, wherever it stands by now, and calls
\* collect.
BeginPass ==
  /\ pc = "idle"
  /\ pc' = "listing"
  /\ \E now \in Readings :
       started' = now /\ newest' = IF now > newest THEN now ELSE newest
  /\ UNCHANGED <<clusterVars, cache, todo, unnamed, sampleVars, changed>>

\* client.nodes() fails, and with it the pass.
NodesFail ==
  /\ pc = "listing" /\ "nodes" \in Failing
  /\ pc' = "idle"
  /\ UNCHANGED <<clusterVars, started, newest, cache, todo, unnamed, sampleVars, changed>>

\* With a list in hand: the resource series of every container it has get
\* their samples, and the nodes are next.
BeginScrape(list) ==
  /\ pc' = "scraping"
  /\ cache' = list
  /\ resourceAt' = [c \in Containers |->
                      IF list.image[c] # Absent /\ started > resourceAt[c]
                      THEN started ELSE resourceAt[c]]
  /\ todo' = Nodes
  /\ unnamed' = FALSE
  /\ UNCHANGED <<clusterVars, started, newest, label, wrong>>

KeepList ==
  /\ pc = "listing" /\ ~NeedsRefresh(started)
  /\ BeginScrape(cache)
  /\ UNCHANGED changed

\* A variant with a bug, for mutation runs: the list is dated by what the
\* clock reads when it has arrived.
FetchListDatedLate ==
  /\ pc = "listing" /\ NeedsRefresh(started)
  /\ \E now \in Readings :
       BeginScrape([image |-> ListedImages, fetchedAt |-> now, stale |-> FALSE])
  /\ changed' = FALSE

\* client.pods() answers.
FetchList ==
  /\ pc = "listing" /\ NeedsRefresh(started)
  /\ BeginScrape([image |-> ListedImages, fetchedAt |-> started, stale |-> FALSE])
  /\ changed' = FALSE

\* Variants with a bug, for mutation runs: a failure reads as a list without
\* pods; the pass goes on also without a list.
FetchFailsEmptying ==
  /\ pc = "listing" /\ NeedsRefresh(started) /\ "pods" \in Failing
  /\ BeginScrape([image |-> [c \in Containers |-> Absent],
                  fetchedAt |-> started, stale |-> FALSE])
  /\ UNCHANGED changed

FetchFailsGoingOn ==
  /\ pc = "listing" /\ NeedsRefresh(started) /\ "pods" \in Failing
  /\ pc' = "scraping" /\ todo' = Nodes /\ unnamed' = FALSE
  /\ UNCHANGED <<clusterVars, started, newest, cache, sampleVars, changed>>

\* client.pods() fails: the pass goes on with the list that is held, or ends
\* when none is.
FetchFails ==
  /\ pc = "listing" /\ NeedsRefresh(started) /\ "pods" \in Failing
  /\ \/ cache # NoList /\ BeginScrape(cache)
     \/ /\ cache = NoList /\ pc' = "idle"
        /\ UNCHANGED <<clusterVars, started, newest, cache, todo, unnamed, sampleVars>>
  /\ UNCHANGED changed

\* collect_node_stats: every container the node reports gets a sample.
ScrapeNode(n) ==
  LET reported == {c \in running : NodeOf[c] = n}
  IN  /\ pc = "scraping" /\ n \in todo
      /\ todo' = todo \ {n}
      /\ unnamed' = (unnamed \/ \E c \in reported : LabelOf(c) = Unnamed)
      /\ label' = [c \in Containers |-> IF c \in reported THEN LabelOf(c)
                                                         ELSE label[c]]
      /\ wrong' = [c \in Containers |->
                     IF c \notin reported THEN wrong[c]
                     ELSE IF LabelOf(c) = ImageOf(api[c]) THEN 0
                     ELSE IF wrong[c] = 0 THEN 1 ELSE 2]
      /\ UNCHANGED <<clusterVars, pc, started, newest, cache, resourceAt, changed>>

\* client.node_stats(n) fails: the others still get theirs.
NodeFails(n) ==
  /\ pc = "scraping" /\ n \in todo /\ "stats" \in Failing
  /\ todo' = todo \ {n}
  /\ UNCHANGED <<clusterVars, pc, started, newest, cache, unnamed, sampleVars, changed>>

\* A variant with a bug, for mutation runs: the list stays good.
EndScrapeTrusting ==
  /\ pc = "scraping" /\ todo = {}
  /\ pc' = "idle"
  /\ UNCHANGED <<clusterVars, started, newest, cache, todo, unnamed, sampleVars, changed>>

\* The end of collect: a list that lacked a container is stale.
EndScrape ==
  /\ pc = "scraping" /\ todo = {}
  /\ pc' = "idle"
  /\ cache' = [cache EXCEPT !.stale = @ \/ unnamed]
  /\ UNCHANGED <<clusterVars, started, newest, todo, unnamed, sampleVars, changed>>

Next ==
  \/ Cluster
  \/ BeginPass \/ NodesFail \/ KeepList \/ FetchList \/ FetchFails
  \/ \E n \in Nodes : ScrapeNode(n) \/ NodeFails(n)
  \/ EndScrape

Spec == Init /\ [][Next]_vars

-----------------------------------------------------------------------------
\* "A pod list is held once the first fetch has succeeded": the `expect` in
\* collect never panics, whichever calls fail.
ListHeld == pc = "scraping" => cache # NoList

\* The window in which a container's series carry another image than its pod
\* has -- after which two series answer for it -- is "bounded to one scrape":
\* no two samples in a row are labelled so.
WindowIsOneScrape == \A c \in Containers : wrong[c] <= 1

\* It is when pod lists can be fetched and name every container and each has
\* one image for life, whatever comes and goes between the calls of a pass.
SettledAfterOneScrape ==
  /\ "pods" \notin Failing /\ Listed = Containers
  /\ \A c \in Containers : \A i, j \in ImagesOf[c] : i = j
  => WindowIsOneScrape

\* A container that has been named never falls back to "unknown" while its
\* pod is there, not even when the pod list cannot be fetched.
NamedStaysNamed ==
  [][\A c \in Containers :
       label[c] \in Images => label'[c] # Unnamed]_vars

\* "The interval governs only the case where nothing changed": the largest
\* read of the daemon is repeated before its time only if the cluster is no
\* longer what it was when the list was fetched -- given that a list names
\* every container a kubelet reports.
IntervalGoverns ==
  [][/\ Listed = Containers
     /\ FetchList /\ cache # NoList /\ started - cache.fetchedAt < RefreshInterval
     => changed]_vars

\* A pod that is gone gets resource samples "until the next" refresh.  If
\* pod lists can be fetched, these end less than one interval past the latest
\* time that any pass had read before the pod was deleted, wherever the clock
\* is set in between: a clock that is set back has the held list kept for
\* longer, but not for samples of a later time.
DeletedPodForgotten ==
  "pods" \notin Failing =>
    \A c \in Containers :
      api[c] = Absent => resourceAt[c] < deletedAfter[c] + RefreshInterval

=============================================================================
