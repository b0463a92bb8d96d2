--------------------------- MODULE PodCacheProofs ---------------------------
(***************************************************************************)
(* What a pass may rely on of the pod list it holds, for any cluster,      *)
(* whichever calls fail and wherever the clock is set: there is one, and   *)
(* it has every pod that was named once and is still there; and, when pod  *)
(* lists can be fetched, that samples of a deleted pod end within one      *)
(* interval and that no two in a row of a container are mislabelled.       *)
(***************************************************************************)
EXTENDS PodCache, TLAPS

\* Kubelets report containers of pods that are there.
RunningAreThere == \A c \in running : api[c] # Absent

\* The pod of a container whose latest sample is named is in the held list.
NamedAreHeld ==
  \A c \in Containers : label[c] \in Images =>
    /\ api[c] # Absent /\ c \in Listed
    /\ cache # NoList /\ cache.image[c] \in Images

OnlyListedHeld ==
  cache # NoList => \A c \in Containers : cache.image[c] # Absent => c \in Listed

\* No sample is ahead of all passes.
Dated == \A c \in Containers : resourceAt[c] <= newest

\* A pod that is gone but still in the list was deleted after the list was
\* fetched, so some pass had read the time of the list by then.
HeldOutlived ==
  cache # NoList =>
    \A c \in Containers :
      api[c] = Absent /\ cache.image[c] # Absent => cache.fetchedAt <= deletedAfter[c]

IInv ==
  /\ ClusterTypes /\ PassTypes /\ SampleTypes
  /\ ListHeld
  /\ RunningAreThere
  /\ NamedAreHeld
  /\ OnlyListedHeld
  /\ Dated
  /\ HeldOutlived
  /\ DeletedPodForgotten

\* Pods, and the held list, have images of their worlds.
ImagesKnown ==
  \A c \in Containers :
    /\ api[c] # Absent => /\ api[c].spec \in ImagesOf[c]
                          /\ api[c].status \in ImagesOf[c] \cup {Unset}
    /\ cache # NoList => cache.image[c] \in ImagesOf[c] \cup {Absent}

OneImageEach ==
  /\ "pods" \notin Failing /\ Listed = Containers
  /\ \A c \in Containers : \A i, j \in ImagesOf[c] : i = j

\* A container that was mislabelled is there, and either the held list names
\* it by now, or the list is going to be refreshed: it is stale, or will be
\* at the end of the pass that found the container without an image.
SettledSoon ==
  OneImageEach => \A c \in Containers :
    /\ wrong[c] <= 1
    /\ wrong[c] = 1 =>
         /\ api[c] # Absent /\ cache # NoList
         /\ \/ cache.image[c] \in Images
            \/ pc # "scraping" /\ cache.stale
            \/ pc = "scraping" /\ unnamed /\ NodeOf[c] \notin todo

Flags == unnamed \in BOOLEAN /\ changed \in BOOLEAN

-----------------------------------------------------------------------------
LEMMA InitInv == Init => IInv
<1> SUFFICES ASSUME Init PROVE IInv
  OBVIOUS
<1> USE CollectAssumption DEF Init
<1>1. ClusterTypes
  BY DEF ClusterTypes
<1>2. PassTypes
  BY DEF PassTypes
<1>3. SampleTypes
  BY DEF SampleTypes
<1>4. /\ ListHeld /\ RunningAreThere /\ NamedAreHeld /\ OnlyListedHeld
      /\ Dated /\ HeldOutlived /\ DeletedPodForgotten
  BY DEF ListHeld, RunningAreThere, NamedAreHeld, OnlyListedHeld, Dated,
         HeldOutlived, DeletedPodForgotten
<1> QED
  BY <1>1, <1>2, <1>3, <1>4 DEF IInv

\* A list that is fetched has images of listed containers of present pods,
\* and of all these.
LEMMA ListedImagesSound ==
  ASSUME IInv
  PROVE  /\ ListedImages \in [Containers -> Images \cup {Absent}]
         /\ \A c \in Containers :
              ListedImages[c] # Absent <=> c \in Listed /\ api[c] # Absent
<1>1. \A c \in Containers : api[c] # Absent => ImageOf(api[c]) \in Images
  BY CollectAssumption DEF IInv, ClusterTypes, Pods, ImageOf
<1> QED
  BY <1>1, CollectAssumption DEF ListedImages

\* Steps of the cluster, other than the end of a pod.
LEMMA ClusterInv ==
  ASSUME IInv,
         \/ \E c \in Containers : \E image \in ImagesOf[c] :
              CreatePod(c, image) \/ ResolveImage(c, image)
         \/ \E c \in Containers : StartContainer(c) \/ StopContainer(c)
  PROVE  IInv'
<1> USE CollectAssumption
<1>1. /\ UNCHANGED <<world, deletedAfter, passVars, sampleVars>>
      /\ api' \in [Containers -> Pods \cup {Absent}]
      /\ \A c \in Containers : api[c] # Absent => api'[c] # Absent
      /\ running' \subseteq Containers
      /\ \A c \in running' : api'[c] # Absent
  <2>1. ASSUME NEW c \in Containers, NEW image \in ImagesOf[c],
               CreatePod(c, image) \/ ResolveImage(c, image)
        PROVE  <1>1!:
    <3>1. image \in Images
      BY DEF IInv, ClusterTypes, ImagesOf
    <3>2. PICK pod \in Pods : api' = [api EXCEPT ![c] = pod]
      BY <2>1, <3>1 DEF CreatePod, ResolveImage, IInv, ClusterTypes, Pods
    <3> QED
      BY <2>1, <3>2 DEF CreatePod, ResolveImage, IInv, ClusterTypes, RunningAreThere
  <2>2. ASSUME NEW c \in Containers, StartContainer(c) \/ StopContainer(c)
        PROVE  <1>1!:
    BY <2>2 DEF StartContainer, StopContainer, IInv, ClusterTypes, RunningAreThere
  <2> QED
    BY <2>1, <2>2
<1>2. ClusterTypes' /\ PassTypes' /\ SampleTypes'
  BY <1>1 DEF IInv, ClusterTypes, PassTypes, SampleTypes, passVars, sampleVars
<1>3. ListHeld' /\ RunningAreThere' /\ OnlyListedHeld' /\ Dated'
  BY <1>1 DEF IInv, ListHeld, RunningAreThere, OnlyListedHeld, Dated, passVars,
              sampleVars
<1>4. NamedAreHeld' /\ HeldOutlived' /\ DeletedPodForgotten'
  BY <1>1 DEF IInv, NamedAreHeld, HeldOutlived, DeletedPodForgotten, Failing,
              passVars,
              sampleVars
<1> QED
  BY <1>2, <1>3, <1>4 DEF IInv

\* A pod goes when some pass has read the time of the held list and of every
\* sample.
LEMMA DeletePodInv ==
  ASSUME IInv, NEW c \in Containers, DeletePod(c)
  PROVE  IInv'
<1> USE CollectAssumption
<1>1. /\ UNCHANGED <<world, running, passVars, resourceAt>>
      /\ c \notin running
      /\ api' = [api EXCEPT ![c] = Absent]
      /\ deletedAfter' = [deletedAfter EXCEPT ![c] = newest]
      /\ label' = [label EXCEPT ![c] = Absent]
      /\ wrong' = [wrong EXCEPT ![c] = 0]
  BY DEF DeletePod
<1>2. ClusterTypes' /\ PassTypes' /\ SampleTypes'
  BY <1>1 DEF IInv, ClusterTypes, PassTypes, SampleTypes, passVars
<1>3. ListHeld' /\ RunningAreThere' /\ OnlyListedHeld' /\ Dated'
  BY <1>1 DEF IInv, ClusterTypes, PassTypes, SampleTypes, ListHeld, RunningAreThere, OnlyListedHeld, Dated,
              passVars
<1>4. NamedAreHeld'
  BY <1>1 DEF IInv, ClusterTypes, PassTypes, SampleTypes, NamedAreHeld, passVars
<1>5. HeldOutlived'
  BY <1>1 DEF IInv, ClusterTypes, PassTypes, SampleTypes, Lists, HeldOutlived, passVars
<1>6. DeletedPodForgotten'
  BY <1>1 DEF IInv, ClusterTypes, PassTypes, SampleTypes, Dated,
              DeletedPodForgotten, Failing, passVars
<1> QED
  BY <1>2, <1>3, <1>4, <1>5, <1>6 DEF IInv

\* A scrape that begins with the list that is held, or with a new one.
LEMMA KeepListInv ==
  ASSUME IInv, cache # NoList, BeginScrape(cache),
         "pods" \in Failing \/ ~NeedsRefresh(started)
  PROVE  IInv'
<1> USE CollectAssumption
<1>1. /\ UNCHANGED <<clusterVars, started, newest, cache, label, wrong>>
      /\ pc' = "scraping" /\ todo' = Nodes /\ unnamed' = FALSE
      /\ resourceAt' = [c \in Containers |->
                          IF cache.image[c] # Absent /\ started > resourceAt[c]
                          THEN started ELSE resourceAt[c]]
  BY DEF BeginScrape
<1>2. ClusterTypes' /\ PassTypes' /\ SampleTypes'
  BY <1>1 DEF IInv, ClusterTypes, PassTypes, SampleTypes, clusterVars
<1>3. /\ ListHeld' /\ RunningAreThere' /\ OnlyListedHeld' /\ Dated'
      /\ NamedAreHeld' /\ HeldOutlived'
  BY <1>1 DEF IInv, ClusterTypes, PassTypes, SampleTypes, ListHeld, RunningAreThere, OnlyListedHeld, Dated,
              NamedAreHeld, HeldOutlived, clusterVars
<1>4. DeletedPodForgotten'
  BY <1>1 DEF IInv, ClusterTypes, PassTypes, SampleTypes, Lists,
              HeldOutlived, DeletedPodForgotten, Failing,
              NeedsRefresh, clusterVars
<1> QED
  BY <1>2, <1>3, <1>4 DEF IInv

LEMMA FetchListInv == IInv /\ FetchList => IInv'
<1> SUFFICES ASSUME IInv, FetchList PROVE IInv'
  OBVIOUS
<1> USE CollectAssumption
<1>1. /\ UNCHANGED <<clusterVars, started, newest, label, wrong>>
      /\ pc' = "scraping" /\ todo' = Nodes /\ unnamed' = FALSE
      /\ cache' = [image |-> ListedImages, fetchedAt |-> started, stale |-> FALSE]
      /\ resourceAt' = [c \in Containers |->
                          IF ListedImages[c] # Absent /\ started > resourceAt[c]
                          THEN started ELSE resourceAt[c]]
  BY DEF FetchList, BeginScrape
<1>2. cache' \in Lists /\ cache' # NoList
  <2>1. started \in Nat
    BY DEF IInv, ClusterTypes, PassTypes
  <2>2. FALSE \in BOOLEAN
    OBVIOUS
  <2>3. ListedImages \in [Containers -> Images \cup {Absent}]
    BY ListedImagesSound
  <2>4. cache' \in Lists
    BY <1>1, <2>1, <2>2, <2>3 DEF Lists
  <2> QED
    BY <2>4
<1>3. ClusterTypes' /\ PassTypes' /\ SampleTypes'
  BY <1>1, <1>2 DEF IInv, ClusterTypes, PassTypes, SampleTypes, clusterVars
<1>4. ListHeld' /\ RunningAreThere' /\ OnlyListedHeld' /\ Dated'
  BY <1>1, <1>2, ListedImagesSound
  DEF IInv, ClusterTypes, PassTypes, SampleTypes, ListHeld, RunningAreThere,
      OnlyListedHeld, Dated, clusterVars
<1>5. NamedAreHeld' /\ HeldOutlived'
  BY <1>1, <1>2, ListedImagesSound
  DEF IInv, NamedAreHeld, HeldOutlived, clusterVars
<1>6. DeletedPodForgotten'
  BY <1>1, ListedImagesSound DEF IInv, DeletedPodForgotten, Failing, clusterVars
<1> QED
  BY <1>3, <1>4, <1>5, <1>6 DEF IInv

\* What a node reports is labelled from the list.
LEMMA ScrapeNodeInv ==
  ASSUME IInv, NEW n \in Nodes, ScrapeNode(n)
  PROVE  IInv'
<1> USE CollectAssumption
<1>1. /\ UNCHANGED <<clusterVars, pc, started, newest, cache, resourceAt>>
      /\ pc = "scraping" /\ todo' = todo \ {n}
      /\ label' \in [Containers -> Images \cup {Unnamed, Absent}]
      /\ wrong' \in [Containers -> 0..2]
      /\ \A c \in Containers :
           label'[c] # label[c] => c \in running /\ label'[c] = LabelOf(c)
  BY DEF ScrapeNode, IInv, SampleTypes, LabelOf
<1>2. ClusterTypes' /\ PassTypes' /\ SampleTypes'
  BY <1>1 DEF IInv, ClusterTypes, PassTypes, SampleTypes, clusterVars
<1>3. /\ ListHeld' /\ RunningAreThere' /\ OnlyListedHeld' /\ Dated'
      /\ HeldOutlived' /\ DeletedPodForgotten'
  BY <1>1 DEF IInv, ListHeld, RunningAreThere, OnlyListedHeld, Dated,
              HeldOutlived, DeletedPodForgotten, Failing, clusterVars
<1>4. NamedAreHeld'
  <2> SUFFICES ASSUME NEW c \in Containers, label'[c] \in Images
               PROVE  /\ api[c] # Absent /\ c \in Listed
                      /\ cache # NoList /\ cache.image[c] \in Images
    BY <1>1 DEF NamedAreHeld, clusterVars
  <2>1. CASE label'[c] = label[c]
    BY <2>1 DEF IInv, NamedAreHeld
  <2>2. CASE label'[c] # label[c]
    BY <1>1, <2>2 DEF IInv, ListHeld, RunningAreThere, OnlyListedHeld, LabelOf
  <2> QED
    BY <2>1, <2>2
<1> QED
  BY <1>2, <1>3, <1>4 DEF IInv

\* The steps of a pass that touch no sample and of the list at most its mark.
LEMMA OtherInv ==
  ASSUME IInv,
         UNCHANGED <<clusterVars, label, wrong, resourceAt>>,
         pc' \in {"idle", "listing"} \/ UNCHANGED pc,
         newest' \in Nat, newest <= newest', started' \in 0..newest',
         todo' \subseteq todo,
         \/ UNCHANGED cache
         \/ /\ cache # NoList /\ cache' \in Lists /\ cache' # NoList
            /\ cache'.image = cache.image /\ cache'.fetchedAt = cache.fetchedAt
  PROVE  IInv'
<1> USE CollectAssumption
<1>1. ClusterTypes' /\ PassTypes' /\ SampleTypes'
  BY DEF IInv, ClusterTypes, PassTypes, SampleTypes, Lists, clusterVars
<1>2. ListHeld' /\ RunningAreThere' /\ NamedAreHeld' /\ OnlyListedHeld'
  BY DEF IInv, ListHeld, RunningAreThere, NamedAreHeld, OnlyListedHeld,
         clusterVars
<1>3. Dated' /\ HeldOutlived' /\ DeletedPodForgotten'
  BY DEF IInv, ClusterTypes, PassTypes, SampleTypes, Dated, HeldOutlived,
         DeletedPodForgotten, Failing, clusterVars
<1> QED
  BY <1>1, <1>2, <1>3 DEF IInv

LEMMA EndScrapeInv == IInv /\ EndScrape => IInv'
<1> SUFFICES ASSUME IInv, EndScrape PROVE IInv'
  OBVIOUS
<1>1. /\ UNCHANGED <<clusterVars, label, wrong, resourceAt, started, newest, todo>>
      /\ pc' = "idle" /\ cache # NoList
      /\ cache' = [cache EXCEPT !.stale = @ \/ unnamed]
  BY DEF EndScrape, sampleVars, IInv, ListHeld
<1>2. cache \in Lists /\ newest \in Nat /\ newest <= newest /\ started \in 0..newest
  BY <1>1 DEF IInv, PassTypes
<1>3. (cache.stale \/ unnamed) \in BOOLEAN
  OBVIOUS
<1>4. /\ cache' \in Lists
      /\ cache'.image = cache.image /\ cache'.fetchedAt = cache.fetchedAt
  BY <1>1, <1>2, <1>3 DEF Lists
<1>5. cache' # NoList
  BY <1>4, CollectAssumption
<1> QED
  BY <1>1, <1>2, <1>4, <1>5, OtherInv

\* Every other step is one of those above, or nothing.
LEMMA NextInv == IInv /\ [Next]_vars => IInv'
<1> SUFFICES ASSUME IInv, [Next]_vars PROVE IInv'
  OBVIOUS
<1>1. newest \in Nat /\ newest <= newest /\ started \in 0..newest
  BY DEF IInv, PassTypes
<1>2. CASE Cluster
  BY <1>2, ClusterInv, DeletePodInv DEF Cluster
<1>3. CASE BeginPass
  <2>1. PICK now \in Readings :
          started' = now /\ newest' = IF now > newest THEN now ELSE newest
    BY <1>3 DEF BeginPass
  <2>2. now \in Nat
    BY CollectAssumption DEF IInv, ClusterTypes, Readings
  <2>3. newest' \in Nat /\ newest <= newest' /\ started' \in 0..newest'
    BY <1>1, <2>1, <2>2
  <2> QED
    BY <1>3, <2>3, OtherInv DEF BeginPass, sampleVars
<1>4. CASE NodesFail
  BY <1>1, <1>4, OtherInv DEF NodesFail, sampleVars
<1>5. CASE KeepList
  BY <1>5, KeepListInv DEF KeepList, NeedsRefresh
<1>6. CASE FetchList
  BY <1>6, FetchListInv
<1>7. CASE FetchFails
  <2>1. CASE cache # NoList /\ BeginScrape(cache)
    BY <1>7, <2>1, KeepListInv DEF FetchFails
  <2>2. CASE cache = NoList
    BY <1>1, <1>7, <2>2, OtherInv DEF FetchFails, sampleVars
  <2> QED
    BY <1>7, <2>1, <2>2 DEF FetchFails
<1>8. CASE \E n \in Nodes : ScrapeNode(n) \/ NodeFails(n)
  <2>1. ASSUME NEW n \in Nodes, NodeFails(n)
        PROVE  IInv'
    BY <1>1, <2>1, OtherInv DEF NodeFails, sampleVars
  <2> QED
    BY <1>8, <2>1, ScrapeNodeInv
<1>9. CASE EndScrape
  BY <1>9, EndScrapeInv
<1>10. CASE UNCHANGED vars
  BY <1>1, <1>10, OtherInv DEF vars, passVars, sampleVars
<1> QED
  BY <1>2, <1>3, <1>4, <1>5, <1>6, <1>7, <1>8, <1>9, <1>10 DEF Next

THEOREM Invariance == Spec => []IInv
  BY InitInv, NextInv, PTL DEF Spec

-----------------------------------------------------------------------------
\* Whichever calls fail, a pass that goes on has a pod list (src/collect.rs:
\* the `expect` after the refresh).
THEOREM ListAlwaysHeld == Spec => []ListHeld
<1>1. IInv => ListHeld
  BY DEF IInv
<1> QED
  BY <1>1, Invariance, PTL

\* When pod lists can be fetched, the resource samples of a deleted pod end
\* less than one interval past the latest time that any pass had read before
\* the deletion, wherever the clock is set (src/collect.rs: needs_refresh
\* compares two readings of it).
THEOREM DeletedPodAlwaysForgotten == Spec => []DeletedPodForgotten
<1>1. IInv => DeletedPodForgotten
  BY DEF IInv
<1> QED
  BY <1>1, Invariance, PTL

\* A named container is not "unknown" again while its pod is there, whatever
\* fails (src/collect.rs: a failed refresh keeps the list).
THEOREM NamedAlwaysStaysNamed == Spec => NamedStaysNamed
<1>1. IInv /\ [Next]_vars =>
        [\A c \in Containers : label[c] \in Images => label'[c] # Unnamed]_vars
  <2> SUFFICES ASSUME IInv, Next, NEW c \in Containers,
                      label[c] \in Images, label'[c] = Unnamed
               PROVE  FALSE
    OBVIOUS
  <2>1. label' # label
    BY CollectAssumption
  <2>3. \/ \E d \in Containers : DeletePod(d)
        \/ \E n \in Nodes : ScrapeNode(n)
    BY <2>1 DEF Next, Cluster, CreatePod, ResolveImage, StartContainer,
                StopContainer, BeginPass, NodesFail, KeepList, FetchList,
                FetchFails, BeginScrape, NodeFails, EndScrape, sampleVars
  <2>4. CASE \E d \in Containers : DeletePod(d)
    BY <2>4, CollectAssumption DEF DeletePod, IInv, SampleTypes
  <2>5. CASE \E n \in Nodes : ScrapeNode(n)
    BY <2>5, CollectAssumption DEF ScrapeNode, LabelOf, IInv, NamedAreHeld
  <2> QED
    BY <2>3, <2>4, <2>5
<1> QED
  BY <1>1, Invariance, PTL DEF Spec, NamedStaysNamed

-----------------------------------------------------------------------------
\* The second invariant, on top of the first.
Labelled == IInv /\ ImagesKnown /\ SettledSoon /\ Flags

LEMMA InitLabelled == Init => ImagesKnown /\ SettledSoon /\ Flags
<1> SUFFICES ASSUME Init PROVE ImagesKnown /\ SettledSoon /\ Flags
  OBVIOUS
<1>1. /\ \A c \in Containers : api[c] = Absent /\ wrong[c] = 0
      /\ cache = NoList /\ unnamed = FALSE /\ changed = FALSE
  BY DEF Init
<1>2. ImagesKnown
  BY <1>1 DEF ImagesKnown
<1>3. SettledSoon
  <2>1. \A c \in Containers : wrong[c] <= 1 /\ wrong[c] # 1
    <3> SUFFICES ASSUME NEW c \in Containers PROVE wrong[c] <= 1 /\ wrong[c] # 1
      OBVIOUS
    <3>1. wrong[c] = 0
      BY <1>1
    <3> QED
      BY <3>1
  <2> QED
    BY <2>1 DEF SettledSoon
<1>4. Flags
  BY <1>1 DEF Flags
<1> QED
  BY <1>2, <1>3, <1>4

\* With one image each, what a fresh list says of a pod is what the pod says.
LEMMA ImagesAgree ==
  ASSUME IInv, ImagesKnown, NEW c \in Containers
  PROVE  /\ api[c] # Absent => ImageOf(api[c]) \in ImagesOf[c]
         /\ ImagesOf[c] \subseteq Images
         /\ ListedImages[c] \in ImagesOf[c] \cup {Absent}
<1>1. ImagesOf[c] \subseteq Images
  BY CollectAssumption DEF IInv, ClusterTypes, ImagesOf
<1>2. api[c] # Absent => ImageOf(api[c]) \in ImagesOf[c]
  BY DEF ImagesKnown, ImageOf
<1> QED
  BY <1>1, <1>2 DEF ListedImages

LEMMA ClusterLabelled ==
  ASSUME Labelled, Cluster
  PROVE  ImagesKnown' /\ SettledSoon' /\ Flags'
<1> USE CollectAssumption
<1>1. api \in [Containers -> Pods \cup {Absent}] /\ wrong \in [Containers -> 0..2]
  BY DEF Labelled, IInv, ClusterTypes, SampleTypes
<1>2. UNCHANGED <<world, passVars>> /\ changed' \in BOOLEAN
  BY DEF Cluster, CreatePod, ResolveImage, StartContainer, StopContainer,
         DeletePod, Labelled, Flags
<1>3. Flags'
  BY <1>2 DEF Labelled, Flags, passVars
<1> DEFINE Good(d) ==
      /\ api'[d] # Absent => /\ api'[d].spec \in ImagesOf[d]
                             /\ api'[d].status \in ImagesOf[d] \cup {Unset}
      /\ \/ wrong'[d] = 0
         \/ wrong'[d] = wrong[d] /\ (api[d] # Absent => api'[d] # Absent)
<1>4. ASSUME NEW d \in Containers PROVE Good(d)
  <2>1. /\ api[d] # Absent => /\ api[d].spec \in ImagesOf[d]
                              /\ api[d].status \in ImagesOf[d] \cup {Unset}
    BY DEF Labelled, ImagesKnown
  <2>2. CASE UNCHANGED <<api, wrong>>
    BY <2>1, <2>2
  <2>3. ASSUME NEW c \in Containers, NEW image \in ImagesOf[c], CreatePod(c, image)
        PROVE  Good(d)
    BY <1>1, <2>1, <2>3 DEF CreatePod, sampleVars
  <2>4. ASSUME NEW c \in Containers, NEW image \in ImagesOf[c], ResolveImage(c, image)
        PROVE  Good(d)
    <3>1. api' = [api EXCEPT ![c].status = image] /\ UNCHANGED wrong
      BY <2>4 DEF ResolveImage, sampleVars
    <3>2. CASE c # d
      BY <1>1, <2>1, <3>1, <3>2
    <3>3. CASE c = d
      <4>1. api[d] \in Pods
        BY <1>1, <2>4, <3>3 DEF ResolveImage
      <4>2. api'[d] = [api[d] EXCEPT !.status = image]
        BY <1>1, <3>1, <3>3
      <4>3. api'[d] = [spec |-> api[d].spec, status |-> image]
        BY <4>1, <4>2 DEF Pods
      <4>4. api'[d] # Absent
        <5>1. image \in Images
          BY DEF Labelled, IInv, ClusterTypes, ImagesOf
        <5> QED
          BY <4>1, <4>3, <5>1 DEF Pods
      <4>5. api[d] # Absent
        BY <4>1
      <4> QED
        BY <2>1, <3>1, <3>3, <4>3, <4>4, <4>5
    <3> QED
      BY <3>2, <3>3
  <2>5. ASSUME NEW c \in Containers, DeletePod(c)
        PROVE  Good(d)
    BY <1>1, <2>1, <2>5 DEF DeletePod
  <2> QED
    BY <2>2, <2>3, <2>4, <2>5
       DEF Cluster, StartContainer, StopContainer, sampleVars
<1>5. ImagesOf' = ImagesOf /\ Failing' = Failing
  BY <1>2 DEF ImagesOf, Failing
<1>6. ImagesKnown'
  BY <1>2, <1>4, <1>5 DEF Labelled, ImagesKnown, passVars
<1>7. SettledSoon'
  BY <1>2, <1>4, <1>5 DEF Labelled, SettledSoon, OneImageEach, passVars
<1> QED
  BY <1>3, <1>6, <1>7

\* The steps of a pass that change no label.
LEMMA PassLabelled ==
  ASSUME Labelled, BeginPass \/ NodesFail \/ KeepList \/ FetchList \/ FetchFails
  PROVE  ImagesKnown' /\ SettledSoon' /\ Flags'
<1> USE CollectAssumption
<1>1. /\ UNCHANGED <<world, api, wrong>>
      /\ unnamed' \in BOOLEAN /\ changed' \in BOOLEAN
      /\ pc' # "scraping" \/ pc = "listing"
  BY DEF Labelled, Flags, BeginPass, NodesFail, KeepList, FetchList, FetchFails,
         BeginScrape, clusterVars, sampleVars
<1>2. \/ UNCHANGED cache
      \/ /\ FetchList
         /\ cache' = [image |-> ListedImages, fetchedAt |-> started, stale |-> FALSE]
  BY DEF BeginPass, NodesFail, KeepList, FetchList, FetchFails, BeginScrape
<1>3. ImagesOf' = ImagesOf /\ Failing' = Failing
  BY <1>1 DEF ImagesOf, Failing
<1>4. ImagesKnown'
  <2>1. \A c \in Containers : ListedImages[c] \in ImagesOf[c] \cup {Absent}
    BY ImagesAgree DEF Labelled
  <2> QED
    BY <1>1, <1>2, <1>3, <2>1 DEF Labelled, ImagesKnown
<1>5. SettledSoon'
  <2> SUFFICES ASSUME OneImageEach, NEW c \in Containers
               PROVE  /\ wrong[c] <= 1
                      /\ wrong[c] = 1 =>
                           /\ api[c] # Absent /\ cache' # NoList
                           /\ \/ cache'.image[c] \in Images
                              \/ pc' # "scraping" /\ cache'.stale
    BY <1>1, <1>3 DEF SettledSoon, OneImageEach
  <2>1. /\ wrong[c] <= 1
        /\ wrong[c] = 1 =>
             /\ api[c] # Absent /\ cache # NoList
             /\ \/ cache.image[c] \in Images
                \/ pc # "scraping" /\ cache.stale
                \/ pc = "scraping"
    BY DEF Labelled, SettledSoon
  <2>2. CASE BeginPass \/ NodesFail
    BY <2>1, <2>2 DEF BeginPass, NodesFail
  <2>3. CASE KeepList
    BY <2>1, <2>3 DEF KeepList, BeginScrape, NeedsRefresh
  <2>4. CASE FetchList
    <3>1. cache' = [image |-> ListedImages, fetchedAt |-> started, stale |-> FALSE]
      BY <2>4 DEF FetchList, BeginScrape
    <3>2. cache' \in Lists
      <4>1. started \in Nat
        BY DEF Labelled, IInv, ClusterTypes, PassTypes
      <4> QED
        BY <3>1, <4>1, ListedImagesSound DEF Labelled, Lists
    <3>3. api[c] # Absent => cache'.image[c] \in Images
      BY <3>1, ListedImagesSound DEF Labelled, OneImageEach
    <3> QED
      BY <2>1, <3>2, <3>3
  <2>5. CASE FetchFails
    BY <2>5 DEF FetchFails, OneImageEach
  <2> QED
    BY <2>2, <2>3, <2>4, <2>5
<1> QED
  BY <1>1, <1>4, <1>5 DEF Flags

\* A container that is mislabelled has no image in the list, so the pass
\* notes it; and it is not mislabelled again.
LEMMA ScrapeLabelled ==
  ASSUME Labelled, NEW n \in Nodes, ScrapeNode(n)
  PROVE  ImagesKnown' /\ SettledSoon' /\ Flags'
<1> USE CollectAssumption
<1> DEFINE reported == {c \in running : NodeOf[c] = n}
<1>1. /\ UNCHANGED <<world, api, pc, cache, changed>>
      /\ pc = "scraping" /\ n \in todo /\ todo' = todo \ {n}
      /\ unnamed' = (unnamed \/ \E c \in reported : LabelOf(c) = Unnamed)
      /\ wrong' = [c \in Containers |->
                     IF c \notin reported THEN wrong[c]
                     ELSE IF LabelOf(c) = ImageOf(api[c]) THEN 0
                     ELSE IF wrong[c] = 0 THEN 1 ELSE 2]
  BY DEF ScrapeNode, clusterVars
<1>2. ImagesOf' = ImagesOf /\ Failing' = Failing
  BY <1>1 DEF ImagesOf, Failing
<1>3. ImagesKnown' /\ Flags'
  BY <1>1, <1>2 DEF Labelled, ImagesKnown, Flags
<1>4. ASSUME OneImageEach, NEW c \in Containers
      PROVE  /\ wrong'[c] <= 1
             /\ wrong'[c] = 1 =>
                  /\ api[c] # Absent /\ cache # NoList
                  /\ \/ cache.image[c] \in Images
                     \/ unnamed' /\ NodeOf[c] \notin todo'
  <2>1. /\ wrong[c] \in 0..2 /\ wrong[c] <= 1
        /\ wrong[c] = 1 =>
             /\ api[c] # Absent /\ cache # NoList
             /\ \/ cache.image[c] \in Images
                \/ unnamed /\ NodeOf[c] \notin todo
    BY <1>1, <1>4 DEF Labelled, SettledSoon, IInv, SampleTypes
  <2>2. CASE c \notin reported
    <3>1. wrong'[c] = wrong[c]
      BY <1>1, <2>2
    <3> QED
      BY <1>1, <2>1, <3>1
  <2>3. CASE c \in reported /\ LabelOf(c) = ImageOf(api[c])
    <3>1. wrong'[c] = 0
      BY <1>1, <2>3
    <3> QED
      BY <3>1
  <2>4. CASE c \in reported /\ LabelOf(c) # ImageOf(api[c])
    <3>1. api[c] # Absent /\ cache # NoList
      BY <1>1, <2>4 DEF Labelled, IInv, RunningAreThere, ListHeld
    <3>2. cache.image[c] \notin Images
      <4>1. ImageOf(api[c]) \in ImagesOf[c] /\ ImagesOf[c] \subseteq Images
        BY <3>1, ImagesAgree DEF Labelled
      <4>2. cache.image[c] \in ImagesOf[c] \cup {Absent}
        BY <3>1 DEF Labelled, ImagesKnown
      <4> QED
        BY <1>4, <2>4, <4>1, <4>2 DEF LabelOf, OneImageEach
    <3>3. wrong[c] = 0
      BY <1>1, <2>1, <2>4, <3>2
    <3>4. unnamed'
      BY <1>1, <2>4, <3>2 DEF LabelOf
    <3> QED
      BY <1>1, <2>4, <3>1, <3>3, <3>4
  <2> QED
    BY <2>2, <2>3, <2>4
<1>5. SettledSoon'
  BY <1>1, <1>2, <1>4 DEF SettledSoon, OneImageEach
<1> QED
  BY <1>3, <1>5

\* A node that does not answer, and the end of a pass.
LEMMA RestLabelled ==
  ASSUME Labelled, EndScrape \/ (\E n \in Nodes : NodeFails(n)) \/ UNCHANGED vars
  PROVE  ImagesKnown' /\ SettledSoon' /\ Flags'
<1> USE CollectAssumption
<1>1. CASE EndScrape
  <2>1. /\ UNCHANGED <<world, api, wrong, unnamed, changed>>
        /\ pc = "scraping" /\ pc' = "idle"
        /\ cache' = [cache EXCEPT !.stale = @ \/ unnamed]
    BY <1>1 DEF EndScrape, clusterVars, sampleVars
  <2>2. cache \in Lists /\ unnamed \in BOOLEAN
    BY <2>1 DEF Labelled, Flags, IInv, ListHeld, PassTypes
  <2>3. cache' = [image |-> cache.image, fetchedAt |-> cache.fetchedAt,
                  stale |-> (cache.stale \/ unnamed)]
    BY <2>1, <2>2 DEF Lists
  <2>4. cache' \in Lists /\ cache'.image = cache.image
        /\ (unnamed => cache'.stale)
    BY <2>2, <2>3 DEF Lists
  <2>5. cache # NoList /\ cache' # NoList
    BY <2>2, <2>4
  <2>6. ImagesOf' = ImagesOf /\ Failing' = Failing
    BY <2>1 DEF ImagesOf, Failing
  <2>7. ImagesKnown' /\ Flags'
    BY <2>1, <2>4, <2>5, <2>6 DEF Labelled, ImagesKnown, Flags
  <2>8. SettledSoon'
    BY <2>1, <2>4, <2>5, <2>6 DEF Labelled, SettledSoon, OneImageEach
  <2> QED
    BY <2>7, <2>8
<1>2. ASSUME NEW n \in Nodes, NodeFails(n) \/ UNCHANGED vars
      PROVE  ImagesKnown' /\ SettledSoon' /\ Flags'
  <2>1. /\ UNCHANGED <<world, api, pc, cache, unnamed, wrong, changed>>
        /\ todo' \subseteq todo
    BY <1>2 DEF NodeFails, vars, clusterVars, passVars, sampleVars
  <2>2. ImagesOf' = ImagesOf /\ Failing' = Failing
    BY <2>1 DEF ImagesOf, Failing
  <2>3. ImagesKnown' /\ Flags'
    BY <2>1, <2>2 DEF Labelled, ImagesKnown, Flags
  <2>4. SettledSoon'
    BY <2>1, <2>2 DEF Labelled, SettledSoon, OneImageEach
  <2> QED
    BY <2>3, <2>4
<1>3. CASE UNCHANGED vars
  BY <1>3
     DEF vars, clusterVars, passVars, sampleVars, Labelled, ImagesKnown,
         SettledSoon, OneImageEach, Flags, ImagesOf, Failing
<1> QED
  BY <1>1, <1>2, <1>3

THEOREM LabelledAlways == Spec => []Labelled
<1>1. Init => Labelled
  BY InitInv, InitLabelled DEF Labelled
<1>2. Labelled /\ [Next]_vars => Labelled'
  <2> SUFFICES ASSUME Labelled, [Next]_vars
               PROVE  ImagesKnown' /\ SettledSoon' /\ Flags'
    BY NextInv DEF Labelled
  <2> QED
    BY ClusterLabelled, PassLabelled, ScrapeLabelled, RestLabelled DEF Next
<1> QED
  BY <1>1, <1>2, PTL DEF Spec

\* Every variable keeps its range: images of the cluster's, and lists that
\* are dated no later than what some pass has read.
THEOREM TypeCorrect == Spec => []TypeOK
<1>1. Labelled => TypeOK
  BY DEF Labelled, IInv, Flags, TypeOK
<1> QED
  BY <1>1, LabelledAlways, PTL

\* Whatever comes and goes between the calls of a pass, a container that was
\* labelled wrongly is labelled rightly by its next sample, when pod lists
\* can be fetched and each container has one image for life
\* (src/collect.rs: a container without an image marks the list stale).
THEOREM AlwaysSettled == Spec => []SettledAfterOneScrape
<1>1. Labelled => SettledAfterOneScrape
  BY DEF Labelled, SettledSoon, OneImageEach, SettledAfterOneScrape,
         WindowIsOneScrape
<1> QED
  BY <1>1, LabelledAlways, PTL

-----------------------------------------------------------------------------
\* While nothing has changed since the held list was fetched, and a list
\* names every container, the list has an image for every pod that is there;
\* so no pass finds a container without one, and none marks the list stale.
Governed ==
  Listed = Containers /\ cache # NoList /\ ~changed =>
    /\ ~cache.stale
    /\ \A c \in Containers : api[c] # Absent => cache.image[c] \in Images
    /\ pc = "scraping" => ~unnamed

LEMMA GovernedStep ==
  ASSUME Labelled, Governed, [Next]_vars
  PROVE  Governed'
<1> USE CollectAssumption
<1> SUFFICES ASSUME Listed = Containers, cache' # NoList, ~changed'
             PROVE  /\ ~cache'.stale
                    /\ \A c \in Containers : api'[c] # Absent => cache'.image[c] \in Images
                    /\ pc' = "scraping" => ~unnamed'
  BY DEF Governed
<1>1. CASE FetchList
  <2>1. /\ cache' = [image |-> ListedImages, fetchedAt |-> started, stale |-> FALSE]
        /\ api' = api /\ unnamed' = FALSE
    BY <1>1 DEF FetchList, BeginScrape, clusterVars
  <2>2. \A c \in Containers : api[c] # Absent => ListedImages[c] \in Images
    BY ListedImagesSound DEF Labelled
  <2> QED
    BY <2>1, <2>2
<1>2. CASE KeepList \/ FetchFails
  <2>1. /\ cache' = cache /\ api' = api /\ changed' = changed
        /\ pc' = "scraping" => unnamed' = FALSE
    BY <1>2 DEF KeepList, FetchFails, BeginScrape, clusterVars
  <2> QED
    BY <2>1 DEF Governed
<1>3. ASSUME NEW n \in Nodes, ScrapeNode(n)
      PROVE  /\ ~cache'.stale
             /\ \A c \in Containers : api'[c] # Absent => cache'.image[c] \in Images
             /\ pc' = "scraping" => ~unnamed'
  <2>1. /\ UNCHANGED <<cache, api, running, changed>> /\ pc = "scraping"
        /\ unnamed' = (unnamed \/ \E c \in {d \in running : NodeOf[d] = n} :
                                     LabelOf(c) = Unnamed)
    BY <1>3 DEF ScrapeNode, clusterVars
  <2>2. \A c \in running : c \in Containers /\ api[c] # Absent
    BY DEF Labelled, IInv, ClusterTypes, RunningAreThere
  <2>3. \A c \in running : LabelOf(c) # Unnamed
    BY <2>1, <2>2 DEF Governed, LabelOf
  <2> QED
    BY <2>1, <2>3 DEF Governed
<1>4. CASE EndScrape
  <2>1. /\ UNCHANGED <<api, changed, unnamed>> /\ pc = "scraping" /\ pc' = "idle"
        /\ cache' = [cache EXCEPT !.stale = @ \/ unnamed]
    BY <1>4 DEF EndScrape, clusterVars
  <2>2. cache \in Lists /\ cache # NoList
    BY <2>1 DEF Labelled, IInv, ListHeld, PassTypes
  <2>3. cache'.image = cache.image /\ cache'.stale = (cache.stale \/ unnamed)
    BY <2>1, <2>2 DEF Lists
  <2> QED
    BY <2>1, <2>2, <2>3 DEF Governed
<1>5. CASE \/ BeginPass \/ NodesFail \/ UNCHANGED vars
           \/ \E n \in Nodes : NodeFails(n)
  <2>1. UNCHANGED <<api, cache, unnamed, changed>> /\ (pc' = "scraping" => pc = "scraping")
    BY <1>5 DEF BeginPass, NodesFail, NodeFails, vars, passVars, clusterVars
  <2> QED
    BY <2>1 DEF Governed
<1>6. CASE Cluster
  BY <1>6 DEF Cluster, CreatePod, ResolveImage, StartContainer, StopContainer,
              DeletePod
<1> QED
  BY <1>1, <1>2, <1>3, <1>4, <1>5, <1>6 DEF Next

\* The pod list is read before the interval is over only if the cluster has
\* changed since the list was fetched, provided that a list names every
\* container a kubelet reports (src/collect.rs: "the interval governs only
\* the case where nothing changed").
THEOREM IntervalAlwaysGoverns == Spec => IntervalGoverns
<1>1. Init => Governed
  BY DEF Init, Governed
<1>2. Labelled /\ Governed /\ [Next]_vars => Governed'
  BY GovernedStep
<1>3. Spec => []Governed
  BY <1>1, <1>2, LabelledAlways, PTL DEF Spec
<1>4. Labelled /\ Governed =>
        [/\ Listed = Containers
         /\ FetchList /\ cache # NoList
         /\ started - cache.fetchedAt < RefreshInterval
         => changed]_vars
  <2> SUFFICES ASSUME Labelled, Governed, Listed = Containers, FetchList,
                      cache # NoList, started - cache.fetchedAt < RefreshInterval
               PROVE  changed
    OBVIOUS
  <2>1. ~(started - cache.fetchedAt >= RefreshInterval)
    BY CollectAssumption DEF Labelled, IInv, ClusterTypes, PassTypes, Lists
  <2>2. cache.stale
    BY <2>1 DEF FetchList, NeedsRefresh
  <2> QED
    BY <2>2 DEF Governed
<1> QED
  BY <1>3, <1>4, LabelledAlways, PTL DEF IntervalGoverns

=============================================================================
