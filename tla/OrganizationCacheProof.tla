----------------------- MODULE OrganizationCacheProof -----------------------
(***************************************************************************)
(* Proofs about OrganizationCache, for any number of runs and of renames   *)
(* and whatever the shared file comes to hold.  The file itself needs no   *)
(* invariant beyond its type: a run is safe because it knows where its     *)
(* slug is from, and this is what Standing says.                           *)
(***************************************************************************)
EXTENDS OrganizationCache, TLAPS

(* What a run knows of its slug, and how many discoveries it has left. *)
Standing(r) ==
    /\ discoveries[r] <= 1
    /\ wasCached[r] => discoveries[r] = 0
    /\ pc[r] = "idle" => discoveries[r] = 0
    /\ pc[r] = "invalidate" => wasCached[r]
    /\ pc[r] = "discover" => ~wasCached[r] /\ discoveries[r] = 0
    /\ pc[r] \in {"open", "write"} => ~wasCached[r] /\ organization[r] \in Slugs
    /\ pc[r] \in {"open", "write", "request", "next page"} /\ ~wasCached[r]
         => discoveries[r] = 1 /\ (~renamed[r] => organization[r] = slug)
    /\ pc[r] = "next page" => link[r] # None /\ (~renamed[r] => link[r] = slug)
    /\ pc[r] = "not found" /\ misdirected[r]
         => renamed[r] /\ (discoveries[r] = 1 \/ link[r] # None)

IInv == TypeOK /\ \A r \in Runs : Standing(r)

----------------------------------------------------------------------------
(* A step of run r that leaves the service alone is examined for r alone. *)
LEMMA StepOfOne ==
    ASSUME IInv, NEW r \in Runs, TypeOK', UNCHANGED slug, Standing(r)',
           \A s \in Runs \ {r} :
               /\ pc'[s] = pc[s] /\ organization'[s] = organization[s]
               /\ wasCached'[s] = wasCached[s] /\ link'[s] = link[s]
               /\ discoveries'[s] = discoveries[s] /\ renamed'[s] = renamed[s]
               /\ misdirected'[s] = misdirected[s]
    PROVE  IInv'
  <1>1. ASSUME NEW s \in Runs \ {r}
        PROVE  Standing(s)'
    <2>1. Standing(s)
      BY DEF IInv
    <2>2. UNCHANGED <<slug, pc[s], organization[s], wasCached[s], link[s], discoveries[s],
                      renamed[s], misdirected[s]>>
      OBVIOUS
    <2> QED  BY <2>1, <2>2 DEF Standing
  <1> QED  BY <1>1 DEF IInv

(* What is known of run r before a step of its own. *)
LEMMA OwnStep ==
    ASSUME IInv, NEW r \in Runs
    PROVE  /\ Standing(r)
           /\ pc[r] \in PCs
           /\ organization[r] \in Slugs \cup {Garbled, None}
           /\ wasCached[r] \in BOOLEAN /\ renamed[r] \in BOOLEAN /\ misdirected[r] \in BOOLEAN
           /\ discoveries[r] \in 0 .. 2
  BY DEF IInv, TypeOK

LEMMA InitEstablishes == Init => IInv
  <1> SUFFICES ASSUME Init PROVE IInv
    OBVIOUS
  <1>1. 0 \in Slugs
    BY CacheAssumption DEF Slugs
  <1>2. TypeOK
    BY <1>1 DEF Init, TypeOK, PCs
  <1>3. ASSUME NEW r \in Runs PROVE Standing(r)
    <2>1. /\ pc[r] = "idle" /\ wasCached[r] = FALSE /\ discoveries[r] = 0
      BY DEF Init
    <2> QED  BY <2>1 DEF Standing
  <1> QED  BY <1>2, <1>3 DEF IInv

(* A rename makes every run under way one during which the organization was renamed. *)
LEMMA RenamePreserves ==
    ASSUME IInv, Rename
    PROVE  IInv'
  <1>1. /\ UNCHANGED <<file, permitted, pc, handle, organization, wasCached, link, discoveries,
                       misdirected>>
        /\ renamed' = [r \in Runs |-> pc[r] # "idle"]
    BY DEF Rename, client
  <1>2. slug' \in Slugs
    BY CacheAssumption DEF Rename, IInv, TypeOK, Slugs
  <1>3. TypeOK'
    BY <1>1, <1>2 DEF IInv, TypeOK
  <1>4. ASSUME NEW r \in Runs PROVE Standing(r)'
    <2>1. Standing(r) /\ renamed'[r] = (pc[r] # "idle")
      BY <1>1 DEF IInv
    <2> QED  BY <1>1, <2>1 DEF Standing
  <1> QED  BY <1>3, <1>4 DEF IInv

(* What the file system permits is of no concern to a run. *)
LEMMA PermitPreserves ==
    ASSUME IInv, Permit
    PROVE  IInv'
  <1>1. permitted' \subseteq Rights
    BY DEF Permit, IInv, TypeOK
  <1> QED  BY <1>1 DEF Permit, client, ghosts, IInv, TypeOK, Standing

(* A fresh process: its slug is cached, or it is about to discover one. *)
LEMMA LaunchPreserves ==
    ASSUME IInv, NEW r \in Runs, Launch(r)
    PROVE  IInv'
  <1>1. PICK hit \in BOOLEAN :
          /\ hit => file \notin {Absent, Empty}
          /\ pc' = [pc EXCEPT ![r] = IF hit THEN "request" ELSE "discover"]
          /\ organization' = [organization EXCEPT ![r] = IF hit THEN file ELSE None]
          /\ wasCached' = [wasCached EXCEPT ![r] = hit]
    BY DEF Launch, Goto
  <1>2. /\ pc[r] = "idle"
        /\ UNCHANGED <<slug, file, permitted, handle, link, discoveries, renamed, misdirected>>
    BY DEF Launch, ghosts
  <1>3. hit => file \in Slugs \cup {Garbled}
    BY <1>1 DEF IInv, TypeOK
  <1>4. TypeOK'
    <2>1. pc' \in [Runs -> PCs]
      BY <1>1 DEF IInv, TypeOK, PCs
    <2>2. organization' \in [Runs -> Slugs \cup {Garbled, None}]
      BY <1>1, <1>3 DEF IInv, TypeOK
    <2>3. wasCached' \in [Runs -> BOOLEAN]
      BY <1>1 DEF IInv, TypeOK
    <2> QED  BY <1>2, <2>1, <2>2, <2>3 DEF IInv, TypeOK
  <1>5. Standing(r)'
    <2>1. discoveries[r] = 0
      BY <1>2, OwnStep DEF Standing
    <2>2. /\ pc'[r] = IF hit THEN "request" ELSE "discover"
          /\ wasCached'[r] = hit /\ discoveries'[r] = 0
      BY <1>1, <1>2, <2>1 DEF IInv, TypeOK
    <2> QED  BY <2>2 DEF Standing
  <1>6. \A s \in Runs \ {r} :
          pc'[s] = pc[s] /\ organization'[s] = organization[s] /\ wasCached'[s] = wasCached[s]
    BY <1>1 DEF IInv, TypeOK
  <1> QED  BY <1>2, <1>4, <1>5, <1>6, StepOfOne

LEMMA DiscoverPreserves ==
    ASSUME IInv, NEW r \in Runs, Discover(r)
    PROVE  IInv'
  <1>1. /\ pc' = [pc EXCEPT ![r] = "open"]
        /\ organization' = [organization EXCEPT ![r] = slug]
        /\ wasCached' = [wasCached EXCEPT ![r] = FALSE]
        /\ discoveries' = [discoveries EXCEPT ![r] = 1]
        /\ UNCHANGED <<slug, file, permitted, handle, link, renamed, misdirected>>
    <2>1. discoveries[r] = 0
      BY OwnStep DEF Discover, Standing
    <2> QED  BY <2>1 DEF Discover, Goto, Bound
  <1>2. TypeOK'
    <2>1. pc' \in [Runs -> PCs] /\ wasCached' \in [Runs -> BOOLEAN]
      BY <1>1 DEF IInv, TypeOK, PCs
    <2>2. organization' \in [Runs -> Slugs \cup {Garbled, None}]
      BY <1>1 DEF IInv, TypeOK
    <2>3. discoveries' \in [Runs -> 0 .. 2]
      BY <1>1 DEF IInv, TypeOK
    <2> QED  BY <1>1, <2>1, <2>2, <2>3 DEF IInv, TypeOK
  <1>3. Standing(r)'
    <2>1. /\ pc'[r] = "open" /\ organization'[r] = slug /\ wasCached'[r] = FALSE
          /\ discoveries'[r] = 1
      BY <1>1 DEF IInv, TypeOK
    <2>2. slug \in Slugs /\ UNCHANGED slug
      BY <1>1 DEF IInv, TypeOK
    <2> QED  BY <2>1, <2>2 DEF Standing
  <1>4. \A s \in Runs \ {r} :
          /\ pc'[s] = pc[s] /\ organization'[s] = organization[s]
          /\ wasCached'[s] = wasCached[s] /\ link'[s] = link[s]
          /\ discoveries'[s] = discoveries[s] /\ renamed'[s] = renamed[s]
          /\ misdirected'[s] = misdirected[s]
    BY <1>1 DEF IInv, TypeOK
  <1> QED  BY <1>1, <1>2, <1>3, <1>4, StepOfOne

(* The file may be truncated, rewritten or garbled: no run relies on what it holds. *)
LEMMA CacheWritesPreserve ==
    ASSUME IInv, NEW r \in Runs, OpenCache(r) \/ SkipCache(r) \/ WriteCache(r)
    PROVE  IInv'
  <1>1. /\ UNCHANGED <<slug, permitted, organization, wasCached, link, discoveries, renamed,
                       misdirected>>
        /\ pc[r] \in {"open", "write"}
        /\ pc' = [pc EXCEPT ![r] = "write"] \/ pc' = [pc EXCEPT ![r] = "request"]
        /\ handle' = [handle EXCEPT ![r] = "linked"] \/ handle' = [handle EXCEPT ![r] = "closed"]
    BY DEF OpenCache, SkipCache, WriteCache, Goto, client, ghosts
  <1>2. organization[r] \in Slugs
    BY <1>1, OwnStep DEF Standing
  <1>3. file' \in {file, Empty, organization[r], Garbled}
    BY DEF OpenCache, SkipCache, WriteCache
  <1>4. TypeOK'
    <2>1. file' \in Slugs \cup {Absent, Empty, Garbled}
      BY <1>2, <1>3 DEF IInv, TypeOK
    <2>2. pc' \in [Runs -> PCs] /\ handle' \in [Runs -> {"closed", "linked", "unlinked"}]
      BY <1>1 DEF IInv, TypeOK, PCs
    <2> QED  BY <1>1, <2>1, <2>2 DEF IInv, TypeOK
  <1>5. Standing(r)'
    <2>1. pc'[r] \in {"write", "request"}
      BY <1>1 DEF IInv, TypeOK
    <2> QED  BY <1>1, <2>1, OwnStep DEF Standing
  <1>6. \A s \in Runs \ {r} : pc'[s] = pc[s]
    BY <1>1 DEF IInv, TypeOK
  <1> QED  BY <1>1, <1>4, <1>5, <1>6, StepOfOne

----------------------------------------------------------------------------
(* A page is asked for under the slug of the page before it, never under an old one. *)
LEMMA RequestPreserves ==
    ASSUME IInv, NEW r \in Runs, Request(r)
    PROVE  IInv'
  <1>1. /\ UNCHANGED <<slug, file, permitted, handle, organization, wasCached, discoveries, renamed>>
        /\ pc[r] \in {"request", "next page"}
    BY DEF Request
  <1> DEFINE path == IF pc[r] = "request" THEN organization[r] ELSE link[r]
  <1>2. CASE path = slug /\ Answered(r) /\ UNCHANGED misdirected
    <2>1. /\ \/ pc' = [pc EXCEPT ![r] = "request"] /\ link' = [link EXCEPT ![r] = None]
             \/ pc' = [pc EXCEPT ![r] = "next page"] /\ link' = [link EXCEPT ![r] = slug]
          /\ UNCHANGED misdirected
      BY <1>2 DEF Answered, Goto
    <2>2. /\ pc'[r] \in {"request", "next page"}
          /\ pc'[r] = "next page" => link'[r] = slug
      BY <2>1 DEF IInv, TypeOK
    <2>3. slug # None
      BY CacheAssumption DEF IInv, TypeOK
    <2>4. TypeOK'
      <3>1. pc' \in [Runs -> PCs]
        BY <2>1 DEF IInv, TypeOK, PCs
      <3>2. link' \in [Runs -> Slugs \cup {None}]
        BY <2>1 DEF IInv, TypeOK
      <3> QED  BY <1>1, <2>1, <3>1, <3>2 DEF IInv, TypeOK
    <2>5. Standing(r)'
      <3>1. ~wasCached[r] => discoveries[r] = 1 /\ (~renamed[r] => organization[r] = slug)
        BY <1>1, OwnStep DEF Standing
      <3> QED  BY <1>1, <2>2, <2>3, <3>1, OwnStep DEF Standing
    <2>6. \A s \in Runs \ {r} : pc'[s] = pc[s] /\ link'[s] = link[s]
      BY <2>1 DEF IInv, TypeOK
    <2> QED  BY <1>1, <2>1, <2>4, <2>5, <2>6, StepOfOne
  <1>3. CASE NotFound(r, path)
    <2>1. /\ misdirected' = [misdirected EXCEPT ![r] = path # slug]
          /\ pc' = [pc EXCEPT ![r] = IF wasCached[r] /\ pc[r] = "request"
                                       THEN "invalidate" ELSE "not found"]
          /\ UNCHANGED link
      BY <1>3 DEF NotFound, Goto
    <2>2. /\ pc'[r] \in {"invalidate", "not found"}
          /\ pc'[r] = "invalidate" => wasCached[r]
          /\ pc'[r] = "not found" => ~wasCached[r] \/ pc[r] = "next page"
      BY <1>1, <2>1 DEF IInv, TypeOK
    <2>3. /\ pc'[r] = "not found" /\ ~renamed[r] => path = slug
          /\ pc'[r] = "not found" => discoveries[r] = 1 \/ link[r] # None
      BY <1>1, <2>2, OwnStep DEF Standing
    <2>4. TypeOK'
      <3>1. pc' \in [Runs -> PCs] /\ misdirected' \in [Runs -> BOOLEAN]
        BY <2>1 DEF IInv, TypeOK, PCs
      <3> QED  BY <1>1, <2>1, <3>1 DEF IInv, TypeOK
    <2>5. Standing(r)'
      <3>1. misdirected'[r] = (path # slug)
        BY <2>1 DEF IInv, TypeOK
      <3>2. pc'[r] = "not found" /\ misdirected'[r]
              => renamed'[r] /\ (discoveries'[r] = 1 \/ link'[r] # None)
        <4> HIDE DEF path
        <4> QED  BY <1>1, <2>1, <2>3, <3>1, OwnStep
      <3>3. discoveries[r] <= 1 /\ (wasCached[r] => discoveries[r] = 0)
        BY OwnStep DEF Standing
      <3> QED  BY <1>1, <2>2, <3>2, <3>3 DEF Standing
    <2>6. \A s \in Runs \ {r} : pc'[s] = pc[s] /\ misdirected'[s] = misdirected[s]
      BY <2>1 DEF IInv, TypeOK
    <2> QED  BY <1>1, <2>1, <2>4, <2>5, <2>6, StepOfOne
  <1> QED  BY <1>2, <1>3 DEF Request

LEMMA InvalidatePreserves ==
    ASSUME IInv, NEW r \in Runs, Invalidate(r)
    PROVE  IInv'
  <1>1. /\ pc[r] = "invalidate"
        /\ pc' = [pc EXCEPT ![r] = "discover"]
        /\ organization' = [organization EXCEPT ![r] = None]
        /\ wasCached' = [wasCached EXCEPT ![r] = FALSE]
        /\ file' \in {Absent, file}
        /\ \/ UNCHANGED handle
           \/ handle' = [s \in Runs |-> IF handle[s] = "linked" THEN "unlinked" ELSE handle[s]]
        /\ UNCHANGED <<slug, permitted, link, discoveries, renamed, misdirected>>
    BY DEF Invalidate, Removed, NotRemoved, Goto, ghosts
  <1>2. discoveries[r] = 0
    BY <1>1, OwnStep DEF Standing
  <1>3. TypeOK'
    <2>1. /\ pc' \in [Runs -> PCs] /\ wasCached' \in [Runs -> BOOLEAN]
          /\ handle' \in [Runs -> {"closed", "linked", "unlinked"}]
      BY <1>1 DEF IInv, TypeOK, PCs
    <2>2. organization' \in [Runs -> Slugs \cup {Garbled, None}]
      BY <1>1 DEF IInv, TypeOK
    <2> QED  BY <1>1, <2>1, <2>2 DEF IInv, TypeOK
  <1>4. Standing(r)'
    <2>1. pc'[r] = "discover" /\ wasCached'[r] = FALSE /\ discoveries'[r] = 0
      BY <1>1, <1>2 DEF IInv, TypeOK
    <2> QED  BY <2>1 DEF Standing
  <1>5. \A s \in Runs \ {r} : /\ pc'[s] = pc[s] /\ organization'[s] = organization[s]
                               /\ wasCached'[s] = wasCached[s]
    BY <1>1 DEF IInv, TypeOK
  <1> QED  BY <1>1, <1>3, <1>4, <1>5, StepOfOne

(* However a process ends, it leaves nothing that the next process relies on. *)
LEMMA ExitPreserves ==
    ASSUME IInv, NEW r \in Runs, Exit(r)
    PROVE  IInv'
  <1>1. /\ UNCHANGED <<slug, file, permitted>>
        /\ pc' = [pc EXCEPT ![r] = "idle"]
        /\ handle' = [handle EXCEPT ![r] = "closed"]
        /\ organization' = [organization EXCEPT ![r] = None]
        /\ wasCached' = [wasCached EXCEPT ![r] = FALSE]
        /\ link' = [link EXCEPT ![r] = None]
        /\ discoveries' = [discoveries EXCEPT ![r] = 0]
        /\ renamed' = [renamed EXCEPT ![r] = FALSE]
        /\ misdirected' = [misdirected EXCEPT ![r] = FALSE]
    BY DEF Exit, Goto
  <1>2. TypeOK'
    <2>1. /\ pc' \in [Runs -> PCs] /\ handle' \in [Runs -> {"closed", "linked", "unlinked"}]
          /\ organization' \in [Runs -> Slugs \cup {Garbled, None}]
          /\ wasCached' \in [Runs -> BOOLEAN]
      BY <1>1 DEF IInv, TypeOK, PCs
    <2>2. /\ link' \in [Runs -> Slugs \cup {None}] /\ discoveries' \in [Runs -> 0 .. 2]
          /\ renamed' \in [Runs -> BOOLEAN] /\ misdirected' \in [Runs -> BOOLEAN]
      BY <1>1 DEF IInv, TypeOK
    <2> QED  BY <1>1, <2>1, <2>2 DEF IInv, TypeOK
  <1>3. Standing(r)'
    <2>1. pc'[r] = "idle" /\ wasCached'[r] = FALSE /\ discoveries'[r] = 0
      BY <1>1 DEF IInv, TypeOK
    <2> QED  BY <2>1 DEF Standing
  <1>4. \A s \in Runs \ {r} :
          /\ pc'[s] = pc[s] /\ organization'[s] = organization[s]
          /\ wasCached'[s] = wasCached[s] /\ link'[s] = link[s]
          /\ discoveries'[s] = discoveries[s] /\ renamed'[s] = renamed[s]
          /\ misdirected'[s] = misdirected[s]
    BY <1>1 DEF IInv, TypeOK
  <1> QED  BY <1>1, <1>2, <1>3, <1>4, StepOfOne

----------------------------------------------------------------------------
(* The invariant is inductive: for the renames and for every step of every run. *)
THEOREM Inductive == Spec => []IInv
  <1>1. IInv /\ [Next]_vars => IInv'
    <2> SUFFICES ASSUME IInv, [Next]_vars PROVE IInv'
      OBVIOUS
    <2>1. CASE Rename
      BY <2>1, RenamePreserves
    <2>2. CASE Permit
      BY <2>2, PermitPreserves
    <2>3. ASSUME NEW r \in Runs, Step(r) PROVE IInv'
      BY <2>3, LaunchPreserves, DiscoverPreserves, CacheWritesPreserve, RequestPreserves,
         InvalidatePreserves, ExitPreserves
         DEF Step
    <2>4. CASE UNCHANGED vars
      BY <2>4 DEF vars, client, ghosts, IInv, TypeOK, Standing
    <2> QED  BY <2>1, <2>3, <2>4, <2>2 DEF Next
  <1> QED  BY <1>1, InitEstablishes, PTL DEF Spec

(* The file holds a slug of the organization, a mixture of two, or nothing. *)
THEOREM TypeCorrect == Spec => []TypeOK
  <1>1. IInv => TypeOK
    BY DEF IInv
  <1> QED  BY <1>1, Inductive, PTL

(* A 404 is replayed once: no run discovers the organization a second time. *)
THEOREM ReplaysOnce == Spec => []OneDiscoveryPerRun
  <1>1. IInv => OneDiscoveryPerRun
    BY DEF IInv, Standing, OneDiscoveryPerRun
  <1> QED  BY <1>1, Inductive, PTL

(***************************************************************************)
(* A cache entry that is stale, truncated or garbled, by whatever runs at  *)
(* whatever moments, in a file that can or cannot be read, removed or      *)
(* written, never makes a run fail.  A rename during the run itself does   *)
(* only after the run's one discovery, or between two pages of a listing.  *)
(***************************************************************************)
THEOREM StaleEntriesNeverSurface == Spec => []StaleCacheIsInvisible
  <1>1. IInv => StaleCacheIsInvisible
    BY DEF IInv, Standing, StaleCacheIsInvisible
  <1> QED  BY <1>1, Inductive, PTL

----------------------------------------------------------------------------
(***************************************************************************)
(* What the file needs in order to recover: a file that a run has open at  *)
(* its path is there, and a run that writes has opened one.                *)
(***************************************************************************)
Handles ==
    \A r \in Runs : /\ handle[r] = "linked" => file # Absent
                    /\ pc[r] = "write" => handle[r] # "closed"

(* The file has recovered, and no run is about to write anything but the slug in use. *)
Settled ==
    /\ file \in {Absent, Empty, slug}
    /\ \A r \in Runs : pc[r] \in {"open", "write"} => organization[r] = slug

(* What each step does to the file and to the runs that have it open. *)
LEMMA FileSteps ==
    ASSUME IInv, NEW r \in Runs, Step(r)
    PROVE  /\ UNCHANGED slug
           /\ \A s \in Runs \ {r} : pc'[s] = pc[s] /\ organization'[s] = organization[s]
           /\ \/ UNCHANGED <<file, handle>> /\ pc'[r] \notin {"open", "write"}
              \/ UNCHANGED <<file, handle>> /\ pc'[r] = "open" /\ organization'[r] = slug
              \/ /\ file' = Empty /\ handle' = [handle EXCEPT ![r] = "linked"]
                 /\ pc[r] = "open" /\ pc'[r] = "write" /\ organization'[r] = organization[r]
              \/ /\ file' = file /\ handle' = [handle EXCEPT ![r] = "closed"]
                 /\ pc'[r] \notin {"open", "write"}
              \/ /\ pc[r] = "write" /\ pc'[r] = "request"
                 /\ file' \in IF handle[r] = "unlinked" THEN {file}
                              ELSE IF file \in {Empty, organization[r]} THEN {organization[r]}
                              ELSE {organization[r], Garbled}
                 /\ handle' = [handle EXCEPT ![r] = "closed"]
              \/ /\ file' = Absent /\ pc'[r] = "discover"
                 /\ handle' = [s \in Runs |-> IF handle[s] = "linked" THEN "unlinked" ELSE handle[s]]
  <1> USE DEF Goto
  <1>1. /\ pc \in [Runs -> PCs] /\ organization \in [Runs -> Slugs \cup {Garbled, None}]
    BY DEF IInv, TypeOK
  <1>2. CASE Launch(r)
    BY <1>1, <1>2 DEF Launch
  <1>3. CASE Discover(r)
    BY <1>1, <1>3 DEF Discover
  <1>4. CASE OpenCache(r)
    BY <1>1, <1>4 DEF OpenCache, client, ghosts
  <1>5. CASE SkipCache(r)
    BY <1>1, <1>5 DEF SkipCache, client, ghosts
  <1>6. CASE WriteCache(r)
    BY <1>1, <1>6 DEF WriteCache, client, ghosts
  <1>7. CASE Request(r)
    BY <1>1, <1>7 DEF Request, Answered, NotFound
  <1>8. CASE Invalidate(r)
    BY <1>1, <1>8 DEF Invalidate, Removed, NotRemoved, ghosts
  <1>9. CASE Exit(r)
    BY <1>1, <1>9 DEF Exit
  <1> QED  BY <1>2, <1>3, <1>4, <1>5, <1>6, <1>7, <1>8, <1>9 DEF Step

(* A file is removed from under those that have it open, not closed. *)
LEMMA HandlesStay == IInv /\ Handles /\ [Next]_vars => Handles'
  <1> SUFFICES ASSUME IInv, Handles, [Next]_vars PROVE Handles'
    OBVIOUS
  <1>1. CASE Rename \/ Permit \/ UNCHANGED vars
    BY <1>1 DEF Rename, Permit, vars, client, ghosts, Handles
  <1>2. ASSUME NEW r \in Runs, Step(r) PROVE Handles'
    <2>1. handle \in [Runs -> {"closed", "linked", "unlinked"}]
      BY DEF IInv, TypeOK
    <2>2. Empty # Absent /\ Garbled # Absent /\ Absent \notin Slugs
      BY CacheAssumption
    <2>3. pc[r] = "write" => organization[r] \in Slugs
      BY OwnStep DEF Standing
    <2>4. file' = Absent => file = Absent \/ pc'[r] = "discover"
      BY <1>2, <2>2, <2>3, FileSteps
    <2>5. ASSUME NEW s \in Runs
          PROVE  /\ handle'[s] = "linked" => file' # Absent
                 /\ pc'[s] = "write" => handle'[s] # "closed"
      <3>1. /\ handle[s] = "linked" => file # Absent
            /\ pc[s] = "write" => handle[s] # "closed"
        BY DEF Handles
      <3>2. CASE s = r
        BY <1>2, <2>1, <2>2, <2>3, <3>1, <3>2, FileSteps
      <3>3. CASE s # r
        <4>1. pc'[s] = pc[s]
          BY <1>2, <3>3, FileSteps
        <4> QED  BY <1>2, <2>1, <2>2, <2>3, <3>1, <3>3, <4>1, FileSteps
      <3> QED  BY <3>2, <3>3
    <2> QED  BY <2>5 DEF Handles
  <1> QED  BY <1>1, <1>2 DEF Next

(* Without another rename nothing that a run does brings back an old or a garbled entry. *)
LEMMA SettledStays == IInv /\ Handles /\ Settled /\ [Next]_vars /\ UNCHANGED slug => Settled'
  <1> SUFFICES ASSUME IInv, Handles, Settled, [Next]_vars, UNCHANGED slug PROVE Settled'
    OBVIOUS
  <1>1. CASE Permit \/ UNCHANGED vars
    BY <1>1 DEF Permit, vars, client, Settled
  <1>2. CASE Rename
    <2>1. slug \in Int
      BY CacheAssumption DEF IInv, TypeOK, Slugs
    <2> QED  BY <1>2, <2>1 DEF Rename
  <1>3. ASSUME NEW r \in Runs, Step(r) PROVE Settled'
    <2>1. file' \in {Absent, Empty, slug'}
      <3>1. CASE pc[r] = "write" /\ pc'[r] = "request" /\ file' # file
        <4>1. handle[r] \in {"linked", "unlinked"} /\ organization[r] = slug
          BY <3>1 DEF IInv, TypeOK, Handles, Settled
        <4>2. handle[r] = "linked" => file \in {Empty, slug}
          BY DEF Handles, Settled
        <4> QED  BY <1>3, <3>1, <4>1, <4>2, FileSteps
      <3>2. CASE ~(pc[r] = "write" /\ pc'[r] = "request" /\ file' # file)
        BY <1>3, <3>2, FileSteps DEF Settled
      <3> QED  BY <3>1, <3>2
    <2>2. \A s \in Runs : pc'[s] \in {"open", "write"} => organization'[s] = slug'
      <3>1. \A s \in Runs \ {r} : pc'[s] = pc[s] /\ organization'[s] = organization[s]
        BY <1>3, FileSteps
      <3>2. pc'[r] \in {"open", "write"} => organization'[r] = slug'
        BY <1>3, FileSteps DEF Settled
      <3> QED  BY <3>1, <3>2 DEF Settled
    <2> QED  BY <2>1, <2>2 DEF Settled
  <1> QED  BY <1>1, <1>2, <1>3 DEF Next

THEOREM HandlesAreKept == Spec => []Handles
  <1>1. Init => Handles
    BY DEF Init, Handles
  <1> QED  BY <1>1, HandlesStay, Inductive, PTL DEF Spec

(***************************************************************************)
(* The lasting half of CacheConverges, without fairness and for any number *)
(* of processes: once the last rename is over, the file has recovered and  *)
(* no late writer is left, the file holds nothing but the slug in use for  *)
(* good, however runs are killed, interleave their writes or remove the    *)
(* file from under each other, and whatever the file system permits.       *)
(***************************************************************************)
THEOREM RecoveryLasts ==
    Spec => [](Settled /\ slug = MaxRenames => [](file \in {Absent, Empty, slug}))
  <1> DEFINE Over == Settled /\ slug = MaxRenames
             Recovered == file \in {Absent, Empty, slug}
  <1>1. IInv /\ Handles /\ Over /\ [Next]_vars => Over'
    <2> SUFFICES ASSUME IInv, Handles, Over, [Next]_vars PROVE Over'
      OBVIOUS
    <2>1. UNCHANGED slug
      <3>1. MaxRenames \in Nat
        BY CacheAssumption
      <3>2. ~Rename
        BY <3>1 DEF Rename
      <3>3. CASE Permit \/ UNCHANGED vars
        BY <3>3 DEF Permit, vars
      <3> QED  BY <3>2, <3>3, FileSteps DEF Next
    <2> QED  BY <2>1, SettledStays
  <1>2. Over => Recovered
    BY DEF Settled
  <1> HIDE DEF Over, Recovered
  <1>3. Spec => [](Over => []Recovered)
    BY <1>1, <1>2, Inductive, HandlesAreKept, PTL DEF Spec
  <1> QED  BY <1>3 DEF Over, Recovered
=============================================================================
