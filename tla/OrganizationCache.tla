------------------------- MODULE OrganizationCache -------------------------
(***************************************************************************)
(* The organization slug that every request path carries, cached in one    *)
(* file that all runs of the same operator share.  Runs read the file,     *)
(* discover the slug when it is missing, and, when a request under a       *)
(* cached slug is answered 404, drop the entry, discover the slug again    *)
(* and replay the request once.  Meanwhile the organization may be         *)
(* renamed, other runs rewrite the file without locking or renaming it     *)
(* into place, the cache directory may refuse to remove or to write the    *)
(* file, and any run may be killed between two steps.                      *)
(***************************************************************************)
EXTENDS Integers

CONSTANTS
    Runs,           \* CLI processes; an operator starts each again and again
    MaxRenames,     \* bound: how often the organization is renamed
    Absent,         \* no cache file
    Empty,          \* a truncated or just created file
    Garbled,        \* a mixture of two slugs, the slug of no organization
    None            \* no slug

Slugs == 0 .. MaxRenames    \* in the order of the renames; none is reused

ASSUME CacheAssumption ==
    /\ MaxRenames \in Nat
    /\ Absent \notin Slugs /\ Empty \notin Slugs /\ Garbled \notin Slugs /\ None \notin Slugs
    /\ Absent # Empty /\ Absent # Garbled /\ Absent # None
    /\ Empty # Garbled /\ Empty # None /\ Garbled # None

VARIABLES
    slug,           \* the slug the organization has now (in the service)
    file,           \* the cache file's content
    permitted,      \* what the file system lets runs do with the file
    pc,             \* where each run is
    organization,   \* Client.organization
    wasCached,      \* Client.organizationWasCached
    link,           \* the absolute URL of the next page, by the slug in it
    handle,         \* whether the file a run has open is still the one at the path
    discoveries,    \* organization discoveries of the run (history)
    renamed,        \* whether the organization was renamed during the run (history)
    misdirected     \* whether its last 404 was for a slug out of use (history)

client == <<organization, wasCached, link>>
ghosts == <<discoveries, renamed, misdirected>>
vars   == <<slug, file, permitted, pc, handle, client, ghosts>>

PCs == {"idle", "discover", "open", "write", "request", "next page", "invalidate", "not found"}
Rights == {"read", "remove", "write"}
Bound(n) == IF n > 2 THEN 2 ELSE n      \* bound of the discovery counter

TypeOK ==
    /\ slug \in Slugs
    /\ file \in Slugs \cup {Absent, Empty, Garbled}
    /\ permitted \subseteq Rights
    /\ pc \in [Runs -> PCs]
    /\ organization \in [Runs -> Slugs \cup {Garbled, None}]
    /\ wasCached \in [Runs -> BOOLEAN]
    /\ link \in [Runs -> Slugs \cup {None}]
    /\ handle \in [Runs -> {"closed", "linked", "unlinked"}]
    /\ discoveries \in [Runs -> 0 .. 2]
    /\ renamed \in [Runs -> BOOLEAN]
    /\ misdirected \in [Runs -> BOOLEAN]

Init ==
    /\ slug = 0
    /\ file \in {Absent, Empty, 0}
    /\ permitted \in SUBSET Rights
    /\ pc = [r \in Runs |-> "idle"]
    /\ organization = [r \in Runs |-> None]
    /\ wasCached = [r \in Runs |-> FALSE]
    /\ link = [r \in Runs |-> None]
    /\ handle = [r \in Runs |-> "closed"]
    /\ discoveries = [r \in Runs |-> 0]
    /\ renamed = [r \in Runs |-> FALSE]
    /\ misdirected = [r \in Runs |-> FALSE]

Goto(r, label) == pc' = [pc EXCEPT ![r] = label]

(* The service: an administrator renames the organization. *)
Rename ==
    /\ slug < MaxRenames
    /\ slug' = slug + 1
    /\ renamed' = [r \in Runs |-> pc[r] # "idle"]
    /\ UNCHANGED <<file, permitted, pc, handle, client, discoveries, misdirected>>

(* The file system: the disk fills up, the directory or the file becomes read-only. *)
Permit ==
    /\ \E right \in Rights : permitted' \in {permitted \cup {right}, permitted \ {right}}
    /\ UNCHANGED <<slug, file, pc, handle, client, ghosts>>

----------------------------------------------------------------------------
(* NewClient and ResolveOrganization of a fresh process. *)
Launch(r) ==
    /\ pc[r] = "idle"
    /\ LET hit == "read" \in permitted /\ file \notin {Absent, Empty} IN
          /\ Goto(r, IF hit THEN "request" ELSE "discover")
          /\ organization' = [organization EXCEPT ![r] = IF hit THEN file ELSE None]
          /\ wasCached' = [wasCached EXCEPT ![r] = hit]
    /\ UNCHANGED <<slug, file, permitted, handle, link, ghosts>>

(* Slip: the discovered slug counts as cached, like one read from the file. *)
DiscoverAsCached(r) ==
    /\ pc[r] = "discover"
    /\ Goto(r, "open")
    /\ organization' = [organization EXCEPT ![r] = slug]
    /\ wasCached' = [wasCached EXCEPT ![r] = TRUE]
    /\ discoveries' = [discoveries EXCEPT ![r] = Bound(@ + 1)]
    /\ UNCHANGED <<slug, file, permitted, handle, link, renamed, misdirected>>

Discover(r) ==
    /\ pc[r] = "discover"
    /\ Goto(r, "open")
    /\ organization' = [organization EXCEPT ![r] = slug]
    /\ wasCached' = [wasCached EXCEPT ![r] = FALSE]
    /\ discoveries' = [discoveries EXCEPT ![r] = Bound(@ + 1)]
    /\ UNCHANGED <<slug, file, permitted, handle, link, renamed, misdirected>>

(* os.WriteFile opens with O_CREATE|O_TRUNC, then writes. *)
OpenCache(r) ==
    /\ pc[r] = "open"
    /\ "write" \in permitted
    /\ Goto(r, "write")
    /\ file' = Empty
    /\ handle' = [handle EXCEPT ![r] = "linked"]
    /\ UNCHANGED <<slug, permitted, client, ghosts>>

(* Either may fail, and the error is ignored: the command goes on without a cache. *)
SkipCache(r) ==
    /\ pc[r] \in {"open", "write"}
    /\ "write" \notin permitted
    /\ Goto(r, "request")
    /\ handle' = [handle EXCEPT ![r] = "closed"]
    /\ UNCHANGED <<slug, file, permitted, client, ghosts>>

(* A write over another run's bytes may leave the tail of a longer slug. *)
WriteCache(r) ==
    /\ pc[r] = "write"
    /\ "write" \in permitted
    /\ Goto(r, "request")
    /\ file' \in IF handle[r] = "unlinked" THEN {file}
                 ELSE IF file \in {Empty, organization[r]} THEN {organization[r]}
                 ELSE {organization[r], Garbled}
    /\ handle' = [handle EXCEPT ![r] = "closed"]
    /\ UNCHANGED <<slug, permitted, client, ghosts>>

----------------------------------------------------------------------------
(* An answer that leads to the command's next request, or to the next page. *)
Answered(r) ==
    \/ Goto(r, "request") /\ link' = [link EXCEPT ![r] = None]
    \/ Goto(r, "next page") /\ link' = [link EXCEPT ![r] = slug]

(* Slip: a 404 is final, the cache entry it may be due to is kept. *)
NotFoundIsFinal(r, path) ==
    /\ misdirected' = [misdirected EXCEPT ![r] = path # slug]
    /\ Goto(r, "not found")
    /\ UNCHANGED link

(* A 404: the path's slug is out of use, or the resource does not exist. *)
NotFound(r, path) ==
    /\ misdirected' = [misdirected EXCEPT ![r] = path # slug]
    /\ Goto(r, IF wasCached[r] /\ pc[r] = "request" THEN "invalidate" ELSE "not found")
    /\ UNCHANGED link

(* doWithHeaders: a path of the client's organization, or an absolute next link. *)
Request(r) ==
    /\ pc[r] \in {"request", "next page"}
    /\ LET path == IF pc[r] = "request" THEN organization[r] ELSE link[r] IN
          \/ path = slug /\ Answered(r) /\ UNCHANGED misdirected
          \/ NotFound(r, path)
    /\ UNCHANGED <<slug, file, permitted, handle, organization, wasCached, discoveries, renamed>>

(* The file goes, from under those that have it open too. *)
Removed ==
    /\ "remove" \in permitted
    /\ file' = Absent
    /\ handle' = [s \in Runs |-> IF handle[s] = "linked" THEN "unlinked" ELSE handle[s]]

(* The error of os.Remove is ignored. *)
NotRemoved == "remove" \notin permitted /\ UNCHANGED <<file, handle>>

(* Slip: the stale file is left to the rewrite that follows the discovery. *)
InvalidateInMemory(r) ==
    /\ pc[r] = "invalidate"
    /\ Goto(r, "discover")
    /\ organization' = [organization EXCEPT ![r] = None]
    /\ wasCached' = [wasCached EXCEPT ![r] = FALSE]
    /\ UNCHANGED <<slug, file, permitted, handle, link, ghosts>>

(* Slip: the cache is rewritten before the organization is discovered again. *)
InvalidateByRewriting(r) ==
    /\ pc[r] = "invalidate"
    /\ Goto(r, "open")
    /\ organization' = [organization EXCEPT ![r] = None]
    /\ wasCached' = [wasCached EXCEPT ![r] = FALSE]
    /\ UNCHANGED <<slug, file, permitted, handle, link, ghosts>>

Invalidate(r) ==
    /\ pc[r] = "invalidate"
    /\ Goto(r, "discover")
    /\ organization' = [organization EXCEPT ![r] = None]
    /\ wasCached' = [wasCached EXCEPT ![r] = FALSE]
    /\ Removed \/ NotRemoved
    /\ UNCHANGED <<slug, permitted, link, ghosts>>

(* The process ends, and what it knew is gone: after its last answer, for a request or *)
(* a discovery that fails (timeout, 5xx, not exactly one organization), or killed.     *)
Exit(r) ==
    /\ pc[r] # "idle"
    /\ Goto(r, "idle")
    /\ handle' = [handle EXCEPT ![r] = "closed"]
    /\ organization' = [organization EXCEPT ![r] = None]
    /\ wasCached' = [wasCached EXCEPT ![r] = FALSE]
    /\ link' = [link EXCEPT ![r] = None]
    /\ discoveries' = [discoveries EXCEPT ![r] = 0]
    /\ renamed' = [renamed EXCEPT ![r] = FALSE]
    /\ misdirected' = [misdirected EXCEPT ![r] = FALSE]
    /\ UNCHANGED <<slug, file, permitted>>

Step(r) == \/ Launch(r) \/ Discover(r) \/ OpenCache(r) \/ SkipCache(r) \/ WriteCache(r)
           \/ Request(r) \/ Invalidate(r) \/ Exit(r)

Next == Rename \/ Permit \/ \E r \in Runs : Step(r)

(* A 404 that starts the refresh. *)
StartRefresh(r) == Request(r) /\ pc'[r] = "invalidate"

(***************************************************************************)
(* Operators keep running commands, and every command ends (its context    *)
(* does).  Failures and kills do not hit the same step every time: a step  *)
(* of the refresh that one command after another comes to is taken by one  *)
(* of them at last.                                                        *)
(***************************************************************************)
Fairness ==
    /\ \A r \in Runs : WF_vars(Launch(r) \/ Exit(r))
    /\ SF_vars(\E r \in Runs : StartRefresh(r))
    /\ SF_vars(\E r \in Runs : Invalidate(r))
    /\ SF_vars(\E r \in Runs : Discover(r))
    /\ SF_vars(\E r \in Runs : OpenCache(r))

Spec     == Init /\ [][Next]_vars
FairSpec == Spec /\ Fairness

----------------------------------------------------------------------------
(***************************************************************************)
(* A run discovers the organization at most once, however often requests   *)
(* are answered 404: the replay never starts another replay.               *)
(***************************************************************************)
OneDiscoveryPerRun == \A r \in Runs : discoveries[r] <= 1

(***************************************************************************)
(* A stale, truncated or garbled cache entry never surfaces.  A run fails  *)
(* for a slug out of use only when the organization was renamed while the  *)
(* run was under way, and then only if it had discovered the organization  *)
(* already, or if the page it asked for is a link that carries the slug.   *)
(***************************************************************************)
StaleCacheIsInvisible ==
    \A r \in Runs :
        pc[r] = "not found" /\ misdirected[r]
            => renamed[r] /\ (discoveries[r] = 1 \/ link[r] # None)

(***************************************************************************)
(* "It refreshes a stale cache entry automatically" (README.md:53): once   *)
(* renames are over and the file can be written, or read and removed, the  *)
(* file ends up holding nothing but the slug in use, for good, late        *)
(* writers, garbled entries and crashes included.                          *)
(***************************************************************************)
Lasts(rights) == <>[](rights \subseteq permitted)

CacheConverges ==
    Lasts({"write"}) \/ Lasts({"read", "remove"}) => <>[](file \in {Absent, Empty, slug})
============================================================================
