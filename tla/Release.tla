------------------------------ MODULE Release ------------------------------
(***************************************************************************)
(* Release builds of main: a step that tags the build's commit             *)
(* (.buildkite/tag.sh) and one that publishes the tag                      *)
(* (scripts/ci-buildkite-release), both under one concurrency group.       *)
(* Builds wait for somebody to unblock them, jobs are killed and retried   *)
(* in fresh checkouts, main moves on, people move tags by hand.            *)
(***************************************************************************)
EXTENDS Integers, Sequences, FiniteSets

CONSTANTS
    Builds,
    LastCommit,     \* bound: main is the commits 1 .. LastCommit, one after the other
    ReleaseTypes,   \* of the input step: "patch", "minor", "major"
    None,           \* no build, no version, no commit
    MaxKills,       \* bound: jobs that are killed
    MaxRetags       \* bound: tags moved, removed or pushed by hand

ASSUME ReleaseAssumption ==
    /\ ReleaseTypes \subseteq {"patch", "minor", "major"}
    /\ LastCommit \in Nat \ {0} /\ MaxKills \in Nat /\ MaxRetags \in Nat
    /\ None \notin Builds /\ None \notin Nat

VARIABLES
    main,       \* origin's refs/heads/main
    tags,       \* origin's version tags: records of a version and its commit
    commit,     \* BUILDKITE_COMMIT of each build, None before it is created
    type,       \* release-type meta-data
    noted,      \* release-tag meta-data
    step,       \* what the build's job does next
    tag,        \* the version its job is about
    fetched,    \* the commit of the job's tag in its checkout, if the tag was fetched
    job,        \* the build whose job holds the concurrency group
    kills, retags,
    pushed,     \* tags pushed by builds, with the build (history)
    lost,       \* builds whose push was not reported to their job (history)
    released,   \* releases made: version, commit and build (history)
    tips,       \* where main was during the job (history)
    found       \* where the job's tag was during the job (history)

origin  == <<main, tags>>
build   == <<commit, type, noted, step, tag, fetched, job>>
bounds  == <<kills, retags>>
history == <<pushed, lost, released, tips, found>>
vars    == <<origin, build, bounds, history>>

Zero    == <<0, 0, 0>>
Before(v, w) == \/ v[1] < w[1]
                \/ v[1] = w[1] /\ v[2] < w[2]
                \/ v[1] = w[1] /\ v[2] = w[2] /\ v[3] < w[3]

TagSteps     == {"fetch", "absent", "main", "note", "push"}
PublishSteps == {"publish", "verify", "release", "annotate"}
Idle         == {"waiting", "fetch", "publish", "done"}   \* no job, or one that is yet to run

At(version) == { t.commit : t \in { u \in tags : u.version = version } }

TypeOK ==
    /\ main \in 1 .. LastCommit
    /\ \A t \in tags : t.commit \in 1 .. main /\ Cardinality(At(t.version)) = 1
    /\ commit \in [Builds -> (1 .. main) \cup {None}]
    /\ type \in [Builds -> ReleaseTypes]
    /\ step \in [Builds -> {"waiting", "done"} \cup TagSteps \cup PublishSteps]
    /\ job \in Builds \cup {None}
    /\ kills \in 0 .. MaxKills /\ retags \in 0 .. MaxRetags
    /\ \A b \in Builds :
          /\ step[b] \notin Idle => job = b
          /\ step[b] = "waiting" <=> commit[b] = None
          /\ step[b] \in PublishSteps => \E t \in pushed : t.version = noted[b] /\ t.build = b

Init ==
    /\ main = 1 /\ tags = {}
    /\ commit = [b \in Builds |-> None]
    /\ type \in [Builds -> ReleaseTypes]
    /\ noted = [b \in Builds |-> None]
    /\ step = [b \in Builds |-> "waiting"]
    /\ tag = [b \in Builds |-> Zero]
    /\ fetched = [b \in Builds |-> None]
    /\ job = None /\ kills = 0 /\ retags = 0
    /\ pushed = {} /\ lost = {} /\ released = {}
    /\ tips = [b \in Builds |-> {}] /\ found = [b \in Builds |-> {}]

----------------------------------------------------------------------------
(* A commit is merged. *)
Advance ==
    /\ main < LastCommit
    /\ main' = main + 1
    /\ tips' = [b \in Builds |-> tips[b] \cup {main'}]
    /\ UNCHANGED <<tags, build, bounds, pushed, lost, released, found>>

(* People move, remove or add a version tag. *)
Retag ==
    /\ retags < MaxRetags /\ retags' = retags + 1
    /\ \E v \in { t.version : t \in tags } \cup ({ tag[b] : b \in Builds } \ {Zero}) :
       \E c \in {None} \cup 1 .. main :
          tags' = { t \in tags : t.version # v }
                  \cup (IF c = None THEN {} ELSE {[version |-> v, commit |-> c]})
    /\ UNCHANGED <<main, build, kills, pushed, lost, released, tips>>
    /\ found' = [b \in Builds |-> found[b] \cup At(noted[b])']

(* Somebody unblocks the release of a commit, once it is on main, or rebuilds it. *)
Unblock(b) ==
    /\ step[b] = "waiting"
    /\ \E c \in 1 .. main : commit' = [commit EXCEPT ![b] = c]
    /\ step' = [step EXCEPT ![b] = "fetch"]
    /\ UNCHANGED <<origin, type, noted, tag, fetched, job, bounds, history>>

----------------------------------------------------------------------------
(* Slip: the two steps have no concurrency group. *)
MayRunAtOnce(b) == TRUE

(* concurrency: 1 *)
MayRun(b) == job = None

(* The job of b goes on with step s, and lets go of the group where it ends. *)
Goto(b, s) ==
    /\ step' = [step EXCEPT ![b] = s]
    /\ job' = IF s \in Idle THEN None ELSE b

(* latest_release_version: of the tags on the commit or before it. *)
Latest(c) ==
    LET merged == { t.version : t \in { u \in tags : u.commit <= c } }
    IN  IF merged = {} THEN Zero
        ELSE CHOOSE v \in merged : \A w \in merged : v = w \/ Before(w, v)

(* next_release_version *)
NextVersion(v, kind) ==
    CASE kind = "patch" -> <<v[1], v[2], v[3] + 1>>
      [] kind = "minor" -> <<v[1], v[2] + 1, 0>>
      [] kind = "major" -> <<v[1] + 1, 0, 0>>

(* Otherwise: "no commits since $latest". *)
NewSince(version, c) == version = Zero \/ [version |-> version, commit |-> c] \notin tags

(* The tag as git fetch --force --tags leaves it in the checkout. *)
InCheckout(version) == IF At(version) = {} THEN None ELSE CHOOSE c \in At(version) : TRUE

(* A step that dies before it has done anything is not shown: the build can be retried as it is. *)
Fetch(b) ==
    /\ step[b] = "fetch" /\ MayRun(b)
    /\ LET latest == Latest(commit[b]) IN
          /\ NewSince(latest, commit[b])
          /\ tag' = [tag EXCEPT ![b] = NextVersion(latest, type[b])]
          /\ fetched' = [fetched EXCEPT ![b] = InCheckout(tag'[b])]
    /\ Goto(b, "absent")
    /\ tips' = [tips EXCEPT ![b] = {main}]
    /\ UNCHANGED <<origin, commit, type, noted, bounds, pushed, lost, released, found>>

(* "tag $tag already exists at origin": an ls-remote that fails counts as absent. *)
CheckAbsent(b) ==
    /\ step[b] = "absent"
    /\ \/ At(tag[b]) # {} /\ Goto(b, "fetch")
       \/ Goto(b, "main")
    /\ UNCHANGED <<origin, commit, type, noted, tag, fetched, bounds, history>>

(* "cannot release stale build" *)
CheckMain(b) ==
    /\ step[b] = "main"
    /\ Goto(b, IF main = commit[b] THEN "note" ELSE "fetch")
    /\ UNCHANGED <<origin, commit, type, noted, tag, fetched, bounds, history>>

(* git tag, which fails if the checkout has the tag already, and then the meta-data. *)
Note(b) ==
    /\ step[b] = "note"
    /\ \/ fetched[b] = None /\ Goto(b, "push") /\ noted' = [noted EXCEPT ![b] = tag[b]]
       \/ fetched[b] # None /\ Goto(b, "fetch") /\ UNCHANGED noted
    /\ UNCHANGED <<origin, commit, type, tag, fetched, bounds, history>>

(* The push is rejected if the tag has come up meanwhile on another commit; if it is there *)
(* on this one, all is up to date.  The push may arrive without the job's knowing. *)
Push(b) ==
    /\ step[b] = "push"
    /\ IF At(tag[b]) \subseteq {commit[b]}
       THEN /\ tags' = tags \cup {[version |-> tag[b], commit |-> commit[b]]}
            /\ pushed' = pushed \cup {[version |-> tag[b], commit |-> commit[b], build |-> b]}
            /\ \/ Goto(b, "publish") /\ UNCHANGED <<lost, kills>>
               \/ /\ Goto(b, "fetch") /\ lost' = lost \cup {b}
                  /\ kills < MaxKills /\ kills' = kills + 1
       ELSE Goto(b, "fetch") /\ UNCHANGED <<tags, pushed, lost, kills>>
    /\ UNCHANGED <<main, commit, type, noted, tag, fetched, retags, released, tips, found>>

----------------------------------------------------------------------------
(* Slip: the publish step refuses a build that main has left behind, as the tag step does. *)
FetchTagOfTip(b) ==
    /\ step[b] = "publish" /\ MayRun(b) /\ main = commit[b]
    /\ \E c \in At(noted[b]) : fetched' = [fetched EXCEPT ![b] = c]
    /\ found' = [found EXCEPT ![b] = At(noted[b])]
    /\ Goto(b, "verify")
    /\ UNCHANGED <<origin, commit, type, noted, tag, bounds, pushed, lost, released, tips>>

(* The publish step reads the meta-data and fetches the tags. *)
FetchTag(b) ==
    /\ step[b] = "publish" /\ MayRun(b)
    /\ \E c \in At(noted[b]) : fetched' = [fetched EXCEPT ![b] = c]
    /\ found' = [found EXCEPT ![b] = At(noted[b])]
    /\ Goto(b, "verify")
    /\ UNCHANGED <<origin, commit, type, noted, tag, bounds, pushed, lost, released, tips>>

(* Slip: only the tag of the checkout is compared with the tag at origin. *)
SameTag(b) == At(noted[b]) = {fetched[b]}

(* The tag at origin, the tag in the checkout and the build are of one commit. *)
TagIsOwn(b) == At(noted[b]) = {fetched[b]} /\ fetched[b] = commit[b]

Verify(b) ==
    /\ step[b] = "verify"
    /\ Goto(b, IF TagIsOwn(b) THEN "release" ELSE "publish")
    /\ UNCHANGED <<origin, commit, type, noted, tag, fetched, bounds, history>>

(* goreleaser; existing artifacts are replaced, so that it can be repeated. *)
Publish(b) ==
    /\ step[b] = "release"
    /\ released' = released \cup {[version |-> noted[b], commit |-> commit[b], build |-> b]}
    /\ Goto(b, "annotate")
    /\ UNCHANGED <<origin, commit, type, noted, tag, fetched, bounds, pushed, lost, tips, found>>

Annotate(b) ==
    /\ step[b] = "annotate"
    /\ Goto(b, "done")
    /\ UNCHANGED <<origin, commit, type, noted, tag, fetched, bounds, history>>

(* A job fails or is killed, and is retried from the start of its step. *)
Kill(b) ==
    /\ step[b] \notin Idle
    /\ kills < MaxKills /\ kills' = kills + 1
    /\ Goto(b, IF step[b] \in TagSteps THEN "fetch" ELSE "publish")
    /\ UNCHANGED <<origin, commit, type, noted, tag, fetched, retags, history>>

Work(b) == CheckAbsent(b) \/ CheckMain(b) \/ Note(b) \/ Push(b) \/ Verify(b) \/ Publish(b) \/ Annotate(b)

Next == Advance \/ Retag \/ \E b \in Builds : Unblock(b) \/ Fetch(b) \/ FetchTag(b) \/ Work(b) \/ Kill(b)

Spec == Init /\ [][Next]_vars

(* Jobs go on until they end; a failed publish step is retried, and gets the group in its turn. *)
FairSpec == Spec /\ \A b \in Builds : WF_vars(Work(b)) /\ SF_vars(FetchTag(b))

----------------------------------------------------------------------------
(***************************************************************************)
(* While nobody moves tags, a commit is released under one version, and    *)
(* the later commit under the higher one, however many builds of it are    *)
(* made, unblocked late or in the wrong order, killed or retried.          *)
(***************************************************************************)
VersionsFollowMain ==
    retags = 0 => \A x, y \in pushed : /\ x.commit = y.commit => x = y
                                       /\ x.commit < y.commit => Before(x.version, y.version)

(***************************************************************************)
(* Nothing stale goes out: a commit that main had left behind when the job *)
(* began is not tagged, and a release is made of a commit that its tag     *)
(* named during the job, even if somebody moves the tag meanwhile.         *)
(***************************************************************************)
NothingStaleGoesOut ==
    [][\A b \in Builds : job = b =>
          /\ pushed' # pushed /\ step[b] = "push" => commit[b] \in tips[b]
          /\ released' # released /\ step[b] = "release" => commit[b] \in found[b]]_vars

(***************************************************************************)
(* "Pushed ...; this build will publish it": every tag that a build pushes *)
(* is released by it in the end, unless the push was not reported to the   *)
(* job, when every retry finds "no commits since" the tag, or somebody     *)
(* moves tags by hand.                                                     *)
(***************************************************************************)
PushedIsReleased ==
    \A b \in Builds :
        (\E t \in pushed : t.build = b) ~> (retags > 0 \/ b \in lost \/ \E t \in released : t.build = b)
=============================================================================
