---------------------------- MODULE ReleaseProof ----------------------------
(***************************************************************************)
(* Proofs about Release, for any builds, any length of main, and any       *)
(* number of killed jobs and of tags moved by hand: while nobody moves     *)
(* tags, versions follow the order of the commits on main; nothing stale   *)
(* is tagged or released.  The invariant has two parts of its own, one for *)
(* each: what a job knows of the tags pushed before it, and of where main  *)
(* and its tag have been since it began.                                   *)
(***************************************************************************)
EXTENDS Release, FiniteSetTheorems, WellFoundedInduction, TLAPS

Versions == Nat \X Nat \X Nat

(* Versions are triples, a version is the tag of one commit, and main only grows. *)
Shape ==
    /\ TypeOK
    /\ tags \subseteq [version : Versions, commit : Nat]
    /\ \A t, u \in tags : t.version = u.version => t = u
    /\ IsFiniteSet({ t.version : t \in tags })
    /\ pushed \subseteq [version : Versions, commit : 1 .. main, build : Builds]
    /\ noted \in [Builds -> Versions \cup {None}]
    /\ tag \in [Builds -> Versions]
    /\ tips \in [Builds -> SUBSET Nat] /\ found \in [Builds -> SUBSET Nat]

(* A job of the tag step that has chosen its version. *)
Working(b) == step[b] \in {"absent", "main", "note", "push"}

(* Without a hand on the tags, they are what builds have pushed, in the order of main. *)
Ordered ==
    /\ \A t \in tags : \E x \in pushed : x.version = t.version /\ x.commit = t.commit
    /\ \A x \in pushed : /\ [version |-> x.version, commit |-> x.commit] \in tags
                         /\ Before(Zero, x.version)
    /\ \A x, y \in pushed : /\ x.commit = y.commit => x = y
                            /\ x.commit < y.commit => Before(x.version, y.version)

(* The version of a job comes after those of the commits before its own, and its own has none. *)
Above(b) ==
    /\ Before(Zero, tag[b])
    /\ \A x \in pushed :
          x.commit <= commit[b] => x.commit < commit[b] /\ Before(x.version, tag[b])
    /\ step[b] \in {"note", "push"} => \A x \in pushed : x.commit <= commit[b]

(* What a job has seen of main and of its tag, it has seen since it began. *)
Fresh(b) ==
    /\ Working(b) => main \in tips[b]
    /\ step[b] \in {"note", "push"} => commit[b] \in tips[b]
    /\ step[b] = "push" => noted[b] = tag[b]
    /\ step[b] = "verify" => At(noted[b]) \subseteq found[b]
    /\ step[b] = "release" => commit[b] \in found[b]

IInv ==
    /\ Shape
    /\ retags = 0 => Ordered /\ \A b \in Builds : Working(b) => Above(b)
    /\ \A b \in Builds : Fresh(b)

----------------------------------------------------------------------------
(* Before is a strict order of the versions, and the next version is a later one. *)
LEMMA BeforeIsTransitive ==
    ASSUME NEW u \in Versions, NEW v \in Versions, NEW w \in Versions, Before(u, v), Before(v, w)
    PROVE  Before(u, w)
  BY DEF Versions, Before

LEMMA BeforeIsIrreflexive ==
    ASSUME NEW v \in Versions
    PROVE  ~Before(v, v)
  BY DEF Versions, Before

LEMMA NextIsLater ==
    ASSUME NEW v \in Versions, NEW kind \in {"patch", "minor", "major"}
    PROVE  NextVersion(v, kind) \in Versions /\ Before(v, NextVersion(v, kind))
  <1>1. CASE kind = "patch"
    BY <1>1 DEF Versions, Before, NextVersion
  <1>2. CASE kind = "minor"
    BY <1>2 DEF Versions, Before, NextVersion
  <1>3. CASE kind = "major"
    BY <1>3 DEF Versions, Before, NextVersion
  <1> QED  BY <1>1, <1>2, <1>3

LEMMA ZeroIsFirst ==
    /\ Zero \in Versions
    /\ \A v \in Versions : v = Zero \/ Before(Zero, v)
  BY DEF Zero, Versions, Before

(* Induction over the finite sets of versions, as their being well-founded. *)
LEMMA GreatestExists ==
    ASSUME NEW S \in SUBSET Versions, IsFiniteSet(S), S # {}
    PROVE  \E v \in S : \A w \in S : v = w \/ Before(w, v)
  <1> DEFINE Finite   == FiniteSubsetsOf(Versions)
             Smaller  == StrictSubsetOrdering(Versions)
             Topless  == { A \in Finite : A # {} /\ ~\E v \in A : \A w \in A : v = w \/ Before(w, v) }
  <1>1. SUFFICES ASSUME Topless # {} PROVE FALSE
    BY DEF FiniteSubsetsOf
  <1>2. PICK A \in Topless : \A B \in Topless : <<B, A>> \notin Smaller
    <2>1. IsWellFoundedOn(Smaller, Finite)
      BY FS_StrictSubsetOrderingWellFounded
    <2>2. Topless \subseteq Finite
      OBVIOUS
    <2> HIDE DEF Finite, Smaller, Topless
    <2> QED  BY <1>1, <2>1, <2>2, WFMin
  <1>3. PICK v \in A : TRUE
    OBVIOUS
  <1>4. /\ A \in SUBSET Versions /\ IsFiniteSet(A) /\ A \ {v} \in SUBSET Versions
        /\ IsFiniteSet(A \ {v}) /\ A \ {v} # A
    BY <1>3, FS_RemoveElement DEF FiniteSubsetsOf
  <1>5. A \ {v} \notin Topless
    BY <1>2, <1>4 DEF StrictSubsetOrdering, FiniteSubsetsOf
  <1>6. A \ {v} # {}
    BY <1>2, <1>3
  <1>7. PICK g \in A \ {v} : \A w \in A \ {v} : g = w \/ Before(w, g)
    BY <1>4, <1>5, <1>6 DEF FiniteSubsetsOf
  <1>8. Before(v, g) \/ Before(g, v)
    BY <1>4, <1>7 DEF Versions, Before
  <1>9. CASE Before(v, g)
    BY <1>2, <1>7, <1>9
  <1>10. CASE Before(g, v)
    <2>1. \A w \in A : v = w \/ Before(w, v)
      BY <1>4, <1>7, <1>10, BeforeIsTransitive
    <2> QED  BY <1>2, <1>3, <2>1
  <1> QED  BY <1>8, <1>9, <1>10

----------------------------------------------------------------------------
Steps == {"waiting", "done"} \cup TagSteps \cup PublishSteps

(* What the shape says of one build, and of the numbers. *)
LEMMA Inputs ==
    ASSUME Shape
    PROVE  /\ main \in Nat /\ 1 <= main /\ main <= LastCommit /\ LastCommit \in Nat
           /\ None \notin Nat /\ None \notin Builds /\ job \in Builds \cup {None}
           /\ kills \in 0 .. MaxKills /\ retags \in Nat /\ retags <= MaxRetags
           /\ MaxKills \in Nat /\ MaxRetags \in Nat
           /\ commit \in [Builds -> (1 .. main) \cup {None}] /\ step \in [Builds -> Steps]
           /\ \A b \in Builds : /\ step[b] # "waiting" => commit[b] \in 1 .. main
                                /\ step[b] \notin Idle => job = b
                                /\ type[b] \in {"patch", "minor", "major"}
  <1>1. /\ main \in 1 .. LastCommit /\ LastCommit \in Nat \ {0}
        /\ kills \in 0 .. MaxKills /\ retags \in 0 .. MaxRetags
        /\ MaxKills \in Nat /\ MaxRetags \in Nat
    BY ReleaseAssumption DEF Shape, TypeOK
  <1>2. /\ commit \in [Builds -> (1 .. main) \cup {None}] /\ step \in [Builds -> Steps]
        /\ job \in Builds \cup {None} /\ None \notin Nat /\ None \notin Builds
    BY ReleaseAssumption DEF Shape, TypeOK, Steps
  <1>3. \A b \in Builds : /\ step[b] # "waiting" => commit[b] \in 1 .. main
                          /\ step[b] \notin Idle => job = b
                          /\ type[b] \in {"patch", "minor", "major"}
    <2>1. \A b \in Builds : /\ step[b] \notin Idle => job = b
                            /\ step[b] = "waiting" <=> commit[b] = None
      BY DEF Shape, TypeOK
    <2>2. type \in [Builds -> ReleaseTypes] /\ ReleaseTypes \subseteq {"patch", "minor", "major"}
      BY ReleaseAssumption DEF Shape, TypeOK
    <2> QED  BY <1>2, <2>1, <2>2
  <1>4. /\ main \in Nat /\ 1 <= main /\ main <= LastCommit /\ LastCommit \in Nat
        /\ retags \in Nat /\ retags <= MaxRetags
    BY <1>1
  <1>5. kills \in 0 .. MaxKills /\ MaxKills \in Nat /\ MaxRetags \in Nat
    BY <1>1
  <1> QED  BY <1>2, <1>3, <1>4, <1>5

(* A set of tags is finite if its versions are, whatever tag comes on top. *)
LEMMA OneMoreIsFinite ==
    ASSUME NEW S, IsFiniteSet(S), NEW x, NEW T \in SUBSET (S \cup {x})
    PROVE  IsFiniteSet(T)
  BY FS_AddElement, FS_Subset

LEMMA Tagged ==
    ASSUME NEW ts \in SUBSET [version : Versions, commit : Nat], NEW t \in ts,
           \A u, w \in ts : u.version = w.version => u = w
    PROVE  Cardinality({ u.commit : u \in { w \in ts : w.version = t.version } }) = 1
  <1>1. { u.commit : u \in { w \in ts : w.version = t.version } } = {t.commit}
    OBVIOUS
  <1> QED  BY <1>1, FS_Singleton

(* Latest is the greatest of the versions it chooses among, Zero if there are none. *)
LEMMA LatestIsGreatest ==
    ASSUME Shape, NEW c \in Nat
    PROVE  /\ Latest(c) \in Versions
           /\ \A t \in tags : t.commit <= c => t.version = Latest(c) \/ Before(t.version, Latest(c))
           /\ Latest(c) = Zero \/ \E t \in tags : t.commit <= c /\ t.version = Latest(c)
  <1> DEFINE merged == { t.version : t \in { u \in tags : u.commit <= c } }
  <1>1. merged \in SUBSET Versions /\ IsFiniteSet(merged)
    <2>1. merged \in SUBSET { t.version : t \in tags } /\ IsFiniteSet({ t.version : t \in tags })
      BY DEF Shape
    <2>2. IsFiniteSet(merged)
      BY <2>1, FS_Subset
    <2> QED  BY <2>2 DEF Shape
  <1>2. CASE merged = {}
    BY <1>2, ZeroIsFirst DEF Latest
  <1>3. CASE merged # {}
    <2>1. \E v \in merged : \A w \in merged : v = w \/ Before(w, v)
      <3> HIDE DEF merged
      <3> QED  BY <1>1, <1>3, GreatestExists
    <2>2. Latest(c) \in merged /\ \A w \in merged : Latest(c) = w \/ Before(w, Latest(c))
      BY <1>3, <2>1 DEF Latest
    <2> QED  BY <1>1, <2>2
  <1> QED  BY <1>2, <1>3

(* While the tags are in order, a commit that has a tag of its own has the latest one. *)
LEMMA OwnTagIsLatest ==
    ASSUME Shape, Ordered, NEW c \in 1 .. main, NewSince(Latest(c), c), NEW x \in pushed, x.commit <= c
    PROVE  x.commit < c /\ (x.version = Latest(c) \/ Before(x.version, Latest(c)))
  <1>1. /\ c \in Nat /\ x.commit \in Nat /\ x.version \in Versions
        /\ [version |-> x.version, commit |-> x.commit] \in tags /\ Before(Zero, x.version)
    BY Inputs DEF Shape, Ordered
  <1>2. x.version = Latest(c) \/ Before(x.version, Latest(c))
    BY <1>1, LatestIsGreatest
  <1>3. Latest(c) # Zero
    BY <1>1, <1>2, BeforeIsIrreflexive, BeforeIsTransitive, ZeroIsFirst
  <1>4. PICK t \in tags : t.commit <= c /\ t.version = Latest(c)
    BY <1>1, <1>3, LatestIsGreatest
  <1>5. PICK y \in pushed : y.version = t.version /\ y.commit = t.commit
    BY DEF Ordered
  <1>6. y.commit # c
    <2>1. t = [version |-> t.version, commit |-> t.commit]
      BY DEF Shape
    <2> QED  BY <1>3, <1>4, <1>5, <2>1 DEF NewSince
  <1>7. x.commit # c
    <2>1. SUFFICES ASSUME x.commit = c PROVE FALSE
      OBVIOUS
    <2>2. Before(y.version, x.version) /\ y.commit \in Nat /\ y.version \in Versions
      BY <1>1, <1>4, <1>5, <1>6, <2>1 DEF Ordered, Shape
    <2> QED  BY <1>1, <1>2, <1>4, <1>5, <2>2, BeforeIsIrreflexive, BeforeIsTransitive
  <1> QED  BY <1>1, <1>2, <1>7

----------------------------------------------------------------------------
LEMMA InitEstablishes == Init => IInv
  <1> SUFFICES ASSUME Init PROVE IInv
    OBVIOUS
  <1>1. Shape
    <2>1. TypeOK
      BY ReleaseAssumption DEF Init, TypeOK, Idle, PublishSteps, TagSteps
    <2>2. IsFiniteSet({ t.version : t \in tags })
      <3>1. { t.version : t \in tags } = {}
        BY DEF Init
      <3> QED  BY <3>1, FS_EmptySet
    <2> QED  BY <2>1, <2>2, ZeroIsFirst DEF Init, Shape
  <1>2. Ordered /\ \A b \in Builds : ~Working(b) /\ Fresh(b)
    BY DEF Init, Ordered, Working, Fresh
  <1> QED  BY <1>1, <1>2 DEF IInv

(* Whoever does not hold the group is between jobs: nothing is said of it. *)
LEMMA OthersAreIdle ==
    ASSUME Shape, NEW b \in Builds, job \in {None, b}, NEW c \in Builds \ {b}, step'[c] = step[c]
    PROVE  ~Working(c)' /\ Fresh(c)'
  <1>1. step'[c] \in Idle
    BY Inputs
  <1> QED  BY <1>1 DEF Idle, Working, Fresh

LEMMA StepOfOne ==
    ASSUME IInv, Shape', NEW b \in Builds, job \in {None, b},
           \A c \in Builds \ {b} : step'[c] = step[c],
           retags' = 0 => Ordered' /\ (Working(b)' => Above(b)'),
           Fresh(b)'
    PROVE  IInv'
  <1>1. \A c \in Builds \ {b} : ~Working(c)' /\ Fresh(c)'
    BY OthersAreIdle DEF IInv
  <1> QED  BY <1>1 DEF IInv

(* The steps that leave the tags alone: what they say is about their own build only. *)
LEMMA GroupStep ==
    ASSUME IInv, NEW b \in Builds, NEW s \in Steps \ {"waiting"},
           step[b] # "waiting", job \in {None, b}, Goto(b, s),
           s \in PublishSteps => step[b] \in PublishSteps /\ noted'[b] = noted[b],
           UNCHANGED <<origin, commit, type, retags, pushed>>, kills' \in 0 .. MaxKills,
           noted' \in [Builds -> Versions \cup {None}], tag' \in [Builds -> Versions],
           tips' \in [Builds -> SUBSET Nat], found' \in [Builds -> SUBSET Nat],
           \A c \in Builds \ {b} : noted'[c] = noted[c],
           retags = 0 /\ Working(b)' => Above(b)',
           Fresh(b)'
    PROVE  IInv'
  <1>1. /\ step' = [step EXCEPT ![b] = s] /\ job' = IF s \in Idle THEN None ELSE b
        /\ step'[b] = s /\ \A c \in Builds \ {b} : step'[c] = step[c]
        /\ step' \in [Builds -> Steps]
    BY Inputs DEF Goto, IInv
  <1>2. TypeOK'
    <2>1. /\ main' \in 1 .. LastCommit /\ commit' \in [Builds -> (1 .. main') \cup {None}]
          /\ type' \in [Builds -> ReleaseTypes] /\ job' \in Builds \cup {None}
          /\ kills' \in 0 .. MaxKills /\ retags' \in 0 .. MaxRetags
      BY <1>1 DEF IInv, Shape, TypeOK, origin
    <2>2. \A t \in tags' : t.commit \in 1 .. main' /\ Cardinality(At(t.version)') = 1
      BY DEF IInv, Shape, TypeOK, origin, At
    <2>3. ASSUME NEW c \in Builds
          PROVE  /\ step'[c] \notin Idle => job' = c
                 /\ step'[c] = "waiting" <=> commit'[c] = None
                 /\ step'[c] \in PublishSteps =>
                       \E t \in pushed' : t.version = noted'[c] /\ t.build = c
      <3>1. CASE c = b
        BY <1>1, <3>1 DEF IInv, Shape, TypeOK
      <3>2. CASE c # b
        <4>1. step[c] \in Idle
          BY <3>2, Inputs DEF IInv
        <4> QED  BY <1>1, <3>2, <4>1 DEF IInv, Shape, TypeOK
      <3> QED  BY <3>1, <3>2
    <2> QED  BY <1>1, <2>1, <2>2, <2>3 DEF TypeOK, Steps
  <1>3. Shape'
    BY <1>2 DEF IInv, Shape, origin
  <1>4. retags' = 0 => Ordered'
    BY DEF IInv, Ordered, origin
  <1> QED  BY <1>1, <1>3, <1>4, StepOfOne

LEMMA FetchPreserves ==
    ASSUME IInv, NEW b \in Builds, Fetch(b)
    PROVE  IInv'
  <1> DEFINE latest == Latest(commit[b])
  <1>1. /\ step[b] = "fetch" /\ job = None /\ NewSince(latest, commit[b])
        /\ tag' = [tag EXCEPT ![b] = NextVersion(latest, type[b])]
        /\ tips' = [tips EXCEPT ![b] = {main}]
        /\ Goto(b, "absent")
        /\ UNCHANGED <<origin, commit, type, noted, kills, retags, pushed, found>>
    BY DEF Fetch, MayRun, bounds
  <1>2. commit[b] \in 1 .. main /\ commit[b] \in Nat /\ main \in Nat /\ kills \in 0 .. MaxKills
    BY <1>1, Inputs DEF IInv
  <1>3. /\ latest \in Versions /\ NextVersion(latest, type[b]) \in Versions
        /\ Before(latest, NextVersion(latest, type[b]))
    BY <1>2, LatestIsGreatest, Inputs, NextIsLater DEF IInv
  <1>4. /\ tag' \in [Builds -> Versions] /\ tag'[b] = NextVersion(latest, type[b])
        /\ tips' \in [Builds -> SUBSET Nat] /\ tips'[b] = {main}
        /\ step'[b] = "absent"
    BY <1>1, <1>2, <1>3, Inputs DEF IInv, Shape, Goto
  <1>5. retags = 0 => Above(b)'
    <2> SUFFICES ASSUME retags = 0 PROVE Above(b)'
      OBVIOUS
    <2>1. Before(Zero, tag'[b])
      BY <1>3, <1>4, ZeroIsFirst, BeforeIsTransitive
    <2>2. ASSUME NEW x \in pushed, x.commit <= commit[b]
          PROVE  x.commit < commit[b] /\ Before(x.version, tag'[b])
      <3>1. x.commit < commit[b] /\ (x.version = latest \/ Before(x.version, latest))
        BY <1>1, <1>2, <2>2, OwnTagIsLatest DEF IInv
      <3> QED  BY <1>3, <1>4, <3>1, BeforeIsTransitive DEF IInv, Shape
    <2> QED  BY <1>1, <1>4, <2>1, <2>2 DEF Above
  <1>6. Fresh(b)'
    BY <1>1, <1>4 DEF Fresh, origin
  <1> HIDE DEF latest
  <1> QED
    <2>1. "absent" \in Steps \ {"waiting"} /\ "absent" \notin PublishSteps
      BY DEF Steps, TagSteps, PublishSteps
    <2>2. noted' \in [Builds -> Versions \cup {None}] /\ found' \in [Builds -> SUBSET Nat]
      BY <1>1 DEF IInv, Shape
    <2> QED  BY <1>1, <1>2, <1>4, <1>5, <1>6, <2>1, <2>2, GroupStep

(* The steps of a job that change nothing but where it is, and what it has noted. *)
LEMMA WorkPreserves ==
    ASSUME IInv, NEW b \in Builds,
           CheckAbsent(b) \/ CheckMain(b) \/ Note(b) \/ Verify(b) \/ Publish(b) \/ Annotate(b) \/ Kill(b)
    PROVE  IInv'
  <1>1. PICK s \in Steps \ {"waiting"} :
           /\ Goto(b, s) /\ step[b] \notin Idle
           /\ s \in PublishSteps => step[b] \in PublishSteps /\ noted'[b] = noted[b]
           /\ UNCHANGED <<origin, commit, type, retags, pushed, tag, tips, found>>
           /\ kills' \in 0 .. MaxKills
           /\ noted' = noted \/ (step[b] = "note" /\ noted' = [noted EXCEPT ![b] = tag[b]])
           /\ \/ s \in Idle \cup {"annotate"}
              \/ s = "main" /\ step[b] = "absent"
              \/ s = "note" /\ step[b] = "main" /\ main = commit[b]
              \/ s = "push" /\ step[b] = "note" /\ noted' = [noted EXCEPT ![b] = tag[b]]
              \/ s = "release" /\ step[b] = "verify" /\ TagIsOwn(b)
    <2> USE Inputs DEF IInv, Steps, TagSteps, PublishSteps, Idle, bounds, history
    <2>1. CASE CheckAbsent(b)
      BY <2>1 DEF CheckAbsent
    <2>2. CASE CheckMain(b)
      BY <2>2 DEF CheckMain
    <2>3. CASE Note(b)
      BY <2>3 DEF Note
    <2>4. CASE Verify(b)
      BY <2>4 DEF Verify
    <2>5. CASE Publish(b)
      BY <2>5 DEF Publish
    <2>6. CASE Annotate(b)
      BY <2>6 DEF Annotate
    <2>7. CASE Kill(b)
      BY <2>7 DEF Kill
    <2> QED  BY <2>1, <2>2, <2>3, <2>4, <2>5, <2>6, <2>7
  <1>2. job = b /\ step[b] # "waiting" /\ step'[b] = s /\ commit[b] \in 1 .. main /\ main \in Nat
    BY <1>1, Inputs DEF IInv, Goto, Idle
  <1>3. retags = 0 /\ Working(b)' => Above(b)'
    <2>1. Working(b)' => Working(b)
      BY <1>1, <1>2 DEF Working, Idle
    <2>2. SUFFICES ASSUME retags = 0, Working(b)', Above(b) PROVE Above(b)'
      BY <2>1 DEF IInv
    <2>3. s \in {"note", "push"} => \A x \in pushed : x.commit <= commit[b]
      <3>1. s = "note" => main = commit[b]
        BY <1>1 DEF Idle
      <3>2. s = "push" => step[b] = "note"
        BY <1>1 DEF Idle
      <3> QED  BY <1>2, <2>2, <3>1, <3>2 DEF IInv, Shape, Above
    <2> QED  BY <1>1, <1>2, <2>2, <2>3 DEF Above
  <1>4. Fresh(b)'
    <2>1. s = "push" => noted'[b] = tag[b]
      BY <1>1 DEF Idle, IInv, Shape
    <2>2. s = "release" => commit[b] \in found[b]
      BY <1>1 DEF Idle, IInv, Fresh, TagIsOwn
    <2>3. /\ s \in {"absent", "main", "note", "push"} => main \in tips[b]
          /\ s \in {"note", "push"} => commit[b] \in tips[b]
          /\ s # "verify"
      BY <1>1 DEF Idle, IInv, Fresh, Working
    <2> QED  BY <1>1, <1>2, <2>1, <2>2, <2>3 DEF Fresh, Working, origin
  <1>5. /\ noted' \in [Builds -> Versions \cup {None}] /\ \A c \in Builds \ {b} : noted'[c] = noted[c]
        /\ tag' \in [Builds -> Versions]
        /\ tips' \in [Builds -> SUBSET Nat] /\ found' \in [Builds -> SUBSET Nat]
    BY <1>1 DEF IInv, Shape
  <1> QED  BY <1>1, <1>2, <1>3, <1>4, <1>5, GroupStep

LEMMA FetchTagPreserves ==
    ASSUME IInv, NEW b \in Builds, FetchTag(b)
    PROVE  IInv'
  <1>1. /\ step[b] = "publish" /\ job = None /\ Goto(b, "verify")
        /\ found' = [found EXCEPT ![b] = At(noted[b])]
        /\ UNCHANGED <<origin, commit, type, noted, tag, kills, retags, pushed, tips>>
    BY DEF FetchTag, MayRun, bounds
  <1>2. found' \in [Builds -> SUBSET Nat] /\ found'[b] = At(noted[b]) /\ step'[b] = "verify"
    <2>1. At(noted[b]) \in SUBSET Nat
      BY DEF IInv, Shape, At
    <2> QED  BY <1>1, <2>1, Inputs DEF IInv, Shape, Goto
  <1>3. Fresh(b)' /\ ~Working(b)'
    BY <1>1, <1>2 DEF Fresh, Working, At, origin
  <1>4. "verify" \in Steps \ {"waiting"} /\ step[b] \in PublishSteps /\ kills' \in 0 .. MaxKills
    BY <1>1, Inputs DEF Steps, PublishSteps, IInv
  <1>5. /\ noted' \in [Builds -> Versions \cup {None}] /\ tag' \in [Builds -> Versions]
        /\ tips' \in [Builds -> SUBSET Nat]
    BY <1>1 DEF IInv, Shape
  <1> QED  BY <1>1, <1>2, <1>3, <1>4, <1>5, GroupStep

(* A push: the one step that adds a tag, and it is of a job that looked for the ones before it. *)
LEMMA PushPreserves ==
    ASSUME IInv, NEW b \in Builds, Push(b)
    PROVE  IInv'
  <1> DEFINE new  == [version |-> tag[b], commit |-> commit[b]]
             mark == [version |-> tag[b], commit |-> commit[b], build |-> b]
  <1>1. /\ step[b] = "push" /\ job = b
        /\ UNCHANGED <<main, commit, type, noted, tag, fetched, retags, released, tips, found>>
    BY Inputs DEF Push, IInv, Idle
  <1>2. commit[b] \in 1 .. main /\ main \in Nat /\ noted[b] = tag[b] /\ tag[b] \in Versions
    BY <1>1, Inputs DEF IInv, Fresh, Shape
  <1>3. PICK s \in {"fetch", "publish"} : Goto(b, s) /\ kills' \in 0 .. MaxKills
    BY Inputs DEF Push, IInv
  <1>4. /\ step' = [step EXCEPT ![b] = s] /\ job' = None /\ step'[b] = s
        /\ \A c \in Builds \ {b} : step'[c] = step[c]
        /\ step' \in [Builds -> Steps]
    BY <1>3, Inputs DEF Goto, IInv, Idle, Steps, TagSteps, PublishSteps
  <1>5. Fresh(b)' /\ ~Working(b)'
    BY <1>4 DEF Fresh, Working
  <1>6. CASE ~(At(tag[b]) \subseteq {commit[b]})
    <2>1. UNCHANGED <<tags, pushed>> /\ Goto(b, "fetch") /\ kills' = kills
      BY <1>6 DEF Push
    <2>2. /\ noted' \in [Builds -> Versions \cup {None}] /\ tag' \in [Builds -> Versions]
          /\ tips' \in [Builds -> SUBSET Nat] /\ found' \in [Builds -> SUBSET Nat]
      BY <1>1 DEF IInv, Shape
    <2>3. "fetch" \in Steps \ {"waiting"} /\ "fetch" \notin PublishSteps
      BY DEF Steps, TagSteps, PublishSteps
    <2> QED  BY <1>1, <1>3, <1>5, <2>1, <2>2, <2>3, GroupStep DEF origin
  <1>7. CASE At(tag[b]) \subseteq {commit[b]}
    <2>1. tags' = tags \cup {new} /\ pushed' = pushed \cup {mark}
      BY <1>7 DEF Push
    <2>2. \A t \in tags : t.version = tag[b] => t = new
      <3>1. \A t \in tags : t.version = tag[b] => t.commit = commit[b]
        BY <1>7 DEF At
      <3> QED  BY <3>1 DEF IInv, Shape
    <2>3. /\ tags' \in SUBSET [version : Versions, commit : Nat]
          /\ \A t, u \in tags' : t.version = u.version => t = u
          /\ \A t \in tags' : t.commit \in 1 .. main
      BY <1>2, <2>1, <2>2 DEF IInv, Shape, TypeOK
    <2>4. IsFiniteSet({ t.version : t \in tags' })
      <3>1. { t.version : t \in tags' } \in SUBSET ({ t.version : t \in tags } \cup {tag[b]})
        BY <2>1, new.version = tag[b]
      <3>2. IsFiniteSet({ t.version : t \in tags })
        BY DEF IInv, Shape
      <3> QED  BY <3>1, <3>2, OneMoreIsFinite
    <2>5. TypeOK'
      <3>1. /\ main' \in 1 .. LastCommit /\ commit' \in [Builds -> (1 .. main') \cup {None}]
            /\ type' \in [Builds -> ReleaseTypes] /\ job' \in Builds \cup {None}
            /\ kills' \in 0 .. MaxKills /\ retags' \in 0 .. MaxRetags
        BY <1>1, <1>3, <1>4 DEF IInv, Shape, TypeOK
      <3>2. \A t \in tags' : t.commit \in 1 .. main' /\ Cardinality(At(t.version)') = 1
        BY <1>1, <2>3, Tagged DEF At
      <3>3. ASSUME NEW c \in Builds
            PROVE  /\ step'[c] \notin Idle => job' = c
                   /\ step'[c] = "waiting" <=> commit'[c] = None
                   /\ step'[c] \in PublishSteps =>
                         \E t \in pushed' : t.version = noted'[c] /\ t.build = c
        <4>1. CASE c = b
          <5>1. mark \in pushed' /\ mark.version = noted'[b] /\ mark.build = b
            BY <1>1, <1>2, <2>1
          <5>2. step'[b] \in Idle /\ step'[b] # "waiting" /\ commit'[b] # None
            BY <1>1, <1>2, <1>4, Inputs DEF IInv, Idle
          <5> QED  BY <4>1, <5>1, <5>2
        <4>2. CASE c # b
          <5>1. step[c] \in Idle
            BY <1>1, <4>2, Inputs DEF IInv
          <5> QED  BY <1>1, <1>4, <2>1, <4>2, <5>1 DEF IInv, Shape, TypeOK
        <4> QED  BY <4>1, <4>2
      <3> QED  BY <1>4, <3>1, <3>2, <3>3 DEF TypeOK, Steps
    <2>6. Shape'
      BY <1>1, <1>2, <2>1, <2>3, <2>4, <2>5 DEF IInv, Shape
    <2>7. ASSUME retags' = 0 PROVE Ordered'
      <3>1. Ordered /\ Above(b) /\ \A x \in pushed : x.commit \in Nat
        BY <1>1, <2>7, Inputs DEF IInv, Shape, Working
      <3>2. \A x \in pushed : x.commit < commit[b] /\ Before(x.version, tag[b])
        BY <1>1, <3>1 DEF Above
      <3>3. /\ mark.version = tag[b] /\ mark.commit = commit[b]
            /\ new.version = tag[b] /\ new.commit = commit[b]
            /\ new = [version |-> mark.version, commit |-> mark.commit]
        OBVIOUS
      <3> HIDE DEF new, mark
      <3>4. /\ \A t \in tags' : \E x \in pushed' : x.version = t.version /\ x.commit = t.commit
            /\ \A x \in pushed' : [version |-> x.version, commit |-> x.commit] \in tags'
        BY <2>1, <3>1, <3>3 DEF Ordered
      <3>5. \A x \in pushed' : Before(Zero, x.version)
        BY <2>1, <3>1, <3>3 DEF Ordered, Above
      <3>6. \A x, y \in pushed' : /\ x.commit = y.commit => x = y
                                  /\ x.commit < y.commit => Before(x.version, y.version)
        BY <1>2, <2>1, <3>1, <3>2, <3>3 DEF Ordered
      <3> QED  BY <3>4, <3>5, <3>6 DEF Ordered
    <2> QED  BY <1>1, <1>4, <1>5, <2>6, <2>7, StepOfOne
  <1> QED  BY <1>6, <1>7

----------------------------------------------------------------------------
(* Steps that do not wait for the group. *)
LEMMA UnblockPreserves ==
    ASSUME IInv, NEW b \in Builds, Unblock(b)
    PROVE  IInv'
  <1>1. PICK c \in 1 .. main :
           /\ commit' = [commit EXCEPT ![b] = c] /\ step' = [step EXCEPT ![b] = "fetch"]
           /\ step[b] = "waiting"
           /\ UNCHANGED <<main, tags, type, noted, tag, fetched, job, kills, retags, pushed, tips, found>>
    BY DEF Unblock, origin, bounds, history
  <1>2. /\ \A d \in Builds \ {b} : step'[d] = step[d] /\ commit'[d] = commit[d]
        /\ step'[b] = "fetch" /\ commit'[b] = c /\ c # None
        /\ step' \in [Builds -> Steps] /\ commit' \in [Builds -> (1 .. main') \cup {None}]
    BY <1>1, Inputs DEF IInv, Steps, TagSteps
  <1>3. TypeOK'
    <2>1. /\ main' \in 1 .. LastCommit
          /\ type' \in [Builds -> ReleaseTypes] /\ job' \in Builds \cup {None}
          /\ kills' \in 0 .. MaxKills /\ retags' \in 0 .. MaxRetags
          /\ \A t \in tags' : t.commit \in 1 .. main' /\ Cardinality(At(t.version)') = 1
      BY <1>1 DEF IInv, Shape, TypeOK, At
    <2>2. ASSUME NEW d \in Builds
          PROVE  /\ step'[d] \notin Idle => job' = d
                 /\ step'[d] = "waiting" <=> commit'[d] = None
                 /\ step'[d] \in PublishSteps =>
                       \E t \in pushed' : t.version = noted'[d] /\ t.build = d
      <3>1. "fetch" \in Idle /\ "fetch" \notin PublishSteps
        BY DEF Idle, PublishSteps
      <3> QED  BY <1>1, <1>2, <3>1 DEF IInv, Shape, TypeOK
    <2> QED  BY <1>2, <2>1, <2>2 DEF TypeOK, Steps
  <1>4. Shape'
    BY <1>1, <1>3 DEF IInv, Shape
  <1>5. retags' = 0 => Ordered'
    BY <1>1 DEF IInv, Ordered
  <1>6. ASSUME NEW d \in Builds PROVE Fresh(d)' /\ (retags' = 0 /\ Working(d)' => Above(d)')
    <2>1. CASE d = b
      BY <1>2, <2>1 DEF Fresh, Working
    <2>2. CASE d # b
      BY <1>1, <1>2, <2>2 DEF IInv, Fresh, Working, Above, At
    <2> QED  BY <2>1, <2>2
  <1> QED  BY <1>4, <1>5, <1>6 DEF IInv

LEMMA AdvancePreserves ==
    ASSUME IInv, Advance
    PROVE  IInv'
  <1>1. /\ main < LastCommit /\ main' = main + 1
        /\ tips' = [b \in Builds |-> tips[b] \cup {main'}]
        /\ UNCHANGED <<tags, commit, type, noted, step, tag, job, kills, retags, pushed, found>>
    BY DEF Advance, build, bounds
  <1>2. /\ main' \in 1 .. LastCommit /\ main' \in Nat /\ 1 .. main \subseteq 1 .. main'
    BY <1>1, Inputs DEF IInv
  <1>3. TypeOK'
    <2>1. \A t \in tags' : t.commit \in 1 .. main' /\ Cardinality(At(t.version)') = 1
      BY <1>1, <1>2 DEF IInv, Shape, TypeOK, At
    <2>2. commit' \in [Builds -> (1 .. main') \cup {None}]
      BY <1>1, <1>2 DEF IInv, Shape, TypeOK
    <2> QED  BY <1>1, <1>2, <2>1, <2>2 DEF IInv, Shape, TypeOK
  <1>4. Shape'
    <2>1. tips' \in [Builds -> SUBSET Nat]
      BY <1>1, <1>2 DEF IInv, Shape
    <2>2. pushed' \subseteq [version : Versions, commit : 1 .. main', build : Builds]
      BY <1>1, <1>2 DEF IInv, Shape
    <2> QED  BY <1>1, <1>3, <2>1, <2>2 DEF IInv, Shape
  <1>5. retags' = 0 => Ordered'
    BY <1>1 DEF IInv, Ordered
  <1>6. ASSUME NEW b \in Builds PROVE Fresh(b)' /\ (retags' = 0 /\ Working(b)' => Above(b)')
    <2>1. tips'[b] = tips[b] \cup {main'}
      BY <1>1
    <2> QED  BY <1>1, <2>1 DEF IInv, Fresh, Working, Above, At
  <1> QED  BY <1>4, <1>5, <1>6 DEF IInv

LEMMA RetagPreserves ==
    ASSUME IInv, Retag
    PROVE  IInv'
  <1>1. /\ retags < MaxRetags /\ retags' = retags + 1
        /\ UNCHANGED <<main, commit, type, noted, step, tag, job, kills, pushed, tips>>
        /\ found' = [b \in Builds |-> found[b] \cup At(noted[b])']
    BY DEF Retag, build
  <1>2. PICK v \in { t.version : t \in tags } \cup ({ tag[b] : b \in Builds } \ {Zero}),
             c \in {None} \cup 1 .. main :
           tags' = { t \in tags : t.version # v }
                   \cup (IF c = None THEN {} ELSE {[version |-> v, commit |-> c]})
    BY DEF Retag
  <1>3. v \in Versions /\ main \in Nat
    BY <1>2, Inputs DEF IInv, Shape
  <1>4. /\ tags' \in SUBSET [version : Versions, commit : Nat]
        /\ \A t, u \in tags' : t.version = u.version => t = u
        /\ \A t \in tags' : t.commit \in 1 .. main
    BY <1>2, <1>3 DEF IInv, Shape, TypeOK
  <1>5. IsFiniteSet({ t.version : t \in tags' })
    <2>1. { t.version : t \in tags' } \in SUBSET ({ t.version : t \in tags } \cup {v})
      BY <1>2
    <2>2. IsFiniteSet({ t.version : t \in tags })
      BY DEF IInv, Shape
    <2> QED  BY <2>1, <2>2, OneMoreIsFinite
  <1>6. TypeOK'
    <2>1. \A t \in tags' : t.commit \in 1 .. main' /\ Cardinality(At(t.version)') = 1
      BY <1>1, <1>4, Tagged DEF At
    <2>2. retags' \in 0 .. MaxRetags
      BY <1>1, Inputs DEF IInv
    <2> QED  BY <1>1, <2>1, <2>2 DEF IInv, Shape, TypeOK
  <1>7. \A version : At(version)' \subseteq Nat
    BY <1>4 DEF At
  <1>8. Shape'
    <2>1. found' \in [Builds -> SUBSET Nat]
      BY <1>1, <1>7 DEF IInv, Shape
    <2> QED  BY <1>1, <1>4, <1>5, <1>6, <2>1 DEF IInv, Shape
  <1>9. retags' # 0
    BY <1>1, Inputs DEF IInv
  <1>10. ASSUME NEW b \in Builds PROVE Fresh(b)'
    <2>1. found'[b] = found[b] \cup At(noted[b])'
      BY <1>1
    <2> QED  BY <1>1, <2>1 DEF IInv, Fresh, Working
  <1> QED  BY <1>8, <1>9, <1>10 DEF IInv

----------------------------------------------------------------------------
(* The invariant is inductive. *)
THEOREM Inductive == Spec => []IInv
  <1>1. IInv /\ [Next]_vars => IInv'
    <2> SUFFICES ASSUME IInv, [Next]_vars PROVE IInv'
      OBVIOUS
    <2>1. CASE Advance
      BY <2>1, AdvancePreserves
    <2>2. CASE Retag
      BY <2>2, RetagPreserves
    <2>3. ASSUME NEW b \in Builds, Unblock(b) \/ Fetch(b) \/ FetchTag(b) \/ Work(b) \/ Kill(b)
          PROVE  IInv'
      BY <2>3, UnblockPreserves, FetchPreserves, FetchTagPreserves, PushPreserves, WorkPreserves
         DEF Work
    <2>4. CASE UNCHANGED vars
      BY <2>4 DEF vars, origin, build, bounds, history, IInv, Shape, TypeOK, At, Ordered, Above,
         Fresh, Working
    <2> QED  BY <2>1, <2>2, <2>3, <2>4 DEF Next
  <1> QED  BY <1>1, InitEstablishes, PTL DEF Spec

(* At most one job runs at a time, and it publishes a version that its own build has pushed. *)
THEOREM TypeCorrect == Spec => []TypeOK
  <1>1. IInv => TypeOK
    BY DEF IInv, Shape
  <1> QED  BY <1>1, Inductive, PTL

(***************************************************************************)
(* While nobody moves tags, a commit is released under one version, and    *)
(* the later commit under the higher one.                                  *)
(***************************************************************************)
THEOREM VersionsAreInOrder == Spec => []VersionsFollowMain
  <1>1. IInv => VersionsFollowMain
    BY DEF IInv, Ordered, VersionsFollowMain
  <1> QED  BY <1>1, Inductive, PTL

(***************************************************************************)
(* A commit that main had left behind when the job began is not tagged,    *)
(* and a release is made of a commit that its tag named during the job.    *)
(***************************************************************************)
THEOREM ReleasesAreFresh == Spec => NothingStaleGoesOut
  <1>1. IInv => [\A b \in Builds : job = b =>
                   /\ pushed' # pushed /\ step[b] = "push" => commit[b] \in tips[b]
                   /\ released' # released /\ step[b] = "release" => commit[b] \in found[b]]_vars
    BY DEF IInv, Fresh
  <1> QED  BY <1>1, Inductive, PTL DEF NothingStaleGoesOut
=============================================================================
