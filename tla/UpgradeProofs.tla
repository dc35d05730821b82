---------------------------- MODULE UpgradeProofs ----------------------------
(***************************************************************************)
(* Theorems about Upgrade, for every set of builds, versions and Caddies,  *)
(* and any number of runs, writes and reboots.                             *)
(***************************************************************************)
EXTENDS Upgrade, WellFoundedInduction, NaturalsInduction, TLAPS

-----------------------------------------------------------------------------
(***************************************************************************)
(* The order of versions.                                                  *)
(***************************************************************************)
Below == {p \in Nat \X Nat : p[1] < p[2]}

(* Every set of places has a first one. *)
LEMMA FirstPlace ==
  ASSUME NEW T, T \subseteq Nat, T # {}
  PROVE  Min(T) \in T
<1>1. IsWellFoundedOn(OpToRel(<, Nat), Nat)
  BY NatLessThanWellFounded
<1>2. OpToRel(<, Nat) = Below
  BY DEF OpToRel, Below
<1>3. PICK t \in T : \A u \in T : <<u, t>> \notin Below
  BY <1>1, <1>2, WFMin
<1>4. ASSUME NEW u \in T
      PROVE  t <= u
  <2>1. <<u, t>> \in Nat \X Nat
    OBVIOUS
  <2>2. <<u, t>>[1] = u /\ <<u, t>>[2] = t
    OBVIOUS
  <2>3. <<u, t>> \in Below <=> u < t
    BY <2>1, <2>2 DEF Below
  <2> QED BY <1>3, <2>3
<1> QED BY <1>4 DEF Min

(* Turning all the signs turns what the first telling one says. *)
LEMMA FirstOfTurned ==
  ASSUME NEW D, D \subseteq Nat,
         NEW s \in [D -> Int], NEW t \in [D -> Int], \A i \in D : t[i] = -s[i],
         NEW o \in Int
  PROVE  FirstOf(t, -o) = -FirstOf(s, o) /\ FirstOf(s, o) \in Int
<1> DEFINE T == {i \in D : s[i] # 0}
<1>0. \A i \in D : s[i] \in Int /\ (s[i] # 0 <=> t[i] # 0)
  OBVIOUS
<1>1. T = {i \in D : t[i] # 0} /\ DOMAIN s = D /\ DOMAIN t = D
  BY <1>0
<1>2. T # {} => Min(T) \in T
  BY FirstPlace
<1> QED BY <1>1, <1>2 DEF FirstOf

(* So does turning a number. *)
LEMMA SignTurned ==
  ASSUME NEW n \in Int
  PROVE  Sign(-n) = -Sign(n) /\ Sign(n) \in Int
BY DEF Sign

(* compareIdentifiers() of two identifiers, the other way round. *)
LEMMA IdentifiersTurned ==
  ASSUME NEW x \in Identifiers, NEW y \in Identifiers
  PROVE  CompareIdentifiers(y, x) = -CompareIdentifiers(x, y) /\ CompareIdentifiers(x, y) \in Int
<1>1. x.value \in Int /\ y.value \in Int /\ x.numeric \in BOOLEAN /\ y.numeric \in BOOLEAN
  BY DEF Identifiers
<1>2. x.value - y.value \in Int /\ y.value - x.value = -(x.value - y.value)
  BY <1>1
<1>3. Sign(y.value - x.value) = -Sign(x.value - y.value) /\ Sign(x.value - y.value) \in Int
  BY <1>2, SignTurned
<1>4. CASE x.numeric = y.numeric
  BY <1>3, <1>4 DEF CompareIdentifiers
<1>5. CASE x.numeric # y.numeric
  <2>1. CASE x.numeric
    <3>1. ~y.numeric
      BY <1>1, <1>5, <2>1
    <3>2. CompareIdentifiers(x, y) = -1
      BY <1>5, <2>1, <3>1 DEF CompareIdentifiers
    <3>3. CompareIdentifiers(y, x) = 1
      BY <1>5, <2>1, <3>1 DEF CompareIdentifiers
    <3>4. CompareIdentifiers(x, y) \in Int /\ 0 - CompareIdentifiers(x, y) = 1
      BY ONLY <3>2
    <3> QED BY ONLY <3>3, <3>4
  <2>2. CASE ~x.numeric
    <3>1. y.numeric
      BY <1>1, <1>5, <2>2
    <3>2. CompareIdentifiers(x, y) = 1
      BY <1>5, <2>2, <3>1 DEF CompareIdentifiers
    <3>3. CompareIdentifiers(y, x) = -1
      BY <1>5, <2>2, <3>1 DEF CompareIdentifiers
    <3> QED BY <3>2, <3>3
  <2> QED BY <2>1, <2>2
<1> QED BY <1>4, <1>5

(* The same of two lists of identifiers: the shorter beginning comes first. *)
LEMMA PrereleasesTurned ==
  ASSUME NEW p \in Seq(Identifiers), NEW q \in Seq(Identifiers)
  PROVE  /\ ComparePrereleases(q, p) = -ComparePrereleases(p, q)
         /\ ComparePrereleases(p, q) \in Int
<1>1. Len(p) \in Nat /\ Len(q) \in Nat /\ {Len(p), Len(q)} = {Len(q), Len(p)}
  OBVIOUS
<1>2. /\ Sign(Len(q) - Len(p)) \in Int /\ Sign(Len(p) - Len(q)) = -Sign(Len(q) - Len(p))
  <2>1. Len(q) - Len(p) \in Int /\ Len(p) - Len(q) = -(Len(q) - Len(p))
    BY <1>1
  <2> QED BY <2>1, SignTurned
<1>3. CASE p = <<>> \/ q = <<>>
  BY <1>2, <1>3 DEF ComparePrereleases
<1>4. CASE ~(p = <<>> \/ q = <<>>)
  <2> DEFINE m == Min({Len(p), Len(q)})
             D == 1..m
             s == [i \in D |-> CompareIdentifiers(p[i], q[i])]
             t == [i \in D |-> CompareIdentifiers(q[i], p[i])]
  <2>1. m \in Nat /\ m <= Len(p) /\ m <= Len(q)
    <3>1. m \in {Len(p), Len(q)} /\ \A n \in {Len(p), Len(q)} : m <= n
      BY <1>1 DEF Min
    <3> QED BY <1>1, <3>1
  <2>2. \A i \in D : p[i] \in Identifiers /\ q[i] \in Identifiers
    BY <1>1, <2>1
  <2>3. /\ \A i \in D : t[i] = -s[i]
        /\ s \in [D -> Int] /\ t \in [D -> Int] /\ D \subseteq Nat
    <3>1. \A i \in D : CompareIdentifiers(p[i], q[i]) \in Int
                       /\ CompareIdentifiers(q[i], p[i]) = -CompareIdentifiers(p[i], q[i])
      BY <2>2, IdentifiersTurned
    <3>2. s \in [D -> Int] /\ \A i \in D : t[i] = -s[i]
      BY <3>1
    <3>3. \A i \in D : t[i] = CompareIdentifiers(q[i], p[i]) /\ t[i] \in Int
      BY <2>2, IdentifiersTurned
    <3>4. D \subseteq Nat /\ DOMAIN t = D
      BY <2>1
    <3> QED BY <3>2, <3>3, <3>4
  <2>4. Sign(Len(q) - Len(p)) = -Sign(Len(p) - Len(q)) /\ Sign(Len(p) - Len(q)) \in Int
    BY <1>2
  <2>5. /\ ComparePrereleases(p, q) = FirstOf(s, Sign(Len(p) - Len(q)))
        /\ ComparePrereleases(q, p) = FirstOf(t, Sign(Len(q) - Len(p)))
    BY <1>1, <1>4 DEF ComparePrereleases
  <2> HIDE DEF s, t, D
  <2>6. FirstOf(t, -Sign(Len(p) - Len(q))) = -FirstOf(s, Sign(Len(p) - Len(q)))
        /\ FirstOf(s, Sign(Len(p) - Len(q))) \in Int
    BY <2>3, <2>4, FirstOfTurned
  <2> QED BY <2>4, <2>5, <2>6
<1> QED BY <1>3, <1>4

(***************************************************************************)
(* compareVersions() answers the opposite when its arguments are swapped:  *)
(* of two builds at most one upgrades the other, and none upgrades itself. *)
(***************************************************************************)
THEOREM CompareVersionsTurned ==
  ASSUME NEW v \in Versions, NEW w \in Versions
  PROVE  /\ CompareVersions(w, v) = -CompareVersions(v, w)
         /\ CompareVersions(v, w) \in Int
<1> DEFINE s == [i \in 1..3 |-> Sign(v.release[i] - w.release[i])]
           t == [i \in 1..3 |-> Sign(w.release[i] - v.release[i])]
           o == ComparePrereleases(v.prerelease, w.prerelease)
<1>1. \A i \in 1..3 : v.release[i] \in Nat /\ w.release[i] \in Nat
  BY DEF Versions
<1>2. \A i \in 1..3 : s[i] \in Int /\ t[i] = -s[i]
  <2> SUFFICES ASSUME NEW i \in 1..3 PROVE s[i] \in Int /\ t[i] = -s[i]
    OBVIOUS
  <2>1. v.release[i] - w.release[i] \in Int
        /\ w.release[i] - v.release[i] = -(v.release[i] - w.release[i])
    BY <1>1
  <2> QED BY <2>1, SignTurned
<1>3. s \in [1..3 -> Int] /\ t \in [1..3 -> Int] /\ 1..3 \subseteq Nat
  BY <1>2
<1>4. ComparePrereleases(w.prerelease, v.prerelease) = -o /\ o \in Int
  BY PrereleasesTurned DEF Versions
<1>5. CompareVersions(v, w) = FirstOf(s, o) /\ CompareVersions(w, v) = FirstOf(t, -o)
  BY <1>4 DEF CompareVersions
<1> HIDE DEF s, t, o
<1>6. FirstOf(t, -o) = -FirstOf(s, o) /\ FirstOf(s, o) \in Int
  BY <1>2, <1>3, <1>4, FirstOfTurned
<1> QED BY <1>5, <1>6

(* No build upgrades itself. *)
LEMMA NotNewerThanItself ==
  ASSUME NEW b \in Builds
  PROVE  ~Newer(b, b)
<1>1. VersionOf[b] \in Versions
  BY BuildAssumption
<1> QED BY <1>1, CompareVersionsTurned DEF Newer

-----------------------------------------------------------------------------
(***************************************************************************)
(* The inductive invariant, part by part.  What each place of a run knows  *)
(* of the journal and of the files is what the run has done to get there.  *)
(***************************************************************************)
Phases == {"none", "bundle", "caddy", "quiescing", "services"}

InCaddy == {"stage", "remove", "rename", "enter-quiescing"}
InQuiescing == {"environment", "validate", "stop", "snapshot", "enter-services"}
InServices == {"restart-dsh", "restart-edge", "finish"}
Restoring == {"undo-document", "undo-environment", "undo-dsh", "undo-edge"}
Places == {"idle", "journal", "add", "enter-caddy", "forget"} \cup InCaddy
            \cup InQuiescing \cup InServices \cup Undoing

Services == [active: BOOLEAN, build: Builds \cup {None}]

Typed ==
  /\ record \in [build: Builds, caddy: Nat, journal: [from: Builds \cup {None}, phase: Phases]]
  /\ bundle \in Builds \cup {None}
  /\ dsh \in Services
  /\ doc \in Seq(Builds) /\ backup \subseteq Seq(Builds)
  /\ cli \in [at: Places, target: Builds, recovering: BOOLEAN, runs: Nat]
  /\ reboots \in Nat

InPhase ==
  /\ cli.at \in {"journal", "forget", "undo-forget"} => Phase = "none"
  /\ cli.at \in {"add", "enter-caddy"} => Phase = "bundle"
  /\ cli.at \in InCaddy => Phase = "caddy"
  /\ cli.at \in InQuiescing => Phase = "quiescing"
  /\ cli.at \in InServices \cup {"undo-stop", "undo-document"} => Phase = "services"
  /\ cli.at \in {"undo-bundle", "undo-finish"} => Phase # "none"
  /\ cli.at \in {"undo-stage", "undo-remove", "undo-rename"} => Phase \notin {"none", "bundle"}
  /\ cli.at \in Restoring => Phase \in {"quiescing", "services"}

Aiming ==
  /\ record.caddy = CaddyOf[record.build]
  /\ cli.at \notin {"idle", "forget"} => Newer(cli.target, record.build)

\* What a run has put in place on its way forward.
Advanced ==
  /\ cli.at \in InCaddy \cup InQuiescing \cup InServices \cup {"enter-caddy"} =>
       bundle = cli.target
  /\ cli.at \in {"remove", "rename"} => staged = CaddyOf[cli.target]
  /\ cli.at \in InQuiescing \cup InServices \cup {"enter-quiescing"} =>
       binary = CaddyOf[cli.target] /\ staged = None
  /\ cli.at \in (InQuiescing \ {"environment"}) \cup InServices => env = cli.target
  /\ cli.at = "enter-services" => backup # {}

\* What it has put back.
Undone ==
  /\ cli.at \in Restoring \cup {"undo-stage", "undo-remove", "undo-rename", "undo-finish"} =>
       bundle = From
  /\ cli.at \in {"undo-remove", "undo-rename"} => staged = CaddyOf[From]
  /\ cli.at \in Restoring \cup {"undo-finish"} => binary = CaddyOf[From] /\ staged = None
  /\ cli.at \in {"undo-dsh", "undo-edge", "undo-finish"} => env = From

Covered == Typed /\ InPhase /\ Aiming /\ Advanced /\ Undone /\ JournalCoversChanges

(* It holds of a fresh installation. *)
LEMMA CoveredInit == Init => Covered
  BY BuildAssumption DEF Init, Covered, Typed, InPhase, Aiming, Advanced, Undone,
     JournalCoversChanges, Settled, Phases, Places, InCaddy, InQuiescing, InServices,
     Restoring, Undoing, At, Phase, From, Services

(* A run that gives up, or goes back from where it is, leaves what the journal covers. *)
LEMMA Retreat ==
  ASSUME Covered, Typed', NEW place \in {"idle", UndoFrom},
         place = "idle" \/ (Phase # "none" /\ cli.at \notin {"idle", "forget"}),
         cli' = [cli EXCEPT !.at = place],
         UNCHANGED <<record, binary, staged, env>>,
         bundle' = bundle \/ cli.at \in {"add", "undo-bundle"},
         backup' = backup \/ cli.at = "snapshot"
  PROVE  Covered'
<1>0. /\ cli'.at = place /\ cli'.target = cli.target
      /\ place = "idle" \/ place = "undo-stop" \/ place = "undo-bundle"
  BY DEF Covered, Typed, UndoFrom
<1>1. /\ place = "undo-stop" => Phase = "services"
      /\ place = "undo-bundle" => Phase # "none"
      /\ Phase' = Phase /\ From' = From
  BY DEF UndoFrom, Phase, From
<1>2. InPhase' /\ Advanced' /\ Undone'
  BY <1>0, <1>1 DEF InPhase, Advanced, Undone, InCaddy, InQuiescing, InServices, Restoring
<1>3. Aiming'
  BY <1>0 DEF Covered, Aiming, Newer
<1>4. JournalCoversChanges'
  <2>1. Phase = "none" => bundle' = bundle
    BY DEF Covered, InPhase
  <2>2. Phase = "services" => backup' = backup
    BY DEF Covered, InPhase, InQuiescing
  <2> QED BY <1>1, <2>1, <2>2 DEF Covered, JournalCoversChanges
<1> QED BY <1>2, <1>3, <1>4 DEF Covered

(* A failing step leaves what the journal covers, too. *)
LEMMA ThrowCovered ==
  ASSUME Covered, Typed', cli.at # "idle", Throw,
         UNCHANGED <<record, binary, staged, env>>,
         bundle' = bundle \/ cli.at \in {"add", "undo-bundle"},
         backup' = backup \/ cli.at = "snapshot"
  PROVE  Covered'
<1> DEFINE place == IF cli.at \in Undoing \cup {"journal", "forget"} THEN "idle" ELSE UndoFrom
<1>1. cli' = [cli EXCEPT !.at = place] /\ place \in {"idle", UndoFrom}
  BY DEF Throw, GoTo
<1>2. place = "idle" \/ (Phase # "none" /\ cli.at \notin {"idle", "forget"})
  BY DEF Covered, Typed, InPhase, Places, InCaddy, InQuiescing, InServices
<1> HIDE DEF place
<1> QED BY <1>1, <1>2, Retreat

(* What a stopped or a starting service is. *)
LEMMA ServiceStates ==
  ASSUME Typed
  PROVE  Stopped \in Services /\ Booted \in Services
<1>1. Stopped \in Services
  BY DEF Stopped, Services
<1>2. (IF bundle = env THEN bundle ELSE None) \in Builds \cup {None}
  BY DEF Typed
<1>3. \A b \in Builds \cup {None} : [active |-> TRUE, build |-> b] \in Services
  BY DEF Services
<1> QED BY <1>1, <1>2, <1>3 DEF Booted

(* Every step keeps the invariant: one case for each action. *)
LEMMA CoveredStep ==
  ASSUME Covered, Next
  PROVE  Covered'
<1>0. Stopped \in Services /\ Booted \in Services
  BY ServiceStates DEF Covered
<1> USE BuildAssumption, <1>0
    DEF Covered, Typed, InPhase, Aiming, Advanced, Undone,
     JournalCoversChanges, Settled, Phases, Places, InCaddy, InQuiescing, InServices,
     Restoring, Undoing, At, Phase, From, GoTo, Throw, UndoFrom, files, services, state
<1>1. ASSUME NEW target \in Builds, Run(target) PROVE Covered'
  BY <1>1 DEF Run, Healthy
<1>2. CASE Enter("journal", "bundle", "add")
  BY <1>2 DEF Enter
<1>3. CASE AddBundle
  <2>1. CASE bundle' = cli.target /\ GoTo("enter-caddy")
    BY <1>3, <2>1 DEF AddBundle
  <2>2. CASE Throw
    <3>1. Typed'
      BY <1>3, <2>2 DEF AddBundle
    <3> QED BY ONLY <1>3, <2>2, <3>1, Covered, ThrowCovered DEF AddBundle, At, files, services, state
  <2> QED BY <1>3, <2>1, <2>2 DEF AddBundle
<1>4. CASE Enter("enter-caddy", "caddy", "stage")
  BY <1>4 DEF Enter
<1>5. CASE Stage("stage", cli.target, "remove")
  BY <1>5 DEF Stage
<1>6. CASE Remove("remove", "rename")
  BY <1>6 DEF Remove
<1>7. CASE Rename("rename", "enter-quiescing")
  BY <1>7 DEF Rename
<1>8. CASE Enter("enter-quiescing", "quiescing", "environment")
  BY <1>8 DEF Enter
<1>9. CASE Environment("environment", cli.target, "validate")
  BY <1>9 DEF Environment
<1>10. CASE Validate
  BY <1>10 DEF Validate
<1>11. CASE StopDsh("stop", "snapshot")
  <2>1. CASE GoTo("snapshot")
    BY <1>11, <2>1 DEF StopDsh
  <2>2. CASE Throw
    <3>1. Typed'
      BY <1>11, <2>2 DEF StopDsh
    <3> QED BY ONLY <1>11, <2>2, <3>1, Covered, ThrowCovered DEF StopDsh, At, files, services, state
  <2> QED BY <1>11, <2>1, <2>2 DEF StopDsh
<1>12. CASE Snapshot
  <2>1. CASE backup' = {doc} /\ GoTo("enter-services")
    BY <1>12, <2>1 DEF Snapshot
  <2>2. CASE Throw
    <3>1. Typed'
      BY <1>12, <2>2 DEF Snapshot
    <3> QED BY ONLY <1>12, <2>2, <3>1, Covered, ThrowCovered DEF Snapshot, At, files, services, state
  <2> QED BY <1>12, <2>1, <2>2 DEF Snapshot
<1>13. CASE Enter("enter-services", "services", "restart-dsh")
  BY <1>13 DEF Enter
<1>14. CASE RestartDsh("restart-dsh", "restart-edge")
  <2>1. CASE GoTo("restart-edge")
    BY <1>14, <2>1 DEF RestartDsh
  <2>2. CASE Throw
    <3>1. Typed'
      BY <1>14, <2>2 DEF RestartDsh
    <3> QED BY ONLY <1>14, <2>2, <3>1, Covered, ThrowCovered DEF RestartDsh, At, files, services, state
  <2> QED BY <1>14, <2>1, <2>2 DEF RestartDsh
<1>15. CASE RestartEdge("restart-edge", "finish")
  <2>1. CASE GoTo("finish")
    BY <1>15, <2>1 DEF RestartEdge
  <2>2. CASE Throw
    <3>1. Typed'
      BY <1>15, <2>2 DEF RestartEdge
    <3> QED BY ONLY <1>15, <2>2, <3>1, Covered, ThrowCovered DEF RestartEdge, At, files, services, state
  <2> QED BY <1>15, <2>1, <2>2 DEF RestartEdge
<1>16. CASE Finish
  BY <1>16 DEF Finish
<1>17. CASE Forget
  BY <1>17 DEF Forget
<1>18. CASE StopDsh("undo-stop", "undo-bundle")
  <2>1. CASE GoTo("undo-bundle")
    BY <1>18, <2>1 DEF StopDsh
  <2>2. CASE Throw
    <3>1. Typed'
      BY <1>18, <2>2 DEF StopDsh
    <3> QED BY ONLY <1>18, <2>2, <3>1, Covered, ThrowCovered DEF StopDsh, At, files, services, state
  <2> QED BY <1>18, <2>1, <2>2 DEF StopDsh
<1>19. CASE UndoBundle
  <2>1. CASE bundle' = From /\ GoTo(IF Phase = "bundle" THEN "undo-finish" ELSE "undo-stage")
    BY <1>19, <2>1 DEF UndoBundle
  <2>2. CASE Throw
    <3>1. Typed'
      BY <1>19, <2>2 DEF UndoBundle
    <3> QED BY ONLY <1>19, <2>2, <3>1, Covered, ThrowCovered DEF UndoBundle, At, files, services, state
  <2> QED BY <1>19, <2>1, <2>2 DEF UndoBundle
<1>20. CASE Stage("undo-stage", From, "undo-remove")
  BY <1>20 DEF Stage
<1>21. CASE Remove("undo-remove", "undo-rename")
  BY <1>21 DEF Remove
<1>22. CASE Rename("undo-rename", AfterBinary)
  BY <1>22 DEF Rename, AfterBinary
<1>23. CASE UndoDocument
  <2>1. CASE GoTo("undo-environment")
    BY <1>23, <2>1 DEF UndoDocument
  <2>2. CASE Throw
    <3>1. Typed'
      BY <1>23, <2>2 DEF UndoDocument
    <3> QED BY ONLY <1>23, <2>2, <3>1, Covered, ThrowCovered DEF UndoDocument, At, files, services, state
  <2> QED BY <1>23, <2>1, <2>2 DEF UndoDocument
<1>24. CASE Environment("undo-environment", From, "undo-dsh")
  BY <1>24 DEF Environment
<1>25. CASE RestartDsh("undo-dsh", "undo-edge")
  <2>1. CASE GoTo("undo-edge")
    BY <1>25, <2>1 DEF RestartDsh
  <2>2. CASE Throw
    <3>1. Typed'
      BY <1>25, <2>2 DEF RestartDsh
    <3> QED BY ONLY <1>25, <2>2, <3>1, Covered, ThrowCovered DEF RestartDsh, At, files, services, state
  <2> QED BY <1>25, <2>1, <2>2 DEF RestartDsh
<1>26. CASE RestartEdge("undo-edge", "undo-finish")
  <2>1. CASE GoTo("undo-finish")
    BY <1>26, <2>1 DEF RestartEdge
  <2>2. CASE Throw
    <3>1. Typed'
      BY <1>26, <2>2 DEF RestartEdge
    <3> QED BY ONLY <1>26, <2>2, <3>1, Covered, ThrowCovered DEF RestartEdge, At, files, services, state
  <2> QED BY <1>26, <2>1, <2>2 DEF RestartEdge
<1>27. CASE UndoFinish
  BY <1>27 DEF UndoFinish
<1>28. CASE UndoForget
  BY <1>28 DEF UndoForget
<1>29. CASE HostCallFails
  <2>1. Typed'
    BY <1>29 DEF HostCallFails
  <2> QED BY ONLY <1>29, <2>1, Covered, ThrowCovered DEF HostCallFails, At, files, services, state
<1>30. CASE Crash
  BY <1>30 DEF Crash
<1>31. CASE Reboot
  <2>1. Typed'
    BY ONLY <1>31, <1>0, Covered DEF Reboot, Covered, Typed, files, state, Places
  <2> QED BY ONLY <1>31, <2>1, Covered, Retreat DEF Reboot, files, services, state
<1>32. CASE Write
  <2>1. dsh.build \in Builds
    BY <1>32 DEF Write, Services
  <2> QED BY <1>32, <2>1 DEF Write
<1> QED BY <1>1, <1>2, <1>3, <1>4, <1>5, <1>6, <1>7, <1>8, <1>9, <1>10, <1>11, <1>12, <1>13, <1>14, <1>15, <1>16, <1>17, <1>18, <1>19, <1>20, <1>21, <1>22, <1>23, <1>24, <1>25, <1>26, <1>27, <1>28, <1>29, <1>30, <1>31, <1>32 DEF Next, Forward, Backward

-----------------------------------------------------------------------------
(***************************************************************************)
(* The services.  Where the run stands says what the DSH service runs; as  *)
(* long as the host stays up, so does the phase.                           *)
(***************************************************************************)
Running(build) == [active |-> TRUE, build |-> build]

Halted ==
  /\ cli.at \in {"snapshot", "enter-services", "restart-dsh"} => dsh.build = None
  /\ cli.at \in {"restart-edge", "finish"} => dsh = Running(cli.target)
  /\ cli.at = "finish" => edge = CaddyOf[cli.target]
  /\ cli.at \in {"undo-bundle", "undo-stage", "undo-remove", "undo-rename",
                 "undo-document", "undo-environment", "undo-dsh"} /\ Phase = "services" =>
       dsh.build = None
  /\ cli.at \in {"undo-edge", "undo-finish"} /\ Phase \in {"quiescing", "services"} =>
       dsh = Running(From)
  /\ cli.at = "undo-finish" /\ Phase \in {"quiescing", "services"} => edge = CaddyOf[From]

Serving ==
  reboots = 0 =>
    /\ Phase \in {"none", "bundle", "caddy"} =>
         dsh = Running(record.build) /\ edge = record.caddy
    /\ Phase = "quiescing" => dsh.build \in {None, record.build}

(***************************************************************************)
(* The document.  Where the recorded build is the only one that can have   *)
(* written it, that build reads it.                                        *)
(***************************************************************************)
Reads(build, document) == \A i \in DOMAIN document : document[i] <= build

Reading ==
  reboots = 0 =>
    /\ dsh.build # None => Reads(dsh.build, doc)
    /\ Phase # "services" => Reads(record.build, doc)
    /\ \A d \in backup : Reads(record.build, d)
    /\ cli.at \in {"restart-dsh", "undo-environment", "undo-dsh", "undo-edge", "undo-finish"} =>
         Reads(record.build, doc)

(***************************************************************************)
(* The snapshot.  While a run has only itself to undo, what the recorded   *)
(* build has changed is in the snapshot, and that build is not running.    *)
(***************************************************************************)
Snapshots ==
  /\ cli.at = "enter-services" => backup = {doc}
  /\ ~cli.recovering /\ Phase = "services" /\ cli.at # "idle"
       /\ cli.at \notin {"undo-environment", "undo-dsh", "undo-edge", "undo-finish"} =>
       /\ dsh.build # record.build
       /\ \A d \in backup : ChangesBy(doc, record.build) \subseteq ChangesBy(d, record.build)

(* The end of a write of the service. *)
LEMMA Appended ==
  ASSUME NEW d \in Seq(Builds), NEW b \in Builds
  PROVE  /\ Append(d, b) \in Seq(Builds)
         /\ \A c \in Builds : Reads(c, d) /\ b <= c => Reads(c, Append(d, b))
         /\ \A c \in Builds : ChangesBy(d, c) \subseteq ChangesBy(Append(d, b), c)
         /\ \A c \in Builds : c # b => ChangesBy(Append(d, b), c) = ChangesBy(d, c)
<1>1. /\ DOMAIN d = 1..Len(d) /\ Len(d) \in Nat
      /\ DOMAIN Append(d, b) = 1..(Len(d) + 1)
      /\ \A i \in 1..Len(d) : Append(d, b)[i] = d[i]
      /\ Append(d, b)[Len(d) + 1] = b
  OBVIOUS
<1>2. \A i \in 1..(Len(d) + 1) : i \in 1..Len(d) \/ i = Len(d) + 1
  BY <1>1
<1>3. \A i \in 1..Len(d) : i \in 1..(Len(d) + 1)
  BY <1>1
<1> QED BY <1>1, <1>2, <1>3 DEF Reads, ChangesBy

(* Every step keeps what the services run in line with the run and the journal. *)
LEMMA ServingStep ==
  ASSUME Covered, Halted, Serving, Next
  PROVE  Halted' /\ Serving'
<1> USE BuildAssumption, ServiceStates
    DEF At, Phase, From, GoTo, Throw, UndoFrom, files, services, state, Running, Settled,
        Undoing, InCaddy, InQuiescing, InServices, Restoring, Places,
        Covered, Typed, InPhase, Aiming, Advanced, Undone, JournalCoversChanges,
        Services, Halted, Serving
<1>1. ASSUME NEW target \in Builds, Run(target) PROVE Halted' /\ Serving'
  BY <1>1 DEF Run, Healthy
<1>2. CASE Enter("journal", "bundle", "add")
  BY <1>2 DEF Enter
<1>3. CASE Enter("enter-caddy", "caddy", "stage")
  BY <1>3 DEF Enter
<1>4. CASE Enter("enter-quiescing", "quiescing", "environment")
  BY <1>4 DEF Enter
<1>5. CASE Enter("enter-services", "services", "restart-dsh")
  BY <1>5 DEF Enter
<1>6. CASE Stage("stage", cli.target, "remove")
  BY <1>6 DEF Stage
<1>7. CASE Stage("undo-stage", From, "undo-remove")
  BY <1>7 DEF Stage
<1>8. CASE Remove("remove", "rename")
  BY <1>8 DEF Remove
<1>9. CASE Remove("undo-remove", "undo-rename")
  BY <1>9 DEF Remove
<1>10. CASE Rename("rename", "enter-quiescing")
  BY <1>10 DEF Rename
<1>11. CASE Rename("undo-rename", AfterBinary)
  BY <1>11 DEF Rename, AfterBinary
<1>12. CASE Environment("environment", cli.target, "validate")
  BY <1>12 DEF Environment
<1>13. CASE Environment("undo-environment", From, "undo-dsh")
  BY <1>13 DEF Environment
<1>14. CASE AddBundle
  BY <1>14 DEF AddBundle
<1>15. CASE UndoBundle
  BY <1>15 DEF UndoBundle
<1>16. CASE Validate
  BY <1>16 DEF Validate
<1>17. CASE Forget
  BY <1>17 DEF Forget
<1>18. CASE Finish
  BY <1>18 DEF Finish
<1>19. CASE UndoFinish
  <2>1. From = record.build /\ From \in Builds
    BY <1>19 DEF UndoFinish
  <2>2. record'.build = From /\ record'.caddy = CaddyOf[From] /\ record'.journal.phase = "none"
    BY <1>19, <2>1 DEF UndoFinish
  <2>3. cli'.at = "undo-forget" /\ UNCHANGED <<dsh, edge, reboots>>
    BY <1>19 DEF UndoFinish
  <2>4. reboots = 0 => dsh = Running(From) /\ edge = CaddyOf[From]
    BY <1>19, <2>1 DEF UndoFinish, Phases
  <2> QED BY <2>1, <2>2, <2>3, <2>4
<1>20. CASE UndoForget
  BY <1>20 DEF UndoForget
<1>21. CASE Snapshot
  BY <1>21 DEF Snapshot
<1>22. CASE UndoDocument
  BY <1>22 DEF UndoDocument
<1>23. CASE StopDsh("stop", "snapshot")
  BY <1>23 DEF StopDsh, Stopped
<1>24. CASE StopDsh("undo-stop", "undo-bundle")
  BY <1>24 DEF StopDsh, Stopped
<1>25. CASE RestartDsh("restart-dsh", "restart-edge")
  BY <1>25 DEF RestartDsh, Stopped, Booted
<1>26. CASE RestartDsh("undo-dsh", "undo-edge")
  BY <1>26 DEF RestartDsh, Stopped, Booted
<1>27. CASE RestartEdge("restart-edge", "finish")
  BY <1>27 DEF RestartEdge
<1>28. CASE RestartEdge("undo-edge", "undo-finish")
  BY <1>28 DEF RestartEdge
<1>29. CASE HostCallFails
  BY <1>29 DEF HostCallFails
<1>30. CASE Crash
  BY <1>30 DEF Crash
<1>31. CASE Reboot
  BY <1>31 DEF Reboot, Booted
<1>32. CASE Write
  BY <1>32 DEF Write
<1> QED
  BY <1>1, <1>2, <1>3, <1>4, <1>5, <1>6, <1>7, <1>8, <1>9, <1>10, <1>11, <1>12, <1>13, <1>14, <1>15, <1>16, <1>17, <1>18, <1>19, <1>20, <1>21, <1>22, <1>23, <1>24, <1>25, <1>26, <1>27, <1>28, <1>29, <1>30, <1>31, <1>32
     DEF Next, Forward, Backward

(* A build reads what an older one reads. *)
LEMMA ReadsMore ==
  ASSUME NEW d \in Seq(Builds), NEW b \in Builds, NEW c \in Builds, b < c, Reads(b, d)
  PROVE  Reads(c, d)
<1>1. \A i \in DOMAIN d : d[i] \in Builds
  OBVIOUS
<1> QED BY <1>1, BuildAssumption DEF Reads

(* Every step keeps the documents readable, where newer versions are newer builds. *)
LEMMA ReadingStep ==
  ASSUME VersionsOrdered, Covered, Halted, Serving, Reading, Next
  PROVE  Reading'
<1>0. cli.at \notin {"idle", "forget"} /\ Reads(record.build, doc) => Reads(cli.target, doc)
  BY ReadsMore DEF VersionsOrdered, Covered, Typed, Aiming
<1>a. \A d \in backup :
        cli.at \notin {"idle", "forget"} /\ Reads(record.build, d) => Reads(cli.target, d)
  BY ReadsMore DEF VersionsOrdered, Covered, Typed, Aiming
<1> USE BuildAssumption, ServiceStates, <1>0, <1>a
    DEF At, Phase, From, GoTo, Throw, UndoFrom, files, services, state, Running, Settled,
        Undoing, InCaddy, InQuiescing, InServices, Restoring, Places,
        Covered, Typed, InPhase, Aiming, Advanced, Undone, JournalCoversChanges,
        Services, Halted, Serving, Reading
<1>1. ASSUME NEW target \in Builds, Run(target) PROVE Reading'
  BY <1>1 DEF Run, Healthy
<1>2. CASE Enter("journal", "bundle", "add")
  BY <1>2 DEF Enter
<1>3. CASE Enter("enter-caddy", "caddy", "stage")
  BY <1>3 DEF Enter
<1>4. CASE Enter("enter-quiescing", "quiescing", "environment")
  BY <1>4 DEF Enter
<1>5. CASE Enter("enter-services", "services", "restart-dsh")
  BY <1>5 DEF Enter
<1>6. CASE Stage("stage", cli.target, "remove")
  BY <1>6 DEF Stage
<1>7. CASE Stage("undo-stage", From, "undo-remove")
  BY <1>7 DEF Stage
<1>8. CASE Remove("remove", "rename")
  BY <1>8 DEF Remove
<1>9. CASE Remove("undo-remove", "undo-rename")
  BY <1>9 DEF Remove
<1>10. CASE Rename("rename", "enter-quiescing")
  BY <1>10 DEF Rename
<1>11. CASE Rename("undo-rename", AfterBinary)
  BY <1>11 DEF Rename, AfterBinary
<1>12. CASE Environment("environment", cli.target, "validate")
  BY <1>12 DEF Environment
<1>13. CASE Environment("undo-environment", From, "undo-dsh")
  BY <1>13 DEF Environment
<1>14. CASE AddBundle
  BY <1>14 DEF AddBundle
<1>15. CASE UndoBundle
  BY <1>15 DEF UndoBundle
<1>16. CASE Validate
  BY <1>16 DEF Validate
<1>17. CASE Forget
  BY <1>17 DEF Forget
<1>18. CASE Finish
  BY <1>18 DEF Finish
<1>19. CASE UndoFinish
  BY <1>19 DEF UndoFinish
<1>20. CASE UndoForget
  BY <1>20 DEF UndoForget
<1>21. CASE Snapshot
  BY <1>21 DEF Snapshot
<1>22. CASE UndoDocument
  BY <1>22 DEF UndoDocument
<1>23. CASE StopDsh("stop", "snapshot")
  BY <1>23 DEF StopDsh, Stopped
<1>24. CASE StopDsh("undo-stop", "undo-bundle")
  BY <1>24 DEF StopDsh, Stopped
<1>25. CASE RestartDsh("restart-dsh", "restart-edge")
  BY <1>25 DEF RestartDsh, Stopped, Booted
<1>26. CASE RestartDsh("undo-dsh", "undo-edge")
  BY <1>26 DEF RestartDsh, Stopped, Booted
<1>27. CASE RestartEdge("restart-edge", "finish")
  BY <1>27 DEF RestartEdge
<1>28. CASE RestartEdge("undo-edge", "undo-finish")
  BY <1>28 DEF RestartEdge
<1>29. CASE HostCallFails
  BY <1>29 DEF HostCallFails
<1>30. CASE Crash
  BY <1>30 DEF Crash
<1>31. CASE Reboot
  BY <1>31 DEF Reboot, Booted
<1>32. CASE Write
  <2>1. dsh.build \in Builds /\ doc' = Append(doc, dsh.build)
    BY <1>32 DEF Write
  <2>2. doc \in Seq(Builds)
    OBVIOUS
  <2>3. doc' \in Seq(Builds)
    BY ONLY <2>1, <2>2, Appended
  <2>4. UNCHANGED <<record, backup, cli, reboots, dsh>>
    BY <1>32 DEF Write
  <2>5. /\ Reads(dsh.build, doc) => Reads(dsh.build, doc')
        /\ Reads(record.build, doc) /\ dsh.build = record.build => Reads(record.build, doc')
    <3>1. \A b \in Builds : b <= b
      BY ONLY BuildAssumption
    <3> QED BY ONLY <2>1, <2>2, <3>1, Appended
  <2>6. dsh.build # None
    BY <2>1
  <2>7. reboots = 0 /\ Phase # "services" => dsh.build = record.build
    <3>1. reboots = 0 /\ Phase = "quiescing" => dsh.build \in {None, record.build}
      BY ONLY Serving DEF Serving
    <3>2. reboots = 0 /\ Phase \in {"none", "bundle", "caddy"} => dsh.build = record.build
      BY ONLY Serving DEF Serving, Running
    <3> QED BY ONLY <2>6, <3>1, <3>2, Covered DEF Covered, Typed, Phases, Phase
  <2>8. Phase = "services" /\ cli.at \notin {"undo-edge", "undo-finish"} =>
          cli.at \notin {"restart-dsh", "undo-environment", "undo-dsh"}
    BY <2>1
  <2>9. Phase = "services" /\ cli.at \in {"undo-edge", "undo-finish"} => dsh.build = record.build
    BY <2>1
  <2> QED BY ONLY <2>1, <2>4, <2>5, <2>6, <2>7, <2>8, <2>9, Reading DEF Reading, Phase
<1> QED
  BY <1>1, <1>2, <1>3, <1>4, <1>5, <1>6, <1>7, <1>8, <1>9, <1>10, <1>11, <1>12, <1>13, <1>14, <1>15, <1>16, <1>17, <1>18, <1>19, <1>20, <1>21, <1>22, <1>23, <1>24, <1>25, <1>26, <1>27, <1>28, <1>29, <1>30, <1>31, <1>32
     DEF Next, Forward, Backward

(* Every step keeps the snapshot of a run complete. *)
LEMMA SnapshotsStep ==
  ASSUME Covered, Halted, Snapshots, Next
  PROVE  Snapshots'
<1>0. cli.at \notin {"idle", "forget"} => cli.target # record.build
  BY NotNewerThanItself DEF Covered, Typed, Aiming
<1> USE BuildAssumption, ServiceStates, <1>0
    DEF At, Phase, From, GoTo, Throw, UndoFrom, files, services, state, Running, Settled,
        Undoing, InCaddy, InQuiescing, InServices, Restoring, Places,
        Covered, Typed, InPhase, Aiming, Advanced, Undone, JournalCoversChanges,
        Services, Halted, Snapshots
<1>1. ASSUME NEW target \in Builds, Run(target) PROVE Snapshots'
  BY <1>1 DEF Run, Healthy
<1>2. CASE Enter("journal", "bundle", "add")
  BY <1>2 DEF Enter
<1>3. CASE Enter("enter-caddy", "caddy", "stage")
  BY <1>3 DEF Enter
<1>4. CASE Enter("enter-quiescing", "quiescing", "environment")
  BY <1>4 DEF Enter
<1>5. CASE Enter("enter-services", "services", "restart-dsh")
  BY <1>5 DEF Enter
<1>6. CASE Stage("stage", cli.target, "remove")
  BY <1>6 DEF Stage
<1>7. CASE Stage("undo-stage", From, "undo-remove")
  BY <1>7 DEF Stage
<1>8. CASE Remove("remove", "rename")
  BY <1>8 DEF Remove
<1>9. CASE Remove("undo-remove", "undo-rename")
  BY <1>9 DEF Remove
<1>10. CASE Rename("rename", "enter-quiescing")
  BY <1>10 DEF Rename
<1>11. CASE Rename("undo-rename", AfterBinary)
  BY <1>11 DEF Rename, AfterBinary
<1>12. CASE Environment("environment", cli.target, "validate")
  BY <1>12 DEF Environment
<1>13. CASE Environment("undo-environment", From, "undo-dsh")
  BY <1>13 DEF Environment
<1>14. CASE AddBundle
  BY <1>14 DEF AddBundle
<1>15. CASE UndoBundle
  BY <1>15 DEF UndoBundle
<1>16. CASE Validate
  BY <1>16 DEF Validate
<1>17. CASE Forget
  BY <1>17 DEF Forget
<1>18. CASE Finish
  BY <1>18 DEF Finish
<1>19. CASE UndoFinish
  BY <1>19 DEF UndoFinish
<1>20. CASE UndoForget
  BY <1>20 DEF UndoForget
<1>21. CASE Snapshot
  BY <1>21 DEF Snapshot
<1>22. CASE UndoDocument
  BY <1>22 DEF UndoDocument
<1>23. CASE StopDsh("stop", "snapshot")
  BY <1>23 DEF StopDsh, Stopped
<1>24. CASE StopDsh("undo-stop", "undo-bundle")
  <2>1. UNCHANGED <<record, backup, doc>> /\ dsh' \in {dsh, Stopped}
    BY <1>24 DEF StopDsh
  <2>2. cli'.at \in {"undo-bundle", "idle"} /\ cli'.recovering = cli.recovering
        /\ (cli'.at = "undo-bundle" => dsh' = Stopped)
    BY <1>24 DEF StopDsh
  <2>3. cli.at = "undo-stop" /\ Phase = "services" /\ record.build \in Builds
    BY <1>24 DEF StopDsh
  <2>4. Stopped.build # record.build
    BY <2>3 DEF Stopped
  <2> QED BY ONLY <2>1, <2>2, <2>3, <2>4, Snapshots DEF Snapshots, Phase
<1>25. CASE RestartDsh("restart-dsh", "restart-edge")
  <2>1. UNCHANGED <<record, backup, doc>> /\ dsh' \in {dsh, Stopped, Booted}
    BY <1>25 DEF RestartDsh
  <2>2. cli'.at \in {"restart-edge", "undo-stop"} /\ cli'.recovering = cli.recovering
    BY <1>25 DEF RestartDsh
  <2>3. cli.at = "restart-dsh" /\ Phase = "services" /\ record.build \in Builds
    BY <1>25 DEF RestartDsh
  <2>4. Stopped.build # record.build
    BY <2>3 DEF Stopped
  <2>5. Booted.build # record.build
    BY <2>3, <1>0 DEF Booted
  <2>6. dsh.build = None /\ None # record.build
    BY <2>3
  <2>7. dsh'.build # record.build
    BY ONLY <2>1, <2>4, <2>5, <2>6
  <2> QED BY ONLY <2>1, <2>2, <2>3, <2>7, Snapshots DEF Snapshots, Phase
<1>26. CASE RestartDsh("undo-dsh", "undo-edge")
  BY <1>26 DEF RestartDsh, Stopped, Booted
<1>27. CASE RestartEdge("restart-edge", "finish")
  BY <1>27 DEF RestartEdge
<1>28. CASE RestartEdge("undo-edge", "undo-finish")
  BY <1>28 DEF RestartEdge
<1>29. CASE HostCallFails
  BY <1>29 DEF HostCallFails
<1>30. CASE Crash
  BY <1>30 DEF Crash
<1>31. CASE Reboot
  BY <1>31 DEF Reboot, Booted
<1>32. CASE Write
  <2>1. dsh.build \in Builds /\ doc' = Append(doc, dsh.build)
    BY <1>32 DEF Write
  <2>2. doc \in Seq(Builds)
    OBVIOUS
  <2>3. doc' \in Seq(Builds)
    BY ONLY <2>1, <2>2, Appended
  <2>4. UNCHANGED <<record, backup, cli, dsh>>
    BY <1>32 DEF Write
  <2>5. dsh.build # record.build => ChangesBy(doc', record.build) = ChangesBy(doc, record.build)
    BY ONLY <2>1, <2>2, Appended, Covered DEF Covered, Typed
  <2>6. cli.at # "enter-services"
    BY <2>1
  <2> QED BY ONLY <2>4, <2>5, <2>6, Snapshots DEF Snapshots, Phase
<1> QED
  BY <1>1, <1>2, <1>3, <1>4, <1>5, <1>6, <1>7, <1>8, <1>9, <1>10, <1>11, <1>12, <1>13, <1>14, <1>15, <1>16, <1>17, <1>18, <1>19, <1>20, <1>21, <1>22, <1>23, <1>24, <1>25, <1>26, <1>27, <1>28, <1>29, <1>30, <1>31, <1>32
     DEF Next, Forward, Backward

-----------------------------------------------------------------------------
(***************************************************************************)
(* The theorems.                                                           *)
(***************************************************************************)
(* The start: the services run the recorded build, nothing is written.     *)
LEMMA OthersInit == Init => Halted /\ Serving /\ Reading /\ Snapshots
<1> SUFFICES ASSUME Init PROVE Halted /\ Serving /\ Reading /\ Snapshots
  OBVIOUS
<1>1. Halted /\ Serving /\ Snapshots
  BY DEF Init, Halted, Serving, Snapshots, Settled, Phase, From, Running
<1>2. Reading
  <2>1. DOMAIN doc = {} /\ backup = {}
    BY DEF Init
  <2> QED BY ONLY <2>1 DEF Reading, Reads
<1> QED BY <1>1, <1>2

(* Nothing said of the state is lost while it stays. *)
LEMMA Stuttering ==
  ASSUME UNCHANGED vars
  PROVE  /\ Covered => Covered'
         /\ Halted => Halted'
         /\ Serving => Serving'
         /\ Reading => Reading'
         /\ Snapshots => Snapshots'
<1> USE DEF vars, files, services, state, Phase, From
<1>1. Covered => Covered'
  BY DEF Covered, Typed, InPhase, Aiming, Advanced, Undone, JournalCoversChanges, Newer
<1>2. Halted => Halted'
  BY DEF Halted, Running
<1>3. Serving => Serving'
  BY DEF Serving, Running
<1>4. Reading => Reading'
  BY DEF Reading, Reads
<1>5. Snapshots => Snapshots'
  BY DEF Snapshots, ChangesBy
<1> QED BY <1>1, <1>2, <1>3, <1>4, <1>5

(* The invariant always holds. *)
LEMMA CoveredAlways == Spec => []Covered
<1>1. Covered /\ [Next]_vars => Covered'
  BY CoveredStep, Stuttering
<1> QED BY CoveredInit, <1>1, PTL DEF Spec

(***************************************************************************)
(* All or nothing: at every moment the journal of the ownership record     *)
(* covers what differs from the recorded build.                            *)
(***************************************************************************)
THEOREM JournalCovers == Spec => []JournalCoversChanges
<1>1. Covered => JournalCoversChanges
  BY DEF Covered
<1> QED BY CoveredAlways, <1>1, PTL

(* So does what is said of the services. *)
LEMMA ServingAlways == Spec => [](Covered /\ Halted /\ Serving)
<1> DEFINE I == Covered /\ Halted /\ Serving
<1>1. Init => I
  BY CoveredInit, OthersInit
<1>2. I /\ [Next]_vars => I'
  BY CoveredStep, ServingStep, Stuttering
<1> QED BY <1>1, <1>2, PTL DEF Spec

(***************************************************************************)
(* Bundle, Caddy, record and services move together: while the host has    *)
(* not rebooted, no journal means that the services run what is recorded.  *)
(***************************************************************************)
THEOREM ServicesFollowTheRecord == Spec => []ServicesRunTheRecord
<1>1. Covered /\ Halted /\ Serving => ServicesRunTheRecord
  BY DEF Serving, ServicesRunTheRecord, Running
<1> QED BY ServingAlways, <1>1, PTL

(***************************************************************************)
(* Where compareVersions() orders the builds as they were released, no     *)
(* build that runs finds a change of a newer one in its document, whatever *)
(* fails, crashes or is rolled back, as long as the host does not reboot.  *)
(***************************************************************************)
THEOREM OlderBuildsReadOlderDocuments ==
  ASSUME VersionsOrdered
  PROVE  Spec => []NoBuildReadsNewerDocument
<1> DEFINE I == Covered /\ Halted /\ Serving /\ Reading
<1>1. Init => I
  BY CoveredInit, OthersInit
<1>2. I /\ [Next]_vars => I'
  BY CoveredStep, ServingStep, ReadingStep, Stuttering
<1>3. I => NoBuildReadsNewerDocument
  BY DEF Reading, Reads, NoBuildReadsNewerDocument, RecordedBundleCanRead
<1> QED BY <1>1, <1>2, <1>3, PTL DEF Spec

(* Only a restored snapshot takes changes away, and the run that restores  *)
(* its own has lost none of the recorded build's.                          *)
LEMMA KeepsChanges ==
  ASSUME Covered, Halted, Snapshots, Next
  PROVE  Loses(record.build) => cli.recovering
<1>1. CASE UndoDocument
  <2>1. cli.at = "undo-document" /\ Phase = "services"
    BY <1>1 DEF UndoDocument, At, Covered, InPhase
  <2>2. doc' \in backup \cup {doc}
    BY <1>1 DEF UndoDocument
  <2>3. ~cli.recovering =>
          \A d \in backup : ChangesBy(doc, record.build) \subseteq ChangesBy(d, record.build)
    BY ONLY <2>1, Snapshots DEF Snapshots
  <2> QED BY ONLY <2>2, <2>3 DEF Loses
<1>2. CASE Write
  <2>1. dsh.build \in Builds /\ doc' = Append(doc, dsh.build)
    BY <1>2 DEF Write, Covered, Typed, Services
  <2>2. doc \in Seq(Builds) /\ record.build \in Builds
    BY DEF Covered, Typed
  <2> QED BY ONLY <2>1, <2>2, Appended DEF Loses
<1>3. CASE UNCHANGED doc
  BY ONLY <1>3 DEF Loses, ChangesBy
<1>4. UndoDocument \/ Write \/ UNCHANGED doc
  BY DEF Next, Forward, Backward, Run, Enter, AddBundle, Stage, Remove, Rename, Environment,
     Validate, StopDsh, Snapshot, RestartDsh, RestartEdge, Finish, Forget, UndoBundle,
     UndoFinish, UndoForget, HostCallFails, Crash, Reboot, state
<1> QED BY <1>1, <1>2, <1>3, <1>4

(***************************************************************************)
(* What users did with the recorded build stays in the document when an    *)
(* upgrade rolls itself back.                                              *)
(***************************************************************************)
THEOREM RollbackKeeps == Spec => RollbackKeepsChanges
<1> DEFINE I == Covered /\ Halted /\ Serving /\ Snapshots
           Kept == Loses(record.build) => cli.recovering
<1>1. Init => I
  BY CoveredInit, OthersInit
<1>2. I /\ [Next]_vars => I'
  BY CoveredStep, ServingStep, SnapshotsStep, Stuttering
<1>3. I /\ [Next]_vars => [Kept]_vars
  BY KeepsChanges
<1> QED BY <1>1, <1>2, <1>3, PTL DEF Spec, RollbackKeepsChanges

=============================================================================
