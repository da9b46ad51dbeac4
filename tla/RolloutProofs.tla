---------------------------- MODULE RolloutProofs ----------------------------
(***************************************************************************)
(* What the merges of a HigressController's Deployment and Service         *)
(* guarantee after any history of specs, for any set of specs.             *)
(***************************************************************************)
EXTENDS Rollout, TLAPS

\* The specs a pass may work with.
Wanted == {setDefaultValues(Self, s) : s \in Specs}

\* Edits keep the names of the two containers, and the names differ.
NamesAreStable ==
    \A w, v \in Wanted :
        /\ genControllerName(w) = genControllerName(v)
        /\ genPilotName(w) = genPilotName(v)
        /\ genControllerName(w) # genPilotName(w)

\* The mesh configuration always has its volume.
MeshIsMounted == \A w \in Wanted : ~w.enableHigressIstio

\* A spec gives no variable two values, and none that the operator sets.
VariablesAreDistinct ==
    \A w \in Wanted : \A env \in {ControllerEnv(w), PilotEnv(w)} :
        \A e, f \in env : e.name = f.name => e = f

\* A spec names no port of the Service twice.
PortsAreDistinct ==
    \A w \in Wanted : w.service # Nil =>
        \A p, q \in w.service : p.name = q.name => p = q

-----------------------------------------------------------------------------
\* The shape of the stored Deployment.

IsContainer(c) ==
    c = [name |-> c.name, pullPolicy |-> c.pullPolicy, image |-> c.image, env |-> c.env,
         ports |-> c.ports, args |-> c.args, resources |-> c.resources, mounts |-> c.mounts]

IsContainers(cs) ==
    /\ \E S : cs \in Seq(S)
    /\ \A i \in DOMAIN cs : IsContainer(cs[i])

IsDeployment(d) ==
    /\ d = [owner |-> d.owner, selector |-> d.selector, account |-> d.account,
            volumes |-> d.volumes, containers |-> d.containers]
    /\ IsContainers(d.containers)

Rewritten(old, image, env, containerPorts, args, resources, mounts) ==
    [old EXCEPT !.image = image, !.env = env, !.ports = containerPorts,
                !.args = args, !.resources = resources, !.mounts = mounts]

\* Rewriting six fields of a container leaves a container of its name.
LEMMA RewrittenFacts ==
    ASSUME NEW old, IsContainer(old),
           NEW image, NEW env, NEW containerPorts, NEW args, NEW resources, NEW mounts
    PROVE  LET new == Rewritten(old, image, env, containerPorts, args, resources, mounts)
           IN  /\ IsContainer(new)
               /\ new.name = old.name /\ new.pullPolicy = old.pullPolicy
               /\ new.image = image /\ new.env = env /\ new.ports = containerPorts
               /\ new.args = args /\ new.resources = resources /\ new.mounts = mounts
<1> DEFINE new == Rewritten(old, image, env, containerPorts, args, resources, mounts)
           fields == {"name", "pullPolicy", "image", "env", "ports", "args", "resources",
                      "mounts"}
<1>1. old = [x \in fields |-> old[x]]
  BY DEF IsContainer
<1>2. new = [x \in fields |-> CASE x = "image" -> image [] x = "env" -> env
                                [] x = "ports" -> containerPorts [] x = "args" -> args
                                [] x = "resources" -> resources [] x = "mounts" -> mounts
                                [] OTHER -> old[x]]
  BY <1>1 DEF Rewritten
<1> HIDE DEF new
<1>3. new = [x \in fields |-> new[x]]
  BY <1>2
<1>4. IsContainer(new)
  BY <1>3 DEF IsContainer
<1>5. /\ new.name = old.name /\ new.pullPolicy = old.pullPolicy
      /\ new.image = image /\ new.env = env /\ new.ports = containerPorts
      /\ new.args = args /\ new.resources = resources /\ new.mounts = mounts
  BY <1>2
<1> QED BY <1>4, <1>5 DEF new

\* Two containers with the same fields are the same.
LEMMA SameContainer ==
    ASSUME NEW a, NEW b, IsContainer(a), IsContainer(b),
           a.name = b.name, a.pullPolicy = b.pullPolicy, a.image = b.image, a.env = b.env,
           a.ports = b.ports, a.args = b.args, a.resources = b.resources, a.mounts = b.mounts
    PROVE  a = b
BY DEF IsContainer

\* What a rewritten container of the controller looks like.
LEMMA ControllerContainerFacts ==
    ASSUME NEW w, NEW old, IsContainer(old)
    PROVE  LET new == ControllerContainer(Self, w, old)
           IN  /\ IsContainer(new)
               /\ new.name = old.name /\ new.pullPolicy = old.pullPolicy
               /\ new.image = w.controller.image /\ new.env = genControllerEnv(w, old.env)
               /\ new.ports = genControllerPorts(w) /\ new.args = genControllerArgs(Self, w)
               /\ new.resources = w.controller.resources
               /\ new.mounts = genControllerVolumeMounts
<1>1. ControllerContainer(Self, w, old) =
         Rewritten(old, w.controller.image, genControllerEnv(w, old.env), genControllerPorts(w),
                   genControllerArgs(Self, w), w.controller.resources, genControllerVolumeMounts)
  BY DEF ControllerContainer, Rewritten
<1> QED BY <1>1, RewrittenFacts

\* What a rewritten container of the pilot looks like.
LEMMA PilotContainerFacts ==
    ASSUME NEW w, NEW old, IsContainer(old)
    PROVE  LET new == PilotContainer(Self, w, old)
           IN  /\ IsContainer(new)
               /\ new.name = old.name /\ new.pullPolicy = old.pullPolicy
               /\ new.image = w.pilot.image /\ new.env = genPilotEnv(w, old.env)
               /\ new.ports = genPilotPorts(w) /\ new.args = genPilotArgs(w)
               /\ new.resources = w.controller.resources
               /\ new.mounts = genPilotVolumeMounts(w)
<1>1. PilotContainer(Self, w, old) =
         Rewritten(old, w.pilot.image, genPilotEnv(w, old.env), genPilotPorts(w),
                   genPilotArgs(w), w.controller.resources, genPilotVolumeMounts(w))
  BY DEF PilotContainer, Rewritten
<1> QED BY <1>1, RewrittenFacts

\* An environment that was merged is not merged again.
LEMMA MergeEnvIsIdempotent ==
    ASSUME NEW env, NEW old, NEW required
    PROVE  MergeEnv(env, MergeEnv(env, old, required), required) = MergeEnv(env, old, required)
BY DEF MergeEnv

\* Rewriting a container keeps it a container of its name.
LEMMA RefreshedFacts ==
    ASSUME NEW w, NEW old, IsContainer(old)
    PROVE  LET new == Refreshed(Self, w, old)
           IN  /\ IsContainer(new)
               /\ new.name = old.name
               /\ new.name \notin OwnNames(w) => new = old
               /\ new.name = genControllerName(w) => new.mounts = genControllerVolumeMounts
               /\ new.name \in OwnNames(w) =>
                     new.mounts \in {genControllerVolumeMounts, genPilotVolumeMounts(w)}
               /\ Refreshed(Self, w, new) = new
<1> DEFINE new == Refreshed(Self, w, old)
<1>1. CASE old.name = genControllerName(w)
  <2>1. new = ControllerContainer(Self, w, old)
    BY <1>1 DEF Refreshed
  <2>2. IsContainer(new) /\ new.name = old.name /\ new.mounts = genControllerVolumeMounts
        /\ new.env = genControllerEnv(w, old.env)
    BY <2>1, ControllerContainerFacts
  <2>3. genControllerEnv(w, new.env) = new.env
    BY <2>2, MergeEnvIsIdempotent DEF genControllerEnv
  <2>4. Refreshed(Self, w, new) = ControllerContainer(Self, w, new)
    BY <1>1, <2>2 DEF Refreshed
  <2>5. ControllerContainer(Self, w, new) = new
    <3> HIDE DEF new
    <3> QED BY <2>1, <2>2, <2>3, ControllerContainerFacts, SameContainer
  <2> QED BY <1>1, <2>2, <2>4, <2>5 DEF OwnNames
<1>2. CASE old.name # genControllerName(w) /\ old.name = genPilotName(w)
  <2>1. new = PilotContainer(Self, w, old)
    BY <1>2 DEF Refreshed
  <2>2. IsContainer(new) /\ new.name = old.name /\ new.mounts = genPilotVolumeMounts(w)
        /\ new.env = genPilotEnv(w, old.env)
    BY <2>1, PilotContainerFacts
  <2>3. genPilotEnv(w, new.env) = new.env
    BY <2>2, MergeEnvIsIdempotent DEF genPilotEnv
  <2>4. Refreshed(Self, w, new) = PilotContainer(Self, w, new)
    BY <1>2, <2>2 DEF Refreshed
  <2>5. PilotContainer(Self, w, new) = new
    <3> HIDE DEF new
    <3> QED BY <2>1, <2>2, <2>3, PilotContainerFacts, SameContainer
  <2> QED BY <1>2, <2>2, <2>4, <2>5 DEF OwnNames
<1>3. CASE old.name # genControllerName(w) /\ old.name # genPilotName(w)
  BY <1>3 DEF Refreshed, OwnNames
<1> QED BY <1>1, <1>2, <1>3

\* A container that is appended is one of the two, with its mounts.
LEMMA AppendedFacts ==
    ASSUME NEW w
    PROVE  /\ IsContainer(NewController(Self, w)) /\ IsContainer(NewPilot(Self, w))
           /\ NewController(Self, w).name = genControllerName(w)
           /\ NewController(Self, w).mounts = genControllerVolumeMounts
           /\ NewPilot(Self, w).name = genPilotName(w)
           /\ NewPilot(Self, w).mounts = genPilotVolumeMounts(w)
<1>1. \A name, policy : /\ IsContainer(Blank(name, policy))
                        /\ Blank(name, policy).name = name
  BY DEF Blank, IsContainer
<1>2. IsContainer(NewController(Self, w))
      /\ NewController(Self, w).name = genControllerName(w)
      /\ NewController(Self, w).mounts = genControllerVolumeMounts
  BY <1>1, ControllerContainerFacts DEF NewController
<1>3. IsContainer(NewPilot(Self, w))
      /\ NewPilot(Self, w).name = genPilotName(w)
      /\ NewPilot(Self, w).mounts = genPilotVolumeMounts(w)
  <2> DEFINE c == PilotContainer(Self, w, Blank(genPilotName(w), w.controller.pullPolicy))
  <2>1. IsContainer(c) /\ c.name = genPilotName(w) /\ c.mounts = genPilotVolumeMounts(w)
    BY <1>1, PilotContainerFacts
  <2> HIDE DEF c
  <2>2. LET new == [c EXCEPT !.resources = w.pilot.resources]
        IN  IsContainer(new) /\ new.name = c.name /\ new.mounts = c.mounts
    BY <2>1 DEF IsContainer
  <2> QED BY <2>1, <2>2 DEF NewPilot, c
<1> QED BY <1>2, <1>3

-----------------------------------------------------------------------------
\* The merge of the containers.

\* Concatenation, for a tail of at most one element.
LEMMA ConcatFacts ==
    ASSUME NEW T, NEW d \in Seq(T), NEW b \in Seq(T)
    PROVE  /\ d \o b \in Seq(T)
           /\ Len(d \o b) = Len(d) + Len(b)
           /\ DOMAIN (d \o b) = 1 .. Len(d) + Len(b)
           /\ \A i \in 1 .. Len(d) : (d \o b)[i] = d[i]
           /\ Len(b) = 1 => (d \o b)[Len(d) + 1] = b[1]
OBVIOUS

\* MergeContainers rewrites what is there in its place and appends what is missing.
LEMMA MergeFacts ==
    ASSUME NEW w, NEW cs, IsContainers(cs)
    PROVE  LET m == MergeContainers(Self, w, cs)
           IN  /\ IsContainers(m)
               /\ DOMAIN cs \subseteq DOMAIN m
               /\ \A i \in DOMAIN cs : m[i] = Refreshed(Self, w, cs[i])
               /\ \A i \in DOMAIN m \ DOMAIN cs :
                     \/ i = Len(cs) + 1 /\ m[i] = NewController(Self, w) /\ ~ControllerExists(w, cs)
                     \/ i = Len(m) /\ m[i] = NewPilot(Self, w) /\ ~PilotExists(w, cs)
               /\ ~ControllerExists(w, cs) => m[Len(cs) + 1] = NewController(Self, w)
                                             /\ Len(cs) + 1 \in DOMAIN m
               /\ ~PilotExists(w, cs) => m[Len(m)] = NewPilot(Self, w) /\ Len(m) \in DOMAIN m
               /\ ControllerExists(w, cs) /\ PilotExists(w, cs) =>
                     m = [i \in DOMAIN cs |-> Refreshed(Self, w, cs[i])]
<1> DEFINE m == MergeContainers(Self, w, cs)
           R == [i \in DOMAIN cs |-> Refreshed(Self, w, cs[i])]
           T == {Refreshed(Self, w, cs[i]) : i \in DOMAIN cs}
                \cup {NewController(Self, w), NewPilot(Self, w)}
           A == IF ControllerExists(w, cs) THEN <<>> ELSE <<NewController(Self, w)>>
           B == IF PilotExists(w, cs) THEN <<>> ELSE <<NewPilot(Self, w)>>
<1>1. PICK S : cs \in Seq(S)
  BY DEF IsContainers
<1>2. DOMAIN cs = 1 .. Len(cs) /\ Len(cs) \in Nat
  BY <1>1
<1>3. R \in Seq(T) /\ Len(R) = Len(cs)
  BY <1>2
<1>4. A \in Seq(T) /\ B \in Seq(T)
  <2>1. NewController(Self, w) \in T /\ NewPilot(Self, w) \in T
    OBVIOUS
  <2> HIDE DEF T
  <2> QED BY <2>1
<1>5. m = (R \o A) \o B
  BY DEF MergeContainers
<1>6. \A x \in T : IsContainer(x)
  BY RefreshedFacts, AppendedFacts DEF IsContainers
<1>7. Len(A) = (IF ControllerExists(w, cs) THEN 0 ELSE 1)
      /\ Len(B) = (IF PilotExists(w, cs) THEN 0 ELSE 1)
  OBVIOUS
<1>8. /\ ~ControllerExists(w, cs) => A[1] = NewController(Self, w)
      /\ ~PilotExists(w, cs) => B[1] = NewPilot(Self, w)
      /\ ControllerExists(w, cs) => A = <<>>
      /\ PilotExists(w, cs) => B = <<>>
  OBVIOUS
<1>9. \A i \in DOMAIN cs : R[i] = Refreshed(Self, w, cs[i])
  OBVIOUS
<1> HIDE DEF m, R, T, A, B
<1> DEFINE D == R \o A
<1>10. /\ D \in Seq(T) /\ Len(D) = Len(R) + Len(A)
       /\ \A i \in 1 .. Len(R) : D[i] = R[i]
       /\ Len(A) = 1 => D[Len(R) + 1] = A[1]
  BY <1>3, <1>4, ConcatFacts
<1> HIDE DEF D
<1>11. /\ m \in Seq(T) /\ Len(m) = Len(D) + Len(B) /\ DOMAIN m = 1 .. Len(m)
       /\ \A i \in 1 .. Len(D) : m[i] = D[i]
       /\ Len(B) = 1 => m[Len(D) + 1] = B[1]
  <2>1. m = D \o B
    BY <1>5 DEF D
  <2>2. D \in Seq(T) /\ B \in Seq(T)
    BY <1>4, <1>10
  <2>3. /\ D \o B \in Seq(T) /\ Len(D \o B) = Len(D) + Len(B)
        /\ DOMAIN (D \o B) = 1 .. Len(D) + Len(B)
        /\ \A i \in 1 .. Len(D) : (D \o B)[i] = D[i]
        /\ Len(B) = 1 => (D \o B)[Len(D) + 1] = B[1]
    BY ONLY <2>2, ConcatFacts
  <2> QED BY <2>1, <2>3
<1>12. IsContainers(m)
  BY <1>6, <1>11 DEF IsContainers
<1>13. Len(A) \in {0, 1} /\ Len(B) \in {0, 1}
  BY <1>7
<1>14. /\ DOMAIN cs \subseteq DOMAIN m
       /\ \A i \in DOMAIN cs : m[i] = R[i]
       /\ Len(A) = 1 => Len(cs) + 1 \in DOMAIN m /\ m[Len(cs) + 1] = A[1]
       /\ Len(B) = 1 => Len(m) \in DOMAIN m /\ m[Len(m)] = B[1]
  <2>1. DOMAIN cs = 1 .. Len(cs) /\ DOMAIN m = 1 .. Len(m) /\ Len(cs) \in Nat
    BY <1>2, <1>11
  <2>2. Len(R) = Len(cs) /\ Len(D) = Len(cs) + Len(A) /\ Len(m) = Len(D) + Len(B)
    BY <1>3, <1>10, <1>11
  <2>3. DOMAIN cs \subseteq 1 .. Len(D) /\ DOMAIN cs \subseteq DOMAIN m
    BY <2>1, <2>2, <1>13
  <2>4. \A i \in DOMAIN cs : m[i] = R[i]
    BY <2>1, <2>2, <2>3, <1>10, <1>11
  <2>5. ASSUME Len(A) = 1 PROVE Len(cs) + 1 \in DOMAIN m /\ m[Len(cs) + 1] = A[1]
    <3>1. Len(cs) + 1 = Len(D) /\ Len(D) \in 1 .. Len(D) /\ Len(D) \in 1 .. Len(m)
      BY <2>1, <2>2, <2>5, <1>13
    <3> QED BY <3>1, <2>1, <2>2, <2>5, <1>10, <1>11
  <2>6. ASSUME Len(B) = 1 PROVE Len(m) \in DOMAIN m /\ m[Len(m)] = B[1]
    <3>1. Len(D) + 1 = Len(m) /\ Len(m) \in 1 .. Len(m)
      BY <2>1, <2>2, <2>6, <1>13
    <3> QED BY <3>1, <2>1, <2>6, <1>11
  <2> QED BY <2>3, <2>4, <2>5, <2>6
<1>15. \A i \in DOMAIN m \ DOMAIN cs : \/ i = Len(cs) + 1 /\ Len(A) = 1
                                       \/ i = Len(m) /\ Len(B) = 1
  <2>1. DOMAIN cs = 1 .. Len(cs) /\ DOMAIN m = 1 .. Len(m)
    BY <1>2, <1>11
  <2>2. Len(m) = Len(cs) + Len(A) + Len(B) /\ Len(cs) \in Nat
    BY <1>2, <1>3, <1>10, <1>11
  <2>3. CASE Len(A) = 0 /\ Len(B) = 0
    BY <2>1, <2>2, <2>3
  <2>4. CASE Len(A) = 1 /\ Len(B) = 0
    BY <2>1, <2>2, <2>4
  <2>5. CASE Len(A) = 0 /\ Len(B) = 1
    BY <2>1, <2>2, <2>5
  <2>6. CASE Len(A) = 1 /\ Len(B) = 1
    BY <2>1, <2>2, <2>6
  <2> QED BY <1>13, <2>3, <2>4, <2>5, <2>6
<1>16. Len(A) = 0 /\ Len(B) = 0 => m = R
  BY <1>3, <1>4, <1>5, <1>7, <1>8
<1> QED BY <1>7, <1>8, <1>9, <1>11, <1>12, <1>14, <1>15, <1>16 DEF m, R

-----------------------------------------------------------------------------
\* The update of the Deployment.

\* Each container of its own name, and only the operator's mount anything.
IsProper(w, d) ==
    LET cs == d.containers
    IN  /\ IsDeployment(d)
        /\ \A i, j \in DOMAIN cs : cs[i].name = cs[j].name => i = j
        /\ \A i \in DOMAIN cs : cs[i].name \notin OwnNames(w) => cs[i].mounts = {}

IsMounted(d) == \A i \in DOMAIN d.containers : d.containers[i].mounts \subseteq d.volumes

IsComplete(w, d) ==
    /\ Contains(d.containers, genControllerName(w))
    /\ Contains(d.containers, genPilotName(w))

\* One more update would change nothing.
IsApplied(w, d) ==
    /\ d.selector = w.selector
    /\ d.account = getServiceAccount(Self, w)
    /\ d.volumes = genVolumes(w)
    /\ \A i \in DOMAIN d.containers : Refreshed(Self, w, d.containers[i]) = d.containers[i]

\* The fields of an updated Deployment.
LEMMA UpdateFacts ==
    ASSUME NEW w, NEW d, IsDeployment(d)
    PROVE  LET new == updateDeploymentSpec(Self, w, d)
           IN  /\ IsDeployment(new)
               /\ new.owner = d.owner /\ new.selector = w.selector
               /\ new.account = getServiceAccount(Self, w) /\ new.volumes = genVolumes(w)
               /\ new.containers = MergeContainers(Self, w, d.containers)
<1> DEFINE new == updateDeploymentSpec(Self, w, d)
           fields == {"owner", "selector", "account", "volumes", "containers"}
<1>1. d = [x \in fields |-> d[x]]
  BY DEF IsDeployment
<1>2. new = [x \in fields |-> CASE x = "selector" -> w.selector
                                [] x = "account" -> getServiceAccount(Self, w)
                                [] x = "volumes" -> genVolumes(w)
                                [] x = "containers" -> MergeContainers(Self, w, d.containers)
                                [] OTHER -> d[x]]
  BY <1>1 DEF updateDeploymentSpec
<1> HIDE DEF new
<1>3. new = [x \in fields |-> new[x]]
  BY <1>2
<1>4. /\ new.owner = d.owner /\ new.selector = w.selector
      /\ new.account = getServiceAccount(Self, w) /\ new.volumes = genVolumes(w)
      /\ new.containers = MergeContainers(Self, w, d.containers)
  BY <1>2
<1>5. IsDeployment(new)
  <2>1. IsContainers(new.containers)
    BY <1>4, MergeFacts DEF IsDeployment
  <2> QED BY <1>3, <2>1 DEF IsDeployment
<1> QED BY <1>4, <1>5 DEF new

\* Two Deployments with the same fields are the same.
LEMMA SameDeployment ==
    ASSUME NEW a, NEW b, IsDeployment(a), IsDeployment(b),
           a.owner = b.owner, a.selector = b.selector, a.account = b.account,
           a.volumes = b.volumes, a.containers = b.containers
    PROVE  a = b
BY DEF IsDeployment

\* An update completes the containers and never doubles one.
LEMMA UpdateIsProper ==
    ASSUME NEW w, NEW d, IsProper(w, d), genControllerName(w) # genPilotName(w)
    PROVE  LET new == updateDeploymentSpec(Self, w, d)
           IN  IsProper(w, new) /\ IsComplete(w, new)
<1> DEFINE new == updateDeploymentSpec(Self, w, d)
           cs == d.containers
           m == MergeContainers(Self, w, cs)
<1>1. IsContainers(cs) /\ IsDeployment(d)
  BY DEF IsProper, IsDeployment
<1>2. IsDeployment(new) /\ new.containers = m
  BY <1>1, UpdateFacts
<1>3. \A i \in DOMAIN cs :
        /\ i \in DOMAIN m
        /\ m[i].name = cs[i].name
        /\ m[i].name \notin OwnNames(w) => m[i] = cs[i]
  <2> TAKE i \in DOMAIN cs
  <2>1. IsContainer(cs[i])
    BY <1>1 DEF IsContainers
  <2>2. m[i] = Refreshed(Self, w, cs[i]) /\ i \in DOMAIN m
    BY <1>1, MergeFacts
  <2> QED BY <2>1, <2>2, RefreshedFacts
<1>4. \A i \in DOMAIN m \ DOMAIN cs :
        \/ i = Len(cs) + 1 /\ m[i].name = genControllerName(w) /\ ~ControllerExists(w, cs)
        \/ i = Len(m) /\ m[i].name = genPilotName(w) /\ ~PilotExists(w, cs)
  BY <1>1, MergeFacts, AppendedFacts
<1>5. /\ \A i, j \in DOMAIN cs : cs[i].name = cs[j].name => i = j
      /\ \A i \in DOMAIN cs : cs[i].name \notin OwnNames(w) => cs[i].mounts = {}
  BY DEF IsProper
<1>6. /\ ~ControllerExists(w, cs) => \E i \in DOMAIN m : m[i].name = genControllerName(w)
      /\ ~PilotExists(w, cs) => \E i \in DOMAIN m : m[i].name = genPilotName(w)
  BY <1>1, MergeFacts, AppendedFacts
<1> HIDE DEF m, cs, new
<1>7. \A i \in DOMAIN cs : i \in DOMAIN m /\ m[i].name = cs[i].name
  BY <1>3
<1>8. \A i \in DOMAIN cs : m[i].name \notin OwnNames(w) => m[i] = cs[i]
  BY <1>3
<1>9. IsComplete(w, new)
  <2>1. Contains(m, genControllerName(w))
    <3>1. CASE ControllerExists(w, cs)
      <4>1. PICK i \in DOMAIN cs : cs[i].name = genControllerName(w)
        BY <3>1 DEF ControllerExists, Contains
      <4> QED BY <4>1, <1>7 DEF Contains
    <3>2. CASE ~ControllerExists(w, cs)
      BY <3>2, <1>6 DEF Contains
    <3> QED BY <3>1, <3>2
  <2>2. Contains(m, genPilotName(w))
    <3>1. CASE PilotExists(w, cs)
      <4>1. PICK i \in DOMAIN cs : cs[i].name = genPilotName(w)
        BY <3>1 DEF PilotExists, Contains
      <4> QED BY <4>1, <1>7 DEF Contains
    <3>2. CASE ~PilotExists(w, cs)
      BY <3>2, <1>6 DEF Contains
    <3> QED BY <3>1, <3>2
  <2> QED BY <2>1, <2>2, <1>2 DEF IsComplete
<1>10. \A i, j \in DOMAIN m : m[i].name = m[j].name => i = j
  <2> SUFFICES ASSUME NEW i \in DOMAIN m, NEW j \in DOMAIN m, m[i].name = m[j].name
               PROVE  i = j
    OBVIOUS
  <2>1. CASE i \in DOMAIN cs /\ j \in DOMAIN cs
    BY <2>1, <1>7, <1>5
  <2>2. ASSUME NEW x \in DOMAIN cs, NEW y \in DOMAIN m \ DOMAIN cs
        PROVE  m[x].name # m[y].name
    BY <1>7, <1>4 DEF ControllerExists, PilotExists, Contains
  <2>3. CASE i \notin DOMAIN cs /\ j \notin DOMAIN cs
    BY <2>3, <1>4
  <2> QED BY <2>1, <2>2, <2>3
<1>11. \A i \in DOMAIN m : m[i].name \notin OwnNames(w) => m[i].mounts = {}
  <2> SUFFICES ASSUME NEW i \in DOMAIN m, m[i].name \notin OwnNames(w)
               PROVE  m[i].mounts = {}
    OBVIOUS
  <2>1. i \in DOMAIN cs
    BY <1>4 DEF OwnNames
  <2> QED BY <2>1, <1>5, <1>7, <1>8
<1> QED BY <1>2, <1>9, <1>10, <1>11 DEF IsProper, new

\* What an update builds mounts only volumes it adds.
LEMMA UpdateIsMounted ==
    ASSUME NEW w, NEW d, IsProper(w, d), ~w.enableHigressIstio
    PROVE  IsMounted(updateDeploymentSpec(Self, w, d))
<1> DEFINE new == updateDeploymentSpec(Self, w, d)
           cs == d.containers
           m == MergeContainers(Self, w, cs)
<1>1. IsContainers(cs) /\ IsDeployment(d)
  BY DEF IsProper, IsDeployment
<1>2. new.volumes = genVolumes(w) /\ new.containers = m
  BY <1>1, UpdateFacts
<1>3. genControllerVolumeMounts \subseteq genVolumes(w)
      /\ genPilotVolumeMounts(w) \subseteq genVolumes(w)
  BY DEF genControllerVolumeMounts, genPilotVolumeMounts, genVolumes, If
<1>4. \A i \in DOMAIN m : m[i].mounts \in {genControllerVolumeMounts, genPilotVolumeMounts(w), {}}
  <2> TAKE i \in DOMAIN m
  <2>1. CASE i \in DOMAIN cs
    <3>1. IsContainer(cs[i]) /\ m[i] = Refreshed(Self, w, cs[i])
      BY <1>1, <2>1, MergeFacts DEF IsContainers
    <3>2. CASE m[i].name \in OwnNames(w)
      BY <3>1, <3>2, RefreshedFacts
    <3>3. CASE m[i].name \notin OwnNames(w)
      BY <3>1, <3>3, <2>1, RefreshedFacts DEF IsProper
    <3> QED BY <3>2, <3>3
  <2>2. CASE i \notin DOMAIN cs
    BY <2>2, <1>1, MergeFacts, AppendedFacts
  <2> QED BY <2>1, <2>2
<1> QED BY <1>2, <1>3, <1>4 DEF IsMounted

\* Once both containers are there an update leaves nothing for the next one.
LEMMA UpdateIsApplied ==
    ASSUME NEW w, NEW d, IsDeployment(d), IsComplete(w, d),
           genControllerName(w) # genPilotName(w)
    PROVE  IsApplied(w, updateDeploymentSpec(Self, w, d))
<1> DEFINE new == updateDeploymentSpec(Self, w, d)
           cs == d.containers
<1>1. IsContainers(cs)
  BY DEF IsDeployment
<1>2. ControllerExists(w, cs) /\ PilotExists(w, cs)
  BY DEF IsComplete, ControllerExists, PilotExists
<1>3. new.containers = [i \in DOMAIN cs |-> Refreshed(Self, w, cs[i])]
  BY <1>1, <1>2, UpdateFacts, MergeFacts
<1>4. \A i \in DOMAIN cs : Refreshed(Self, w, new.containers[i]) = new.containers[i]
  <2> TAKE i \in DOMAIN cs
  <2>1. IsContainer(cs[i])
    BY <1>1 DEF IsContainers
  <2> QED BY <2>1, <1>3, RefreshedFacts
<1> QED BY <1>3, <1>4, UpdateFacts DEF IsApplied

\* An update of what is applied and complete changes nothing.
LEMMA AppliedIsFixed ==
    ASSUME NEW w, NEW d, IsDeployment(d), IsComplete(w, d), IsApplied(w, d),
           genControllerName(w) # genPilotName(w)
    PROVE  updateDeploymentSpec(Self, w, d) = d
<1> DEFINE new == updateDeploymentSpec(Self, w, d)
           cs == d.containers
<1>1. IsContainers(cs)
  BY DEF IsDeployment
<1>2. PICK S : cs \in Seq(S)
  BY <1>1 DEF IsContainers
<1>3. ControllerExists(w, cs) /\ PilotExists(w, cs)
  BY DEF IsComplete, ControllerExists, PilotExists
<1>4. new.containers = [i \in DOMAIN cs |-> Refreshed(Self, w, cs[i])]
  BY <1>1, <1>3, UpdateFacts, MergeFacts
<1>5. new.containers = [i \in DOMAIN cs |-> cs[i]]
  BY <1>4 DEF IsApplied
<1>6. new.containers = cs
  BY <1>2, <1>5
<1> QED BY <1>6, UpdateFacts, SameDeployment DEF IsApplied

-----------------------------------------------------------------------------
\* The behaviours.

\* What a pass does to the Deployment.
LEMMA RollFacts ==
    ASSUME Roll
    PROVE  /\ spec' = spec /\ rolled' = TRUE
           /\ ports' = ServicePorts(wanted, ports)
           /\ deployment' \in {updateDeploymentSpec(Self, wanted, deployment),
                              initDeployment(Self, wanted, Self)}
           /\ deployment # NoDeployment =>
                 deployment' = updateDeploymentSpec(Self, wanted, deployment)
           /\ deployment = NoDeployment => deployment' = initDeployment(Self, wanted, Self)
BY DEF Roll

\* Before it is created, and when it has got its owner, a Deployment is empty.
LEMMA EmptyIsProper ==
    ASSUME NEW w
    PROVE  /\ IsProper(w, NoDeployment)
           /\ IsProper(w, [NoDeployment EXCEPT !.owner = Self])
<1> DEFINE d == [NoDeployment EXCEPT !.owner = Self]
<1>1. NoDeployment.containers = <<>> /\ d.containers = <<>>
  BY DEF NoDeployment
<1>2. IsDeployment(NoDeployment) /\ IsDeployment(d)
  <2>1. IsContainers(<<>>)
    BY DEF IsContainers
  <2>2. d = [owner |-> Self, selector |-> "", account |-> "", volumes |-> {},
             containers |-> <<>>]
    <3> DEFINE fields == {"owner", "selector", "account", "volumes", "containers"}
    <3>1. NoDeployment = [x \in fields |-> NoDeployment[x]]
      BY DEF NoDeployment
    <3>2. /\ NoDeployment.selector = "" /\ NoDeployment.account = ""
          /\ NoDeployment.volumes = {} /\ NoDeployment.containers = <<>>
      BY DEF NoDeployment
    <3>3. d = [x \in fields |-> IF x = "owner" THEN Self ELSE NoDeployment[x]]
      BY <3>1
    <3> HIDE DEF d
    <3> QED BY <3>2, <3>3
  <2>3. IsDeployment(NoDeployment)
    <3>1. NoDeployment = [owner |-> Nil, selector |-> "", account |-> "", volumes |-> {},
                          containers |-> <<>>]
      BY DEF NoDeployment
    <3> QED BY <2>1, <3>1 DEF IsDeployment
  <2> HIDE DEF d
  <2>4. IsDeployment(d)
    BY <2>1, <2>2 DEF IsDeployment
  <2> QED BY <2>3, <2>4
<1> HIDE DEF d
<1>3. IsProper(w, NoDeployment) /\ IsProper(w, d)
  BY <1>1, <1>2 DEF IsProper
<1> QED BY <1>3 DEF d

\* A container that is appended by somebody else.
LEMMA InjectFacts ==
    ASSUME Inject, IsDeployment(deployment)
    PROVE  LET cs == deployment.containers
               new == deployment'.containers
           IN  /\ IsDeployment(deployment')
               /\ deployment'.selector = deployment.selector
               /\ deployment'.account = deployment.account
               /\ deployment'.volumes = deployment.volumes
               /\ DOMAIN cs \subseteq DOMAIN new
               /\ \A i \in DOMAIN cs : new[i] = cs[i]
               /\ \A i \in DOMAIN new \ DOMAIN cs : i = Len(cs) + 1 /\ new[i] = Sidecar
               /\ \A i \in DOMAIN cs : cs[i].name # Sidecar.name
<1> DEFINE cs == deployment.containers
           new == deployment'.containers
<1>1. deployment' = [deployment EXCEPT !.containers = Append(cs, Sidecar)]
      /\ ~Contains(cs, Sidecar.name)
  BY DEF Inject
<1>2. PICK S : cs \in Seq(S)
  BY DEF IsDeployment, IsContainers
<1>3. deployment' = [owner |-> deployment.owner, selector |-> deployment.selector,
                     account |-> deployment.account, volumes |-> deployment.volumes,
                     containers |-> Append(cs, Sidecar)]
  BY <1>1 DEF IsDeployment
<1>4. cs \in Seq(S \cup {Sidecar}) /\ Append(cs, Sidecar) \in Seq(S \cup {Sidecar})
  BY <1>2
<1>5. DOMAIN cs = 1 .. Len(cs) /\ DOMAIN new = 1 .. Len(cs) + 1 /\ Len(cs) \in Nat
  BY <1>2, <1>3, <1>4
<1>6. \A i \in DOMAIN new : new[i] = IF i \in DOMAIN cs THEN cs[i] ELSE Sidecar
  BY <1>2, <1>3, <1>4, <1>5
<1>7. IsContainer(Sidecar)
  BY DEF Sidecar, Blank, IsContainer
<1>8. \A i \in DOMAIN new : IsContainer(new[i])
  BY <1>6, <1>7 DEF IsDeployment, IsContainers
<1>9. IsContainers(new)
  BY <1>3, <1>4, <1>8 DEF IsContainers
<1>10. IsDeployment(deployment')
  BY <1>3, <1>9 DEF IsDeployment
<1>11. \A i \in DOMAIN new \ DOMAIN cs : i = Len(cs) + 1
  BY <1>5
<1>12. \A i \in DOMAIN cs : cs[i].name # Sidecar.name
  BY <1>1 DEF Contains
<1> QED BY <1>3, <1>5, <1>6, <1>10, <1>11, <1>12

IsShaped == IsDeployment(deployment)

\* The stored Deployment keeps its shape.
LEMMA ShapeStays ==
    ASSUME Next, IsDeployment(deployment)
    PROVE  IsDeployment(deployment')
<1>1. ASSUME NEW s \in Specs, Edit(s) PROVE IsDeployment(deployment')
  BY <1>1 DEF Edit
<1>2. CASE Roll
  <2>1. IsDeployment(updateDeploymentSpec(Self, wanted, deployment))
    BY UpdateFacts
  <2>2. IsDeployment(initDeployment(Self, wanted, Self))
    BY EmptyIsProper, UpdateFacts DEF IsProper, initDeployment
  <2> QED BY <1>2, <2>1, <2>2, RollFacts
<1>3. CASE Inject
  BY <1>3, InjectFacts
<1> QED BY <1>1, <1>2, <1>3 DEF Next

\* A step leaves the containers alone that are not the operator's.
LEMMA OthersStay ==
    ASSUME [Next]_vars, IsDeployment(deployment)
    PROVE  \A i \in DOMAIN deployment.containers :
              deployment.containers[i].name \notin OwnNames(wanted)
              => /\ i \in DOMAIN deployment'.containers
                 /\ deployment'.containers[i] = deployment.containers[i]
<1> SUFFICES ASSUME NEW i \in DOMAIN deployment.containers,
                    deployment.containers[i].name \notin OwnNames(wanted)
             PROVE  /\ i \in DOMAIN deployment'.containers
                    /\ deployment'.containers[i] = deployment.containers[i]
  OBVIOUS
<1>1. ASSUME NEW s \in Specs, Edit(s) PROVE deployment' = deployment
  BY <1>1 DEF Edit
<1>2. CASE Roll
  <2>1. deployment # NoDeployment
    <3>1. DOMAIN NoDeployment.containers = {}
      BY DEF NoDeployment
    <3> QED BY <3>1
  <2>2. deployment' = updateDeploymentSpec(Self, wanted, deployment)
    BY <1>2, <2>1, RollFacts
  <2>3. deployment'.containers = MergeContainers(Self, wanted, deployment.containers)
    BY <2>2, UpdateFacts
  <2>4. IsContainers(deployment.containers) /\ IsContainer(deployment.containers[i])
    BY DEF IsDeployment, IsContainers
  <2>5. i \in DOMAIN deployment'.containers
        /\ deployment'.containers[i] = Refreshed(Self, wanted, deployment.containers[i])
    BY <2>3, <2>4, MergeFacts
  <2> QED BY <2>4, <2>5, RefreshedFacts
<1>3. CASE Inject
  BY <1>3, InjectFacts
<1>4. CASE UNCHANGED vars
  BY <1>4 DEF vars
<1> QED BY <1>1, <1>2, <1>3, <1>4 DEF Next

\* updateDeploymentSpec never touches a container it does not know by name, for
\* any set of specs.
THEOREM OthersAreKept == Spec => OthersContainersStay
<1>1. Init => IsShaped
  BY EmptyIsProper DEF Init, IsProper, IsShaped
<1>2. IsShaped /\ [Next]_vars => IsShaped'
  BY ShapeStays DEF vars, IsShaped
<1>3. IsShaped /\ [Next]_vars =>
        [\A i \in DOMAIN deployment.containers :
            deployment.containers[i].name \notin OwnNames(wanted)
            => /\ i \in DOMAIN deployment'.containers
               /\ deployment'.containers[i] = deployment.containers[i]]_vars
  BY OthersStay DEF IsShaped
<1> QED BY <1>1, <1>2, <1>3, PTL DEF Spec, OthersContainersStay

-----------------------------------------------------------------------------
\* The invariant, while the names of the containers stay.

\* The operator's two containers are there from the first pass on; whoever has
\* rolled the present spec would roll it in vain.
IsSound ==
    /\ spec \in Specs
    /\ IsProper(wanted, deployment)
    /\ deployment # NoDeployment => IsComplete(wanted, deployment)
    /\ rolled => /\ IsComplete(wanted, deployment)
                 /\ IsApplied(wanted, deployment)
                 /\ ServicePorts(wanted, ports) = ports

\* The ports of a Service that is updated twice are those of the first update.
LEMMA ServicePortsAreIdempotent ==
    ASSUME NEW w, NEW old
    PROVE  ServicePorts(w, ServicePorts(w, old)) = ServicePorts(w, old)
BY DEF ServicePorts, Missing, If

\* What a pass leaves is complete and applied.
LEMMA RollIsSound ==
    ASSUME IsSound, Roll, NamesAreStable
    PROVE  /\ IsProper(wanted, deployment') /\ IsComplete(wanted, deployment')
           /\ IsApplied(wanted, deployment')
<1>1. wanted \in Wanted
  BY DEF IsSound, wanted, Wanted
<1>2. genControllerName(wanted) # genPilotName(wanted)
  BY <1>1 DEF NamesAreStable
<1>3. ASSUME NEW d, IsProper(wanted, d), IsComplete(wanted, d)
      PROVE  LET new == updateDeploymentSpec(Self, wanted, d)
             IN  IsProper(wanted, new) /\ IsComplete(wanted, new) /\ IsApplied(wanted, new)
  BY <1>2, <1>3, UpdateIsProper, UpdateIsApplied DEF IsProper
<1>4. CASE deployment # NoDeployment
  <2>1. deployment' = updateDeploymentSpec(Self, wanted, deployment)
    BY <1>4, RollFacts
  <2> QED BY <1>3, <1>4, <2>1 DEF IsSound
<1>5. CASE deployment = NoDeployment
  <2> DEFINE d == updateDeploymentSpec(Self, wanted, [NoDeployment EXCEPT !.owner = Self])
  <2>1. deployment' = updateDeploymentSpec(Self, wanted, d)
    BY <1>5, RollFacts DEF initDeployment
  <2>2. IsProper(wanted, d) /\ IsComplete(wanted, d)
    BY <1>2, EmptyIsProper, UpdateIsProper
  <2> HIDE DEF d
  <2> QED BY <1>3, <2>1, <2>2
<1> QED BY <1>4, <1>5

\* A container of somebody else disturbs nothing.
LEMMA InjectIsSound ==
    ASSUME IsSound, Inject, NamesAreStable
    PROVE  /\ IsProper(wanted, deployment') /\ IsComplete(wanted, deployment')
           /\ IsApplied(wanted, deployment) => IsApplied(wanted, deployment')
<1> DEFINE cs == deployment.containers
           new == deployment'.containers
<1>1. IsDeployment(deployment) /\ IsComplete(wanted, deployment)
  BY DEF IsSound, IsProper, Inject
<1>2. Sidecar.name \notin OwnNames(wanted) /\ Sidecar.mounts = {}
  <2>1. \A i \in DOMAIN cs : cs[i].name # Sidecar.name
    BY <1>1, InjectFacts
  <2>2. \A name \in OwnNames(wanted) : \E i \in DOMAIN cs : cs[i].name = name
    BY <1>1 DEF IsComplete, Contains, OwnNames
  <2> QED BY <2>1, <2>2 DEF Sidecar, Blank
<1>3. /\ IsDeployment(deployment')
      /\ DOMAIN cs \subseteq DOMAIN new
      /\ \A i \in DOMAIN cs : new[i] = cs[i] /\ cs[i].name # Sidecar.name
      /\ \A i \in DOMAIN new \ DOMAIN cs : i = Len(cs) + 1 /\ new[i] = Sidecar
  BY <1>1, InjectFacts
<1>4. /\ \A i, j \in DOMAIN cs : cs[i].name = cs[j].name => i = j
      /\ \A i \in DOMAIN cs : cs[i].name \notin OwnNames(wanted) => cs[i].mounts = {}
  BY DEF IsSound, IsProper
<1> HIDE DEF cs, new
<1>5. \A i, j \in DOMAIN new : new[i].name = new[j].name => i = j
  <2> SUFFICES ASSUME NEW i \in DOMAIN new, NEW j \in DOMAIN new, new[i].name = new[j].name
               PROVE  i = j
    OBVIOUS
  <2>1. CASE i \in DOMAIN cs /\ j \in DOMAIN cs
    BY <2>1, <1>3, <1>4
  <2>2. CASE i \notin DOMAIN cs /\ j \notin DOMAIN cs
    BY <2>2, <1>3
  <2>3. CASE (i \in DOMAIN cs) # (j \in DOMAIN cs)
    BY <2>3, <1>3
  <2> QED BY <2>1, <2>2, <2>3
<1>6. \A i \in DOMAIN new : new[i].name \notin OwnNames(wanted) => new[i].mounts = {}
  BY <1>2, <1>3, <1>4
<1>7. IsProper(wanted, deployment')
  BY <1>3, <1>5, <1>6 DEF IsProper, new
<1>8. IsComplete(wanted, deployment')
  BY <1>1, <1>3 DEF IsComplete, Contains, cs, new
<1>9. ASSUME IsApplied(wanted, deployment) PROVE IsApplied(wanted, deployment')
  <2>1. \A i \in DOMAIN cs : Refreshed(Self, wanted, cs[i]) = cs[i]
    BY <1>9 DEF IsApplied, cs
  <2>2. Refreshed(Self, wanted, Sidecar) = Sidecar
    BY <1>2 DEF Refreshed, OwnNames
  <2>3. \A i \in DOMAIN new : Refreshed(Self, wanted, new[i]) = new[i]
    BY <1>3, <2>1, <2>2
  <2> QED BY <1>1, <1>9, <2>3, InjectFacts DEF IsApplied, new
<1> QED BY <1>7, <1>8, <1>9

\* Every step keeps the invariant.
LEMMA SoundnessStays ==
    ASSUME IsSound, [Next]_vars, NamesAreStable
    PROVE  IsSound'
<1>1. wanted \in Wanted
  BY DEF IsSound, wanted, Wanted
<1>2. ASSUME NEW s \in Specs, Edit(s) PROVE IsSound'
  <2>1. /\ spec' = s /\ rolled' = FALSE /\ deployment' = deployment
    BY <1>2 DEF Edit
  <2>2. wanted' \in Wanted
    BY <2>1 DEF wanted, Wanted
  <2>3. genControllerName(wanted') = genControllerName(wanted)
        /\ genPilotName(wanted') = genPilotName(wanted)
    BY <1>1, <2>2 DEF NamesAreStable
  <2>4. OwnNames(wanted') = OwnNames(wanted)
    BY <2>3 DEF OwnNames
  <2>5. IsProper(wanted', deployment)
    BY <2>4 DEF IsSound, IsProper
  <2>6. deployment # NoDeployment => IsComplete(wanted', deployment)
    BY <2>3 DEF IsSound, IsComplete
  <2> QED BY <2>1, <2>5, <2>6 DEF IsSound
<1>3. CASE Roll
  <2>1. wanted' = wanted
    BY <1>3, RollFacts DEF wanted
  <2>2. ServicePorts(wanted, ports') = ports'
    BY <1>3, RollFacts, ServicePortsAreIdempotent
  <2> QED BY <1>3, <2>1, <2>2, RollIsSound, RollFacts DEF IsSound
<1>4. CASE Inject
  <2>1. wanted' = wanted /\ UNCHANGED <<spec, ports, rolled>>
    BY <1>4 DEF Inject, wanted
  <2> QED BY <1>4, <2>1, InjectIsSound DEF IsSound
<1>5. CASE UNCHANGED vars
  <2>1. wanted' = wanted /\ UNCHANGED <<spec, deployment, ports, rolled>>
    BY <1>5 DEF vars, wanted
  <2> QED BY <2>1 DEF IsSound
<1> QED BY <1>2, <1>3, <1>4, <1>5 DEF Next

\* The invariant holds in every behaviour.
LEMMA AlwaysSound == ASSUME NamesAreStable PROVE Spec => []IsSound
<1>1. Init => IsSound
  BY EmptyIsProper DEF Init, IsSound
<1>2. IsSound /\ [Next]_vars => IsSound'
  BY SoundnessStays
<1> QED BY <1>1, <1>2, PTL DEF Spec

\* A reconcile restarts no pods of its own accord: once a pass has applied a
\* spec the next one finds nothing to change, whatever the history was, if edits
\* keep the names of the two containers.
THEOREM SecondPassIsQuiet == ASSUME NamesAreStable PROVE Spec => []SecondPassChangesNothing
<1>1. IsSound => SecondPassChangesNothing
  <2> SUFFICES ASSUME IsSound, rolled PROVE SecondPassChangesNothing
    BY DEF SecondPassChangesNothing
  <2>1. genControllerName(wanted) # genPilotName(wanted)
    BY DEF IsSound, NamesAreStable, wanted, Wanted
  <2>2. updateDeploymentSpec(Self, wanted, deployment) = deployment
    BY <2>1, AppliedIsFixed DEF IsSound, IsProper
  <2> QED BY <2>2 DEF SecondPassChangesNothing, IsSound
<1> QED BY <1>1, AlwaysSound, PTL

\* What a pass builds is accepted by the API server: no container mounts a volume
\* that is left out and no two bear one name, after any history of specs that
\* keeps the names and mounts the mesh configuration.
THEOREM PodsStayValid ==
    ASSUME NamesAreStable, MeshIsMounted PROVE Spec => []PodsAreValid
<1> DEFINE Inv == IsSound /\ IsMounted(deployment)
<1>1. Init => IsMounted(deployment)
  <2>1. DOMAIN NoDeployment.containers = {}
    BY DEF NoDeployment
  <2> QED BY <2>1 DEF Init, IsMounted
<1>2. Inv /\ [Next]_vars => IsMounted(deployment)'
  <2> SUFFICES ASSUME IsSound, IsMounted(deployment), [Next]_vars PROVE IsMounted(deployment')
    OBVIOUS
  <2>1. CASE Roll
    <3>1. ~wanted.enableHigressIstio /\ genControllerName(wanted) # genPilotName(wanted)
      BY DEF IsSound, MeshIsMounted, NamesAreStable, wanted, Wanted
    <3>2. \A d : IsProper(wanted, d) => IsMounted(updateDeploymentSpec(Self, wanted, d))
      BY <3>1, UpdateIsMounted
    <3>3. IsMounted(initDeployment(Self, wanted, Self))
      BY <3>1, <3>2, EmptyIsProper, UpdateIsProper DEF initDeployment
    <3> QED BY <2>1, <3>2, <3>3, RollFacts DEF IsSound
  <2>2. CASE Inject
    <3>1. IsDeployment(deployment) /\ Sidecar.mounts = {}
      BY DEF IsSound, IsProper, Sidecar, Blank
    <3> QED BY <2>2, <3>1, InjectFacts DEF IsMounted
  <2>3. ASSUME NEW s \in Specs, Edit(s) PROVE deployment' = deployment
    BY <2>3 DEF Edit
  <2>4. CASE UNCHANGED vars
    BY <2>4 DEF vars, IsMounted
  <2> QED BY <2>1, <2>2, <2>3, <2>4 DEF Next
<1>3. Inv => PodsAreValid
  BY DEF IsSound, IsProper, IsMounted, PodsAreValid, ValidDeployment
<1> QED BY <1>1, <1>2, <1>3, AlwaysSound, PTL DEF Spec

-----------------------------------------------------------------------------
\* What the spec asks for arrives.

\* A merged environment has every variable that is wanted.
LEMMA MergeEnvHasAll ==
    ASSUME NEW env, NEW old, NEW required,
           \A e, f \in env : e.name = f.name => e = f
    PROVE  \A e \in env : Value(MergeEnv(env, old, required), e.name) = e.value
<1> TAKE e \in env
<1>1. Value(env, e.name) = e.value
  <2> DEFINE x == CHOOSE f \in env : f.name = e.name
  <2>1. x \in env /\ x.name = e.name
    OBVIOUS
  <2> HIDE DEF x
  <2>2. x = e
    BY <2>1
  <2> QED BY <2>2 DEF Value, x
<1>2. CASE MergeEnv(env, old, required) = env
  BY <1>1, <1>2
<1>3. CASE MergeEnv(env, old, required) # env
  <2>1. Value(old, e.name) = e.value /\ MergeEnv(env, old, required) = old
    BY <1>3 DEF MergeEnv
  <2> QED BY <2>1
<1> QED BY <1>2, <1>3

\* A container that rewriting leaves as it is has the environment it asks for.
LEMMA FixedEnv ==
    ASSUME NEW c, IsContainer(c)
    PROVE  [c EXCEPT !.env = c.env] = c
BY DEF IsContainer

\* Whatever specs were rolled before, after a pass the two containers are those
\* of the present spec, and every variable it asks for has its value.
THEOREM SpecReachesPods ==
    ASSUME NamesAreStable, VariablesAreDistinct PROVE Spec => []SpecReachesThePods
<1>1. IsSound => SpecReachesThePods
  <2> SUFFICES ASSUME IsSound, rolled PROVE SpecReachesThePods
    BY DEF SpecReachesThePods
  <2> DEFINE cs == deployment.containers
             All == {cs[i] : i \in DOMAIN cs}
             controller == OwnContainer(genControllerName(wanted))
             pilot == OwnContainer(genPilotName(wanted))
  <2>1. wanted \in Wanted
    BY DEF IsSound, wanted, Wanted
  <2>2. genControllerName(wanted) # genPilotName(wanted)
    BY <2>1 DEF NamesAreStable
  <2>3. /\ \A c \in All : IsContainer(c) /\ Refreshed(Self, wanted, c) = c
        /\ \E c \in All : c.name = genControllerName(wanted)
        /\ \E c \in All : c.name = genPilotName(wanted)
    BY DEF IsSound, IsProper, IsDeployment, IsContainers, IsApplied, IsComplete, Contains
  <2>4. /\ controller \in All /\ controller.name = genControllerName(wanted)
        /\ pilot \in All /\ pilot.name = genPilotName(wanted)
    BY <2>3 DEF OwnContainer
  <2> HIDE DEF controller, pilot, All, cs
  <2>5. IsContainer(controller) /\ ControllerContainer(Self, wanted, controller) = controller
    BY <2>3, <2>4 DEF Refreshed
  <2>6. IsContainer(pilot) /\ PilotContainer(Self, wanted, pilot) = pilot
    <3>1. Refreshed(Self, wanted, pilot) = PilotContainer(Self, wanted, pilot)
      BY <2>2, <2>4 DEF Refreshed
    <3> QED BY <3>1, <2>3, <2>4
  <2>7. \A e \in ControllerEnv(wanted) : Value(controller.env, e.name) = e.value
    <3>1. controller.env = genControllerEnv(wanted, controller.env)
      BY <2>5, ControllerContainerFacts
    <3>2. \A e, f \in ControllerEnv(wanted) : e.name = f.name => e = f
      BY <2>1 DEF VariablesAreDistinct
    <3> QED BY <3>1, <3>2, MergeEnvHasAll DEF genControllerEnv
  <2>8. \A e \in PilotEnv(wanted) : Value(pilot.env, e.name) = e.value
    <3>1. pilot.env = genPilotEnv(wanted, pilot.env)
      BY <2>6, PilotContainerFacts
    <3>2. \A e, f \in PilotEnv(wanted) : e.name = f.name => e = f
      BY <2>1 DEF VariablesAreDistinct
    <3> QED BY <3>1, <3>2, MergeEnvHasAll DEF genPilotEnv
  <2>9. /\ controller = [controller EXCEPT !.env = controller.env]
        /\ pilot = [pilot EXCEPT !.env = pilot.env]
    BY <2>5, <2>6, FixedEnv
  <2> QED BY <2>5, <2>6, <2>7, <2>8, <2>9 DEF SpecReachesThePods, controller, pilot
<1> QED BY <1>1, AlwaysSound, PTL

NamedOnce(S) == \A p, q \in S : p.name = q.name => p = q

\* The ports of a Service that is updated.
LEMMA ServicePortsFacts ==
    ASSUME NEW w, NEW old, NamedOnce(old), w.service # Nil => NamedOnce(w.service)
    PROVE  /\ NamedOnce(ServicePorts(w, old))
           /\ w.service # Nil => w.service \subseteq ServicePorts(w, old)
<1> DEFINE start == IF w.service = Nil THEN old ELSE w.service
<1>1. NamedOnce(DefaultPorts)
  BY DEF NamedOnce, DefaultPorts, Port
<1>2. NamedOnce(start)
  OBVIOUS
<1> HIDE DEF start
<1>3. NamedOnce(start \cup Missing(DefaultPorts, start))
  BY <1>1, <1>2 DEF NamedOnce, Missing
<1>4. ServicePorts(w, old) \in {start, start \cup Missing(DefaultPorts, start)}
  BY DEF ServicePorts, If, start
<1> QED BY <1>2, <1>3, <1>4 DEF start

IsServed ==
    /\ spec \in Specs
    /\ NamedOnce(ports)
    /\ rolled /\ wanted.service # Nil => wanted.service \subseteq ports

\* The Service has the ports of the spec under their own numbers and each name
\* once, after any history of specs that name no port twice.
THEOREM SpecReachesService ==
    ASSUME PortsAreDistinct PROVE Spec => []SpecReachesTheService
<1>1. Init => IsServed
  BY DEF Init, IsServed, NamedOnce
<1>2. IsServed /\ [Next]_vars => IsServed'
  <2> SUFFICES ASSUME IsServed, [Next]_vars PROVE IsServed'
    OBVIOUS
  <2>1. ASSUME NEW s \in Specs, Edit(s) PROVE IsServed'
    BY <2>1 DEF Edit, IsServed
  <2>2. CASE Roll
    <3>1. wanted' = wanted /\ spec' = spec /\ ports' = ServicePorts(wanted, ports)
      BY <2>2, RollFacts DEF wanted
    <3>2. wanted.service # Nil => NamedOnce(wanted.service)
      BY DEF IsServed, wanted, Wanted, PortsAreDistinct, NamedOnce
    <3> QED BY <3>1, <3>2, ServicePortsFacts DEF IsServed
  <2>3. CASE Inject
    BY <2>3 DEF Inject, IsServed, wanted
  <2>4. CASE UNCHANGED vars
    BY <2>4 DEF vars, IsServed, wanted
  <2> QED BY <2>1, <2>2, <2>3, <2>4 DEF Next
<1>3. IsServed => SpecReachesTheService
  BY DEF IsServed, SpecReachesTheService, NamedOnce
<1> QED BY <1>1, <1>2, <1>3, PTL DEF Spec

-----------------------------------------------------------------------------
\* The types.

Variables == [name : Text, value : Text]
PortSpecs == [name : Text, port : Nat]

\* Filling in the defaults leaves a spec.
LEMMA WantedIsASpec ==
    ASSUME NEW s \in Specs PROVE setDefaultValues(Self, s) \in HigressControllerSpec
<1>1. s \in HigressControllerSpec
  BY SpecsAssumption
<1>2. /\ (IF s.rbac = Nil THEN TRUE ELSE s.rbac) \in BOOLEAN \cup {Nil}
      /\ (IF s.selector = "" THEN s.controller.name ELSE s.selector) \in Text
  BY <1>1 DEF HigressControllerSpec, ContainerSpec
<1>3. (IF s.serviceAccount = Nil THEN [enable |-> TRUE, name |-> Self.name] ELSE s.serviceAccount)
         \in [enable : BOOLEAN, name : Text] \cup {Nil}
  BY <1>1, SelfAssumption DEF HigressControllerSpec
<1>4. PICK rbac \in BOOLEAN \cup {Nil}, selector \in Text,
           account \in [enable : BOOLEAN, name : Text] \cup {Nil} :
         setDefaultValues(Self, s) =
            [s EXCEPT !.rbac = rbac, !.serviceAccount = account, !.selector = selector]
  BY <1>2, <1>3 DEF setDefaultValues
<1> QED BY <1>1, <1>4 DEF HigressControllerSpec

\* What the code writes is text.
LEMMA TextFacts ==
    /\ "" \in Text /\ "POD_NAMESPACE" \in Text /\ "POD_NAME" \in Text /\ "SERVICE_ACCOUNT" \in Text
    /\ "JWT_POLICY" \in Text /\ "CLUSTER_ID" \in Text /\ "Kubernetes" \in Text
    /\ "ISTIOD_ADDR" \in Text /\ "istiod" \in Text /\ "PILOT_TRACE_SAMPLING" \in Text
    /\ "CUSTOM_CA_CERT_NAME" \in Text /\ "higress-ca-root-cert" \in Text
    /\ "third-party-jwt" \in Text /\ "first-party-jwt" \in Text /\ "log" \in Text
    /\ "config" \in Text /\ "local-certs" \in Text /\ "cacerts" \in Text
    /\ "istio-kubeconfig" \in Text /\ "istio-token" \in Text /\ "extracacerts" \in Text
    /\ "higress-core" \in Text /\ "discovery" \in Text /\ "sidecar" \in Text /\ "Always" \in Text
    /\ "gatewaySelectorValue" \in Text /\ "ingressClass" \in Text /\ "log_output_level" \in Text
    /\ "enableStatus" \in Text /\ "false" \in Text /\ "watchNamespace" \in Text /\ "http" \in Text
    /\ "grpc" \in Text /\ "grpc-xds" \in Text /\ "http-service" \in Text /\ "https-dns" \in Text
    /\ "https-webhook" \in Text /\ "https-monitoring" \in Text
BY DEF Text, Literals

\* What the code builds the environments from.
LEMMA EnvTypes ==
    ASSUME NEW w \in HigressControllerSpec
    PROVE  ControllerEnv(w) \subseteq Variables /\ PilotEnv(w) \subseteq Variables
<1>1. w.controller.env \subseteq Variables /\ w.pilot.env \subseteq Variables
  BY DEF HigressControllerSpec, ContainerSpec, Variables
<1>2. w.jwtPolicy \in Text /\ w.revision \in Text /\ w.traceSampling \in Text
  BY TextFacts DEF HigressControllerSpec
<1>3. \A name, value \in Text : Var(name, value) \in Variables
  BY DEF Var, Variables
<1> HIDE DEF Variables
<1>4. \A names \in SUBSET Text : Reference(names) \subseteq Variables
  BY <1>3, TextFacts DEF Reference
<1>5. ControllerEnv(w) \subseteq Variables
  BY <1>1, <1>4, TextFacts DEF ControllerEnv
<1>6. PilotEnv(w) \subseteq Variables
  <2>1. Reference({"POD_NAMESPACE", "POD_NAME", "SERVICE_ACCOUNT"}) \subseteq Variables
    BY <1>4, TextFacts
  <2>2. Var("JWT_POLICY", w.jwtPolicy) \in Variables
        /\ Var("CLUSTER_ID", "Kubernetes") \in Variables
    BY <1>2, <1>3, TextFacts
  <2>3. Var("ISTIOD_ADDR", IF w.revision # "" THEN w.revision ELSE "istiod") \in Variables
    BY <1>2, <1>3, TextFacts
  <2>4. {Var("PILOT_TRACE_SAMPLING", sampling) : sampling \in Given(w.traceSampling)}
           \subseteq Variables
    BY <1>2, <1>3, TextFacts DEF Given
  <2>5. If(~w.enableHigressIstio, {Var("CUSTOM_CA_CERT_NAME", "higress-ca-root-cert")})
           \subseteq Variables
    BY <1>3, TextFacts DEF If
  <2> QED BY <1>1, <2>1, <2>2, <2>3, <2>4, <2>5 DEF PilotEnv
<1> QED BY <1>5, <1>6

\* A named port of a legal number.
LEMMA PortType ==
    ASSUME NEW name \in Text, NEW port \in Nat PROVE Port(name, port) \in PortSpecs
BY DEF Port, PortSpecs

\* The ports of the containers and of the Service.
LEMMA PortTypes ==
    ASSUME NEW w \in HigressControllerSpec, NEW old \in SUBSET PortSpecs
    PROVE  /\ genControllerPorts(w) \subseteq PortSpecs /\ genPilotPorts(w) \subseteq PortSpecs
           /\ ServicePorts(w, old) \subseteq PortSpecs
<1>1. w.controller.ports \subseteq PortSpecs /\ w.pilot.ports \subseteq PortSpecs
      /\ w.service \in (SUBSET PortSpecs) \cup {Nil}
  BY DEF HigressControllerSpec, ContainerSpec, PortSpecs
<1>4. DefaultPorts \subseteq PortSpecs
  <2>1. Port("grpc-xds", 15010) \in PortSpecs
    <3>1. "grpc-xds" \in Text BY TextFacts
    <3>2. 15010 \in Nat OBVIOUS
    <3> QED BY <3>1, <3>2, PortType
  <2>2. Port("http-service", 8888) \in PortSpecs
    <3>1. "http-service" \in Text BY TextFacts
    <3>2. 8888 \in Nat OBVIOUS
    <3> QED BY <3>1, <3>2, PortType
  <2>3. Port("https-dns", 15012) \in PortSpecs
    <3>1. "https-dns" \in Text BY TextFacts
    <3>2. 15012 \in Nat OBVIOUS
    <3> QED BY <3>1, <3>2, PortType
  <2>4. Port("https-webhook", 443) \in PortSpecs
    <3>1. "https-webhook" \in Text BY TextFacts
    <3>2. 443 \in Nat OBVIOUS
    <3> QED BY <3>1, <3>2, PortType
  <2>5. Port("https-monitoring", 15014) \in PortSpecs
    <3>1. "https-monitoring" \in Text BY TextFacts
    <3>2. 15014 \in Nat OBVIOUS
    <3> QED BY <3>1, <3>2, PortType
  <2> QED BY <2>1, <2>2, <2>3, <2>4, <2>5 DEF DefaultPorts
<1>5. genControllerPorts(w) \subseteq PortSpecs
  <2>1. Port("http", 8888) \in PortSpecs
    <3>1. "http" \in Text BY TextFacts
    <3>2. 8888 \in Nat OBVIOUS
    <3> QED BY <3>1, <3>2, PortType
  <2>2. Port("grpc", 15051) \in PortSpecs
    <3>1. "grpc" \in Text BY TextFacts
    <3>2. 15051 \in Nat OBVIOUS
    <3> QED BY <3>1, <3>2, PortType
  <2> QED BY <1>1, <2>1, <2>2 DEF genControllerPorts
<1>6. genPilotPorts(w) \subseteq PortSpecs
  <2>1. \A port \in Nat : Port("", port) \in PortSpecs
    <3>1. "" \in Text BY TextFacts
    <3> QED BY <3>1, PortType
  <2>2. PICK a \in Nat, b \in Nat, c \in Nat : a = 8080 /\ b = 15017 /\ c = 15010
    OBVIOUS
  <2>3. genPilotPorts(w) = IF w.pilot.ports # {} THEN w.pilot.ports
                           ELSE {Port("", a), Port("", b), Port("", c)}
    BY <2>2 DEF genPilotPorts
  <2>4. Port("", a) \in PortSpecs /\ Port("", b) \in PortSpecs /\ Port("", c) \in PortSpecs
    BY <2>1
  <2>5. {Port("", a), Port("", b), Port("", c)} \subseteq PortSpecs
    <3> DEFINE p == Port("", a)
               q == Port("", b)
               r == Port("", c)
    <3> HIDE DEF p, q, r
    <3>1. p \in PortSpecs /\ q \in PortSpecs /\ r \in PortSpecs
      BY <2>4 DEF p, q, r
    <3>2. {p, q, r} \subseteq PortSpecs
      BY <3>1
    <3> QED BY <3>2 DEF p, q, r
  <2>6. CASE w.pilot.ports # {}
    BY <1>1, <2>3, <2>6
  <2>7. CASE w.pilot.ports = {}
    <3>1. genPilotPorts(w) = {Port("", a), Port("", b), Port("", c)}
      BY <2>3, <2>7
    <3> QED BY <2>5, <3>1
  <2> QED BY <2>6, <2>7
<1>7. ServicePorts(w, old) \subseteq PortSpecs
  <2> DEFINE start == IF w.service = Nil THEN old ELSE w.service
  <2>1. start \subseteq PortSpecs
    <3>1. CASE w.service = Nil
      BY <3>1
    <3>2. CASE w.service # Nil
      BY <1>1, <3>2
    <3> QED BY <3>1, <3>2
  <2>2. \A given : Missing(DefaultPorts, given) \subseteq PortSpecs
    BY <1>4 DEF Missing
  <2>3. ServicePorts(w, old) \subseteq start \cup Missing(DefaultPorts, start)
    BY DEF ServicePorts, If
  <2> HIDE DEF start
  <2> QED BY <2>1, <2>2, <2>3
<1> QED BY <1>5, <1>6, <1>7

\* The arguments, the volumes and the mounts.
LEMMA PartTypes ==
    ASSUME NEW w \in HigressControllerSpec
    PROVE  /\ genControllerArgs(Self, w) \subseteq Seq(Text) /\ genPilotArgs(w) \subseteq Seq(Text)
           /\ genVolumes(w) \subseteq Text
           /\ genControllerVolumeMounts \subseteq Text /\ genPilotVolumeMounts(w) \subseteq Text
           /\ genControllerName(w) \in Text /\ genPilotName(w) \in Text
<1>1. /\ w.gatewayName \in Text /\ w.ingressClass \in Text /\ w.watchNamespace \in Text
      /\ w.controller.logLevel \in Text /\ w.pilot.logLevel \in Text
      /\ w.controller.name \in Text /\ w.pilot.name \in Text
      /\ Self.ns \in Text
  BY SelfAssumption DEF HigressControllerSpec, ContainerSpec
<1> DEFINE T == Text
           A == Seq(T)
<1>2. /\ \A a \in T : <<a>> \in A
      /\ \A a, b \in T : <<a, b>> \in A
      /\ \A a, b, c \in T : <<a, b, c>> \in A
  <2> HIDE DEF T
  <2> QED OBVIOUS
<1> HIDE DEF A
<1>3. genControllerArgs(Self, w) \subseteq A
  <2>1. <<"gatewaySelectorValue", Self.ns, w.gatewayName>> \in A
    BY <1>1, <1>2, TextFacts
  <2>2. <<"ingressClass", w.ingressClass>> \in A
    BY <1>1, <1>2, TextFacts
  <2>3. \A level \in Given(w.controller.logLevel) : <<"log_output_level", level>> \in A
    <3> SUFFICES ASSUME NEW level \in Text PROVE <<"log_output_level", level>> \in A
      BY <1>1 DEF Given
    <3> QED BY <1>2, TextFacts
  <2>4. If(~w.enableStatus, {<<"enableStatus", "false">>}) \subseteq A
    BY <1>2, TextFacts DEF If
  <2>5. \A ns \in Given(w.watchNamespace) : <<"watchNamespace", ns>> \in A
    <3> SUFFICES ASSUME NEW ns \in Text PROVE <<"watchNamespace", ns>> \in A
      BY <1>1 DEF Given
    <3> QED BY <1>2, TextFacts
  <2> QED BY <2>1, <2>2, <2>3, <2>4, <2>5 DEF genControllerArgs
<1>4. genPilotArgs(w) \subseteq A
  <2>1. <<"discovery">> \in A
    BY <1>2, TextFacts
  <2>2. \A level \in Given(w.pilot.logLevel) : <<"log_output_level", level>> \in A
    <3> SUFFICES ASSUME NEW level \in Text PROVE <<"log_output_level", level>> \in A
      BY <1>1 DEF Given
    <3> QED BY <1>2, TextFacts
  <2> QED BY <2>1, <2>2 DEF genPilotArgs
<1>5. /\ genVolumes(w) \subseteq Text /\ genControllerVolumeMounts \subseteq Text
      /\ genPilotVolumeMounts(w) \subseteq Text
  BY TextFacts DEF genVolumes, genControllerVolumeMounts, genPilotVolumeMounts, If
<1>6. genControllerName(w) \in Text /\ genPilotName(w) \in Text
  BY <1>1, TextFacts DEF genControllerName, genPilotName
<1> QED BY <1>3, <1>4, <1>5, <1>6 DEF A

\* A container whose parts have their types is one.
LEMMA RewrittenType ==
    ASSUME NEW old \in Container, NEW image \in Text, NEW env \in SUBSET Variables,
           NEW containerPorts \in SUBSET PortSpecs, NEW args \in SUBSET Seq(Text),
           NEW resources \in Text \cup {Nil}, NEW mounts \in SUBSET Text
    PROVE  Rewritten(old, image, env, containerPorts, args, resources, mounts) \in Container
BY DEF Container, Rewritten, Variables, PortSpecs

\* Rewriting a container with the parts of a spec leaves a container.
LEMMA ContainerTypes ==
    ASSUME NEW w \in HigressControllerSpec, NEW old \in Container
    PROVE  /\ ControllerContainer(Self, w, old) \in Container
           /\ PilotContainer(Self, w, old) \in Container
<1>1. w.controller.image \in Text /\ w.pilot.image \in Text
      /\ w.controller.resources \in Text \cup {Nil}
  BY DEF HigressControllerSpec, ContainerSpec
<1>2. old.env \subseteq Variables
  BY DEF Container, Variables
<1>3. /\ genControllerEnv(w, old.env) \subseteq Variables
      /\ genPilotEnv(w, old.env) \subseteq Variables
  BY <1>2, EnvTypes DEF genControllerEnv, genPilotEnv, MergeEnv
<1>4. ControllerContainer(Self, w, old) =
         Rewritten(old, w.controller.image, genControllerEnv(w, old.env), genControllerPorts(w),
                   genControllerArgs(Self, w), w.controller.resources, genControllerVolumeMounts)
  BY DEF ControllerContainer, Rewritten
<1>5. PilotContainer(Self, w, old) =
         Rewritten(old, w.pilot.image, genPilotEnv(w, old.env), genPilotPorts(w),
                   genPilotArgs(w), w.controller.resources, genPilotVolumeMounts(w))
  BY DEF PilotContainer, Rewritten
<1> QED BY <1>1, <1>3, <1>4, <1>5, PortTypes, PartTypes, RewrittenType

\* Whatever a pass makes of the list, it is a list of containers.
LEMMA MergeTypes ==
    ASSUME NEW w \in HigressControllerSpec, NEW cs \in Seq(Container)
    PROVE  MergeContainers(Self, w, cs) \in Seq(Container)
<1> DEFINE R == [i \in DOMAIN cs |-> Refreshed(Self, w, cs[i])]
           A == IF ControllerExists(w, cs) THEN <<>> ELSE <<NewController(Self, w)>>
           B == IF PilotExists(w, cs) THEN <<>> ELSE <<NewPilot(Self, w)>>
<1>1. \A name, policy \in Text : Blank(name, policy) \in Container
  BY TextFacts DEF Blank, Container
<1>2. w.controller.pullPolicy \in Text /\ w.pilot.resources \in Text \cup {Nil}
  BY DEF HigressControllerSpec, ContainerSpec
<1>3. NewController(Self, w) \in Container
  BY <1>1, <1>2, ContainerTypes, PartTypes DEF NewController
<1>4. NewPilot(Self, w) \in Container
  <2>1. PICK c \in Container : NewPilot(Self, w) = [c EXCEPT !.resources = w.pilot.resources]
    BY <1>1, <1>2, ContainerTypes, PartTypes DEF NewPilot
  <2> QED BY <1>2, <2>1 DEF Container
<1>5. \A old \in Container : Refreshed(Self, w, old) \in Container
  BY ContainerTypes DEF Refreshed
<1> DEFINE C == Container
<1>6. MergeContainers(Self, w, cs) = (R \o A) \o B
  BY DEF MergeContainers
<1>7. R \in Seq(C) /\ A \in Seq(C) /\ B \in Seq(C)
  <2>1. NewController(Self, w) \in C /\ NewPilot(Self, w) \in C /\ cs \in Seq(C)
        /\ \A old \in C : Refreshed(Self, w, old) \in C
    BY <1>3, <1>4, <1>5
  <2> HIDE DEF C
  <2> QED BY <2>1
<1> HIDE DEF R, A, B, C
<1>8. (R \o A) \o B \in Seq(C)
  BY <1>7
<1> QED BY <1>6, <1>8 DEF C

Stored(owners) == [owner : owners, selector : Text, account : Text, volumes : SUBSET Text,
                   containers : Seq(Container)]

\* An update writes what a Deployment may hold, and leaves its owner.
LEMMA UpdateType ==
    ASSUME NEW w \in HigressControllerSpec, NEW owners, NEW d \in Stored(owners),
           w.serviceAccount.name \in Text
    PROVE  updateDeploymentSpec(Self, w, d) \in Stored(owners)
<1>1. w.selector \in Text /\ getServiceAccount(Self, w) \in Text
  BY SelfAssumption DEF HigressControllerSpec, getServiceAccount
<1>2. MergeContainers(Self, w, d.containers) \in Seq(Container)
  BY MergeTypes DEF Stored
<1>3. genVolumes(w) \subseteq Text
  BY PartTypes
<1>4. PICK selector \in Text, account \in Text, volumes \in SUBSET Text,
           containers \in Seq(Container) :
         updateDeploymentSpec(Self, w, d) =
            [d EXCEPT !.selector = selector, !.account = account, !.volumes = volumes,
                      !.containers = containers]
  BY <1>1, <1>2, <1>3 DEF updateDeploymentSpec
<1> QED BY <1>4 DEF Stored

\* The defaults name an account.
LEMMA AccountIsNamed ==
    ASSUME NEW s \in Specs PROVE setDefaultValues(Self, s).serviceAccount.name \in Text
<1>1. s \in HigressControllerSpec /\ Self.name \in Text
  BY SpecsAssumption, SelfAssumption
<1>2. s.serviceAccount # Nil => s.serviceAccount.name \in Text
  BY <1>1 DEF HigressControllerSpec
<1> DEFINE account == IF s.serviceAccount = Nil THEN [enable |-> TRUE, name |-> Self.name]
                      ELSE s.serviceAccount
<1>3. account.name \in Text
  BY <1>1, <1>2
<1> HIDE DEF account
<1>4. \E rbac, selector : setDefaultValues(Self, s) =
         [s EXCEPT !.rbac = rbac, !.serviceAccount = account, !.selector = selector]
  BY DEF setDefaultValues, account
<1> QED BY <1>1, <1>3, <1>4 DEF HigressControllerSpec

\* Every variable has its type, whatever is edited, rolled out and injected: the
\* merges leave containers, ports and an owner of the right kind.
THEOREM TypeCorrect == Spec => []TypeOK
<1>1. Init => TypeOK
  BY DEF Init, TypeOK
<1>2. TypeOK /\ [Next]_vars => TypeOK'
  <2> SUFFICES ASSUME TypeOK, [Next]_vars PROVE TypeOK'
    OBVIOUS
  <2>1. ASSUME NEW s \in Specs, Edit(s) PROVE TypeOK'
    BY <2>1 DEF Edit, TypeOK
  <2>2. CASE Roll
    <3>1. wanted \in HigressControllerSpec /\ wanted.serviceAccount.name \in Text
      BY WantedIsASpec, AccountIsNamed DEF TypeOK, wanted
    <3>2. deployment' \in Stored({Self})
      <4>1. CASE deployment = NoDeployment
        <5> DEFINE new == [NoDeployment EXCEPT !.owner = Self]
        <5>1. new = [owner |-> Self, selector |-> "", account |-> "", volumes |-> {},
                     containers |-> <<>>]
          <6> DEFINE fields == {"owner", "selector", "account", "volumes", "containers"}
          <6>1. NoDeployment = [x \in fields |-> NoDeployment[x]]
            BY DEF NoDeployment
          <6>2. /\ NoDeployment.selector = "" /\ NoDeployment.account = ""
                /\ NoDeployment.volumes = {} /\ NoDeployment.containers = <<>>
            BY DEF NoDeployment
          <6>3. new = [x \in fields |-> IF x = "owner" THEN Self ELSE NoDeployment[x]]
            BY <6>1
          <6> HIDE DEF new
          <6> QED BY <6>2, <6>3
        <5> HIDE DEF new
        <5>2. new \in Stored({Self})
          <6>1. <<>> \in Seq(Container)
            <7> DEFINE C == Container
            <7>1. \A S : <<>> \in Seq(S)
              OBVIOUS
            <7> QED BY <7>1
          <6> QED BY <5>1, <6>1, TextFacts DEF Stored
        <5>3. initDeployment(Self, wanted, Self) \in Stored({Self})
          BY <3>1, <5>2, UpdateType DEF initDeployment, new
        <5> QED BY <2>2, <4>1, <5>3, RollFacts
      <4>2. CASE deployment # NoDeployment
        <5>1. deployment \in Stored({Self})
          BY <4>2 DEF TypeOK, Stored
        <5> QED BY <2>2, <3>1, <4>2, <5>1, UpdateType, RollFacts
      <4> QED BY <4>1, <4>2
    <3>3. ports' \subseteq PortSpecs
      BY <2>2, <3>1, PortTypes, RollFacts DEF TypeOK, PortSpecs
    <3> QED BY <2>2, <3>2, <3>3, RollFacts DEF TypeOK, Stored, PortSpecs
  <2>3. CASE Inject
    <3>1. deployment \in Stored({Self})
          /\ deployment' = [deployment EXCEPT !.containers = Append(@, Sidecar)]
      BY <2>3 DEF Inject, TypeOK, Stored
    <3>2. Sidecar \in Container
      BY TextFacts DEF Sidecar, Blank, Container
    <3>3. Append(deployment.containers, Sidecar) \in Seq(Container)
      BY <3>1, <3>2 DEF Stored
    <3>4. deployment' \in Stored({Self})
      BY <3>1, <3>3 DEF Stored
    <3> QED BY <2>3, <3>4 DEF Inject, TypeOK, Stored
  <2>4. CASE UNCHANGED vars
    BY <2>4 DEF vars, TypeOK
  <2> QED BY <2>1, <2>2, <2>3, <2>4 DEF Next
<1> QED BY <1>1, <1>2, PTL DEF Spec
=============================================================================
