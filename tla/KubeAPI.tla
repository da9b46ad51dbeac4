------------------------------ MODULE KubeAPI ------------------------------
(***************************************************************************)
(* The part of the Kubernetes API the reconcilers rely on: one stored      *)
(* object with its resourceVersion, the optimistic concurrency of Update,  *)
(* and the two helpers of utils.go.  CreateOrUpdate is the function of     *)
(* controller-runtime's controllerutil that the helper calls: it decides   *)
(* from the informer's copy of the object whether to create it, to update  *)
(* it or to send nothing.  An absent object keeps the version of its last  *)
(* change, so that a version is never used twice.                          *)
(***************************************************************************)
EXTENDS Naturals

CONSTANT Nothing    \* the content of an object that does not exist

Object(Values) == [version : Nat, content : Values \cup {Nothing}]

NeverStored == [version |-> 0, content |-> Nothing]

Exists(object) == object.content # Nothing

\* A write that changes nothing keeps the version and tells no watcher.
Written(object, content) ==
    IF object.content = content
    THEN object
    ELSE [version |-> object.version + 1, content |-> content]

Removed(object) == Written(object, Nothing)

\* What a request is answered with, and the object it leaves behind.
Answer(ok, object, content) ==
    [ok |-> ok, object |-> IF ok THEN Written(object, content) ELSE object]

Create(object, content) == Answer(~Exists(object), object, content)

AcceptsVersion(object, seen) == object.version = seen.version

Update(object, seen, content) ==
    Answer(Exists(object) /\ AcceptsVersion(object, seen), object, content)

\* CreateOrUpdate reads `seen` from the informer.  Nothing there: it creates
\* `fresh`.  Otherwise it updates to `mutated`, unless that is what it read.
\* An object the server completes with defaults never equals what the code
\* builds, so its update is always sent (forced).
CreateOrUpdate(object, seen, fresh, mutated, forced) ==
    CASE ~Exists(seen) -> Create(object, fresh)
      [] Exists(seen) /\ (forced \/ mutated # seen.content) ->
             Update(object, seen, mutated)
      [] OTHER -> [ok |-> TRUE, object |-> object]

FailIfExists(object, content) == Create(object, content)    \* variant

\* The name of an object that exists already is no error, whoever owns it.
CreateIfNotExists(object, content) ==
    [ok |-> TRUE, object |-> Create(object, content).object]
=============================================================================
