# NamespaceClassOperator in TLA+

Specifications of the operator in `src/`, the model-checking runs that exercise them
and machine-checked proofs about the core. File names without a directory are modules
here; Go files are named by their path in the repository.

## The system

One process (`cmd/main.go`, one replica with leader election) runs five reconcilers and
two validating webhooks over five kinds of objects.

| object | who writes it | what the models keep of it |
|---|---|---|
| Namespace | users, Kubernetes | label `namespaceclass.akuity.io/name`, being deleted |
| NamespaceClass | users; class and item controllers | items, finalizer, being deleted, annotation "item updated" |
| NamespaceClassItem | users; class and item controllers (status) | generation, template, observedGeneration, referencedBy |
| NamespaceState (one per labelled namespace) | namespace, state and class controllers | owner, class, annotations "pending update" and "class updated" |
| NamespaceItemInstance (one per item and namespace) | state and instance controllers | owner, annotation "updated", observedGeneration, kind on record |
| the resource an item describes | instance controller | owner, what it was written from |

A change travels by annotation. Each controller watches one kind only and has one
worker, so two reconcilers never call each other: one writes an object, the informer
delivers it, the other wakes up.

    label        -> Namespace controller  -> NamespaceState (create / pending-update / delete)
    item changed -> item controller       -> NamespaceClass (updated)
    class changed-> class controller      -> NamespaceState (class-updated), referencedBy of items
    state changed-> state controller      -> NamespaceItemInstances (create / updated / delete), commit
    instance     -> instance controller   -> the resource, status

### Components, what makes them correct and what is hard

| component | state it keeps | correct when | hard because |
|---|---|---|---|
| Namespace controller | none beyond the NamespaceState | the NamespaceState records the label, and exists exactly while there is one | its copies of both objects may be old; users relabel while a switch is pending |
| NamespaceState controller | instances, the commit of a pending class | instances are those of the class; a commit comes last; instances of a committed class stay | many writes per call, any of which may fail; list and class come from other caches |
| NamespaceClass controller | finalizer, `referencedBy`, class-updated | no class change is lost, references are complete, a class goes only when no item lists it | skips states it believes annotated; shares item status with the item controller |
| NamespaceClassItem controller | observedGeneration, item-updated | every change of an item is announced | records the change as seen before it tells anybody |
| NamespaceItemInstance controller | the resource, its kind on record | the resource is as the item says, nothing older is left, other owners' resources stay | create and status write are two calls; the kind comes from the status, the owner from the resource |
| webhooks | none | classes list existing items that describe different resources | each looks at its own cache at its own moment, so that of writes made at once neither sees the other |
| manager | caches, queues | a restart finds everything again | everything above is lost and rebuilt |

Concurrency is between reconcilers, users, informers and the garbage collector; failures
are refused writes (conflict, not found, already exists, namespace terminating), writes
that fail for other reasons, and restarts of the process. There are no timers of the
operator's own: an error puts the key back in the queue.

## Modules

`ApiObjects` says what the API server promises: a slot per name with `live`, `uid` (which
object of that name this is), `rv` (resourceVersion) and `obj`; an update needs the
current `rv`, a create a free name, a delete only a name; an update that changes nothing
keeps `rv` and causes no event. `NamespaceStore`, `StateStore`, `ClassStore`,
`ItemStore`, `InstanceStore` and `ResourceStore` add the fields of a kind, and the
informer's copy beside the stored objects.

| module | code | how it corresponds |
|---|---|---|
| `NamespaceController` | `internal/controller/namespace_controller.go` | actions `Ns...`; `nsWorker` is the call in progress with its local variables |
| `NamespaceStateController` | `internal/controller/namespacestate_controller.go` | actions `St...` |
| `NamespaceClassController` | `internal/controller/namespaceclass_controller.go` | actions `Cl...`; `release` is `handleDeletion` |
| `NamespaceClassItemController` | `internal/controller/namespaceclassitem_controller.go` | actions `It...` |
| `NamespaceItemInstanceController` | `internal/controller/namespaceiteminstance_controller.go` | actions `In...` |
| `Webhooks` | `internal/webhook/v1alpha/*_webhook.go` | operators `Admits...`, used as guards of the writes they see |
| `UserWrites` | | users' writes of classes and items, each guarded by its webhook |
| `Housekeeping` | | Kubernetes: namespace lifecycle, garbage collection of states and instances |
| `ClassAssignment` | Namespace + NamespaceState controllers | label to instances; classes fixed |
| `ClassSwitch`, `ClassAssignmentRefinement` | | what `ClassAssignment` promises, and the mapping |
| `InstanceSync` | NamespaceItemInstance controller | item to resource; the others reduced to what they do to an instance |
| `Operator` | all five controllers, the webhooks, `cmd/main.go` | a change of a label, a class or an item all the way to the resource |
| `Admission` | webhooks | users' writes only |
| `ApiObjectsProofs`, `ClassAssignmentProofs`, `ClassSwitchProofs`, `OperatorProofs`, `OperatorSettledProofs`, `OperatorDeliveryProofs`, `AdmissionProofs`, `InstanceSyncProofs` | | the proofs |

`Operator` is the whole; the constant `Controllers` says which reconcilers run, so that a run
can look at classes and NamespaceStates only (`ClassRollout`) or at everything (`Delivery`). A
start (`Starts`) says what is in place at first, what users may do and how often, which
reconciler's writes may fail and how often, how often the manager restarts and which
informers resync in the end. `ClassAssignment` and `InstanceSync` look at one end each with more
freedom than the whole could be checked with: deleted namespaces and any label changes in the
one, unreadable, renamed and recreated items in the other.

One client call of a `Reconcile` is one step, with the control flow up to the next call
in it; a call that reads also does what the code computes from it. The mapped lines of
each definition are in `PROJECT.json`. Operators marked "Mutant of" are plausible bugs
of the definition next to them; the manifest names the property that notices each.

### Abstractions

- An informer delivers all pending changes of one kind at once (`Sync...`), at any later
  moment. Queues are sets of keys, as the workqueue merges equal keys.
- Typed reads come from the cache and fail with NotFound only; unstructured reads (the
  resources) are live and may fail as any write may. A write that fails for its own reasons leaves nothing behind. A write that was
  done and whose reply was lost occurs only as a restart right after the write.
- The items of a class are handled in any order: the models have sets, so every order
  of the code's slice, and Go's random order of `existingMap`, is one of theirs. An item
  listed twice, which the class webhook refuses, cannot be written down.
- A label with an empty value is a class that does not exist. Other finalizers, owners and
  controllers do not exist.
- What an item says is a template: `Parses` are those that can be read as a Kubernetes object
  with a name, and `ResourceOf` and `KeyOf` are the kind and name a template describes and the
  key the webhooks compare. The dry run admits exactly `Parses`; what else the target cluster
  may say of a template (a resource that exists already in `namespaceclass-test`, a quota)
  is its own. `InstanceSync` has no webhook, so items there may become unreadable.
- The garbage collector takes an object whose owner is gone at some later moment.
- A restart lists everything and queues every key. A resync queues every key of one informer;
  in `Operator` both come after the users' last act, the resync when all is quiet, as ten hours
  are longer than any of this takes; in `ClassAssignment` a resync may come at any time.
  A write of a process that has stopped is done or not at once: one that arrives after the next
  process has listed everything is not modelled, and `CommittedInstancesStay` would not survive
  a delete by name that comes so late.
- Lag constants (`StateLag`, `InstanceLag`, `ItemLag`, `OwnLag`) say of one read whether it
  may be out of date, as the code's reads may; FALSE makes it wait for the informer, and says of a
  run or a theorem that it is about the rest.
- In `InstanceSync` the state reconciler is reduced to `Annotate`, once for each change and only
  after the change has reached the informer; the code annotates the instances that exist on every
  pass (`namespacestate_controller.go:101-111`). `Operator` has its passes as they are.

## Runs

All have one namespace: no controller reads or writes across namespaces, except the
class controller, which treats the states of a class one after the other with no state
between them. Deadlock is not checked: every run ends quiet when users stop.

| run | instance and bounds | shows |
|---|---|---|
| `ClassAssignment` | classes {dev, prod} and an unknown one, 2 edits, 1 failed write or 1 restart, both caches stale, labels given and moved forward, fairness | `SettledFollowsLabel`, `CommitInstalls`, `UsedOnce`, `SwitchesSafely`, `ImplementsClassSwitch` |
| `ClassAssignmentAnyOrder` | any label change, 2 edits, 1 failed write, both caches stale, resyncs, fairness | `CopiesSound`, `SwitchOnlyToPending`, `CommittedInstancesStay`, `Converges` |
| `ClassRollout` | two classes sharing an item, stale state and item caches; 3 edits, or 2 and a restart | `SettledFollowsClass`, `SettledReferenced`, `ListingSound`, `ReleasedBeforeGone`, `ListsOnlyHeld` |
| `ClassRolloutLive` | 2 edits with one failed write or a restart, fairness | `Converges`, `DeletionEnds` |
| `Delivery` | five controllers, one class, one item, all caches stale (except the instance controller's of its own object, see `InstanceSync`); the starts below | `SettledDelivers`, `SettledHealed`, `SettledUnmarked` |
| `InstanceSync` | one item, content, kind, name and readability change; 5 patient edits with 2 failed calls and a restart, or 3 at any moment with 1 and a restart; stale own cache, fairness | `SettledApplied`, `SettledNothingElse`, `StatusHonest`, `Converges` |
| `InstanceSyncShared` | two items with the same resource names, 4 edits, items deleted and recreated | `OthersKept` |
| `Admission` | two classes, three items, 6 writes, copies of any age, names used twice, a template that cannot be read | `ItemsExist`, `NoTwoShareKey` |
| `LabelFlip` | label changed and changed back | `SettledRecordsLabel` fails |
| `RefusedStatus` | kind changed during a reconcile | `SettledNoneLeft` fails |
| `StuckFinalizer` | class created while its item is deleted, then deleted; fairness | `DeletionEnds` fails |
| `LostAnnouncement` | two items edited, one of them listed by two classes | `SettledAllTold` fails |

One run of each module checks its `TypeOK` (`ClassAssignment`, `ClassRollout`, `InstanceSync`, `Admission`).
The starts of `Delivery`: the item is edited twice; it is edited and the manager restarts; it is edited
and a call of the state or the instance reconciler fails; a class is created; a namespace is labelled and the
item edited, in any order; the announcement of an edit fails and the classes, or the
instances, resync; a label is changed and the namespaces resync; a label is changed twice, so
possibly back, and the namespaces and the states resync.

`SettledDelivers` is about starts that are `tame` (nothing that is known to need a resync: all
but the last) and about runs in which no write of the item controller failed. `SettledHealed`
has no exception but needs the resyncs of the start to be done. `SettledNothingElse` excepts
(`disturbed`) an item changed before its last change was dealt with, a rename, and a failing
read of the old resource; each of the three alone breaks `SettledNoneLeft`.

What `ClassAssignment` checks is what the reconciler can answer for when its list of
instances (`namespacestate_controller.go:91`) may be of any age: all instances that are asked for are
there, the class is on record, and an instance too many at a commit is one the list did not show.
With `InstanceLag` FALSE the same properties say that there are no others; they pass there too, and
the theorems are about both.

In `Admission` a class and an item may be written at once, each admitted against an old copy of the
other. The history variable `raced` holds the pairs whose last check looked at an old copy, and
`ItemsExist` and `NoTwoShareKey` except these and no others: a pair checked with current copies
is taken out again, and stays right whatever is written later.

The bounds: a lost update needs one reader, one writer and one change in between, so two
or three edits with one worker per controller suffice for each known scenario. `MaxCreated`,
`MaxTouched` and `MaxVersions` stop a loop that real time bounds (a worker that keeps meeting
an old copy, writes and is queued again): they let a reconcile *start* on an old copy only while the
object has few versions, and never block one that is running or has fresh copies; at these
bounds the loop has gone round at least once.

### Fairness

The liveness runs assume weak fairness of every informer, every reconciler and (where
modelled) the garbage collector, and nothing of users, failures or restarts, which are
bounded; `ClassAssignmentAnyOrder` also assumes that its informers resync again and again, which
controller-runtime does by default. The code justifies it: the manager keeps running its informers and workers,
each controller has a worker of its own, and a refused write is retried from a new
read, for the workqueue takes the key back after every error. Weak fairness is
enough: an action that stays enabled is eventually taken.

## Findings

- **LabelFlip** (`namespace_controller.go:105`). The label is compared with
  `spec.namespaceClass` only. A to B sets `pending-update: B`; B back to A before the commit
  finds the class equal and leaves the annotation; the state controller commits B.
  Nothing wakes the Namespace controller until a resync or a restart, and only then is A
  asked for again.
- **RefusedStatus** (`namespaceiteminstance_controller.go:213`). The kind of a resource is
  recorded after it is created. If the instance is annotated in between, the status write
  is refused; should the item by then say a third version, whose kind differs, the retry
  cleans up the kind on record, which is not the kind created. It is never deleted while
  the instance lives.
- **StuckFinalizer** (`namespaceclass_controller.go:166`). The webhooks let an item be deleted
  while a class that lists it is being created, each by its own cache. When that class is
  deleted, `handleDeletion` skips the missing item, but taking the finalizer off is an update of
  the class, and `validateSpec` (`namespaceclass_webhook.go:131-135`) refuses every update of a
  class that lists a missing item, one that is being deleted included. The class stays until
  somebody creates the item again.
- **LostAnnouncement** (`namespaceclassitem_controller.go:115`). A new generation is recorded as
  observed before the classes of the item are annotated. If another item has just annotated the
  first of these classes, the update made from the old copy is refused and the reconcile ends
  with the error. The retry finds the generation observed and does nothing, so the other
  classes are not told, and their namespaces keep the resource of the old generation until a resync.
  The first class is annotated all the same, by the other item.

### Where the passing runs stop, and how to go further

Each row was seen to fail: change the constant in the configuration and check the property.

| configuration | change | fails | why |
|---|---|---|---|
| `ClassAssignment` | `LabelMoves <- ToggleMoves` | `SettledFollowsLabel` | instances of the deleted state are reused, then collected |
| `ClassAssignment` | `LabelMoves <- LeavingMoves` (with `StateLag = FALSE` it holds) | `SettledFollowsLabel` | label removed before the new state is in the cache |
| `ClassAssignment` | `MaxLives = 2` | `SettledFollowsLabel` | a new namespace meets the old one's state |
| `ClassAssignment` | without `~InstanceLag \/` in `FollowsAsSeen`, or `InstanceLag /\` and what follows in `CommitInstalls` | the same property | an instance missing from the list is never deleted |
| `ClassRollout` | `WebhooksEnabled = FALSE` | `SettledFollowsClass` | deletion of a class annotates nobody |
| `ClassRollout` | `InstanceLag = TRUE` | `SettledFollowsClass` | an instance missing from the list is not deleted when the class drops its item |
| `ClassRollout` | a start with `createClass`, `label` and `deleteClass`, and the `namespace` reconciler | `SettledFollowsClass` | class deleted before the webhook's copy has the new label |
| `ClassRollout` | `MaxLives = 2` | `SettledReferenced` | a stale item already lists the class of that name |
| `Delivery` | a start with `createClass` and `editItem`, `inPlace` FALSE | `SettledDelivers` | item edited before it lists the new class (a resync repairs it) |
| `Delivery` | without `~failed` in the property | `SettledDelivers` | the change is recorded as observed, then the annotation fails |
| `InstanceSync` | `MaxItemLives = 2` | `SettledApplied`, `StatusHonest` | a recreated item has generation 1 again |
| `InstanceSync` | `Items = {policy, quota}` | `SettledApplied`, `StatusHonest` | two items name one resource, and the later write takes it over |
| `InstanceSync` | without `~disturbed` in the property | `SettledNothingElse` | a rename or an ignored error leaves the old resource |
| `Admission` | without `raced` in the property | `ItemsExist`, `NoTwoShareKey` | both webhooks admit, each from its own cache |
| `Admission` | `KeyOf <- MCVersionedKey`, and `ResourceOf` for `KeyOf` in the property | `NoTwoShareKey` | the key includes the version of the group |

Also true of the code and not a property of any run: `referencedBy` is complete
(`SettledReferenced`) but not exact, for an item that leaves `spec.items` keeps the class.

## Proofs

All are checked by TLAPS for every value of the constants that satisfies the named assumptions
of the modules, with all bounds, lags, starts and faults left open. `ApiObjectsProofs` holds the
lemmas about slots they share: what a write leaves, and that a copy that was sound (`Fresh`)
stays so under any write.

### `ClassAssignmentProofs`

Under `NoClassAssumption`, `NoKindAssumption` and `ClassAssumption` (namespaces exist, class items
are items):

- `TypeCorrect`: `Spec => []TypeOK`. `TypeOK` is inductive: besides types it says that
  whoever is about to write a NamespaceState has a copy that names a class.
- `CopiesAreSound`: `Spec => []CopiesSound`. This is the strengthening the next two need:
  neither says anything about caches and workers, and both fail to be inductive because a
  worker could hold a copy that was never stored. `Fresh` says every copy is at most as
  new as the stored object and equal to it when the versions agree, which makes an
  accepted update one of the version it was computed from. `AimsRight` says that while
  nothing is pending in the stored state, every older copy of it (same `uid`) aims at the
  class that is on record: after a commit an old copy either had that class pending or
  already had it. `OwnersSeen` says that whoever holds a copy of a state has seen the
  owners of the instances, so an instance of the new state of a name is out of reach of
  a worker with a copy of the old one. Each step changes a state at most as
  `Moves` allows, and `CopyKept` shows that copies stay sound under that.
- `SwitchesOnlyToPending`: `SwitchOnlyToPending`, from `Fresh` and the guard of `StCommit`.
- `InstancesOfCommittedClassStay`: `CommittedInstancesStay`; the one step to look at is
  `StDeleteInstance`, whose target is not of the class its copy aims at, and that copy, by
  `OwnersSeen` and `AimsRight`, aims at the class on record.

### `ClassSwitchProofs`

That the two reconcilers implement the steps of `ClassSwitch` (`SwitchesSafely`; the end of every
request is left to the run), and that every namespace follows its label once nothing is left to
do. Both are for copies of NamespaceStates and lists of instances of any age, and need conditions on
what users do, named as below; the table above says what fails without them: `LabelsLeave` or `LabelsStick`: a deleted namespace does not come back under its name, and either a removed label
is not put back or no label is removed (one may be given later).

- `NamesUsedOnce`: under `LabelsLeave` or `LabelsStick`, `Spec => []UsedOnce`: no namespace gets a
  second NamespaceState. The reconciler creates one whenever its copy shows none, and the copy may
  be of any age; what saves it is that a NamespaceState goes only when the namespace goes too, or
  after the reconciler has seen the label gone for good (`OnceInv`), which it never does where
  labels stick (`StickInv`). In both cases what a copy once showed of the label stays true: that it
  has been removed, or that it has been given.
- `OnceRefines`: `Spec /\ []UsedOnce => SwitchesSafely`. `SwitchMoves` sorts the
  steps into five moves, and `Refined` shows of each that it is a step of `ClassSwitch` or a stutter,
  from the invariant `SwitchInv`: the copies are sound (`CopiesSound`, from `ClassAssignmentProofs`), an object that exists
  is at least the first of its name, an instance has an owner (`LivesInv`), and while
  instances are written those of the target handled so far are there and whatever else there
  is is going to be deleted (`StWriteOK`). The last is where `UsedOnce` is needed: an instance
  left by an earlier NamespaceState is an orphan, and may be collected between the list and the commit.
- `RefinesSwitch` puts the two together. `ClassSwitch` switches only when the instances asked for are
  there, and when no others are if whoever switches sees them all (`AllSeen`, here `~InstanceLag`).
- `CommitsInstalled` (`CommitInstalls`) says besides that whatever else is there was missing from
  the reconciler's list; `CommitMeans` takes it from `SwitchInv`.
- `FollowsLabel`: `Spec => []SettledFollowsLabel`, under `LabelsForward` (the labels can be
  ranked so that every change goes up: a label once left does not come back) and `LabelsLast`
  (`LabelsStick`, or `LabelsLeave` with copies of NamespaceStates that are up to date). "Settled" says
  only that queues are empty, copies current and deletions done, so the invariant has to say why an empty queue
  means that the work is done. `NamesInv` is about the reconciler of namespaces: what a
  NamespaceState aims at is the label, or the namespace is *attended* (news on its way, in the
  queue, or in hand as it is now). A request that finds nothing to do must not be the end while
  the aim is wrong, and it decides from an old copy of the state; so `Ordered` ranks what it
  compares: class in the copy, class on record, class aimed at, label in hand, label in the
  cache, label that is there, each no higher than the next. When the class of the copy is the label
  that is there, all are equal. This is where labels that come back do harm. `StatesInv` says the same of
  the reconciler of NamespaceStates: nothing is pending and the instances of the class are there (`HasItems`: and,
  where the list is never old, no others), or the state is attended.

### `OperatorProofs`

About the composition of all five controllers, under `NoClassAssumption`, `TemplatesAssumption` and
`StartAssumption` (there are namespaces, classes and items; a start is a record of what may
happen, and what it has in place passed the webhooks):

- `ListingIsSound`: `Spec => []ListingSound`, by the inductive invariant `IInv`, which adds the
  types of the variables it is about. `ListsOnlyHeld` is not inductive, for the class reconciler
  writes an item long after it saw the class. Three facts carry it. There is one class worker, and only it
  adds or removes the finalizer, so what it has seen to be held while it lists stays held
  (`HeldOK`); a copy of the stored version is the stored object (`CopiesOK`), so that an
  accepted update was computed from what is there; and an item that lists a class exists in
  the cache as well (`RefsOK`), so that an item found missing during the release has nothing to be
  taken out of.
- `ListsOnlyHeldHolds`: the one step that adds a reference has `pc = "addRef"`, where `HeldOK`
  says that the class is held. The item reconciler writes the same status, but only the version
  it has read, whose references it keeps.
- `ReleasedBeforeGoneHolds`: a class vanishes when its finalizer goes, with `pc = "release"` and
  nothing left to do, where `RefsOK` speaks of all its items.

### `OperatorSettledProofs`

What `Operator` guarantees once nothing is left to do, from the invariants above and the types of
everything the five reconcilers hold (`RestTypeOK`, inductive together with `IInv`). All four theorems
are for any number of namespaces, classes and items and leave edits, failed or refused writes, restarts
and resyncs open; a named condition takes away what the code does not survive.

| theorem | conditions | why they are needed |
|---|---|---|
| `OperatorTypes` (`TypeOK`) | `ItemsStay`: users delete no item | a recreated item starts again with generation 1, below what an instance has observed |
| `OperatorUnmarked` (`SettledUnmarked`) | `ItemsStay`; the three reconcilers that take marks off run; no system namespaces | the reconcilers ignore objects in system namespaces, marked or not |
| `OperatorReferenced` (`SettledReferenced`) | `ItemsStay`; the class reconciler runs; `ItemLag` is FALSE or no name is used twice (`MaxLives = 1`) | a stale item already lists the earlier class of that name |
| `OperatorFollowsClass` (`SettledFollowsClass`) | `LabelsStay`: a label once given is not changed, and where labels are given no class is deleted; webhooks and the class and state reconcilers run; `ListsStay`: no class is edited where `InstanceLag` is TRUE | the other half, labels that change, is `ClassAssignment`; a class may be deleted before the webhook's copy has the new label, as it may without webhooks; an instance missing from the list is never deleted |

The first three share one idea. An object is *attended* when the informer has not delivered its
present version, or its key is queued, or the call in progress has that version in hand
(`AttendedClass`, `AttendedState`, `AttendedInstance`). Changing an object makes it attended, and only
finishing a call with its present version in hand ends that. In a quiet state nothing is
attended, so it is enough that whoever needs something is attended:

- `MarksOK`: whoever is annotated. A call that ends without taking the annotation off was refused
  or failed, and its key is queued again.
- `ToldOK`: a class that is annotated, is being deleted, or has an item that does not list it. `ListedOK`
  follows the call: the items that it is done with list the class, if the class is still what
  was read. Against it works the release of an earlier class of the name, which may take the reference
  out again; `OnceOK` says that it cannot happen where a name is used once.

`OperatorFollowsClass` needs more, for two reconcilers act on one class at different times, and
the state reconciler decides in one call (`StGetClass`) and writes in the next ones.

- `SteadyInv`: no NamespaceState, copy of one, or call of the namespace reconciler says anything
  but the label, and the informer has the label of every NamespaceState; one that exists stays.
  `Given(n)` is the class of a namespace that has its NamespaceState: it changes once, when that is created
  (`GivenAnew`), and a new NamespaceState is attended.
- `UsedOK`: a class that is `Taken` (given to a namespace, or any class where labels may still be
  given) is never deleted, because the webhook sees the label (`namespaceclass_webhook.go:97-118`)
  or, by `LabelsStay`, nobody asks. `OwnersOK`: so no instance is an orphan, and only the state reconciler
  makes or takes one (`SameLives`).
- `Aim(n)` is what there will be in `n` when the call in hand is done, given the list of instances it
  has (`WriteOK`). `AimTurn` says that only reading the class changes it, to what the class
  has in the cache at that moment, or giving up, which queues the key. Where the list may be out of
  date, `GrowOK` says that a class is as it was when it came and instances are only added, so that
  none is left over.
- `CourseOK`: where the aim is not what the class has now, either `ClassComing` (the class reconciler has
  yet to see the class, or to annotate this NamespaceState) or `StateComing` (the state reconciler has yet to read
  the class). The step to look at is the one where the class reconciler leaves out a
  NamespaceState that is annotated in its copy (`namespaceclass_controller.go:97`): the copy may be old, but then
  it differs from what is stored and the informer will wake the state reconciler (`StateMarksOK`);
  the other is the commit, which takes an annotation off that was set after the class was read. It is
  refused, since it was computed from the version before.

### `OperatorDeliveryProofs`

When nothing is left to do and no write of the item reconciler has failed, every namespace has the
resources its label asks for as its items say now. It is about the whole operator and any number of
namespaces, classes, items and templates, namespaces that have their label and those that get it at
any time, any stale copies, any failing calls of the other four reconcilers, the read of the old
resource included whose error is ignored (`namespaceiteminstance_controller.go:151`), restarts and
resyncs. Two theorems say it, with one proof:

- `OperatorSupplies` (`SettledSupplies`): and whatever else is there is of an item the class lists.
  An item may come to describe another resource, and then the old one may stay (RefusedStatus).
- `OperatorDelivers` (`SettledDelivers`): and nothing else is there, where every item keeps to one
  resource of its own (`Keeps`), whatever else it says of it. Then a resource written for an item
  is the one the item describes (`HomesFound`).

`OperatorFollowsClass` gives the instances; what is new is that each of them has the resource, and why
nobody has stopped half way.

| condition | why it is needed |
|---|---|
| all five reconcilers run, no system namespaces, `WebhooksEnabled`, `ItemsStay`, `LabelsStay`, `ListsStay` | as for `OperatorFollowsClass`; the item and instance reconcilers and the webhooks carry the change of an item |
| `EditsAlone`: users who edit items create and edit no classes, and then no two classes list one item | an item edited before it lists the new class is announced to nobody (table above); of two classes the second may not be told (LostAnnouncement) |
| `[]Apart(HomeOf)`: there is a fixed item for each resource, and no item ever describes another's (`OperatorSupplies`) | two items that describe one resource take it from each other; the webhooks refuse that only within a class |
| `[]Keeps(PlaceOf)`: there is a fixed resource for each item, of its own (`OperatorDelivers`) | a change of kind may, and a change of name does, leave the old resource behind (table above) |
| what the items say at first can be read, and one key means one resource | the webhooks see to the first for every edit; without the second the item reconciler's own update of a class could be refused |

`Apart` and `Keeps` are hypotheses about users and not about the operator: no controller writes
what an item says. In `Delivery` they always hold. The invariant, `DeliveryInv`, has four parts besides what
`OperatorFollowsClass` gives.

- `RecordInv`, what the status says: `Honest` and its helpers are those of `InstanceSyncProofs`, carried over with
  `Move`, the nine ways in which a step of `Operator` looks to an instance (`Moves`). There, one item made the
  resource its own; here `Home` does. So whoever `Says` that it has observed the present
  generation has the resource, and it remains to show that in the end nobody is `Behind`.
- `HandsInv` and `ListsInv`, what the calls in progress are about: the item reconciler goes
  through the class that lists the item, the class reconciler through the items it listed at first, and no
  namespace has other instances while its class exists (`UseFixed`).
- `NamesTold`: a namespace with a label and no NamespaceState is news to the namespace reconciler, queued,
  or in hand with its label; a call that fails, or finds the cache behind, queues it again.
- `ChainOK`: an instance that is behind is attended, or somebody is on the way to annotate it
  (`Told`): the state reconciler, which has still to read the class or to handle this instance (`StateTells`);
  the class reconciler, by `ClassComing` (from `OperatorFollowsClass`) or because the class is annotated (`ClassTells`);
  or the item reconciler, which has not recorded the edit as observed, or has and is on its way through
  the classes (`ItemTells`). Each hands over to the next: `ItemTellsStep`, `StateTellsStep`, `BehindAttention`. The steps
  to look at are those that pass somebody over. The item reconciler skips a class that is annotated in its
  copy (`namespaceclassitem_controller.go:112`), which may be old; but then the informer has news of the class.
  Its update from an old copy is refused after the edit has been recorded; but whoever wrote the
  class in between has left it to the class reconciler, and there is no second class to tell. The instance reconciler, with an item from its cache that the instance has seen, takes off an
  annotation that was for the next generation; but then the item reconciler has not seen that either (`SeenOK`).

### `AdmissionProofs`

`AdmissionTypes`, `ListedItemsExist` and `ListedItemsDiffer`, under `WebhooksEnabled` alone: the webhooks'
copies may be of any age, and the exceptions are the pairs in `raced`. `Sound` is the three
properties together, which are inductive only so: the write of a class looks at its items, the
write of an item at the classes that list it, and each needs what the other left true. The two
cases are `ItemsStep` and `ClassesStep`: a pair that is not in `raced` after a write was either checked with
current copies of both, or not touched.

### `InstanceSyncProofs`

Under `InstanceAssumption` (namespaces and items exist, what items say are templates),
`KindsAssumption` and `TemplatesAssumption`. `NextMoves` first reduces every step of `Next` to one
of nine moves that say only what matters here: an item or an instance is written by others, a
resource is collected, informers catch up or a call is given up, and the parts of a call.

- `InstanceTypes`: `TypeOK`. Its last part is the one with content: whoever has observed a
  generation has recorded a kind. It takes that no item has generation 0 (`RecordsOK`), in the
  store, in the cache and in the call.
- `OthersAreKept`: `OthersKept`, for any number of items that name the same resources. The
  owner is looked at in one call and the resource deleted in the next; `OldOwned` says that in
  between the resource may only vanish, for nobody else writes resources.
- `StatusIsHonest`: `StatusHonest`, where there is one item that is never given up (`OneItem`; with
  two items that name one resource, or a second life of an item, it is false, see the table).
  `StatusHonest` is not inductive: `Honest` adds that no instance can claim the present
  generation when its resource is about to be created, and that before a status is written the
  resource is what will be recorded. That takes `ItemsFollowed` (generations only grow, and none is
  recorded before the informer has it) and `CopiesOK` (an instance that has observed something is
  the one the informer's copy and the call in hand are of).
- `SettledIsApplied`: `SettledApplied`, under `OneItem` too, for any lag, failures and restarts. No
  change is lost: `SeenTo` says that an instance that is annotated, or behind its item though it has
  been told, is *attended*: the informer has not delivered it yet, or it is in the queue, or the
  call in progress has its present version in hand. A write with that version changes the
  instance (`WorkerOK`), which is news to the informer, and a refused one is queued again. With
  every queue empty nothing is attended, so nothing is due; then `Honest` gives the resource.
- `NothingElseIsLeft`: `SettledNothingElse`, under `OneItem`, for any kinds, failures and
  restarts. The old resource is found by the kind in the copy in hand, so it must not be any other
  than the one that is there. `CleanInv` holds until something `disturbed` happens: `TidyOK` (all
  that is there belongs to the instance, and is what the item describes now or, until that
  is recorded, the one resource of the recorded kind; before a resource is written the other one
  is gone); `KindsAgree` (a copy that is behind its item has the kind on record, unless the present
  generation is recorded already, and then nothing of another kind is there); `PresentOnly`
  (who waits with a change until everything is dealt with has only the present generation applied);
  `CallsMeet` (no call is about an earlier instance of the name). That a change finds everything
  recorded is `SettledIsApplied`. `Target`, what the item describes now, and what it described before
  differ in kind alone, for a rename disturbs; `KindsAssumption` says that a resource is a kind and a name.

### Only model-checked

`SettledHealed`: what a resync puts right starts from states in which something is wrong, which no
invariant above describes. `SettledDelivers` and `SettledFollowsClass` where labels change again, or where classes are deleted
while labels are given; nothing left of an older kind, over the whole operator (`NothingElseIsLeft` proves it of
the instance reconciler). That every request of a switch ends, the liveness part of
`ImplementsClassSwitch`; and all liveness, which is out of reach of the provers used here, like
`ENABLED`.

## Not modelled

- What the target cluster says of a dry run beyond whether the template can be read, as said above.
- Leader election (one replica), health probes, metrics and TLS (`cmd/main.go`): no effect on
  the objects. Deep copies, scheme, manifests and tests: generated code and configuration.
- Status conditions, which the code declares and never writes.
- Liveness of `Delivery`, for its size: `Converges` is checked of its three parts
  (`ClassAssignmentAnyOrder`, `ClassRolloutLive`, `InstanceSync`).

## Plan

1. Done: stores, the five reconcilers, webhooks, users, Kubernetes; `ClassAssignment` with
   `ClassSwitch`; `InstanceSync`, `Operator`, `Admission`; the proofs above.
2. Next to prove: `OperatorDelivers` where labels change again, by carrying the steps of `FollowsLabel`
   over to the composition; then `SettledHealed`.
