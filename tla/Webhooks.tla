------------------------------ MODULE Webhooks ------------------------------
(***************************************************************************)
(* internal/webhook/v1alpha: what the validating webhooks admit.  They     *)
(* read through the manager's client, so from the informer caches, and     *)
(* they see every write of a NamespaceClass or of the spec or metadata of  *)
(* a NamespaceClassItem, the controllers' own included; a write of a       *)
(* status passes them by.  The Namespace webhook does not exist.           *)
(***************************************************************************)
EXTENDS NamespaceStore, ClassStore, ItemStore

CONSTANTS
    WebhooksEnabled,    \* ENABLE_WEBHOOKS is not "false"
    KeyOf               \* the group, version, resource and name a template gives

\* The copy of an item that exists, and whose template has a name.
Readable(i) == itemCache[i].live /\ itemCache[i].obj.template \in Parses

KeyOfItem(i) == KeyOf[itemCache[i].obj.template]

\* Two different items of the set have the same key.
Conflict(set) == \E i, j \in set : i # j /\ KeyOfItem(i) = KeyOfItem(j)

\* Mutant of AdmitsClass: the list of items may be empty.
AdmitsEmptyClass(set) ==
    WebhooksEnabled => (\A i \in set : Readable(i)) /\ ~Conflict(set)

\* NamespaceClass, ValidateCreate and ValidateUpdate.
AdmitsClass(set) ==
    WebhooksEnabled =>
        /\ set # {}
        /\ \A i \in set : Readable(i)
        /\ ~Conflict(set)

\* NamespaceClass, ValidateDelete.
AdmitsClassDelete(c) ==
    WebhooksEnabled => \A n \in Namespaces : nsCache[n].live => nsCache[n].obj.label # c

\* The template is created for trial in the namespace namespaceclass-test.
DryRunPasses(template) == template \in Parses

\* NamespaceClassItem, ValidateCreate.
AdmitsItem(template) == WebhooksEnabled => DryRunPasses(template)

Lists(class, i) == class.live /\ i \in class.obj.items

\* Mutant of AdmitsItemUpdate: the classes are taken from status.referencedBy.
AdmitsReferencedUpdate(i, template) ==
    AdmitsItem(template) /\
    (WebhooksEnabled =>
        \A c \in itemCache[i].obj.refs : \A j \in classCache[c].obj.items \ {i} :
            KeyOfItem(j) # KeyOf[template])

\* NamespaceClassItem, ValidateUpdate: the item may not come to describe what
\* another item of one of its classes describes.
AdmitsItemUpdate(i, template) ==
    /\ AdmitsItem(template)
    /\ WebhooksEnabled =>
          \A c \in Classes : Lists(classCache[c], i) =>
              \A j \in classCache[c].obj.items \ {i} : itemCache[j].live =>
                  Readable(j) /\ KeyOfItem(j) # KeyOf[template]

\* Mutant of AdmitsItemDelete: the classes are taken from status.referencedBy.
AdmitsReferencedDelete(i) == WebhooksEnabled => itemCache[i].obj.refs = {}

\* NamespaceClassItem, ValidateDelete.
AdmitsItemDelete(i) ==
    WebhooksEnabled => \A c \in Classes : ~Lists(classCache[c], i)
=============================================================================
