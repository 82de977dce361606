--------------------------- MODULE ConfigMapFields ---------------------------
(***************************************************************************)
(* reconcilehelper.CopyConfigMapFields: whether the ConfigMap that exists  *)
(* needs an update, and what it is updated to, as Reconcile uses it while  *)
(* the KernelManager's labels and annotations and the ConfigMap itself are *)
(* edited by others.                                                       *)
(***************************************************************************)
CONSTANTS
  Keys,    \* of labels and annotations
  Values,  \* theirs; Empty is the empty string
  Empty,
  Datas    \* contents of Data

ASSUME FieldsAssumption == Empty \in Values

VARIABLES
  wanted,   \* the ConfigMap generateConfigMap makes from the KernelManager
  stored,   \* the ConfigMap in the cluster
  settled   \* Reconcile has run since the last edit

vars == <<wanted, stored, settled>>

-----------------------------------------------------------------------------
Maps == UNION {[K -> Values] : K \in SUBSET Keys}

\* binary: it has BinaryData, of which the controller makes none.
Objects == [labels : Maps, annotations : Maps, data : Datas, binary : BOOLEAN]

\* from[k] in Go: the zero value when there is no such key.
Lookup(from, k) == IF k \in DOMAIN from THEN from[k] ELSE Empty

\* Only the keys of the map that is copied to are gone through.
MapDiffers(from, to) == \E k \in DOMAIN to : Lookup(from, k) # to[k]

\* Bug: only the keys of the map that is copied from are gone through.
MapDiffersFrom(from, to) == \E k \in DOMAIN from : Lookup(to, k) # from[k]

RequireUpdateFrom(from, to) ==
  \/ MapDiffersFrom(from.labels, to.labels)
  \/ MapDiffersFrom(from.annotations, to.annotations)
  \/ to.data # from.data
  \/ to.binary # from.binary

RequireUpdate(from, to) ==
  \/ MapDiffers(from.labels, to.labels)
  \/ MapDiffers(from.annotations, to.annotations)
  \/ to.data # from.data
  \/ to.binary # from.binary

\* Bug: the annotations are compared and not copied.
CopyFieldsButAnnotations(from, to) ==
  [to EXCEPT !.labels = from.labels, !.data = from.data, !.binary = from.binary]

\* Bug: the labels are copied over the data.
CopyFieldsCrossed(from, to) == [to EXCEPT !.data = from.labels]

CopyFields(from, to) ==
  [to EXCEPT !.labels = from.labels, !.annotations = from.annotations,
             !.data = from.data, !.binary = from.binary]

-----------------------------------------------------------------------------
Init ==
  /\ wanted \in Objects /\ ~wanted.binary
  /\ stored = wanted /\ settled = TRUE

\* The monitor annotates the KernelManager, users label it.
EditKernelManager ==
  /\ \E m \in Maps : \/ wanted' = [wanted EXCEPT !.labels = m]
                     \/ wanted' = [wanted EXCEPT !.annotations = m]
  /\ settled' = FALSE
  /\ UNCHANGED stored

EditConfigMap ==
  /\ \E m \in Maps, d \in Datas : \/ stored' = [stored EXCEPT !.labels = m]
                                  \/ stored' = [stored EXCEPT !.annotations = m]
                                  \/ stored' = [stored EXCEPT !.data = d]
                                  \/ stored' = [stored EXCEPT !.binary = TRUE]
  /\ settled' = FALSE
  /\ UNCHANGED wanted

\* Reconcile where the ConfigMap was found, which generated the ConfigMap w.
UpdateTo(w) ==
  /\ wanted' = w
  /\ stored' = IF RequireUpdate(w, stored) THEN CopyFields(w, stored) ELSE stored
  /\ settled' = TRUE

-----------------------------------------------------------------------------
\* The variables hold values of their types.
TypeOK == wanted \in Objects /\ stored \in Objects /\ settled \in BOOLEAN

\* An update is not followed by another: the controller, which is woken by
\* its own update, does not update the ConfigMap for ever.
UpdateSettles == settled => ~RequireUpdate(wanted, stored)

\* What the ConfigMap says after Reconcile the KernelManager says too: no
\* label or annotation of another value survives, no binary data do, and the
\* connection file is the KernelManager's.
NothingForeign ==
  settled =>
    /\ \A k \in DOMAIN stored.labels : stored.labels[k] = Lookup(wanted.labels, k)
    /\ \A k \in DOMAIN stored.annotations :
         stored.annotations[k] = Lookup(wanted.annotations, k)
    /\ stored.data = wanted.data /\ ~stored.binary

=============================================================================
