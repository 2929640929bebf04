------------------------------ MODULE Registry ------------------------------
(***************************************************************************)
(* What the sidecar promises the operators that share a zone, with nothing *)
(* said of caches, prerequisites, DCs, retries or markers: each name and   *)
(* type is an entry with its values and the labels it is filed under.      *)
(***************************************************************************)
CONSTANTS
    Zones,         \* the zones
    Owners,        \* the operators' labels
    Outsider       \* whoever edits the zones by hand

VARIABLES
    entries,       \* per zone, a set of [name, type, values, labels]
    writer         \* who wrote last

Held(e, o) == e.values # {} /\ e.labels = {o}
SameEntry(d, e) == d.name = e.name /\ d.type = e.type
OneLabel(S) == \A e \in S : \A k, l \in e.labels : k = l

\* Labels that an entry of new carries and did not carry in old.
LabelsAdded(old, new) ==
    UNION {e.labels \ UNION {d.labels : d \in {d \in old : SameEntry(d, e)}} : e \in new}

RegistryInit == \A z \in Zones : OneLabel(entries[z])

\* An operator writes to one zone: what another one holds stays as it is, and
\* whatever is filed anew is filed under its own label.
OperatorWrites(o, z) ==
    /\ writer' = o
    /\ \A e \in entries[z], p \in Owners \ {o} : Held(e, p) => e \in entries'[z]
    /\ LabelsAdded(entries[z], entries'[z]) \subseteq {o}
    /\ OneLabel(entries'[z])
    /\ \A y \in Zones \ {z} : entries'[y] = entries[y]

\* A hand edit files nothing.
OutsiderWrites(z) ==
    /\ writer' = Outsider
    /\ LabelsAdded(entries[z], entries'[z]) = {}
    /\ \A y \in Zones \ {z} : entries'[y] = entries[y]

RegistryNext ==
    \E z \in Zones : OutsiderWrites(z) \/ \E o \in Owners : OperatorWrites(o, z)

RegistrySpec == RegistryInit /\ [][RegistryNext]_<<entries, writer>>

=============================================================================
