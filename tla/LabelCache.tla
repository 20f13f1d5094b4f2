----------------------------- MODULE LabelCache -----------------------------
(***************************************************************************)
(* src/collector/label_cache.rs and what a collector makes of a value: a   *)
(* series is a metric name and a set of labels, a function from label      *)
(* names to values.  Interning shares memory and changes no labels, apart  *)
(* from the base labels that it folds in; the cache itself is left out.    *)
(***************************************************************************)
CONSTANT Base       \* labels that every series gets

\* Labels::insert, of all of others: a label that is there is replaced.
Insert(labels, others) ==
    [l \in DOMAIN labels \cup DOMAIN others |->
        IF l \in DOMAIN others THEN others[l] ELSE labels[l]]

\* LabelCache::intern: on a conflict the base labels win.
Interned(labels) == Insert(labels, Base)

\* A metric of a tick.  `from' is what in the system it was read from.
Metric(name, labels, value, from) ==
    [name |-> name, labels |-> Interned(labels), value |-> value, from |-> from]

SameSeries(m, n) == m.name = n.name /\ m.labels = n.labels
=============================================================================
