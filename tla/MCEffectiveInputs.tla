------------------------- MODULE MCEffectiveInputs -------------------------
EXTENDS EffectiveInputs, FiniteSets

CONSTANTS sum, data, pinned, replaced

Seen(kind, file)     == [key |-> <<kind, file>>, sensitive |-> FALSE]
Guarded(kind, file)  == [key |-> <<kind, file>>, sensitive |-> TRUE]
Known(observation, id) == [key |-> observation.key, sensitive |-> observation.sensitive, identity |-> id]

TheKinds == {"lockfile", "source", "library"}

\* go.sum is a link to a data file, which the tests embed and so protect; the
\* link, met first as sensitive, is met again as ordinary.  The plan uses a
\* module with a sum and one without.
TheLinks      == [l \in {sum} |-> data]
TheMetadata   == <<Seen("lockfile", sum), Seen("lockfile", data)>>
TheProduction == <<Seen("source", data)>>
TheTests      == <<Guarded("source", sum), Guarded("source", data), Seen("source", sum)>>
ThePlan       == <<Seen("library", pinned), Seen("library", replaced)>>
TheSupplied   == {Known(Seen("lockfile", data), Given), Known(Seen("lockfile", data), Hash),
                  Known(Guarded("lockfile", sum), Given)}

\* The caller and the plan supply two inputs between them.
MCInit == Init /\ Cardinality(given) + Cardinality(plan.inputs) <= 2

MCSpec == MCInit /\ [][Next]_vars
=============================================================================
