---------------------------- MODULE ReasoningIndex ----------------------------
(***************************************************************************)
(* reasoningProvenanceStore (internal/proxy/reasoning_provenance.go): which *)
(* signature domains emitted an opaque reasoning item, kept in memory, cut  *)
(* to a limit and saved as one file that is replaced as a whole.  Digests   *)
(* stand for themselves: an item is its digest.                             *)
(***************************************************************************)
EXTENDS Integers, FiniteSets

CONSTANTS Items, Domains,
          Limit       \* maxReasoningProvenanceItems

ASSUME IndexAssumption == IsFiniteSet(Items) /\ Limit \in Nat \ {0}

VARIABLES
  entries,  \* a function from the items known to [domains, seen]
  dirty,    \* the file may lack something of entries
  file,     \* what the file holds, in the form of entries
  clock     \* Unix seconds

indexVars == <<entries, dirty, file, clock>>

Empty == [i \in {} |-> [domains |-> {}, seen |-> 0]]

IndexInit == entries = Empty /\ dirty = FALSE /\ file = Empty /\ clock = 1

-----------------------------------------------------------------------------
(* Capture.                                                                *)

Known(i) == i \in DOMAIN entries

\* One record with the domain added; its age restarts.
Emitted(i, domain) ==
  [j \in DOMAIN entries \cup {i} |->
     IF j # i THEN entries[j]
     ELSE [domains |-> {domain} \cup IF Known(i) THEN entries[i].domains ELSE {},
           seen |-> clock]]

Without(index, gone) == [j \in DOMAIN index \ {gone} |-> index[j]]

\* pruneLocked, for an index at most one item above the limit: an oldest one
\* goes (among equals the digest decides, which says nothing to the model).
Pruned(index) ==
  IF Cardinality(DOMAIN index) <= Limit THEN {index}
  ELSE {Without(index, j) : j \in {o \in DOMAIN index :
                                     \A k \in DOMAIN index : index[o].seen <= index[k].seen}}

\* captureCanonical: nothing changes when the domain is recorded and the
\* second is still the same.
Captured(i, domain) ==
  /\ entries' \in Pruned(Emitted(i, domain))
  /\ dirty' = (dirty \/ Emitted(i, domain) # entries)
  /\ UNCHANGED <<file, clock>>

-----------------------------------------------------------------------------
(* The file.                                                               *)

\* flush: nothing to do, a file replaced, or a failure that leaves the old
\* file and stays dirty.
FlushForgets(ok) ==
  /\ dirty' = FALSE
  /\ file' = IF dirty /\ ok THEN entries ELSE file
  /\ UNCHANGED <<entries, clock>>
Flush(ok) ==
  /\ dirty' = (dirty /\ ~ok)
  /\ file' = IF dirty /\ ok THEN entries ELSE file
  /\ UNCHANGED <<entries, clock>>

\* newReasoningProvenanceStore: a file that cannot be read, decoded or whose
\* version is unknown leaves an empty index that waits to be saved.
Load(readable) ==
  /\ entries' = IF readable THEN file ELSE Empty
  /\ dirty' = ~readable
  /\ UNCHANGED <<file, clock>>

Lost == entries' = Empty /\ dirty' = FALSE /\ UNCHANGED <<file, clock>>

Tick == clock' = clock + 1 /\ UNCHANGED <<entries, dirty, file>>

-----------------------------------------------------------------------------
(* The filter.                                                             *)

\* compatible.
Compatible(i, domain) == Known(i) /\ domain \in entries[i].domains

\* filterReasoningInput and filterReasoningRequest in keepUnknownReasoning
\* mode: what stays of the items a request carries.
FilteredStrictly(items, domain) == {i \in items : Compatible(i, domain)}
FilteredByAnyone(items, domain) == items
Filtered(items, domain) == {i \in items : Known(i) => Compatible(i, domain)}

=============================================================================
