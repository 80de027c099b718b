----------------------------- MODULE RankDesigns -----------------------------
(***************************************************************************)
(* The search for the best designs of a study                              *)
(* (app/services/design_optimizer.py).  A design picks elements of the     *)
(* categories (for a layer study: the images of the layers), and its score *)
(* is the sum of their coefficients.  rank_designs searches depth first    *)
(* with a time limit and keeps the best designs in a heap; for layers it   *)
(* also prunes.  A call of the nested search function is one step, and so  *)
(* is one turn of its loop.  Coefficients are integers here: the search    *)
(* only adds and compares them.                                            *)
(***************************************************************************)
EXTENDS Integers, FiniteSets, Sequences, FiniteSetsExt, SequencesExt

CONSTANTS Studies,       \* the inputs of rank_designs
          MaxSelections  \* MAX_NON_LAYER_SELECTIONS

VARIABLES
    study,   \* the input
    path,    \* picks of the open calls: an element <<category, n>>, or <<category, 0>>
    tried,   \* the options that each open loop has tried
    heap,    \* the best designs so far
    seen,    \* the designs pushed so far
    pc,      \* "call": the search is entered, "loop": it goes on, "done"
    late     \* meta["timed_out"]

vars == <<study, path, tried, heap, seen, pc, late>>

-----------------------------------------------------------------------------
(* The input.  Categories are numbered in the order in which the search of *)
(* a layer study takes them, elements in the order that breaks ties.       *)

Categories(s) == DOMAIN s.value
Elements(s) == UNION {{c} \X DOMAIN s.value[c] : c \in Categories(s)}

IsStudy(s) ==
    /\ s.layered \in BOOLEAN /\ s.requireAll \in BOOLEAN /\ s.maximize \in BOOLEAN
    /\ s.limit \in 1..20
    /\ s.value \in Seq(Seq(Int)) /\ \A c \in Categories(s) : s.value[c] # <<>>
    /\ \A k \in s.constraints : k.anchors \subseteq Elements(s) /\ k.blocked \subseteq Elements(s)
    /\ s.forced \subseteq Elements(s) /\ IsFiniteSet(s.forced)
    /\ \A e, f \in s.forced : e[1] = f[1] => e = f
    /\ s.requireAny \subseteq Elements(s)

ASSUME RankAssumption ==
    /\ \A s \in Studies : IsStudy(s)
    /\ MaxSelections \in Nat \ {0}

\* What a coefficient adds in the direction of the search; a minimization
\* runs on negated values.
Gain(e) == IF study.maximize THEN study.value[e[1]][e[2]] ELSE -study.value[e[1]][e[2]]
Score(design) == MapThenSumSet(Gain, design)

\* build_conflict_pair_set, applied to layer studies only.
Conflicts ==
    IF study.layered
    THEN {p \in Elements(study) \X Elements(study) :
             p[1] # p[2] /\ \E k \in study.constraints :
                 \/ p[1] \in k.anchors /\ p[2] \in k.blocked
                 \/ p[2] \in k.anchors /\ p[1] \in k.blocked}
    ELSE {}

\* The mutation that compares an element with the last one selected.
ConflictsWithLast(e) == path # <<>> /\ <<e, Last(path)>> \in Conflicts
ConflictsWithSelected(e) == \E f \in ToSet(path) : <<e, f>> \in Conflicts

PassesRequireAny(design) == study.requireAny = {} \/ design \cap study.requireAny # {}

Of(c) == {e \in Elements(study) : e[1] = c}
ForcedCategories == {e[1] : e \in study.forced}
MaxGain(S) == Max({Gain(e) : e \in S})

-----------------------------------------------------------------------------
(* The options of a call, and their order.                                 *)

\* ordered_elements: a forced layer has its forced element only.
Candidates(c) == IF c \in ForcedCategories THEN Of(c) \cap study.forced ELSE Of(c)

LayerOptions(c) ==
    Candidates(c) \cup IF study.requireAll \/ c \in ForcedCategories THEN {} ELSE {<<c, 0>>}

\* ranked_free: the more promising categories first.
RanksBefore(c, d) ==
    /\ c # d
    /\ \/ MaxGain(Of(c)) > MaxGain(Of(d))
       \/ MaxGain(Of(c)) = MaxGain(Of(d)) /\ c < d

\* candidate_free: the first of the categories that are not forced.
CandidateFree ==
    LET free == Categories(study) \ ForcedCategories
    IN  {c \in free : Cardinality({d \in free : RanksBefore(d, c)}) < 3 * MaxSelections}

\* Combinations of categories are taken in the order of their ranks: the next
\* pick is from a category behind all those picked before.
OtherOptions ==
    UNION {Of(c) : c \in {d \in CandidateFree :
                            \A e \in ToSet(path) : RanksBefore(e[1], d)}}

Options == IF study.layered THEN LayerOptions(Len(path) + 1) ELSE OtherOptions

\* The loop over the options: skipping the layer, then _element_sort_key.
Precedes(e, f) ==
    \/ RanksBefore(e[1], f[1])
    \/ e[1] = f[1] /\ e[2] = 0
    \/ /\ e[1] = f[1] /\ e[2] # 0 /\ f[2] # 0
       /\ Gain(e) > Gain(f) \/ (Gain(e) = Gain(f) /\ e[2] < f[2])

\* target_count: forced elements always take part, also when they are more
\* than MaxSelections.
TargetCount ==
    Max({Cardinality(study.forced), Min({MaxSelections, Len(study.value)})})

Complete ==
    IF study.layered THEN Len(path) = Len(study.value)
    ELSE Cardinality(study.forced) + Len(path) = TargetCount

\* search_non_layer begins with the forced elements.
Seed == IF study.layered THEN {} ELSE study.forced

\* The mutation that records a skipped layer.
WithSkips == Seed \cup ToSet(path)
Design == Seed \cup {e \in ToSet(path) : e[2] # 0}

-----------------------------------------------------------------------------
(* The bound and the heap.                                                 *)

\* The mutation without max(0, ...): an optional layer may be skipped.
MustTake(c) == MaxGain(Candidates(c))
Best(c) == Max({0, MaxGain(Candidates(c))})

\* suffix_best
Optimistic == Score(Design) + MapThenSumSet(Best, (Len(path) + 1)..Len(study.value))

\* Equal scores are ordered by signature: some total order of the designs.
Earlier(d, e) ==
    LET first == CHOOSE x \in (d \ e) \cup (e \ d) :
                     \A y \in (d \ e) \cup (e \ d) :
                         x[1] < y[1] \/ (x[1] = y[1] /\ x[2] <= y[2])
    IN  first \in d

\* heap[0]
Worst == CHOOSE d \in heap : \A e \in heap \ {d} :
             Score(d) < Score(e) \/ (Score(d) = Score(e) /\ Earlier(d, e))

Prunes ==
    /\ study.layered
    /\ Cardinality(heap) >= study.limit
    /\ Optimistic < Score(Worst)

HasRoom == Cardinality(heap) < study.limit

\* _push_design
Push(design) ==
    IF design = {} \/ design \in seen
    THEN UNCHANGED <<heap, seen>>
    ELSE /\ seen' = seen \cup {design}
         /\ heap' = IF HasRoom THEN heap \cup {design}
                    ELSE IF \/ Score(design) > Score(Worst)
                            \/ Score(design) = Score(Worst) /\ Earlier(design, Worst)
                    THEN (heap \ {Worst}) \cup {design}
                    ELSE heap

-----------------------------------------------------------------------------
Init ==
    /\ study \in Studies
    /\ path = <<>> /\ tried = <<>>
    /\ heap = {} /\ seen = {}
    /\ pc = "call" /\ late = FALSE

\* A call returns to the loop that made it.
Return ==
    IF path = <<>> THEN pc' = "done" /\ UNCHANGED path
    ELSE pc' = "loop" /\ path' = Front(path)

\* Once the time is up, every open call returns and nothing more is pushed.
TimesOut ==
    /\ pc = "call"
    /\ late' = TRUE /\ pc' = "done"
    /\ UNCHANGED <<study, path, tried, heap, seen>>

Pruned ==
    /\ pc = "call" /\ Prunes
    /\ Return
    /\ UNCHANGED <<study, tried, heap, seen, late>>

Completed ==
    /\ pc = "call" /\ ~Prunes /\ Complete
    /\ IF PassesRequireAny(Design) THEN Push(Design) ELSE UNCHANGED <<heap, seen>>
    /\ Return
    /\ UNCHANGED <<study, tried, late>>

Opened ==
    /\ pc = "call" /\ ~Prunes /\ ~Complete
    /\ tried' = Append(tried, {}) /\ pc' = "loop"
    /\ UNCHANGED <<study, path, heap, seen, late>>

\* The next option of the innermost loop: passed over if it conflicts.
Tries(e) ==
    /\ pc = "loop"
    /\ e \in Options \ Last(tried)
    /\ \A f \in Options \ (Last(tried) \cup {e}) : Precedes(e, f)
    /\ tried' = Append(Front(tried), Last(tried) \cup {e})
    /\ IF ConflictsWithSelected(e) THEN UNCHANGED <<path, pc>>
       ELSE path' = Append(path, e) /\ pc' = "call"
    /\ UNCHANGED <<study, heap, seen, late>>

Exhausted ==
    /\ pc = "loop" /\ Options \subseteq Last(tried)
    /\ tried' = Front(tried)
    /\ Return
    /\ UNCHANGED <<study, heap, seen, late>>

Next ==
    \/ TimesOut \/ Pruned \/ Completed \/ Opened \/ Exhausted
    \/ \E e \in Options : Tries(e)

Spec == Init /\ [][Next]_vars

-----------------------------------------------------------------------------
TypeOK ==
    /\ study \in Studies
    /\ path \in Seq(Categories(study) \X Nat)
    /\ tried \in Seq(SUBSET (Categories(study) \X Nat))
    /\ heap \subseteq seen /\ seen \subseteq SUBSET Elements(study)
    /\ pc \in {"call", "loop", "done"}
    /\ late \in BOOLEAN

\* At most one element of a category.
Selections == {D \in SUBSET Elements(study) : \A e, f \in D : e[1] = f[1] => e = f}

\* The docstring of rank_designs, but for the size of a design without
\* layers.  The docstring says "at most MAX_NON_LAYER_SELECTIONS categories";
\* the code takes that many whenever there are, never fewer, and more if more
\* elements are forced.  Here, and in RankingIsExact, the code's size counts.
IsValid(D) ==
    /\ D # {}
    /\ study.forced \subseteq D
    /\ PassesRequireAny(D)
    /\ \A e, f \in D : <<e, f>> \notin Conflicts
    /\ IF study.layered THEN study.requireAll => {e[1] : e \in D} = Categories(study)
       ELSE Cardinality(D) = TargetCount

(* Every design in the heap, also when the search runs out of time, passes *)
(* verify_design and _design_satisfies_must_include: the callers filter    *)
(* the result with them and would show fewer designs than were asked for.  *)
(* Its size is target_count, no more and no less: that exceeds what the    *)
(* docstring allows when more elements are forced than MaxSelections.      *)
DesignsAreValid == \A D \in heap : D \in Selections /\ IsValid(D)

\* The designs in reach of the search: the other search leaves out the free
\* categories that rank behind the first 3 * MaxSelections.
Searched(D) == study.layered \/ \A e \in D \ study.forced : e[1] \in CandidateFree

(* The promise of the docstring, "Canonical deterministic top-K": a search *)
(* that ends in time has found as many designs as exist up to the limit,   *)
(* and no other valid design beats one of them.  Neither the bound, nor    *)
(* the order of the layers, nor forced elements cut off a better design;   *)
(* only the restriction to the first free categories does.                 *)
RankingIsExact ==
    pc = "done" /\ ~late =>
        LET valid == {D \in Selections : IsValid(D) /\ Searched(D)}
        IN  /\ Cardinality(heap) = Min({study.limit, Cardinality(valid)})
            /\ \A D \in valid \ heap : \A E \in heap : Score(D) <= Score(E)
=============================================================================
