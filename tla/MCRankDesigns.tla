---------------------------- MODULE MCRankDesigns ----------------------------
(* Studies of three categories with up to two elements, for both searches. *)
EXTENDS RankDesigns

MCValues ==
    {<<<<a, b>>, <<c, d>>, <<e>>>> :
        a \in {-1, 0, 2}, b \in {-1, 0, 2}, c \in {-1, 0, 1}, d \in {-1, 1}, e \in {-1, 1}}

\* No constraint, one between two elements, or one that blocks two; an element
\* that blocks itself is ignored.
MCConstraints ==
    {{}} \cup {{[anchors |-> {<<1, 1>>}, blocked |-> B]} :
                  B \in {{<<2, 1>>}, {<<1, 1>>, <<2, 1>>}, {<<2, 2>>, <<3, 1>>}}}

MCRequired == {{}, {<<1, 2>>, <<3, 1>>}}

MCLayerStudies ==
    [layered: {TRUE}, requireAll: BOOLEAN, maximize: BOOLEAN, limit: {1, 3}, value: MCValues,
     constraints: MCConstraints, forced: {{}, {<<2, 2>>}}, requireAny: MCRequired]

\* The last choice forces more categories than a design would have.
MCOtherStudies ==
    [layered: {FALSE}, requireAll: {TRUE}, maximize: BOOLEAN, limit: {1, 3}, value: MCValues,
     constraints: {{}}, requireAny: MCRequired,
     forced: {{}, {<<2, 2>>}, {<<1, 1>>, <<2, 2>>, <<3, 1>>}}]

\* Seven categories, more than 3 * MaxSelections: the last of them is left out,
\* also when one of its elements is required.
MCWideStudies ==
    [layered: {FALSE}, requireAll: {TRUE}, maximize: BOOLEAN, limit: {1, 20},
     value: {<<<<a>>, <<1>>, <<1>>, <<0>>, <<0>>, <<0>>, <<b>>>> : a \in {0, 9}, b \in {-1, 0}},
     constraints: {{}}, requireAny: {{}, {<<7, 1>>}}, forced: {{}, {<<4, 1>>}}]

MCStudies == MCLayerStudies \cup MCOtherStudies \cup MCWideStudies
=============================================================================
