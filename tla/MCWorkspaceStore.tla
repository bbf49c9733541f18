-------------------------- MODULE MCWorkspaceStore --------------------------
(***************************************************************************)
(* The workspace store on a document of two sentences.                     *)
(***************************************************************************)
EXTENDS WorkspaceStore, TLC

CONSTANTS thA, thB, refuge, judge, c1, plain, noted

MCThemes == {thA, thB, refuge}
MCRefuges == {refuge}
MCJudges == {judge}
MCLevels == {c1}
MCDetails == {plain, noted}

primary(t) == [label |-> t, role |-> "primary"]
secondary(t) == [label |-> t, role |-> "secondary"]
\* A refuge submitted first, as a secondary, and again as a second primary.
MCMessy == {<<secondary(refuge), primary(thA), secondary(thB), primary(refuge)>>}

MCPalette == {thA, thB}
MCCards == {[primary |-> thB, secondaries |-> {thA}]}
MCPreAnnotations == {(0 :> thA), (1 :> thB)}

\* An empty annotation, and one with a validated clause of two themes.
MCLoads == {{},
            {[NewContent(1, thB) EXCEPT !.tags = [primary |-> thB, secondaries |-> {thA}],
                                        !.level = c1]}}

=============================================================================
