---------------------------- MODULE MCReportSubject ----------------------------
(***************************************************************************)
(* A worker's base subject, expanded for two work items.                    *)
(***************************************************************************)
EXTENDS ReportSubject, TLC

CONSTANTS base, first, second

MCSymmetry == Permutations(Holders)

MCEntries == {"", "refresh", "read", " read", "export", "*.read"}
MCTrim == [e \in MCEntries |-> IF e = " read" THEN "read" ELSE e]
MCGrants == [worker |-> {"export"}]
MCProcessLists == {<<"refresh">>, <<"*.read", " read", "read">>}
MCDerivedLists == {<<"read", "*.read", "read">>, <<"export", "", " read">>}

=============================================================================
