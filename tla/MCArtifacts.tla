---------------------------- MODULE MCArtifacts ----------------------------
(* Small instances of Artifacts. *)
EXTENDS Artifacts

CONSTANTS a1, a2, o1, o2, x1, x2, p1, t1, print1

MCImports == {a1, a2}
MCOpens == {o1, o2}
MCRemovals == {x1, x2}
MCProjectOf == [a \in MCImports |-> p1]
MCOwnersOf == [a \in MCImports |-> IF a = a1 THEN {p1} ELSE {p1, t1}]
MCOpenTarget == [o \in MCOpens |-> a1]
MCRemovalTarget == [x \in MCRemovals |-> a1]

Quiet == [crashes |-> 0, faults |-> 0, damage |-> 0, closures |-> 0, asking |-> 1,
          imports |-> {}, opens |-> {}, removals |-> {}, stored |-> {}]

\* One import against crashes, damage and faults; two that compete for the
\* quota; opens racing a removal; a removal through crashes and faults; an
\* import that needs the quota a removal holds; requests sent twice at once.
ImportFaults == [Quiet EXCEPT !.crashes = 2, !.faults = 2, !.damage = 1,
                              !.imports = {a1}]
TwoImports == [Quiet EXCEPT !.crashes = 1, !.faults = 1, !.closures = 1,
                            !.imports = {a1, a2}]
OpensAndRemoval == [Quiet EXCEPT !.crashes = 1, !.faults = 1, !.damage = 1,
                                 !.opens = {o1, o2}, !.removals = {x1},
                                 !.stored = {a1}]
RemovalFaults == [Quiet EXCEPT !.crashes = 2, !.faults = 2,
                               !.removals = {x1, x2}, !.stored = {a1}]
RemoveThenImport == [Quiet EXCEPT !.faults = 1, !.imports = {a2},
                                  !.removals = {x1}, !.stored = {a1}]
AskedTwice == [Quiet EXCEPT !.crashes = 1, !.asking = 2, !.imports = {a2},
                            !.opens = {o1}, !.stored = {a1}]
MCScenarios == {ImportFaults, TwoImports, OpensAndRemoval, RemovalFaults,
                RemoveThenImport, AskedTwice}
=============================================================================
