--------------------------- MODULE MCConfigStore ----------------------------
(***************************************************************************)
(* Two commands of one user, any of: edit with the default locations,       *)
(* create with a tracker database of its own, edit with a configuration of  *)
(* its own and one announce option.                                        *)
(***************************************************************************)
EXTENDS ConfigStore, TLC

CONSTANTS p1, p2

MCProc == {p1, p2}

MCSymmetry == Permutations(MCProc)

MCCommands ==
    {[name |-> "edit", custom |-> {}, reloads |-> 0],
     [name |-> "create", custom |-> {"trackers"}, reloads |-> 0],
     [name |-> "edit", custom |-> {"config"}, reloads |-> 1]}

\* The content of a file no option names makes no difference.
MCInit == /\ Init
          /\ \A f \in Stores :
                (\A p \in Proc : f \notin cmd[p].custom) => custom[f] = "missing"

MCSpec == MCInit /\ [][Next]_vars

\* First runs of two plain commands.
MCPlainCommands == {[name |-> "edit", custom |-> {}, reloads |-> 0]}
=============================================================================
