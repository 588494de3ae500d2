----------------------------- MODULE MCInstaller ----------------------------
(* Instance of Installer for TLC: the runtime and a command line, which do   *)
(* the same operations.                                                      *)
EXTENDS Installer, TLC

CONSTANTS panel, cli, line1, line2

TwoProcesses == {panel, cli}
OneLine == {line1}
TwoLines == {line1, line2}

Symmetry == Permutations(Process) \cup Permutations(Line)
=============================================================================
