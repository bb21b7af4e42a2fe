------------------------------ MODULE MCModules ------------------------------
\* An instance of Modules for TLC: every source of at most two statements, and
\* those that only import a module.
EXTENDS Modules, TLC

CONSTANTS MaxStatements
Symmetry == Permutations(Name) \cup Permutations(Djuru)
Short == {statement \in Statement : statement[1] # "import"}
MCSources == BoundedSeq(Short, MaxStatements) \cup {<< <<"import", m>> >> : m \in Name}
===============================================================================
