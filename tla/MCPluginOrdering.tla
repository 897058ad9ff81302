-------------------------- MODULE MCPluginOrdering --------------------------
(* All sets of at most three declarations of three plugins: enough for a    *)
(* cycle of length three and for every pair of conflicting declarations.    *)
EXTENDS PluginOrdering

UpToThree == {{}} \cup {{a, b, c} : a \in Declarations, b \in Declarations, c \in Declarations}

=============================================================================
