----------------------- MODULE MC_DurableExecution -----------------------
(* Instances of DurableExecution for TLC.  All intents trade one symbol.   *)
EXTENDS DurableExecution, TLC

OneSymbol == [n \in Intents |-> CHOOSE s \in Symbols : TRUE]
Symmetric == Permutations(Instances)
SymmetricIntents == Permutations(Instances) \cup Permutations(Intents)
=============================================================================
