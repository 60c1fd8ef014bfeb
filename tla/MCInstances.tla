---------------------------- MODULE MCInstances ----------------------------
(* Instances for TLC: two contracts, one that may be created, and new codes *)
(* that are valid, fail to compile, or export a reserved name.              *)
EXTENDS Instances, TLC

Export(name) == [name |-> name, length |-> 4, ascii |-> TRUE, in |-> 0, out |-> 0]
Exporting(names) ==
  [compiles |-> TRUE, memory |-> TRUE, exports |-> {Export(x) : x \in names}, imports |-> {"hook"}]

MCShape ==
  ("ofA" :> Exporting({"init"}) @@ "ofB" :> Exporting({"init"})
     @@ "good" :> Exporting({"init", "callBack"}) @@ "shadow" :> Exporting({"hook"})
     @@ "junk" :> [compiles |-> FALSE, memory |-> FALSE, exports |-> {}, imports |-> {}])

Separate == {[useWarmInstance |-> w, aheadOfTime |-> ~w] : w \in BOOLEAN}
Both == {[useWarmInstance |-> TRUE, aheadOfTime |-> TRUE]}

MCInitialCode == "a" :> "ofA" @@ "b" :> "ofB"
============================================================================
