------------------------------ MODULE MCPipeline ------------------------------
(* The pipeline with two stages, small enough to explore completely. *)
EXTENDS Pipeline

MCFacesOf == [e \in Ext |-> IF e = "u" THEN Face ELSE {"hard"}]
MCItem == (Sources \cup {Own}) \X Face \X (1..MaxItems)

MCSinksOf == [s \in Stage |-> IF s = "A" THEN <<"x">> ELSE <<"y">>]
MCSourcesOf == [s \in Stage |-> <<"u">>]

Net(a, b) == [s \in Stage |-> IF s = "A" THEN a ELSE b]

MCNets == { Net("softening", "hardening"), Net("splitter", "diverter"),
            Net("selector", "push_to"), Net("combiner", "valve"),
            Net("pull_from", "drain") }
=============================================================================
