-------------------------- MODULE MCStorageExecution --------------------------
EXTENDS StorageExecution

\* x and y are external.  The tiles of a 3 x 3 and of a 4 x 4 matrix have the same shape; those
\* of u are too large.
MCTensors == {"x", "y", "p", "q", "a", "b", "r", "s", "v", "u"}
MCShape   == [t \in MCTensors |-> CASE t \in {"y", "r", "s"} -> <<4, 4>> [] t = "v" -> <<3>>
                                     [] t = "u" -> <<3, 5>> [] OTHER -> <<3, 3>>]

MCNames == {"systolic-sim", "vector-sim", ReferenceCpu}
MCRank  == [n \in MCNames |-> CASE n = ReferenceCpu -> 1 [] n = "systolic-sim" -> 2 [] OTHER -> 3]

Capability(name, kinds, domain, produces) ==
    [name |-> name, kinds |-> kinds, prefers |-> kinds, domain |-> domain,
     layouts |-> {"row_major"}, produces |-> produces]

Systolic == Capability("systolic-sim", {"matmul"}, "sram", {"blocked"})
Vector   == Capability("vector-sim", {"elementwise", "reduction"}, "sram", {"row_major"})
\* A reference CPU that leaves its results in tiles.
Tiler    == Capability(ReferenceCpu, {"matmul", "softmax"}, "host", {"blocked"})

MCMachines == {{}, {Systolic}, {Systolic, Vector}, {Tiler}}
MCRules    == {[force |-> None, deny |-> {}]}
MCProfiles == {[p \in Domains \X Domains |-> [base |-> 0, unit |-> 1]]}

Rows(kind, ins, out) ==
    [kind |-> kind, inputs |-> ins, outputs |-> <<out>>, layout |-> "row_major", wants |-> None]
Tiled2(op) == [op EXCEPT !.layout = "blocked"]

First2 == {<<Rows("matmul", <<"x", "x">>, "p"), Rows("softmax", <<"p">>, "q")>>,
           <<Rows("softmax", <<"x">>, "p"), Rows("softmax", <<"p">>, "q")>>,
           <<Rows("matmul", <<"x", "x">>, "p"), Rows("elementwise", <<"p">>, "q")>>,
           <<Rows("matmul", <<"y", "y">>, "r"), Rows("softmax", <<"r">>, "q")>>}
Third  == {Rows("matmul", <<"x", "x">>, "a"), Rows("matmul", <<"y", "y">>, "s"),
           Rows("softmax", <<"q">>, "a"), Rows("elementwise", <<"p", "q">>, "a"),
           Rows("matmul", <<"p", "x">>, "a"), Rows("elementwise", <<"p", "p">>, "a"),
           Rows("reduction", <<"q">>, "v"), Rows("matmul", <<"x", "y">>, "u")}
Fourth == {Rows("softmax", <<"a">>, "b"), Rows("softmax", <<"s">>, "b"),
           Rows("softmax", <<"x">>, "b"), Rows("elementwise", <<"a", "p">>, "b"),
           Rows("softmax", <<"v">>, "b")}

\* Two matrices through tiles and back, fan-out, chains on the host, results nobody reads; and
\* vectors in tiles, operands in tiles from outside and a wrong order, which are refused.
MCGraphs == {f \o <<c, d>> : f \in First2, c \in Third, d \in Fourth}
            \union {f \o <<Tiled2(Rows("reduction", <<"q">>, "v"))>> : f \in First2}
            \union {<<Tiled2(Rows("softmax", <<"x">>, "p"))>>, <<Rows("softmax", <<"p">>, "p")>>}
=============================================================================
