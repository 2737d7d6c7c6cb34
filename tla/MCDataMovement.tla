---------------------------- MODULE MCDataMovement ----------------------------
EXTENDS DataMovement

\* x and y are external unless an operation produces them; v is the row sums of a matrix; w
\* and its image u are the matrices whose tiles are too large for the converter.
MCTensors == {"x", "y", "p", "q", "r", "v", "w", "u"}
MCShape   == [t \in MCTensors |-> CASE t = "v" -> <<3>> [] t \in {"y", "w", "u"} -> <<3, 5>>
                                     [] OTHER -> <<3, 3>>]

MCNames == {"linear-sim", "systolic-sim", "vector-sim", ReferenceCpu, "other"}
MCRank  == [n \in MCNames |-> CASE n = "linear-sim" -> 1 [] n = "other" -> 2
                                [] n = ReferenceCpu -> 3 [] n = "systolic-sim" -> 4
                                [] n = "vector-sim" -> 5]

Capability(name, kinds, prefers, domain, produces) ==
    [name |-> name, kinds |-> kinds, prefers |-> prefers, domain |-> domain,
     layouts |-> {"row_major"}, produces |-> produces]

\* The capabilities of backends/simulator.py; one that is listed for the host, of the name of
\* the fallback, and takes either layout; and one without a trusted executor.
Linear   == Capability("linear-sim", {"matmul", "reduction"}, {"matmul"}, "analog", {"row_major"})
Systolic == Capability("systolic-sim", {"matmul"}, {"matmul"}, "sram", {"blocked"})
Vector   == LET kinds == {"elementwise", "reduction", "softmax"}
            IN  Capability("vector-sim", kinds, kinds, "sram", {"row_major"})
HostCpu  == [Capability(ReferenceCpu, Kinds, {}, "host", Layouts) EXCEPT !.layouts = Layouts]
Other    == Capability("other", {"softmax"}, {}, "sram", {"blocked"})

MCMachines == {{}, {Systolic}, {Vector}, {Systolic, Vector}, {Systolic, HostCpu}, {Linear, Vector},
               {Systolic, Vector, HostCpu}, {Linear, Systolic, Vector}, {Systolic, Other}}

NoRule  == [force |-> None, deny |-> {}]
MCRules == {NoRule, [force |-> ReferenceCpu, deny |-> {}], [force |-> None, deny |-> {"systolic-sim"}]}

\* Bytes alone; and a profile in which leaving the analog bank is slow.
MCProfiles == {[p \in Domains \X Domains |-> [base |-> 0, unit |-> 1]],
               [p \in Domains \X Domains |-> [base |-> IF p[1] = "analog" THEN 50 ELSE 1, unit |-> 0]]}

Op(kind, ins, out, layout) ==
    [kind |-> kind, inputs |-> ins, outputs |-> <<out>>, layout |-> layout, wants |-> None]
Rows(kind, ins, out) == Op(kind, ins, out, "row_major")

First3  == {Rows("matmul", <<"x", "x">>, "p"), Rows("softmax", <<"x">>, "p"),
            Op("softmax", <<"x">>, "p", "blocked")}
Second3 == {Rows("softmax", <<"p">>, "q"), Rows("elementwise", <<"p", "p">>, "q"),
            Rows("matmul", <<"p", "x">>, "q"), Op("elementwise", <<"p">>, "q", "blocked")}
Third3  == {Rows("elementwise", <<"p", "q">>, "r"), Rows("matmul", <<"q", "q">>, "r"),
            Rows("reduction", <<"q">>, "v"), [Rows("softmax", <<"q">>, "r") EXCEPT !.wants = "host"]}

\* Chains, fan-out, operands read twice, results nobody reads; and what is refused at once: a
\* wrong order, a duplicate producer, a wrong arity, two results.
MCGraphs ==
    {<<a, b, c>> : a \in First3, b \in Second3, c \in Third3}
    \union {<<a, Rows("reduction", <<"p">>, "v"), Rows("elementwise", <<"v">>, "q")>> : a \in First3}
    \union {<<a, Rows("matmul", <<"p", "y">>, "w"), Rows("softmax", <<"w">>, "u")>> : a \in First3}
    \union {<<Rows("matmul", <<"x", "y">>, "w"), Rows("softmax", <<"w">>, "u")>>}
    \union {<<a, b>> : a \in {Rows("softmax", <<"p">>, "p"), Rows("softmax", <<"q">>, "p")},
                       b \in Second3}
    \union {<<Rows("matmul", <<"x", "x">>, "p"), Rows("softmax", <<"p">>, "p")>>,
            <<Rows("matmul", <<"x">>, "p")>>,
            <<[Rows("softmax", <<"x">>, "p") EXCEPT !.outputs = <<"p", "q">>]>>}
=============================================================================
