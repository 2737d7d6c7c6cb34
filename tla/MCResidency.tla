----------------------------- MODULE MCResidency -----------------------------
EXTENDS Residency

\* x is external unless an operation produces it; p, q, r are results.
MCTensors == {"x", "p", "q", "r"}
MCSpaces  == {"host", "accelerator", "other"}
MCBytes   == [t \in MCTensors |-> IF t = "x" THEN 3 ELSE 1]

Operation(ins, outs) == [inputs : ins, outputs : outs, space : MCSpaces]

First  == {<<"x">>, <<"x", "x">>, <<"q">>}
Second == {<<"x">>, <<"p">>, <<"x", "p">>, <<"p", "p">>, <<"q">>}
Third  == {<<"p">>, <<"q">>, <<"x", "q">>, <<"q", "p">>, <<"x", "x">>}

\* Two or three operations: chains, fan-out, repeated operands, several results, results
\* nobody reads, and the orders and duplicate producers that are refused.
MCGraphs ==
    {<<a, b>> : a \in Operation(First, {<<"p">>, <<"p", "q">>}),
                b \in Operation(Third, {<<"r">>, <<"r", "x">>, <<"q">>})}
    \union
    {<<a, b, c>> : a \in Operation(First, {<<"p">>}),
                   b \in Operation(Second, {<<"q">>}),
                   c \in Operation(Third, {<<"r">>, <<"p">>})}
=============================================================================
