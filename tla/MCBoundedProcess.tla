-------------------------- MODULE MCBoundedProcess --------------------------
EXTENDS BoundedProcess

\* One more than PipeSize on stdout, nothing at all on stderr.
MCLimit == [s \in Outputs |-> IF s = "stdout" THEN 2 ELSE 0]

MCFilterLimit == [s \in Outputs |-> IF s = "stdout" THEN 4 ELSE 1]
=============================================================================
