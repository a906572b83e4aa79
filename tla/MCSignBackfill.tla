--------------------------- MODULE MCSignBackfill ---------------------------
EXTENDS SignBackfill

\* 1 and 4 are images; 2 and 3 are indexes that share one of them.
Manifests ==
    [d \in 1..4 |-> CASE d = 2 -> {<<1, 1>>}
                      [] d = 3 -> {<<1, 1>>, <<2, 4>>}
                      [] OTHER -> {}]
Signers == {<<1, 1>>, <<1, 2>>}
Us == <<1, 1>>
Plain == [force |-> FALSE, dry |-> FALSE, identity |-> 0, issuer |-> 0]
CommandLines ==
    {Plain, [Plain EXCEPT !.force = TRUE], [Plain EXCEPT !.dry = TRUE],
     [Plain EXCEPT !.identity = 1, !.issuer = 1]}
=============================================================================
