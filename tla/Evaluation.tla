----------------------------- MODULE Evaluation -----------------------------
\* F(v), with a value that is used more than once computed once.
With(v, F(_)) == CHOOSE r \in {F(x) : x \in {v}} : TRUE
=============================================================================
