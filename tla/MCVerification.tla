-------------------------- MODULE MCVerification ---------------------------
EXTENDS Verification

\* Two providers one edit apart, a mapped misspelling, a protected domain and a
\* repairable last label; the length thresholds are scaled down with them.
MCKnown == <<<<"a", "a", ".", "c">>, <<"a", "b", ".", "c">>, <<"b", "b", "b", ".", "c">>>>
MCStatic == [d \in {<<"a", ".", "c">>} |-> <<"a", "a", ".", "c">>]
MCNever == {<<"b", "a", ".", "c">>}
MCTld == [t \in {<<"b">>} |-> <<"c">>]
MCDomain == {s \in UNION {[1..n -> {"a", "b", ".", "c"}] : n \in 0..4} :
               Cardinality({i \in DOMAIN s : s[i] = "."}) <= 1
               /\ Cardinality({i \in DOMAIN s : s[i] = "c"}) <= 1}
\* A provider and a misspelling of it.
MCProbed == {<<"a", "a", ".", "c">>, <<"a", ".", "c">>}
=============================================================================
