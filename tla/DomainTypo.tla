----------------------------- MODULE DomainTypo -----------------------------
(***************************************************************************)
(* detectTypo: the provider domain an address was probably meant for.  A   *)
(* domain is a sequence of characters, trimmed and lowercased, without a   *)
(* trailing dot.  The tables are parameters; only their order and what     *)
(* they contain decide.                                                    *)
(***************************************************************************)
EXTENDS Integers, Sequences, FiniteSets, SequencesExt

CONSTANTS
    KNOWN_PROVIDER_DOMAINS,         \* sequence of domains, earlier wins a tie
    STATIC_TYPO_MAP,                \* function from misspelt domains to domains
    NEVER_CORRECT,                  \* set of domains
    TLD_TYPO_MAP,                   \* function from last labels to last labels
    MIN_LENGTH_FOR_DISTANCE_MATCH,
    MIN_LENGTH_FOR_TWO_EDITS,
    NoTypo                          \* null

Dot == "."
KNOWN_SET == {KNOWN_PROVIDER_DOMAINS[i] : i \in 1..Len(KNOWN_PROVIDER_DOMAINS)}

ASSUME DomainTypoAssumption ==
    /\ KNOWN_PROVIDER_DOMAINS \in Seq(Seq(STRING)) /\ NoTypo \notin KNOWN_SET
    /\ \A d \in DOMAIN STATIC_TYPO_MAP : STATIC_TYPO_MAP[d] \in KNOWN_SET
    /\ MIN_LENGTH_FOR_DISTANCE_MATCH \in Nat \ {0} /\ MIN_LENGTH_FOR_TWO_EDITS \in Nat

Smallest(S) == CHOOSE n \in S : \A k \in S : n <= k

\* One row of the dynamic program from the row above it; entry j + 1 belongs
\* to the first j characters of b.
NextRow(previous, character, b) ==
    LET extend(row, j) ==
          Append(row, Smallest({previous[j] + (IF character = b[j] THEN 0 ELSE 1),
                                row[j] + 1, previous[j + 1] + 1}))
    IN FoldLeftDomain(extend, <<previous[1] + 1>>, b)
\* All rows: entry i + 1 belongs to the first i characters of a.
Rows(a, b) ==
    LET below(rows, character) == Append(rows, NextRow(rows[Len(rows)], character, b))
    IN FoldLeft(below, << [j \in 1..(Len(b) + 1) |-> j - 1] >>, a)
Exceeds(row, limit) == \A j \in 1..Len(row) : row[j] > limit

TooLong(a, b, limit) == Len(a) - Len(b) > limit \/ Len(b) - Len(a) > limit

\* Wrong on purpose: the cut-off gives up at the limit, not past it.
levenshteinEager(a, b, limit) ==
    LET rows == Rows(a, b) IN
    IF a = b THEN 0
    ELSE IF TooLong(a, b, limit) \/ \E i \in 2..Len(rows) : Exceeds(rows[i], limit - 1)
    THEN limit + 1
    ELSE rows[Len(rows)][Len(b) + 1]

\* Once every value of a row exceeds the limit the distance is beyond it.
levenshtein(a, b, limit) ==
    LET rows == Rows(a, b) IN
    IF a = b THEN 0
    ELSE IF TooLong(a, b, limit) \/ \E i \in 2..Len(rows) : Exceeds(rows[i], limit)
    THEN limit + 1
    ELSE rows[Len(rows)][Len(b) + 1]

repairTld(d) ==
    LET dots == {i \in 1..Len(d) : d[i] = Dot}
        last == CHOOSE i \in dots : \A k \in dots : k <= i
        tld == SubSeq(d, last + 1, Len(d))
        candidate == SubSeq(d, 1, last) \o TLD_TYPO_MAP[tld]
    IN IF dots # {} /\ last > 1 /\ tld \in DOMAIN TLD_TYPO_MAP /\ candidate \in KNOWN_SET
       THEN candidate ELSE NoTypo

MaxDistance(d) == IF Len(d) < MIN_LENGTH_FOR_TWO_EDITS THEN 1 ELSE 2

\* The earliest of the closest known domains, when it is close enough.
closestKnownDomain(d) ==
    LET distance == [i \in 1..Len(KNOWN_PROVIDER_DOMAINS) |->
                       levenshtein(d, KNOWN_PROVIDER_DOMAINS[i], MaxDistance(d))]
        best == Smallest({distance[i] : i \in DOMAIN distance})
        first == Smallest({i \in DOMAIN distance : distance[i] = best})
    IN IF Len(d) >= MIN_LENGTH_FOR_DISTANCE_MATCH /\ Len(KNOWN_PROVIDER_DOMAINS) > 0
          /\ best <= MaxDistance(d)
       THEN KNOWN_PROVIDER_DOMAINS[first] ELSE NoTypo

detectTypo(d) ==
    IF d = <<>> \/ d \in KNOWN_SET \cup NEVER_CORRECT THEN NoTypo
    ELSE IF d \in DOMAIN STATIC_TYPO_MAP THEN STATIC_TYPO_MAP[d]
    ELSE IF repairTld(d) # NoTypo THEN repairTld(d)
    ELSE closestKnownDomain(d)

-----------------------------------------------------------------------------
(* The reference: what edits are, independently of the dynamic program.    *)

Letters(b) == {b[i] : i \in 1..Len(b)}
\* The sequences one deletion, insertion or substitution away from a.
OneEdit(a, letters) ==
    LET before(i) == SubSeq(a, 1, i)
        after(i) == SubSeq(a, i + 1, Len(a))
    IN {before(i - 1) \o after(i) : i \in 1..Len(a)}
       \cup {before(i) \o <<c>> \o after(i) : i \in 0..Len(a), c \in letters}
       \cup {before(i - 1) \o <<c>> \o after(i) : i \in 1..Len(a), c \in letters}
Within(a, b, edits) ==
    \/ a = b
    \/ edits >= 1 /\ b \in OneEdit(a, Letters(b))
    \/ edits >= 2 /\ \E c \in OneEdit(a, Letters(b)) : b \in OneEdit(c, Letters(b))
=============================================================================
