------------------------------ MODULE TopicMatch ------------------------------
(***************************************************************************)
(* internal/broker: which bindings a routing key matches. A key or pattern *)
(* is the sequence of segments strings.Split makes of it: never empty, and *)
(* the empty string is one empty segment. A segment is a string; Mixed are *)
(* the ones that hold a wildcard beside other characters ("a*").           *)
(***************************************************************************)
EXTENDS Naturals, Sequences

CONSTANT Mixed   \* the segments with a wildcard that does not stand alone

Wild == {"*", "#"}

\* Mutant: "#" stands for one or more segments.
MatchSegmentsNonEmpty(pattern, key) ==
    LET P == Len(pattern)
        K == Len(key)
        matches[i \in 1..(P + 1), j \in 1..(K + 1)] ==
            CASE i = P + 1 -> j = K + 1
              [] i <= P /\ pattern[i] = "#" ->
                   j <= K /\ (matches[i + 1, j + 1] \/ matches[i, j + 1])
              [] i <= P /\ pattern[i] # "#" ->
                   /\ j <= K
                   /\ pattern[i] = "*" \/ pattern[i] = key[j]
                   /\ matches[i + 1, j + 1]
    IN matches[1, 1]

\* The table of matchSegments: entry <<i, j>> says whether the pattern from
\* segment i on matches the key from segment j on.
MatchSegments(pattern, key) ==
    LET P == Len(pattern)
        K == Len(key)
        matches[i \in 1..(P + 1), j \in 1..(K + 1)] ==
            CASE i = P + 1 -> j = K + 1
              [] i <= P /\ pattern[i] = "#" ->
                   matches[i + 1, j] \/ (j <= K /\ matches[i, j + 1])
              [] i <= P /\ pattern[i] # "#" ->
                   /\ j <= K
                   /\ pattern[i] = "*" \/ pattern[i] = key[j]
                   /\ matches[i + 1, j + 1]
    IN matches[1, 1]

MatchTopic(pattern, key) == pattern = <<"#">> \/ MatchSegments(pattern, key)

BindingMatches(kind, pattern, key) ==
    \/ kind = "fanout"
    \/ kind = "direct" /\ pattern = key
    \/ kind = "topic" /\ MatchTopic(pattern, key)

ValidateRoutingKey(key) ==
    key # <<"">> /\ \A i \in DOMAIN key : key[i] \notin Wild \cup Mixed

ValidateBindingPattern(pattern) ==
    \A i \in DOMAIN pattern : pattern[i] # "" /\ pattern[i] \notin Mixed

\* BindingSpec.Validate, the names being valid.
ValidBinding(kind, pattern) ==
    \/ kind = "fanout"
    \/ kind = "direct" /\ ValidateRoutingKey(pattern)
    \/ kind = "topic" /\ ValidateBindingPattern(pattern)

\* Mutant: a queue counts once for each of its bindings.
RouteEach(bindings, deliverable, kind, key) ==
    {i \in DOMAIN bindings :
        /\ bindings[i].queue \in deliverable
        /\ BindingMatches(kind, bindings[i].pattern, key)}

\* routingTable.route: the bindings whose queue is taken, the first that
\* matches for each queue that is deliverable.
Route(bindings, deliverable, kind, key) ==
    {i \in DOMAIN bindings :
        /\ bindings[i].queue \in deliverable
        /\ BindingMatches(kind, bindings[i].pattern, key)
        /\ \A j \in 1..(i - 1) :
              bindings[j].queue = bindings[i].queue =>
                  ~BindingMatches(kind, bindings[j].pattern, key)}

-----------------------------------------------------------------------------
\* What a pattern means: each "#" stands for some number of segments, every
\* other segment for exactly one, "*" for any, a word for itself.
Means(pattern, key) ==
    \E start \in [1..(Len(pattern) + 1) -> 1..(Len(key) + 1)] :
        /\ start[1] = 1
        /\ start[Len(pattern) + 1] = Len(key) + 1
        /\ \A i \in DOMAIN pattern :
            IF pattern[i] = "#"
            THEN start[i] <= start[i + 1]
            ELSE /\ start[i + 1] = start[i] + 1
                 /\ pattern[i] \in {"*", key[start[i]]}

\* The table computes the meaning of the pattern, and the short cut for "#"
\* is no exception to it.
MatchesMeaning(pattern, key) == MatchTopic(pattern, key) <=> Means(pattern, key)

\* A publication reaches a queue once however many of its bindings match, and
\* reaches every deliverable queue with a binding that matches by its meaning,
\* which is the same on a direct and on a topic exchange: Validate keeps
\* wildcards off direct exchanges, where they would be taken literally.
RoutesOnce(bindings, deliverable, kind, key) ==
    \A q \in deliverable :
        LET taken == {i \in Route(bindings, deliverable, kind, key) : bindings[i].queue = q}
            matching == {i \in DOMAIN bindings :
                            /\ bindings[i].queue = q
                            /\ kind = "fanout" \/ Means(bindings[i].pattern, key)}
        IN IF matching = {} THEN taken = {} ELSE \E i \in matching : taken = {i}

=============================================================================
