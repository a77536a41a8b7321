---------------------------- MODULE MCAlgorithms ----------------------------
(***************************************************************************)
(* The broker's computations on all small inputs. A behaviour is one call: *)
(* the idle state, then a state that holds the call's input; the           *)
(* invariants compare what the code's definition returns for the input     *)
(* with what it has to return.                                             *)
(***************************************************************************)
EXTENDS TopicMatch, Configuration, DeadLetterPages

VARIABLE call

Idle == [of |-> "none"]

Init == call = Idle

Defaults == [maxAttempts |-> 3, initial |-> 2, max |-> 8, multiplier |-> 8, jitter |-> 1]

MixedSegments == {"a*"}
Keys(n, segments) == UNION {[1..i -> segments] : i \in 1..n}

MatchCall ==
    call = Idle /\ \E pattern \in Keys(3, {"a", "b", "*", "#", "", "a*"}),
                      key \in Keys(3, {"a", "b", "", "*"}) :
        call' = [of |-> "match", pattern |-> pattern, key |-> key]

RouteCall ==
    call = Idle /\ \E kind \in {"fanout", "direct", "topic"},
                      n \in 0..3, deliverable \in SUBSET {"q1", "q2"} :
        \E queues \in [1..n -> {"q1", "q2"}],
           patterns \in [1..n -> {p \in {<<"a">>, <<"*">>, <<"#">>, <<"b">>} :
                                    ValidBinding(kind, p)}] :
        call' = [of |-> "route", kind |-> kind, deliverable |-> deliverable,
                 bindings |-> [i \in 1..n |-> [queue |-> queues[i], pattern |-> patterns[i]]]]

SmallPolicies ==
    [maxAttempts : {0, 1}, initial : {-1, 0, 1, 3, 9}, max : {-1, 0, 2, 9, 40},
     multiplier : {0, 3, 4, 6, 8}, jitter : {-1, 0, 1, 4, 5}]

BackoffCall ==
    call = Idle /\ \E p \in SmallPolicies, attempt \in -1..5, random \in {0, 1, 3} :
        /\ p.maxAttempts = 1 /\ Validate(p)
        /\ call' = [of |-> "backoff", policy |-> p, attempt |-> attempt, random |-> random]

ConfigCall ==
    call = Idle /\ \E p \in SmallPolicies, driver \in {"sqlite", "other"},
                      word \in {"", "json", "xml"}, padded \in BOOLEAN,
                      level \in {"info", "loud"} :
        call' = [of |-> "config",
                 config |-> [address |-> TRUE, dsn |-> TRUE, driver |-> driver,
                             engineAttempts |-> 1, retry |-> p, level |-> level,
                             format |-> [word |-> word, padded |-> padded]]]

\* Letters in the order they were saved; two saved one after the other may
\* have their identifiers, and any two their times, the other way round.
Letters(n) ==
    {[i \in 1..n |-> [id |-> ids[i], at |-> at[i], queue |-> queues[i]]] :
        ids \in {f \in [1..n -> 1..n] :
                    \A i, j \in 1..n :
                        /\ f[i] = f[j] => i = j
                        /\ i < j /\ f[i] > f[j] => j = i + 1},
        at \in [1..n -> 0..1], queues \in [1..n -> {"q1", "q2"}]}

WalkCall ==
    call = Idle /\ \E n \in 0..4, queue \in {AnyQueue, "q1"},
                      limit \in {0, 1, 3}, growing \in BOOLEAN :
        \E letters \in Letters(n), begin \in 0..n :
        call' = [of |-> "walk", letters |-> letters, queue |-> queue,
                 limit |-> limit, begin |-> begin, growing |-> growing]

Next == MatchCall \/ RouteCall \/ BackoffCall \/ ConfigCall \/ WalkCall

Spec == Init /\ [][Next]_call

-----------------------------------------------------------------------------
\* matchSegments computes what the pattern means (MatchesMeaning).
TopicMatchesMeaning == call.of = "match" => MatchesMeaning(call.pattern, call.key)

\* route takes a queue once, and every deliverable queue that has a binding
\* which matches by its meaning.
QueuesRoutedOnce ==
    call.of = "route" => RoutesOnce(call.bindings, call.deliverable, call.kind, <<"a">>)

\* Backoff starts at the initial interval, never shrinks and never exceeds
\* Max, and BackoffWithJitter stays within its fraction of it and within Max.
DelaysBounded ==
    call.of = "backoff" =>
        /\ Grows(call.policy, call.attempt)
        /\ JitterWithin(call.policy, call.attempt, call.random)

\* A configuration Load accepts is one every later step accepts.
AcceptedConfigBoots == call.of = "config" => AcceptedBoots(call.config)

\* A walk over the pages of dead letters misses none that was there, in both
\* stores, and the pages of the two stores agree, whatever the offset.
PagesSound ==
    call.of = "walk" =>
        /\ WalkComplete(call.letters, call.queue, call.limit, call.begin, call.growing)
        /\ PagesAgree(call.letters, call.queue, call.limit, call.begin)

=============================================================================
