-------------------------- MODULE DeadLettersProofs --------------------------
(***************************************************************************)
(* The properties of DeadLetters for any number of queues, publications,   *)
(* schemas, requests and deliveries, and any failures and crashes.         *)
(***************************************************************************)
EXTENDS DeadLetters, NaturalsInduction,
        WellFoundedInduction, TLAPS

(* Every set of numbers that is not empty has a least element. *)
LEMMA Least ==
  ASSUME NEW T \in SUBSET Nat, T # {}
  PROVE  \E x \in T : \A y \in T : x <= y
<1> DEFINE R == OpToRel(<, Nat)
<1>1. IsWellFoundedOn(R, Nat)
  BY NatLessThanWellFounded, Zenon
<1>2. \A x, y \in Nat : y < x => <<y, x>> \in R
  BY Zenon DEF OpToRel
<1> HIDE DEF R
<1>3. \E x \in T : \A y \in T : ~(<<y, x>> \in R)
  BY <1>1, WFMin, Zenon
<1>4. PICK x \in T : \A y \in T : ~(<<y, x>> \in R)
  BY <1>3, Zenon
<1>5. \A y \in T : ~(y < x)
  BY <1>2, <1>4, Zenon
<1>6. \A y \in T : x <= y
  BY <1>5
<1> QED
  BY <1>6, Zenon

(* Min finds it. *)
LEMMA MinIs ==
  ASSUME NEW T \in SUBSET Nat, T # {}
  PROVE  Min(T) \in T /\ \A y \in T : Min(T) <= y
BY Least, Zenon DEF Min

(* What Append makes. *)
LEMMA AppendIs ==
  ASSUME NEW T, NEW u \in Seq(T), NEW e \in T
  PROVE  /\ Append(u, e) \in Seq(T) /\ Len(Append(u, e)) = Len(u) + 1
         /\ \A k \in 1 .. Len(u) : Append(u, e)[k] = u[k]
         /\ Append(u, e)[Len(u) + 1] = e
OBVIOUS
-----------------------------------------------------------------------------
(* Kept. *)

Keeps(f, s, S, n) ==
    f = [i \in 0 .. n |->
           IF i = 0 THEN <<>> ELSE IF s[i] \in S THEN Append(f[i - 1], s[i]) ELSE f[i - 1]]

(* The function that Kept is defined with exists. *)
LEMMA KeepsExist ==
  ASSUME NEW s, NEW S, NEW N \in Nat
  PROVE  \E f : Keeps(f, s, S, N)
<1> DEFINE Bad == {n \in Nat : ~\E f : Keeps(f, s, S, n)}
<1>1. ASSUME NEW n \in Nat, n > 0 => \E f : Keeps(f, s, S, n - 1)
      PROVE  \E f : Keeps(f, s, S, n)
  <2>1. CASE n = 0
    <3> DEFINE g == [i \in 0 .. n |-> <<>>]
    <3>1. g = [i \in 0 .. n |-> IF i = 0 THEN <<>>
                 ELSE IF s[i] \in S THEN Append(g[i - 1], s[i]) ELSE g[i - 1]]
      BY <2>1
    <3> HIDE DEF g
    <3> QED
      BY <3>1, Zenon DEF Keeps
  <2>2. CASE n # 0
    <3>1. PICK f : Keeps(f, s, S, n - 1)
      BY <1>1, <2>2
    <3> DEFINE At0(F, i) == IF i = 0 THEN <<>>
                            ELSE IF s[i] \in S THEN Append(F[i - 1], s[i]) ELSE F[i - 1]
               g == [i \in 0 .. n |-> At0(f, i)]
    <3>2. f = [i \in 0 .. (n - 1) |-> At0(f, i)]
      BY <3>1, Zenon DEF Keeps
    <3>3. ASSUME NEW i \in 0 .. n, i # 0
          PROVE  g[i - 1] = f[i - 1]
      <4>1. i - 1 \in 0 .. (n - 1) /\ i - 1 \in 0 .. n
        BY <3>3
      <4>2. PICK j \in 0 .. (n - 1) : j = i - 1
        BY <4>1, Zenon
      <4>3. g[j] = At0(f, j)
        BY <4>1, <4>2, Zenon
      <4> HIDE DEF At0, g
      <4>4. f[j] = At0(f, j)
        BY <3>2, Zenon
      <4> QED
        BY <4>2, <4>3, <4>4, Zenon
    <3>4. ASSUME NEW i \in 0 .. n
          PROVE  At0(g, i) = At0(f, i)
      <4> HIDE DEF g
      <4> QED
        BY <3>3, Zenon
    <3>5. g = [i \in 0 .. n |-> At0(g, i)]
      BY <3>4, Zenon
    <3> HIDE DEF g
    <3> QED
      BY <3>5, Zenon DEF Keeps
  <2> QED
    BY <2>1, <2>2, Zenon
<1>2. Bad = {}
  <2> SUFFICES ASSUME Bad # {} PROVE FALSE
    BY Zenon
  <2>1. PICK n \in Bad : \A m \in Bad : n <= m
    BY Least, Zenon
  <2>2. n > 0 => n - 1 \in Nat /\ n - 1 \notin Bad
    BY <2>1
  <2> QED
    BY <1>1, <2>1, <2>2, Zenon
<1> QED
  BY <1>2, Zenon

(* What Kept returns: the elements of s that are in S and no others, each  *)
(* once if s has each once.                                                *)
LEMMA KeptIs ==
  ASSUME NEW T, NEW s \in Seq(T), NEW S
  PROVE  /\ Kept(s, S) \in Seq(T)
         /\ \A k \in DOMAIN Kept(s, S) :
              Kept(s, S)[k] \in S /\ \E j \in DOMAIN s : Kept(s, S)[k] = s[j]
         /\ \A j \in DOMAIN s : s[j] \in S => \E k \in DOMAIN Kept(s, S) : Kept(s, S)[k] = s[j]
         /\ IsInjective(s) => IsInjective(Kept(s, S))
<1>1. PICK N \in Nat : N = Len(s)
  OBVIOUS
<1>2. PICK f : f = CHOOSE g : Keeps(g, s, S, N)
  BY Zenon
<1>3. Keeps(f, s, S, N)
  BY <1>2, KeepsExist, Zenon
<1>4. Kept(s, S) = f[N]
  BY <1>1, <1>2, Zenon DEF Kept, Keeps
<1> DEFINE OK(u, i) ==
             /\ u \in Seq(T)
             /\ \A k \in 1 .. Len(u) : u[k] \in S /\ \E j \in 1 .. i : u[k] = s[j]
             /\ \A j \in 1 .. i : s[j] \in S => \E k \in 1 .. Len(u) : u[k] = s[j]
             /\ IsInjective(s) => IsInjective(u)
           Bad == {i \in 0 .. N : ~OK(f[i], i)}
<1>5. DOMAIN s = 1 .. N /\ \A j \in 1 .. N : s[j] \in T
  BY <1>1
<1>6. OK(f[0], 0)
  <2>1. f[0] = <<>>
    BY <1>3 DEF Keeps
  <2>2. OK(<<>>, 0)
    BY DEF IsInjective
  <2> QED
    BY <2>1, <2>2
<1>7. ASSUME NEW i \in 1 .. N, OK(f[i - 1], i - 1)
      PROVE  OK(f[i], i)
  <2>1. PICK u : u = f[i - 1]
    BY Zenon
  <2>2. PICK v : v = f[i]
    BY Zenon
  <2>3. v = IF s[i] \in S THEN Append(u, s[i]) ELSE u
    <3>1. i \in 0 .. N /\ i # 0
      OBVIOUS
    <3>2. f[i] = IF i = 0 THEN <<>> ELSE IF s[i] \in S THEN Append(f[i - 1], s[i]) ELSE f[i - 1]
      BY <1>3, <3>1, Zenon DEF Keeps
    <3> QED
      BY <2>1, <2>2, <3>1, <3>2, Zenon
  <2>4. OK(u, i - 1)
    BY <1>7, <2>1, Zenon
  <2>5. PICK e \in T : e = s[i]
    BY <1>5, Zenon
  <2>6. CASE s[i] \notin S
    <3>1. v = u
      BY <2>3, <2>6, Zenon
    <3>2. \A j \in 1 .. i : j = i \/ j \in 1 .. (i - 1)
      OBVIOUS
    <3>3. \A j \in 1 .. (i - 1) : j \in 1 .. i
      OBVIOUS
    <3>4. OK(u, i)
      BY <2>4, <2>6, <3>2, <3>3, Zenon
    <3> QED
      BY <2>2, <3>1, <3>4
  <2>7. CASE s[i] \in S
    <3>1. /\ v \in Seq(T) /\ Len(v) = Len(u) + 1
          /\ \A k \in 1 .. Len(u) : v[k] = u[k]
          /\ v[Len(u) + 1] = e
      BY <2>3, <2>4, <2>5, <2>7, AppendIs
    <3>2. PICK n \in Nat : n = Len(u)
      BY <2>4
    <3>3. \A k \in 1 .. Len(v) : k = n + 1 \/ k \in 1 .. n
      BY <3>1, <3>2
    <3>4. \A j \in 1 .. i : j = i \/ j \in 1 .. (i - 1)
      OBVIOUS
    <3>5. \A j \in 1 .. (i - 1) : j \in 1 .. i
      OBVIOUS
    <3>6. i \in 1 .. i /\ n + 1 \in 1 .. Len(v) /\ \A k \in 1 .. n : k \in 1 .. Len(v)
      BY <3>1, <3>2
    <3>7. ASSUME NEW k \in 1 .. Len(v)
          PROVE  v[k] \in S /\ \E j \in 1 .. i : v[k] = s[j]
      <4>1. CASE k = n + 1
        BY <2>5, <2>7, <3>1, <3>2, <3>6, <4>1, Zenon
      <4>2. CASE k \in 1 .. n
        <5>1. v[k] = u[k] /\ u[k] \in S
          BY <2>4, <3>1, <3>2, <4>2, Zenon
        <5>2. PICK j \in 1 .. (i - 1) : u[k] = s[j]
          BY <2>4, <3>2, <4>2, Zenon
        <5> QED
          BY <3>5, <5>1, <5>2, Zenon
      <4> QED
        BY <3>3, <4>1, <4>2, Zenon
    <3>8. ASSUME NEW j \in 1 .. i, s[j] \in S
          PROVE  \E k \in 1 .. Len(v) : v[k] = s[j]
      BY <2>4, <2>5, <3>1, <3>2, <3>4, <3>6, <3>8
    <3>9. ASSUME IsInjective(s)
          PROVE  IsInjective(v)
      <4>1. \A k \in 1 .. n : u[k] # e
        <5> SUFFICES ASSUME NEW k \in 1 .. n, u[k] = e PROVE FALSE
          BY Zenon
        <5>1. PICK j \in 1 .. (i - 1) : u[k] = s[j]
          BY <2>4, <3>2, Zenon
        <5>2. j \in DOMAIN s /\ i \in DOMAIN s /\ j # i
          BY <1>5
        <5> QED
          BY <2>5, <3>9, <5>1, <5>2, Zenon DEF IsInjective
      <4>2. \A k, l \in 1 .. n : u[k] = u[l] => k = l
        <5>1. IsInjective(u) /\ DOMAIN u = 1 .. n
          BY <2>4, <3>2, <3>9
        <5> QED
          BY <5>1, Zenon DEF IsInjective
      <4>3. ASSUME NEW k \in 1 .. Len(v), NEW l \in 1 .. Len(v), v[k] = v[l]
            PROVE  k = l
        BY <3>1, <3>2, <3>3, <4>1, <4>2, <4>3, Zenon
      <4>4. DOMAIN v = 1 .. Len(v)
        BY <3>1
      <4> QED
        BY <4>3, <4>4, Zenon DEF IsInjective
    <3> QED
      BY <2>2, <3>1, <3>7, <3>8, <3>9, Zenon
  <2> QED
    BY <2>6, <2>7, Zenon
<1> HIDE DEF OK
<1>8. Bad = {}
  <2> SUFFICES ASSUME Bad # {} PROVE FALSE
    BY Zenon
  <2>0. Bad \in SUBSET Nat
    OBVIOUS
  <2>1. PICK n \in Bad : \A m \in Bad : n <= m
    BY <2>0, Least, Zenon
  <2>2. n # 0
    BY <1>6, <2>1, Zenon
  <2>3. n \in 1 .. N /\ n - 1 \in 0 .. N /\ n - 1 \notin Bad
    BY <2>1, <2>2
  <2> QED
    BY <1>7, <2>1, <2>3, Zenon
<1>9. PICK w : w = Kept(s, S)
  BY Zenon
<1>10. OK(w, N)
  <2>1. N \in 0 .. N
    OBVIOUS
  <2> QED
    BY <1>4, <1>8, <1>9, <2>1, Zenon
<1>11. w \in Seq(T) /\ DOMAIN w = 1 .. Len(w)
  BY <1>10 DEF OK
<1>12. /\ \A k \in 1 .. Len(w) : w[k] \in S /\ \E j \in 1 .. N : w[k] = s[j]
       /\ \A j \in 1 .. N : s[j] \in S => \E k \in 1 .. Len(w) : w[k] = s[j]
       /\ IsInjective(s) => IsInjective(w)
  BY <1>10, Zenon DEF OK
<1> QED
  BY <1>5, <1>9, <1>11, <1>12
-----------------------------------------------------------------------------
(* Types, and the shape of a call. *)

States == {"QUEUED", "PROCESSING", "RETRYING", "ACKNOWLEDGED", "DEAD_LETTERED"}
Kinds  == {"", "validation", "handler", "permanent", "lease_expired"}
Pcs    == {"append", "replayed", "handle", "retry", "release", "first", "save", "mark", "end"}
Own    == {"worker", "reclaimer"}

MsgRows == [queue : Queues, pub : Pubs, by : Callers, state : States, attempts : Nat,
            replayOf : Nat, live : BOOLEAN]
Records == [msg : Nat, queue : Queues, pub : Pubs, attempts : Nat, kind : Kinds, first : Nat,
            replayedAs : Nat, count : Nat, live : BOOLEAN]
History == [msg : Nat, to : States, at : Nat]
CallSet == [by : Callers \cup Own, op : {"publish", "replay", "delivery", "reclaim"},
            on : Nat \cup Pubs, pc : Pcs, queues : Seq(Queues), due : Seq(History),
            status : Nat, attempt : Nat, kind : Kinds \ {"validation"}, at : Nat, first : Nat]
Answers == [status : Nat, on : Nat \cup Pubs,
            op : {"none", "lost", "publish", "replay", "discard", "delivery", "reclaim"}]

Typed ==
    /\ declared \subseteq Queues
    /\ msgs \in Seq(MsgRows) /\ letters \in Seq(Records)
    /\ events \in Seq(Seq(History)) /\ Len(events) = Len(msgs)
    /\ failed \in Seq(Nat) /\ Len(failed) = Len(msgs)
    /\ calls \subseteq CallSet /\ replies \in [Callers -> Answers]
    /\ spent \in [Env -> Nat]

(* Who makes a call, on what, and where it can be. *)
Shape(c) ==
    /\ c.op = "publish" =>
         c.by \in Callers /\ c.on \in Pubs /\ c.pc \in {"append", "end"}
    /\ c.op = "replay" =>
         c.by \in Callers /\ c.on \in DOMAIN letters /\ c.pc \in {"append", "replayed"}
    /\ c.op = "delivery" =>
         c.by = "worker" /\ c.on \in DOMAIN msgs
           /\ c.pc \in {"handle", "retry", "first", "save", "mark", "end"}
    /\ c.op = "reclaim" =>
         c.by = "reclaimer" /\ c.on \in DOMAIN msgs
           /\ c.pc \in {"release", "first", "save", "mark", "end"}

(* A request makes one call at a time and is answered when it is over. *)
Alone ==
    \A c \in calls : c.by \in Callers =>
      replies[c.by] = Idle /\ \A d \in calls : d.by = c.by => d = c

Base == Typed /\ Alone /\ \A c \in calls : Shape(c)

(* What an element of a sequence is replaced by, and the rest. *)
LEMMA ExceptIs ==
  ASSUME NEW T, NEW s \in Seq(T), NEW i \in DOMAIN s, NEW e \in T
  PROVE  /\ [s EXCEPT ![i] = e] \in Seq(T) /\ Len([s EXCEPT ![i] = e]) = Len(s)
         /\ [s EXCEPT ![i] = e][i] = e
         /\ \A j \in DOMAIN s : j # i => [s EXCEPT ![i] = e][j] = s[j]
OBVIOUS

(* What two sequences make together. *)
LEMMA JoinIs ==
  ASSUME NEW T, NEW s \in Seq(T), NEW t \in Seq(T)
  PROVE  /\ s \o t \in Seq(T) /\ Len(s \o t) = Len(s) + Len(t)
         /\ \A i \in 1 .. Len(s) : (s \o t)[i] = s[i]
         /\ \A i \in 1 .. Len(t) : (s \o t)[Len(s) + i] = t[i]
OBVIOUS

(* The messages that AppendRows adds are numbered on, and the others stay. *)
LEMMA RowsAppended ==
  ASSUME Typed, NEW rows \in Seq(MsgRows), AppendRows(rows)
  PROVE  /\ msgs' \in Seq(MsgRows) /\ Len(msgs') = Len(msgs) + Len(rows)
         /\ \A m \in 1 .. Len(msgs) : msgs'[m] = msgs[m]
         /\ \A i \in 1 .. Len(rows) : msgs'[Len(msgs) + i] = rows[i]
         /\ events' \in Seq(Seq(History)) /\ Len(events') = Len(msgs')
         /\ \A m \in 1 .. Len(msgs) : events'[m] = events[m]
         /\ \A i \in 1 .. Len(rows) : events'[Len(msgs) + i] = <<>>
         /\ failed' \in Seq(Nat) /\ Len(failed') = Len(msgs')
         /\ \A m \in 1 .. Len(msgs) : failed'[m] = failed[m]
         /\ \A i \in 1 .. Len(rows) : failed'[Len(msgs) + i] = 0
<1> DEFINE none == [i \in DOMAIN rows |-> <<>>]
           zero == [i \in DOMAIN rows |-> 0]
<1>1. none \in Seq(Seq(History)) /\ Len(none) = Len(rows) /\ \A i \in 1 .. Len(rows) : none[i] = <<>>
  <2>1. <<>> \in Seq(History) /\ DOMAIN rows = 1 .. Len(rows) /\ Len(rows) \in Nat
    OBVIOUS
  <2>2. none \in [1 .. Len(rows) -> Seq(History)]
    BY <2>1, Zenon
  <2> QED
    BY <2>1, <2>2
<1>2. zero \in Seq(Nat) /\ Len(zero) = Len(rows) /\ \A i \in 1 .. Len(rows) : zero[i] = 0
  OBVIOUS
<1>3. msgs' = msgs \o rows /\ events' = events \o none /\ failed' = failed \o zero
  BY Zenon DEF AppendRows
<1>4. /\ msgs \in Seq(MsgRows) /\ events \in Seq(Seq(History)) /\ failed \in Seq(Nat)
      /\ Len(events) = Len(msgs) /\ Len(failed) = Len(msgs)
  BY Zenon DEF Typed
<1> HIDE DEF none, zero
<1>5. /\ msgs' \in Seq(MsgRows) /\ Len(msgs') = Len(msgs) + Len(rows)
      /\ \A m \in 1 .. Len(msgs) : msgs'[m] = msgs[m]
      /\ \A i \in 1 .. Len(rows) : msgs'[Len(msgs) + i] = rows[i]
  BY <1>3, <1>4, JoinIs
<1>6. /\ events' \in Seq(Seq(History)) /\ Len(events') = Len(events) + Len(none)
      /\ \A m \in 1 .. Len(events) : events'[m] = events[m]
      /\ \A i \in 1 .. Len(none) : events'[Len(events) + i] = none[i]
  <2>1. PICK H : H = Seq(History)
    BY Zenon
  <2>2. events \in Seq(H) /\ none \in Seq(H)
    BY <1>1, <1>4, <2>1, Zenon
  <2>3. /\ events \o none \in Seq(H) /\ Len(events \o none) = Len(events) + Len(none)
        /\ \A m \in 1 .. Len(events) : (events \o none)[m] = events[m]
        /\ \A i \in 1 .. Len(none) : (events \o none)[Len(events) + i] = none[i]
    BY <2>2, JoinIs
  <2> QED
    BY <1>3, <2>1, <2>3, Zenon
<1>7. /\ failed' \in Seq(Nat) /\ Len(failed') = Len(failed) + Len(zero)
      /\ \A m \in 1 .. Len(failed) : failed'[m] = failed[m]
      /\ \A i \in 1 .. Len(zero) : failed'[Len(failed) + i] = zero[i]
  <2>1. zero \in Seq(Nat) /\ failed \in Seq(Nat)
    BY <1>2, <1>4, Zenon
  <2>2. /\ failed \o zero \in Seq(Nat) /\ Len(failed \o zero) = Len(failed) + Len(zero)
        /\ \A m \in 1 .. Len(failed) : (failed \o zero)[m] = failed[m]
        /\ \A i \in 1 .. Len(zero) : (failed \o zero)[Len(failed) + i] = zero[i]
    BY <2>1, JoinIs
  <2> QED
    BY <1>3, <2>2, Zenon
<1> QED
  BY <1>1, <1>2, <1>4, <1>5, <1>6, <1>7, Zenon

Tables ==
    /\ declared \subseteq Queues
    /\ msgs \in Seq(MsgRows) /\ letters \in Seq(Records)
    /\ events \in Seq(Seq(History)) /\ Len(events) = Len(msgs)
    /\ failed \in Seq(Nat) /\ Len(failed) = Len(msgs)

(* The number of rows never shrinks. *)
Grown == Len(msgs') >= Len(msgs) /\ Len(letters') >= Len(letters)

(* What d, which goes on for c, has of c. *)
Succeeds(d, c) == d \in CallSet /\ d.by = c.by /\ d.op = c.op /\ d.on = c.on

(* A call keeps its shape when the tables grow. *)
LEMMA ShapeKept ==
  ASSUME Tables, Tables', Grown, NEW c, Shape(c)
  PROVE  Shape(c)'
<1>1. DOMAIN msgs \subseteq DOMAIN msgs' /\ DOMAIN letters \subseteq DOMAIN letters'
  <2>1. /\ DOMAIN msgs = 1 .. Len(msgs) /\ DOMAIN msgs' = 1 .. Len(msgs')
        /\ DOMAIN letters = 1 .. Len(letters) /\ DOMAIN letters' = 1 .. Len(letters')
        /\ Len(msgs) \in Nat /\ Len(msgs') \in Nat /\ Len(letters) \in Nat /\ Len(letters') \in Nat
    BY DEF Tables
  <2> QED
    BY <2>1 DEF Grown
<1> QED
  BY <1>1, Zenon DEF Shape

(* A call goes on. *)
LEMMA Continued ==
  ASSUME Base, Tables', Grown, spent' \in [Env -> Nat],
         NEW c \in calls, NEW d, Succeeds(d, c), Continue(c, d),
         ~Over(d) => Shape(d)'
  PROVE  Base'
<1>1. /\ calls \subseteq CallSet /\ replies \in [Callers -> Answers] /\ Tables
      /\ Alone /\ \A e \in calls : Shape(e)
  BY Zenon DEF Base, Typed, Tables
<1>2. Answer(d) \in Answers
  BY Zenon DEF Answer, Answers, Succeeds, CallSet
<1>3. calls' \subseteq CallSet /\ replies' \in [Callers -> Answers]
  BY <1>1, <1>2, Zenon DEF Continue, Succeeds
<1>4. ASSUME NEW e \in calls'
      PROVE  Shape(e)'
  <2>1. e \in calls \/ (e = d /\ ~Over(d))
    BY <1>4, Zenon DEF Continue
  <2>2. ASSUME e \in calls PROVE Shape(e)'
    BY <1>1, <2>2, ShapeKept, Zenon
  <2>3. ASSUME e = d, ~Over(d) PROVE Shape(e)'
    BY <2>3, Zenon
  <2> QED
    BY <2>1, <2>2, <2>3, Zenon
<1>5. ASSUME NEW e \in calls', e.by \in Callers
      PROVE  replies'[e.by] = Idle /\ \A f \in calls' : f.by = e.by => f = e
  <2>1. CASE Over(d)
    <3>1. e \in calls /\ e # c
      BY <2>1, Zenon DEF Continue
    <3>2. e.by # d.by
      BY <1>1, <1>5, <3>1, Zenon DEF Alone, Succeeds
    <3>3. replies'[e.by] = replies[e.by]
      BY <1>1, <1>5, <3>2, Zenon DEF Continue
    <3> QED
      BY <1>1, <1>5, <2>1, <3>1, <3>3, Zenon DEF Alone, Continue
  <2>2. CASE ~Over(d)
    <3>1. replies' = replies /\ calls' = (calls \ {c}) \cup {d}
      BY <2>2, Zenon DEF Continue
    <3> QED
      BY <1>1, <1>5, <3>1, Zenon DEF Alone, Succeeds
  <2> QED
    BY <2>1, <2>2, Zenon
<1> QED
  BY <1>3, <1>4, <1>5, Zenon DEF Base, Typed, Tables, Alone

(* A call begins. *)
LEMMA Started ==
  ASSUME Base, Tables', Grown, spent' \in [Env -> Nat],
         NEW d \in CallSet, calls' = calls \cup {d}, replies' = replies, Shape(d)',
         d.by \in Callers => MayStart(d.by)
  PROVE  Base'
<1>1. /\ calls \subseteq CallSet /\ replies \in [Callers -> Answers] /\ Tables
      /\ Alone /\ \A e \in calls : Shape(e)
  BY Zenon DEF Base, Typed, Tables
<1>2. \A e \in calls' : Shape(e)'
  BY <1>1, ShapeKept, Zenon
<1>3. Alone'
  <2>1. d.by \in Callers => replies[d.by] = Idle /\ \A e \in calls : e.by # d.by
    BY Zenon DEF MayStart, Waiting
  <2> QED
    BY <1>1, <2>1, Zenon DEF Alone
<1>4. calls' \subseteq CallSet /\ replies' \in [Callers -> Answers]
  BY <1>1, Zenon
<1> QED
  BY <1>2, <1>3, <1>4, Zenon DEF Base, Typed, Tables

(* A request is answered at once. *)
LEMMA Replied ==
  ASSUME Base, Tables', Grown, spent' \in [Env -> Nat],
         NEW a \in Callers, NEW r \in Answers, MayStart(a), calls' = calls,
         replies' = [replies EXCEPT ![a] = r]
  PROVE  Base'
<1>1. /\ calls \subseteq CallSet /\ replies \in [Callers -> Answers] /\ Tables
      /\ Alone /\ \A e \in calls : Shape(e)
  BY Zenon DEF Base, Typed, Tables
<1>2. \A e \in calls' : Shape(e)'
  BY <1>1, ShapeKept, Zenon
<1>3. Alone'
  <2>1. \A e \in calls : e.by # a
    BY Zenon DEF MayStart, Waiting
  <2> QED
    BY <1>1, <2>1, Zenon DEF Alone
<1>4. calls' \subseteq CallSet /\ replies' \in [Callers -> Answers]
  BY <1>1, Zenon
<1> QED
  BY <1>2, <1>3, <1>4, Zenon DEF Base, Typed, Tables

(* What a store call does to the count of the failures. *)
LEMMA SpentIs ==
  ASSUME spent \in [Env -> Nat]
  PROVE  /\ Works => spent' = spent
         /\ \A e \in Env : Spend(e) =>
              /\ spent' \in [Env -> Nat] /\ spent'[e] = spent[e] + 1
              /\ \A f \in Env : f # e => spent'[f] = spent[f]
BY DEF Works, Spend

(* The first state. *)
LEMMA BaseInit == Init => Base
<1> SUFFICES ASSUME Init PROVE Base
  BY Zenon
<1>1. Idle \in Answers
  BY Zenon DEF Idle, Answers
<1>2. /\ <<>> \in Seq(MsgRows) /\ <<>> \in Seq(Records) /\ <<>> \in Seq(Nat)
      /\ <<>> \in Seq(Seq(History)) /\ Len(<<>>) = 0
  OBVIOUS
<1> QED
  BY <1>1, <1>2, Zenon DEF Init, Base, Typed, Alone

(* Where a publication goes: to the registered queues of its bindings,     *)
(* each once.                                                              *)
LEMMA RoutedIs ==
  ASSUME NEW p \in Pubs
  PROVE  /\ Routed(p) \in Seq(Queues) /\ IsInjective(Routed(p))
         /\ \A k \in DOMAIN Routed(p) :
              Routed(p)[k] \in declared /\ \E j \in DOMAIN Routes[p] : Routed(p)[k] = Routes[p][j]
         /\ \A j \in DOMAIN Routes[p] : Routes[p][j] \in declared =>
              \E k \in DOMAIN Routed(p) : Routed(p)[k] = Routes[p][j]
<1>1. Routes[p] \in Seq(Queues) /\ IsInjective(Routes[p])
  BY DeadLettersAssumption, Zenon
<1> QED
  BY <1>1, KeptIs DEF Routed

(* The queue that a rejected publication is parked for. *)
LEMMA RejectingIs ==
  ASSUME NEW p \in Pubs, Rejecting(p) # {}
  PROVE  /\ Routed(p)[Min(Rejecting(p))] \in Queues
         /\ ~Validates(p, Routed(p)[Min(Rejecting(p))])
         /\ \E j \in DOMAIN Routes[p] : ~Validates(p, Routes[p][j])
<1>1. Routed(p) \in Seq(Queues)
  BY RoutedIs, Zenon
<1>2. DOMAIN Routed(p) \subseteq Nat
  BY <1>1
<1>3. Rejecting(p) \in SUBSET Nat /\ Rejecting(p) \subseteq DOMAIN Routed(p)
  BY <1>2, Zenon DEF Rejecting
<1>4. PICK i : i = Min(Rejecting(p))
  BY Zenon
<1>5. i \in Rejecting(p)
  BY <1>3, <1>4, MinIs, Zenon
<1>6. i \in DOMAIN Routed(p) /\ ~Validates(p, Routed(p)[i])
  BY <1>5, Zenon DEF Rejecting
<1>7. Routed(p)[i] \in Queues
  BY <1>1, <1>6
<1> QED
  BY <1>4, <1>6, <1>7, RoutedIs, Zenon

(* A record that is saved is a new last row. *)
LEMMA Saved ==
  ASSUME letters \in Seq(Records), NEW r \in Records, Save(r)
  PROVE  /\ letters' \in Seq(Records) /\ Len(letters') = Len(letters) + 1
         /\ \A d \in 1 .. Len(letters) : letters'[d] = letters[d]
         /\ letters'[Len(letters) + 1] = r
BY AppendIs DEF Save

(* A record that changes in place. *)
LEMMA Changed ==
  ASSUME letters \in Seq(Records), NEW d \in DOMAIN letters, NEW r \in Records,
         letters' = [letters EXCEPT ![d] = r]
  PROVE  /\ letters' \in Seq(Records) /\ Len(letters') = Len(letters)
         /\ letters'[d] = r /\ \A e \in DOMAIN letters : e # d => letters'[e] = letters[e]
BY ExceptIs

(* A request that is answered at once keeps the types. *)
LEMMA BaseReplied ==
  ASSUME Base, NEW a \in Callers,
         \/ \E p \in Pubs : Unroutable(a, p) \/ Reject(a, p)
         \/ \E d \in DOMAIN letters : Discard(a, d)
  PROVE  Base'
<1>0. Tables /\ spent \in [Env -> Nat] /\ letters \in Seq(Records) /\ Len(letters) \in Nat
  BY DEF Base, Typed, Tables
<1>1. ASSUME NEW p \in Pubs, Unroutable(a, p)
      PROVE  Base'
  <2>1. Tables' /\ Grown /\ spent' \in [Env -> Nat]
    BY <1>0, <1>1 DEF Unroutable, tables, ghosts, Tables, Grown
  <2>2. [status |-> StatusOf.unroutable, op |-> "publish", on |-> p] \in Answers
    BY DEF StatusOf, Answers
  <2> QED
    BY <1>1, <2>1, <2>2, Replied, Zenon DEF Unroutable, Reply
<1>2. ASSUME NEW p \in Pubs, Reject(a, p)
      PROVE  Base'
  <2>1. [status |-> StatusOf.rejected, op |-> "publish", on |-> p] \in Answers
    BY DEF StatusOf, Answers
  <2>2. spent' \in [Env -> Nat]
    BY <1>0, <1>2, SpentIs, Zenon DEF Reject, Fails, Env
  <2>3. Routed(p)[Min(Rejecting(p))] \in Queues
    BY <1>2, RejectingIs, Zenon DEF Reject
  <2>4. Letter(0, Routed(p)[Min(Rejecting(p))], p, 0, "validation", 0) \in Records
    BY <2>3, Zenon DEF Letter, Records, Kinds
  <2>5. letters' \in Seq(Records) /\ Len(letters') >= Len(letters)
    BY <1>0, <1>2, <2>4, Saved DEF Reject
  <2>6. Tables' /\ Grown
    BY <1>0, <1>2, <2>5 DEF Reject, ghosts, Tables, Grown
  <2> QED
    BY <1>2, <2>1, <2>2, <2>6, Replied, Zenon DEF Reject, Reply
<1>3. ASSUME NEW d \in DOMAIN letters, Discard(a, d)
      PROVE  Base'
  <2>1. PICK s \in Nat : Reply(a, "discard", d, s)
    BY <1>3 DEF Discard, StatusOf
  <2>2. d \in Nat /\ letters[d] \in Records
    BY <1>0
  <2>3. [status |-> s, op |-> "discard", on |-> d] \in Answers
    BY <2>2, Zenon DEF Answers
  <2>4. spent' \in [Env -> Nat]
    BY <1>0, <1>3, SpentIs, Zenon DEF Discard, Fails, Env
  <2>5. [letters[d] EXCEPT !.live = FALSE] \in Records
    BY <2>2, Zenon DEF Records
  <2>6. letters' \in Seq(Records) /\ Len(letters') = Len(letters)
    BY <1>0, <1>3, <2>5, Changed, Zenon DEF Discard, DeleteDeadLetter
  <2>7. Tables' /\ Grown
    BY <1>0, <1>3, <2>6 DEF Discard, ghosts, Tables, Grown
  <2> QED
    BY <1>3, <2>1, <2>3, <2>4, <2>7, Replied, Zenon DEF Discard, Reply
<1> QED
  BY <1>1, <1>2, <1>3, Zenon

(* A request, a delivery or the reclaim loop begins. *)
LEMMA BaseStarted ==
  ASSUME Base,
         \/ \E a \in Callers :
              \/ \E p \in Pubs : Publish(a, p)
              \/ \E d \in DOMAIN letters : Replay(a, d)
         \/ \E m \in DOMAIN msgs : Claim(m) \/ Reclaim(m)
  PROVE  Base'
<1>0. /\ Tables /\ spent \in [Env -> Nat] /\ letters \in Seq(Records) /\ Len(letters) \in Nat
      /\ msgs \in Seq(MsgRows) /\ Len(msgs) \in Nat
  BY DEF Base, Typed, Tables
<1>a. \A a \in Callers : a \notin Own
  BY DeadLettersAssumption, Zenon DEF Own
<1>b. <<>> \in Seq(Queues) /\ <<>> \in Seq(History)
  OBVIOUS
<1>1. ASSUME NEW a \in Callers, NEW p \in Pubs, Publish(a, p)
      PROVE  Base'
  <2>0. PICK d : d = [Call(a, "publish", p, "append") EXCEPT !.queues = Routed(p)]
    BY Zenon
  <2>1. Tables' /\ Grown /\ spent' \in [Env -> Nat] /\ replies' = replies
    BY <1>0, <1>1 DEF Publish, tables, ghosts, Tables, Grown
  <2>2. Routed(p) \in Seq(Queues)
    BY RoutedIs, Zenon
  <2>3. d \in CallSet /\ d.by = a /\ d.op = "publish" /\ d.on = p /\ d.pc = "append"
    BY <1>b, <2>0, <2>2, Zenon DEF Call, CallSet, Pcs, Kinds
  <2>4. calls' = calls \cup {d} /\ MayStart(a)
    BY <1>1, <2>0, Zenon DEF Publish
  <2>5. Shape(d)'
    BY <2>3, Zenon DEF Shape
  <2> QED
    BY <2>1, <2>3, <2>4, <2>5, Started, Zenon
<1>2. ASSUME NEW a \in Callers, NEW e \in DOMAIN letters, Replay(a, e)
      PROVE  Base'
  <2>1. Tables' /\ Grown /\ spent' \in [Env -> Nat] /\ letters' = letters
    BY <1>0, <1>2 DEF Replay, tables, ghosts, Tables, Grown
  <2>2. e \in Nat /\ MayStart(a)
    BY <1>0, <1>2 DEF Replay
  <2>3. CASE letters[e].live /\ letters[e].queue \in declared
    <3> DEFINE d == Call(a, "replay", e, "append")
    <3>1. d \in CallSet /\ d.by = a /\ d.op = "replay" /\ d.on = e /\ d.pc = "append"
      BY <1>b, <2>2, Zenon DEF Call, CallSet, Pcs, Kinds
    <3>2. calls' = calls \cup {d} /\ replies' = replies
      BY <1>2, <2>3, Zenon DEF Replay
    <3> HIDE DEF d
    <3>3. Shape(d)'
      BY <2>1, <3>1, Zenon DEF Shape
    <3> QED
      BY <2>1, <2>2, <3>1, <3>2, <3>3, Started, Zenon
  <2>4. CASE ~(letters[e].live /\ letters[e].queue \in declared)
    <3>1. [status |-> StatusOf.missing, op |-> "replay", on |-> e] \in Answers
      BY <2>2 DEF StatusOf, Answers
    <3>2. Reply(a, "replay", e, StatusOf.missing) /\ calls' = calls
      BY <1>2, <2>4, Zenon DEF Replay
    <3> QED
      BY <2>1, <2>2, <3>1, <3>2, Replied, Zenon DEF Reply
  <2> QED
    BY <2>3, <2>4, Zenon
<1>3. ASSUME NEW m \in DOMAIN msgs, Claim(m)
      PROVE  Base'
  <2>1. msgs[m] \in MsgRows /\ m \in Nat
    BY <1>0
  <2>2. PICK row : row = [msgs[m] EXCEPT !.state = "PROCESSING", !.attempts = @ + 1]
    BY Zenon
  <2>3. row \in MsgRows
    <3>1. PICK old \in MsgRows : old = msgs[m]
      BY <2>1, Zenon
    <3>2. row = [old EXCEPT !.state = "PROCESSING", !.attempts = @ + 1]
      BY <2>2, <3>1, Zenon
    <3>3. PICK n \in Nat : n = old.attempts + 1
      BY DEF MsgRows
    <3>4. row = [old EXCEPT !.state = "PROCESSING", !.attempts = n]
      BY <3>2, <3>3, Zenon
    <3> QED
      BY <3>4, Zenon DEF MsgRows, States
  <2>4. msgs' = [msgs EXCEPT ![m] = row]
    BY <1>3, <2>2, Zenon DEF Claim
  <2>5. msgs' \in Seq(MsgRows) /\ Len(msgs') = Len(msgs) /\ DOMAIN msgs' = DOMAIN msgs
    BY <1>0, <2>3, <2>4, ExceptIs
  <2>a. UNCHANGED <<declared, letters, events, replies, failed>>
    BY <1>3, Zenon DEF Claim
  <2>6. Tables' /\ Grown /\ replies' = replies
    BY <1>0, <2>5, <2>a DEF Tables, Grown
  <2>7. spent' \in [Env -> Nat]
    BY <1>0, <1>3, SpentIs, Zenon DEF Claim, Env
  <2>8. PICK e : e = Event(m, "PROCESSING", 0)
    BY Zenon
  <2>9. e \in History
    BY <2>1, <2>8, Zenon DEF Event, History, States
  <2>10. PICK t : t = <<e>>
    BY Zenon
  <2>11. t \in Seq(History)
    BY <2>9, <2>10
  <2>12. PICK n \in Nat : n = msgs[m].attempts + 1
    BY <2>1 DEF MsgRows
  <2>13. PICK d : d = [Call("worker", "delivery", m, "handle") EXCEPT !.attempt = n, !.due = t]
    BY Zenon
  <2>14. /\ d \in CallSet /\ d.by = "worker" /\ d.op = "delivery" /\ d.on = m /\ d.pc = "handle"
    BY <1>b, <2>1, <2>11, <2>13, Zenon DEF Call, CallSet, Pcs, Kinds, Own
  <2>15. calls' = calls \cup {d}
    BY <1>3, <2>8, <2>10, <2>12, <2>13, Zenon DEF Claim
  <2>16. Shape(d)' /\ d.by \notin Callers
    BY <1>a, <2>5, <2>14, Zenon DEF Shape, Own
  <2> QED
    BY <2>6, <2>7, <2>14, <2>15, <2>16, Started, Zenon
<1>4. ASSUME NEW m \in DOMAIN msgs, Reclaim(m)
      PROVE  Base'
  <2>1. msgs[m] \in MsgRows /\ m \in Nat /\ failed \in Seq(Nat) /\ m \in DOMAIN failed
    BY <1>0 DEF Tables
  <2>2. PICK n \in Nat : n = msgs[m].attempts
    BY <2>1, Zenon DEF MsgRows
  <2>3. failed[m] + 1 \in Nat
    BY <2>1
  <2>4. PICK d : d = [Call("reclaimer", "reclaim", m, "release") EXCEPT
                        !.attempt = n, !.kind = "lease_expired"]
    BY Zenon
  <2>5. PICK e : e = [d EXCEPT !.pc = "first", !.at = failed[m] + 1]
    BY Zenon
  <2>6. d \in CallSet /\ d.by = "reclaimer" /\ d.op = "reclaim" /\ d.on = m /\ d.pc = "release"
    BY <1>b, <2>1, <2>4, Zenon DEF Call, CallSet, Pcs, Kinds, Own
  <2>7. e \in CallSet /\ e.by = "reclaimer" /\ e.op = "reclaim" /\ e.on = m /\ e.pc = "first"
    BY <1>b, <2>1, <2>3, <2>4, <2>5, Zenon DEF Call, CallSet, Pcs, Kinds, Own
  <2>8. spent' \in [Env -> Nat] /\ replies' = replies /\ msgs' = msgs /\ letters' = letters
    BY <1>0, <1>4, SpentIs, Zenon DEF Reclaim, Env, tables
  <2>9. failed' = failed \/ failed' = [failed EXCEPT ![m] = failed[m] + 1]
    BY <1>4, Zenon DEF Reclaim
  <2>10. failed' \in Seq(Nat) /\ Len(failed') = Len(failed)
    BY <2>1, <2>3, <2>9, ExceptIs
  <2>11. Tables' /\ Grown
    <3>1. UNCHANGED <<declared, events>>
      BY <1>4, Zenon DEF Reclaim, tables
    <3> QED
      BY <1>0, <2>8, <2>10, <3>1 DEF Tables, Grown
  <2>12. calls' = calls \cup {d} \/ calls' = calls \cup {e}
    BY <1>4, <2>2, <2>4, <2>5, Zenon DEF Reclaim
  <2>13. Shape(d)' /\ Shape(e)' /\ d.by \notin Callers /\ e.by \notin Callers
    BY <1>a, <2>6, <2>7, <2>8, Zenon DEF Shape, Own
  <2> QED
    BY <2>6, <2>7, <2>8, <2>11, <2>12, <2>13, Started, Zenon
<1> QED
  BY <1>1, <1>2, <1>3, <1>4, Zenon

(* AppendHistory adds to the events of every message. *)
LEMMA HistoryAppended ==
  ASSUME events \in Seq(Seq(History)), NEW due \in Seq(History), NEW lost, AppendHistory(due, lost)
  PROVE  /\ events' \in Seq(Seq(History)) /\ Len(events') = Len(events)
         /\ \A m \in DOMAIN events :
              /\ Kept(due, {e \in Range(due) : e.msg = m /\ e.msg # lost}) \in Seq(History)
              /\ events'[m] = events[m] \o Kept(due, {e \in Range(due) : e.msg = m /\ e.msg # lost})
<1> DEFINE More(m) == Kept(due, {e \in Range(due) : e.msg = m /\ e.msg # lost})
<1>1. \A m : More(m) \in Seq(History)
  BY KeptIs, Zenon
<1>2. events' = [m \in DOMAIN events |-> events[m] \o More(m)]
  BY Zenon DEF AppendHistory
<1> HIDE DEF More
<1>3. \A m \in DOMAIN events : events[m] \in Seq(History)
  OBVIOUS
<1>4. \A m \in DOMAIN events : events[m] \o More(m) \in Seq(History)
  BY <1>1, <1>3, JoinIs, Zenon
<1>5. events' \in [1 .. Len(events) -> Seq(History)]
  BY <1>2, <1>4
<1>6. events' \in Seq(Seq(History)) /\ Len(events') = Len(events)
  <2>1. PICK n \in Nat : n = Len(events)
    OBVIOUS
  <2>2. PICK H : H = Seq(History)
    BY Zenon
  <2>3. PICK f : f = events'
    BY Zenon
  <2>4. f \in [1 .. n -> H]
    BY <1>5, <2>1, <2>2, <2>3, Zenon
  <2>5. f \in Seq(H) /\ Len(f) = n
    BY <2>4
  <2> QED
    BY <2>1, <2>2, <2>3, <2>5, Zenon
<1>7. \A m \in DOMAIN events : More(m) \in Seq(History) /\ events'[m] = events[m] \o More(m)
  BY <1>1, <1>2, Zenon
<1> QED
  BY <1>6, <1>7, Zenon DEF More

(* A message whose state is written keeps the rest of its row. *)
LEMMA Became ==
  ASSUME msgs \in Seq(MsgRows), NEW m \in DOMAIN msgs, NEW s \in States, Become(m, s)
  PROVE  /\ msgs' \in Seq(MsgRows) /\ Len(msgs') = Len(msgs) /\ DOMAIN msgs' = DOMAIN msgs
         /\ msgs'[m] = [msgs[m] EXCEPT !.state = s]
         /\ \A n \in DOMAIN msgs : n # m => msgs'[n] = msgs[n]
<1>1. PICK old \in MsgRows : old = msgs[m]
  OBVIOUS
<1>2. PICK row : row = [old EXCEPT !.state = s]
  BY Zenon
<1>3. row \in MsgRows
  BY <1>2, Zenon DEF MsgRows
<1>4. msgs' = [msgs EXCEPT ![m] = row]
  BY <1>1, <1>2, Zenon DEF Become
<1>5. /\ msgs' \in Seq(MsgRows) /\ Len(msgs') = Len(msgs)
      /\ msgs'[m] = row /\ \A n \in DOMAIN msgs : n # m => msgs'[n] = msgs[n]
  BY <1>3, <1>4, ExceptIs
<1>6. DOMAIN msgs' = DOMAIN msgs
  BY <1>5
<1> QED
  BY <1>1, <1>2, <1>5, <1>6, Zenon

(* What the call that goes on as d becomes; c and d differ in these fields. *)
LEMMA Successors ==
  ASSUME NEW c \in CallSet
  PROVE  /\ \A t \in Seq(History) : Succeeds([c EXCEPT !.due = t], c)
         /\ Succeeds(End(c), c) /\ End(c).pc = "end" /\ End(c).due = c.due
         /\ \A s \in Nat : /\ Succeeds(Ends(c, s), c) /\ Ends(c, s).pc = "end"
                           /\ Ends(c, s).due = c.due /\ Ends(c, s).status = s
                           /\ Ends(c, s).queues = c.queues /\ Ends(c, s).at = c.at
         /\ \A p \in Pcs : Succeeds([c EXCEPT !.pc = p], c)
BY DEF Succeeds, CallSet, End, Ends, Pcs

(* A step that settles a delivery keeps the types. *)
LEMMA BaseSettle ==
  ASSUME Base, NEW c \in calls, NEW pc \in {"handle", "retry", "release", "mark"},
         NEW s \in States, Settle(c, pc, s)
  PROVE  Base'
<1>0. /\ Tables /\ spent \in [Env -> Nat] /\ c \in CallSet /\ Shape(c)
      /\ msgs \in Seq(MsgRows) /\ Len(msgs) \in Nat /\ Len(letters) \in Nat
  BY DEF Base, Typed, Tables
<1>1. c.op \in {"delivery", "reclaim"} /\ c.on \in DOMAIN msgs /\ c.due = <<>> /\ c.on \in Nat
  BY <1>0 DEF Settle, At, Shape, CallSet
<1>2. UNCHANGED <<declared, letters, events, failed>>
  BY Zenon DEF Settle, ghosts
<1>3. spent' \in [Env -> Nat]
  BY <1>0, SpentIs, Zenon DEF Settle, Fails, Env
<1>4. msgs' \in Seq(MsgRows) /\ Len(msgs') = Len(msgs)
  BY <1>0, <1>1, Became, Zenon DEF Settle
<1>5. Tables' /\ Grown
  BY <1>0, <1>2, <1>4 DEF Tables, Grown
<1>6. PICK e : e = Event(c.on, s, c.at)
  BY Zenon
<1>7. e \in History
  BY <1>0, <1>1, <1>6, Zenon DEF Event, History, CallSet
<1>8. PICK t : t = <<e>>
  BY Zenon
<1>9. t \in Seq(History) /\ t # <<>>
  BY <1>7, <1>8
<1>10. Succeeds(End(c), c) /\ End(c).pc = "end" /\ End(c).due = <<>>
  BY <1>0, <1>1, Successors, Zenon
<1>11. PICK d : d = [End(c) EXCEPT !.due = t]
  BY Zenon
<1>12. Succeeds(d, c) /\ d.pc = "end"
  BY <1>0, <1>9, <1>11, Zenon DEF Succeeds, CallSet, End, Pcs
<1>13. CASE Continue(c, d)
  <2>1. Shape(d)'
    BY <1>0, <1>1, <1>4, <1>12 DEF Shape, Succeeds
  <2> QED
    BY <1>3, <1>5, <1>12, <1>13, <2>1, Continued, Zenon
<1>14. CASE Continue(c, End(c))
  <2>1. Over(End(c))
    BY <1>10, Zenon DEF Over
  <2> QED
    BY <1>3, <1>5, <1>10, <1>14, <2>1, Continued, Zenon
<1> QED
  BY <1>6, <1>8, <1>11, <1>13, <1>14, Zenon DEF Settle

(* The rows that a publication and a replay append. *)
PublishedRows(c) == [i \in DOMAIN c.queues |-> Row(c.queues[i], c.on, c.by, 0)]
ReplayRow(c)     == Row(letters[c.on].queue, letters[c.on].pub, c.by, c.on)

LEMMA RowsAre ==
  ASSUME Base, NEW c \in calls
  PROVE  /\ c.op = "publish" => PublishedRows(c) \in Seq(MsgRows)
                                  /\ Len(PublishedRows(c)) = Len(c.queues)
         /\ c.op = "replay" => ReplayRow(c) \in MsgRows
<1>0. c \in CallSet /\ Shape(c) /\ letters \in Seq(Records)
  BY Zenon DEF Base, Typed
<1>1. ASSUME c.op = "publish"
      PROVE  PublishedRows(c) \in Seq(MsgRows) /\ Len(PublishedRows(c)) = Len(c.queues)
  <2>1. PICK qs \in Seq(Queues) : qs = c.queues
    BY <1>0, Zenon DEF CallSet
  <2>2. PICK a \in Callers : a = c.by
    BY <1>0, <1>1, Zenon DEF Shape
  <2>3. PICK p \in Pubs : p = c.on
    BY <1>0, <1>1, Zenon DEF Shape
  <2>4. \A i \in DOMAIN qs : Row(qs[i], p, a, 0) \in MsgRows
    BY DEF Row, MsgRows, States
  <2>5. PublishedRows(c) = [i \in DOMAIN qs |-> Row(qs[i], p, a, 0)]
    BY <2>1, <2>2, <2>3, Zenon DEF PublishedRows
  <2>6. PublishedRows(c) \in [1 .. Len(qs) -> MsgRows] /\ Len(qs) \in Nat
    BY <2>4, <2>5
  <2> QED
    BY <2>1, <2>6
<1>2. ASSUME c.op = "replay"
      PROVE  ReplayRow(c) \in MsgRows
  <2>1. c.by \in Callers /\ c.on \in DOMAIN letters
    BY <1>0, <1>2, Zenon DEF Shape
  <2>2. letters[c.on].queue \in Queues /\ letters[c.on].pub \in Pubs /\ c.on \in Nat
    <3>1. PICK r \in Records : r = letters[c.on]
      BY <1>0, <2>1
    <3>2. DOMAIN letters \subseteq Nat
      BY <1>0
    <3> QED
      BY <2>1, <3>1, <3>2, Zenon DEF Records
  <2> QED
    BY <2>1, <2>2, Zenon DEF ReplayRow, Row, MsgRows, States
<1> QED
  BY <1>1, <1>2, Zenon

(* Their history events. *)
LEMMA QueuedIs ==
  ASSUME msgs \in Seq(MsgRows), NEW rows \in Seq(MsgRows)
  PROVE  /\ Queued(rows) \in Seq(History) /\ Len(Queued(rows)) = Len(rows)
         /\ \A i \in 1 .. Len(rows) : Queued(rows)[i] = Event(Len(msgs) + i, "QUEUED", 0)
<1>1. PICK n \in Nat : n = Len(msgs)
  OBVIOUS
<1>2. PICK k \in Nat : k = Len(rows)
  OBVIOUS
<1>3. \A i \in 1 .. k : Event(n + i, "QUEUED", 0) \in History
  BY DEF Event, History, States
<1>4. Queued(rows) = [i \in 1 .. k |-> Event(n + i, "QUEUED", 0)]
  BY <1>1, <1>2 DEF Queued
<1>5. PICK q : q = Queued(rows)
  BY Zenon
<1>6. q \in [1 .. k -> History]
  BY <1>3, <1>4, <1>5, Zenon
<1>7. q \in Seq(History) /\ Len(q) = k
  BY <1>6
<1> QED
  BY <1>1, <1>2, <1>4, <1>5, <1>7, Zenon

(* Append, of a publication. *)
LEMMA BasePublished ==
  ASSUME Base, NEW c \in calls, AppendPublished(c)
  PROVE  Base'
<1>0. /\ Tables /\ spent \in [Env -> Nat] /\ c \in CallSet /\ Shape(c)
      /\ msgs \in Seq(MsgRows) /\ Len(msgs) \in Nat /\ Len(letters) \in Nat
  BY DEF Base, Typed, Tables
<1>1. c.op = "publish" /\ c.due = <<>> /\ UNCHANGED <<declared, letters>>
  BY Zenon DEF AppendPublished, At
<1>2. PICK rows : rows = PublishedRows(c)
  BY Zenon
<1>3. rows \in Seq(MsgRows) /\ Len(rows) \in Nat
  BY <1>1, <1>2, RowsAre
<1>4. PICK t : t = Queued(rows)
  BY Zenon
<1>5. t \in Seq(History)
  BY <1>0, <1>3, <1>4, QueuedIs, Zenon
<1>6. spent' \in [Env -> Nat]
  BY <1>0, SpentIs, Zenon DEF AppendPublished, Fails, Env
<1>7. PICK d : d = [Ends(c, 202) EXCEPT !.due = t]
  BY Zenon
<1>8. Succeeds(d, c) /\ d.pc = "end"
  <2>1. PICK e : e = Ends(c, 202)
    BY Zenon
  <2>2. Succeeds(e, c) /\ e.pc = "end"
    BY <1>0, <2>1, Successors
  <2>3. d = [e EXCEPT !.due = t]
    BY <1>7, <2>1, Zenon
  <2> QED
    BY <1>5, <2>2, <2>3, Zenon DEF Succeeds, CallSet
<1>9. CASE AppendRows(rows) /\ Continue(c, d)
  <2>1. Tables' /\ Grown
    <3>1. /\ msgs' \in Seq(MsgRows) /\ Len(msgs') = Len(msgs) + Len(rows)
          /\ events' \in Seq(Seq(History)) /\ Len(events') = Len(msgs')
          /\ failed' \in Seq(Nat) /\ Len(failed') = Len(msgs')
      BY <1>3, <1>9, RowsAppended, Zenon DEF Base
    <3> QED
      BY <1>0, <1>1, <1>3, <3>1 DEF Tables, Grown
  <2>2. Shape(d)'
    BY <1>0, <1>1, <1>8, Zenon DEF Shape, Succeeds
  <2> QED
    BY <1>6, <1>8, <1>9, <2>1, <2>2, Continued, Zenon
<1>10. CASE Continue(c, Ends(c, StatusOf.failed)) /\ UNCHANGED <<msgs, events, failed>>
  <2>1. StatusOf.failed \in Nat
    BY DEF StatusOf
  <2>2. Succeeds(Ends(c, StatusOf.failed), c) /\ Over(Ends(c, StatusOf.failed))
    BY <1>0, <1>1, <2>1, Successors, Zenon DEF Over
  <2>3. Tables' /\ Grown
    BY <1>0, <1>1, <1>10 DEF Tables, Grown
  <2> QED
    BY <1>6, <1>10, <2>2, <2>3, Continued, Zenon
<1> QED
  BY <1>2, <1>4, <1>7, <1>9, <1>10, Zenon DEF AppendPublished, PublishedRows

(* Append, of a replay. *)
LEMMA BaseReplay ==
  ASSUME Base, NEW c \in calls, AppendReplay(c)
  PROVE  Base'
<1>0. /\ Tables /\ spent \in [Env -> Nat] /\ c \in CallSet /\ Shape(c)
      /\ msgs \in Seq(MsgRows) /\ Len(msgs) \in Nat /\ Len(letters) \in Nat
  BY DEF Base, Typed, Tables
<1>1. c.op = "replay" /\ c.due = <<>> /\ UNCHANGED <<declared, letters>>
  BY Zenon DEF AppendReplay, At
<1>2. PICK rows : rows = <<ReplayRow(c)>>
  BY Zenon
<1>3. rows \in Seq(MsgRows) /\ Len(rows) = 1
  <2>1. ReplayRow(c) \in MsgRows
    BY <1>1, RowsAre, Zenon
  <2> QED
    BY <1>2, <2>1
<1>4. PICK t : t = Queued(rows)
  BY Zenon
<1>5. t \in Seq(History)
  BY <1>0, <1>3, <1>4, QueuedIs, Zenon
<1>6. spent' \in [Env -> Nat]
  BY <1>0, SpentIs, Zenon DEF AppendReplay, Fails, Env
<1>7. PICK n \in Nat : n = Len(msgs) + 1
  BY <1>0
<1>8. PICK d : d = [c EXCEPT !.pc = "replayed", !.at = n, !.due = t]
  BY Zenon
<1>9. Succeeds(d, c) /\ d.pc = "replayed"
  BY <1>0, <1>5, <1>8, Zenon DEF Succeeds, CallSet, Pcs
<1>10. CASE AppendRows(rows) /\ Continue(c, d)
  <2>1. Tables' /\ Grown
    <3>1. /\ msgs' \in Seq(MsgRows) /\ Len(msgs') = Len(msgs) + Len(rows)
          /\ events' \in Seq(Seq(History)) /\ Len(events') = Len(msgs')
          /\ failed' \in Seq(Nat) /\ Len(failed') = Len(msgs')
      BY <1>3, <1>10, RowsAppended, Zenon DEF Base
    <3> QED
      BY <1>0, <1>1, <1>3, <3>1 DEF Tables, Grown
  <2>2. Shape(d)'
    BY <1>0, <1>1, <1>9, Zenon DEF Shape, Succeeds
  <2> QED
    BY <1>6, <1>9, <1>10, <2>1, <2>2, Continued, Zenon
<1>11. CASE Continue(c, Ends(c, StatusOf.failed)) /\ UNCHANGED <<msgs, events, failed>>
  <2>1. StatusOf.failed \in Nat
    BY DEF StatusOf
  <2>2. Succeeds(Ends(c, StatusOf.failed), c) /\ Over(Ends(c, StatusOf.failed))
    BY <1>0, <1>1, <2>1, Successors, Zenon DEF Over
  <2>3. Tables' /\ Grown
    BY <1>0, <1>1, <1>11 DEF Tables, Grown
  <2> QED
    BY <1>6, <1>11, <2>2, <2>3, Continued, Zenon
<1> QED
  BY <1>2, <1>4, <1>7, <1>8, <1>10, <1>11, Zenon DEF AppendReplay, ReplayRow

(* recordHistory keeps the types. *)
LEMMA BaseRecord ==
  ASSUME Base, NEW c \in calls, RecordHistory(c)
  PROVE  Base'
<1>0. /\ Tables /\ spent \in [Env -> Nat] /\ c \in CallSet /\ Shape(c) /\ c.due \in Seq(History)
      /\ msgs \in Seq(MsgRows) /\ Len(msgs) \in Nat /\ Len(letters) \in Nat
  BY DEF Base, Typed, Tables, CallSet
<1>1. PICK lost : AppendHistory(c.due, lost)
  BY Zenon DEF RecordHistory
<1>2. events' \in Seq(Seq(History)) /\ Len(events') = Len(events)
  BY <1>0, <1>1, HistoryAppended, Zenon DEF Tables
<1>3. spent' \in [Env -> Nat] /\ UNCHANGED <<declared, msgs, letters, failed>>
  BY <1>0, SpentIs, Zenon DEF RecordHistory, Fails, Env, ghosts
<1>4. Tables' /\ Grown
  BY <1>0, <1>2, <1>3 DEF Tables, Grown
<1>5. PICK d : d = [c EXCEPT !.due = <<>>]
  BY Zenon
<1>6. Succeeds(d, c) /\ d.pc = c.pc
  <2>1. <<>> \in Seq(History)
    OBVIOUS
  <2> QED
    BY <1>0, <1>5, <2>1, Zenon DEF Succeeds, CallSet
<1>7. Shape(d)'
  BY <1>0, <1>3, <1>6, Zenon DEF Shape, Succeeds
<1> QED
  BY <1>3, <1>4, <1>5, <1>6, <1>7, Continued, Zenon DEF RecordHistory

(* MarkDeadLetterReplayed changes the record, if it is still there. *)
LEMMA MarkedIs ==
  ASSUME letters \in Seq(Records), NEW d \in DOMAIN letters, NEW m \in Nat,
         MarkDeadLetterReplayed(d, m)
  PROVE  /\ letters' \in Seq(Records) /\ Len(letters') = Len(letters)
         /\ \A e \in DOMAIN letters : e # d => letters'[e] = letters[e]
         /\ ~letters[d].live => letters'[d] = letters[d]
         /\ letters[d].live =>
              letters'[d] = [letters[d] EXCEPT !.replayedAs = m, !.count = letters[d].count + 1]
<1>1. PICK old \in Records : old = letters[d]
  OBVIOUS
<1>2. PICK n \in Nat : n = old.count + 1
  BY DEF Records
<1>3. PICK r : r = [old EXCEPT !.replayedAs = m, !.count = n]
  BY Zenon
<1>4. r \in Records
  BY <1>3, Zenon DEF Records
<1>5. CASE ~old.live
  BY <1>1, <1>5, Zenon DEF MarkDeadLetterReplayed
<1>6. CASE old.live
  <2>1. letters' = [letters EXCEPT ![d] = r]
    BY <1>1, <1>2, <1>3, <1>6, Zenon DEF MarkDeadLetterReplayed
  <2>2. /\ letters' \in Seq(Records) /\ Len(letters') = Len(letters)
        /\ letters'[d] = r /\ \A e \in DOMAIN letters : e # d => letters'[e] = letters[e]
    BY <1>4, <2>1, Changed, Zenon
  <2> QED
    BY <1>1, <1>2, <1>3, <1>6, <2>2, Zenon
<1> QED
  BY <1>5, <1>6, Zenon

(* Marking a replayed record keeps the types. *)
LEMMA BaseMark ==
  ASSUME Base, NEW c \in calls, MarkReplayed(c)
  PROVE  Base'
<1>0. /\ Tables /\ spent \in [Env -> Nat] /\ c \in CallSet /\ Shape(c) /\ c.at \in Nat
      /\ letters \in Seq(Records) /\ Len(msgs) \in Nat /\ Len(letters) \in Nat
  BY DEF Base, Typed, Tables, CallSet
<1>1. c.due = <<>> /\ c.op = "replay" /\ c.on \in DOMAIN letters
  BY <1>0, Zenon DEF MarkReplayed, At, Shape, CallSet
<1>2. letters' \in Seq(Records) /\ Len(letters') = Len(letters)
  BY <1>0, <1>1, MarkedIs, Zenon DEF MarkReplayed
<1>3. spent' \in [Env -> Nat] /\ UNCHANGED <<declared, msgs, events, failed>>
  BY <1>0, SpentIs, Zenon DEF MarkReplayed, Fails, Env, ghosts
<1>4. Tables' /\ Grown
  BY <1>0, <1>2, <1>3 DEF Tables, Grown
<1>5. Succeeds(Ends(c, 202), c) /\ Over(Ends(c, 202))
  BY <1>0, <1>1, Successors DEF Over
<1>6. Continue(c, Ends(c, 202))
  BY Zenon DEF MarkReplayed
<1> QED
  BY <1>3, <1>4, <1>5, <1>6, Continued, Zenon

(* A handler that fails keeps the types. *)
LEMMA BaseHandler ==
  ASSUME Base, NEW c \in calls, NEW kind \in {"handler", "permanent"}, HandlerFails(c, kind)
  PROVE  Base'
<1>0. /\ Tables /\ spent \in [Env -> Nat] /\ c \in CallSet /\ Shape(c)
      /\ failed \in Seq(Nat) /\ Len(failed) = Len(msgs) /\ msgs \in Seq(MsgRows)
      /\ Len(msgs) \in Nat /\ Len(letters) \in Nat
  BY DEF Base, Typed, Tables
<1>1. c.op = "delivery" /\ c.on \in DOMAIN failed /\ c.on \in DOMAIN msgs
  BY <1>0 DEF HandlerFails, At, Shape, CallSet
<1>2. PICK n \in Nat : n = failed[c.on] + 1
  BY <1>0, <1>1
<1>3. failed' = [failed EXCEPT ![c.on] = n]
  BY <1>2, Zenon DEF HandlerFails
<1>4. failed' \in Seq(Nat) /\ Len(failed') = Len(failed)
  BY <1>0, <1>1, <1>3, ExceptIs
<1>5. UNCHANGED <<declared, msgs, letters, events, spent>>
  BY Zenon DEF HandlerFails, tables
<1>6. Tables' /\ Grown /\ spent' \in [Env -> Nat]
  BY <1>0, <1>4, <1>5 DEF Tables, Grown
<1>7. PICK pc : pc = IF kind # "permanent" /\ ShouldRetry(c.attempt) THEN "retry" ELSE "first"
  BY Zenon
<1>8. pc \in {"retry", "first"}
  BY <1>7, Zenon
<1>9. PICK d : d = [c EXCEPT !.pc = pc, !.kind = kind, !.at = n]
  BY Zenon
<1>10. Succeeds(d, c) /\ d.pc = pc
  BY <1>0, <1>8, <1>9, Zenon DEF Succeeds, CallSet, Pcs, Kinds
<1>11. Continue(c, d)
  BY <1>2, <1>7, <1>9, Zenon DEF HandlerFails
<1>12. Shape(d)'
  BY <1>0, <1>1, <1>5, <1>8, <1>10, Zenon DEF Shape, Succeeds
<1> QED
  BY <1>6, <1>10, <1>11, <1>12, Continued, Zenon

(* firstFailureAt is the time of an event, or the fallback. *)
LEMMA FirstFailureIs ==
  ASSUME events \in Seq(Seq(History)), NEW m \in DOMAIN events, NEW n \in Nat
  PROVE  /\ FirstFailureAt(m, n) \in Nat
         /\ \/ /\ FirstFailureAt(m, n) = n
               /\ \A i \in DOMAIN events[m] : events[m][i].to # "RETRYING"
            \/ \E i \in DOMAIN events[m] :
                 /\ events[m][i].to = "RETRYING" /\ FirstFailureAt(m, n) = events[m][i].at
                 /\ \A j \in DOMAIN events[m] : events[m][j].to = "RETRYING" => i <= j
<1>1. PICK h \in Seq(History) : h = events[m]
  OBVIOUS
<1>2. \A i \in DOMAIN h : h[i] \in History /\ h[i].at \in Nat /\ h[i].to # "FAILED"
  <2>1. \A e \in History : e.at \in Nat /\ e.to # "FAILED"
    BY Zenon DEF History, States
  <2>2. \A i \in DOMAIN h : h[i] \in History
    OBVIOUS
  <2> QED
    BY <2>1, <2>2, Zenon
<1>3. PICK F : F = {i \in DOMAIN h : h[i].to \in {"RETRYING", "FAILED"}}
  BY Zenon
<1>4. FirstFailureAt(m, n) = IF F = {} THEN n ELSE h[Min(F)].at
  BY <1>1, <1>3, Zenon DEF FirstFailureAt
<1>5. \A i \in DOMAIN h : i \in F <=> h[i].to = "RETRYING"
  BY <1>2, <1>3, Zenon
<1>6. F \in SUBSET Nat /\ F \subseteq DOMAIN h
  BY <1>3
<1>7. CASE F = {}
  <2>1. FirstFailureAt(m, n) = n
    BY <1>4, <1>7, Zenon
  <2>2. \A i \in DOMAIN h : h[i].to # "RETRYING"
    BY <1>5, <1>7, Zenon
  <2> QED
    BY <1>1, <2>1, <2>2, Zenon
<1>8. CASE F # {}
  <2>1. PICK i : i = Min(F)
    BY Zenon
  <2>2. i \in F /\ \A j \in F : i <= j
    BY <1>6, <1>8, <2>1, MinIs, Zenon
  <2>3. FirstFailureAt(m, n) = h[i].at
    BY <1>4, <1>8, <2>1, Zenon
  <2> QED
    BY <1>1, <1>2, <1>5, <1>6, <2>2, <2>3, Zenon
<1> QED
  BY <1>7, <1>8, Zenon

(* Reading the history and saving the dead letter keep the types. *)
LEMMA BaseDeadLetter ==
  ASSUME Base, NEW c \in calls, ReadHistory(c) \/ SaveDeadLetter(c)
  PROVE  Base'
<1>0. /\ Tables /\ spent \in [Env -> Nat] /\ c \in CallSet /\ Shape(c)
      /\ msgs \in Seq(MsgRows) /\ letters \in Seq(Records) /\ events \in Seq(Seq(History))
      /\ Len(events) = Len(msgs) /\ Len(msgs) \in Nat /\ Len(letters) \in Nat
  BY DEF Base, Typed, Tables
<1>1. c.op \in {"delivery", "reclaim"} /\ c.on \in DOMAIN msgs /\ c.on \in DOMAIN events /\ c.due = <<>>
  BY <1>0 DEF ReadHistory, SaveDeadLetter, At, Shape, CallSet
<1>2. spent' \in [Env -> Nat] /\ UNCHANGED <<declared, msgs, events, failed>>
  BY <1>0, SpentIs, Zenon DEF ReadHistory, SaveDeadLetter, Fails, Env, tables, ghosts
<1>3. CASE ReadHistory(c)
  <2>1. Tables' /\ Grown /\ letters' = letters
    <3>1. letters' = letters
      BY <1>3, Zenon DEF ReadHistory, tables
    <3> QED
      BY <1>0, <1>2, <3>1 DEF Tables, Grown
  <2>2. c.at \in Nat
    BY <1>0, Zenon DEF CallSet
  <2>3. PICK n \in Nat : Continue(c, [c EXCEPT !.pc = "save", !.first = n])
    BY <1>0, <1>1, <1>3, <2>2, FirstFailureIs, Zenon DEF ReadHistory
  <2>4. PICK d : d = [c EXCEPT !.pc = "save", !.first = n]
    BY Zenon
  <2>5. Succeeds(d, c) /\ d.pc = "save"
    BY <1>0, <2>4, Zenon DEF Succeeds, CallSet, Pcs
  <2>6. Shape(d)'
    BY <1>0, <1>1, <1>2, <2>5, Zenon DEF Shape, Succeeds
  <2> QED
    BY <1>2, <2>1, <2>3, <2>4, <2>5, <2>6, Continued, Zenon
<1>4. CASE SaveDeadLetter(c)
  <2>1. PICK r : r = Letter(c.on, msgs[c.on].queue, msgs[c.on].pub, c.attempt, c.kind, c.first)
    BY Zenon
  <2>2. r \in Records
    <3>1. PICK row \in MsgRows : row = msgs[c.on]
      BY <1>0, <1>1
    <3>2. row.queue \in Queues /\ row.pub \in Pubs
      BY Zenon DEF MsgRows
    <3>3. c.on \in Nat /\ c.attempt \in Nat /\ c.kind \in Kinds /\ c.first \in Nat
      BY <1>0, <1>1 DEF CallSet
    <3> QED
      BY <2>1, <3>1, <3>2, <3>3, Zenon DEF Letter, Records
  <2>3. letters' \in Seq(Records) /\ Len(letters') >= Len(letters)
    BY <1>0, <1>4, <2>1, <2>2, Saved DEF SaveDeadLetter
  <2>4. Tables' /\ Grown
    BY <1>0, <1>2, <2>3 DEF Tables, Grown
  <2>5. PICK d : d = [c EXCEPT !.pc = "mark"]
    BY Zenon
  <2>6. Succeeds(d, c) /\ d.pc = "mark"
    BY <1>0, <2>5, Zenon DEF Succeeds, CallSet, Pcs
  <2>7. Shape(d)'
    BY <1>0, <1>1, <1>2, <2>6, Zenon DEF Shape, Succeeds
  <2>8. Succeeds(End(c), c) /\ Over(End(c))
    BY <1>0, <1>1, Successors, Zenon DEF Over
  <2>9. Continue(c, d) \/ Continue(c, End(c))
    BY <1>4, <2>5, Zenon DEF SaveDeadLetter
  <2> QED
    BY <1>2, <2>4, <2>6, <2>7, <2>8, <2>9, Continued, Zenon
<1> QED
  BY <1>3, <1>4, Zenon

(* A queue that is deleted takes its messages with it, not their rows. *)
LEMMA DeletedIs ==
  ASSUME msgs \in Seq(MsgRows), NEW q, DeleteQueue(q)
  PROVE  /\ msgs' \in Seq(MsgRows) /\ Len(msgs') = Len(msgs) /\ DOMAIN msgs' = DOMAIN msgs
         /\ \A m \in DOMAIN msgs :
              msgs'[m] = msgs[m] \/ msgs'[m] = [msgs[m] EXCEPT !.live = FALSE]
<1>1. PICK n \in Nat : n = Len(msgs) /\ DOMAIN msgs = 1 .. n
  OBVIOUS
<1>2. \A m \in 1 .. n : msgs[m] \in MsgRows
  BY <1>1
<1>3. \A r \in MsgRows : [r EXCEPT !.live = FALSE] \in MsgRows
  BY Zenon DEF MsgRows
<1>4. msgs' = [m \in 1 .. n |-> IF msgs[m].queue # q THEN msgs[m]
                                ELSE [msgs[m] EXCEPT !.live = FALSE]]
  BY <1>1, Zenon DEF DeleteQueue
<1>5. \A m \in 1 .. n : msgs'[m] \in MsgRows
                          /\ (msgs'[m] = msgs[m] \/ msgs'[m] = [msgs[m] EXCEPT !.live = FALSE])
  BY <1>2, <1>3, <1>4, Zenon
<1>6. PICK f : f = msgs'
  BY Zenon
<1>7. f \in [1 .. n -> MsgRows]
  BY <1>4, <1>5, <1>6, Zenon
<1>8. f \in Seq(MsgRows) /\ Len(f) = n /\ DOMAIN f = 1 .. n
  BY <1>7
<1> QED
  BY <1>1, <1>5, <1>6, <1>8, Zenon

(* The types are right and the calls have their shape, always. *)
LEMMA BaseAlways == Spec => []Base
<1>1. ASSUME Base, [Next]_vars
      PROVE  Base'
  <2>0. /\ Tables /\ spent \in [Env -> Nat] /\ msgs \in Seq(MsgRows)
        /\ calls \subseteq CallSet /\ replies \in [Callers -> Answers]
        /\ Alone /\ \A e \in calls : Shape(e) /\ Len(msgs) \in Nat /\ Len(letters) \in Nat
    BY <1>1 DEF Base, Typed, Tables
  <2>1. ASSUME NEW q \in Queues, DeleteQueue(q)
        PROVE  Base'
    <3>1. msgs' \in Seq(MsgRows) /\ Len(msgs') = Len(msgs)
      BY <2>0, <2>1, DeletedIs, Zenon
    <3>2. UNCHANGED <<letters, events, calls, replies, failed>> /\ declared' \subseteq Queues
      BY <2>0, <2>1, Zenon DEF DeleteQueue, ghosts, Tables
    <3>3. spent' \in [Env -> Nat]
      BY <2>0, <2>1, SpentIs, Zenon DEF DeleteQueue, Env
    <3>4. Tables' /\ Grown
      BY <2>0, <3>1, <3>2 DEF Tables, Grown
    <3>5. \A e \in calls' : Shape(e)'
      BY <2>0, <3>2, <3>4, ShapeKept, Zenon
    <3>6. Alone'
      BY <2>0, <3>2, Zenon DEF Alone
    <3> QED
      BY <2>0, <3>2, <3>3, <3>4, <3>5, <3>6, Zenon DEF Base, Typed, Tables
  <2>2. ASSUME Crash
        PROVE  Base'
    <3>1. calls' = {} /\ UNCHANGED <<declared, msgs, letters, events, failed>>
      BY <2>2, Zenon DEF Crash, tables, ghosts
    <3>2. spent' \in [Env -> Nat]
      BY <2>0, <2>2, SpentIs, Zenon DEF Crash, Env
    <3>3. [Idle EXCEPT !.op = "lost"] \in Answers
      BY Zenon DEF Idle, Answers
    <3>4. replies' \in [Callers -> Answers]
      BY <2>0, <2>2, <3>3, Zenon DEF Crash
    <3> QED
      BY <2>0, <3>1, <3>2, <3>4, Zenon DEF Base, Typed, Tables, Alone
  <2>3. ASSUME UNCHANGED vars
        PROVE  Base'
    <3>1. UNCHANGED <<declared, msgs, letters, events, calls, replies, failed, spent>>
      BY <2>3, Zenon DEF vars, tables, ghosts
    <3>2. \A e \in calls' : Shape(e)'
      BY <2>0, <3>1, Zenon DEF Shape
    <3> QED
      BY <2>0, <3>1, <3>2, Zenon DEF Base, Typed, Tables, Alone
  <2>4. ASSUME NEW c \in calls, Acknowledge(c) \/ ScheduleRetry(c) \/ Release(c) \/ MarkDeadLettered(c)
        PROVE  Base'
    BY <1>1, <2>4, BaseSettle, Zenon DEF Acknowledge, ScheduleRetry, Release, MarkDeadLettered, States
  <2>5. ASSUME NEW c \in calls,
               \/ RecordHistory(c) \/ AppendPublished(c) \/ AppendReplay(c) \/ MarkReplayed(c)
               \/ (\E kind \in {"handler", "permanent"} : HandlerFails(c, kind))
               \/ ReadHistory(c) \/ SaveDeadLetter(c)
        PROVE  Base'
    BY <1>1, <2>5, BaseRecord, BasePublished, BaseReplay, BaseMark, BaseHandler, BaseDeadLetter, Zenon
  <2> QED
    BY <1>1, <2>1, <2>2, <2>3, <2>4, <2>5, BaseReplied, BaseStarted, Zenon DEF Next
<1> QED
  BY BaseInit, <1>1, PTL DEF Spec
-----------------------------------------------------------------------------
(* The audit trail. *)

(* What may become of a record in one step. *)
RecordKept(old, new) ==
    /\ new = [old EXCEPT !.live = new.live, !.count = new.count, !.replayedAs = new.replayedAs]
    /\ new.count \in {old.count, old.count + 1}

LEMMA RecordChanges ==
  ASSUME NEW old \in Records
  PROVE  /\ RecordKept(old, old)
         /\ LET new == [old EXCEPT !.live = FALSE]
            IN  RecordKept(old, new) /\ new.live = FALSE
BY Zenon DEF RecordKept, Records

(* The actions that write dead letters. *)
Parks(p)  == \E a \in Callers : Reject(a, p)
Marks     == \E c \in calls : MarkReplayed(c)
Discards  == \E a \in Callers, d \in DOMAIN letters : Discard(a, d)
Letters   == (\E p \in Pubs : Parks(p)) \/ Marks \/ Discards \/ \E c \in calls : SaveDeadLetter(c)

LEMMA LettersUnwritten ==
  ASSUME [Next]_vars, ~Letters
  PROVE  letters' = letters
BY Zenon DEF Next, Letters, Parks, Marks, Discards, Unroutable, Publish, Replay, Claim, Reclaim,
       RecordHistory, AppendPublished, AppendReplay, HandlerFails, Acknowledge, ScheduleRetry,
       Release, MarkDeadLettered, Settle, ReadHistory, DeleteQueue, Crash, vars, tables

(* What a step may make of a dead letter. *)
LEMMA LetterStep ==
  ASSUME Base, [Next]_vars, NEW d \in DOMAIN letters
  PROVE  /\ RecordKept(letters[d], letters'[d])
         /\ letters'[d].live # letters[d].live => letters[d].live /\ \E a \in Callers :
              replies'[a] # replies[a] /\ replies'[a].status = 204
<1>0. /\ letters \in Seq(Records) /\ Len(letters) \in Nat /\ DOMAIN letters = 1 .. Len(letters)
      /\ letters[d] \in Records /\ calls \subseteq CallSet /\ \A c \in calls : Shape(c)
      /\ replies \in [Callers -> Answers] /\ msgs \in Seq(MsgRows)
  BY DEF Base, Typed
<1>1. CASE letters'[d] = letters[d]
  BY <1>0, <1>1, RecordChanges, Zenon
<1>2. ASSUME NEW a \in Callers, NEW p \in Pubs, Reject(a, p)
      PROVE  letters'[d] = letters[d]
  <2>1. Letter(0, Routed(p)[Min(Rejecting(p))], p, 0, "validation", 0) \in Records
    BY <1>2, RejectingIs, Zenon DEF Letter, Records, Kinds, Reject
  <2> QED
    BY <1>0, <1>2, <2>1, Saved, Zenon DEF Reject
<1>3. ASSUME NEW c \in calls, SaveDeadLetter(c)
      PROVE  letters'[d] = letters[d]
  <2>1. c \in CallSet /\ Shape(c) /\ c.on \in DOMAIN msgs
    BY <1>0, <1>3, Zenon DEF SaveDeadLetter, At, Shape, CallSet
  <2>2. PICK row \in MsgRows : row = msgs[c.on]
    BY <1>0, <2>1
  <2>3. row.queue \in Queues /\ row.pub \in Pubs
    BY Zenon DEF MsgRows
  <2>4. c.on \in Nat /\ c.attempt \in Nat /\ c.kind \in Kinds /\ c.first \in Nat
    BY <1>0, <2>1 DEF CallSet
  <2>5. Letter(c.on, msgs[c.on].queue, msgs[c.on].pub, c.attempt, c.kind, c.first) \in Records
    BY <2>2, <2>3, <2>4, Zenon DEF Letter, Records
  <2> QED
    BY <1>0, <1>3, <2>5, Saved, Zenon DEF SaveDeadLetter
<1>4. ASSUME NEW c \in calls, MarkReplayed(c)
      PROVE  RecordKept(letters[d], letters'[d]) /\ letters'[d].live = letters[d].live
  <2>1. c.on \in DOMAIN letters /\ c.at \in Nat
    BY <1>0, <1>4, Zenon DEF MarkReplayed, At, Shape, CallSet
  <2>2. letters' = letters \/ MarkDeadLetterReplayed(c.on, c.at)
    BY <1>4, Zenon DEF MarkReplayed
  <2>3. \/ letters'[d] = letters[d]
        \/ letters'[d] = [letters[d] EXCEPT !.replayedAs = c.at, !.count = letters[d].count + 1]
    BY <1>0, <2>1, <2>2, MarkedIs, Zenon
  <2>4. PICK old \in Records : old = letters[d]
    BY <1>0, Zenon
  <2>5. PICK m \in Nat : m = c.at
    BY <2>1, Zenon
  <2>6. letters'[d] = old \/ letters'[d] = [old EXCEPT !.replayedAs = m, !.count = old.count + 1]
    BY <2>3, <2>4, <2>5, Zenon
  <2>7. PICK new : new = letters'[d]
    BY Zenon
  <2>8. RecordKept(old, new) /\ new.live = old.live
    <3>1. CASE new = old
      BY <3>1, RecordChanges, Zenon
    <3>2. CASE new = [old EXCEPT !.replayedAs = m, !.count = old.count + 1]
      BY <3>2, Zenon DEF RecordKept, Records
    <3> QED
      BY <2>6, <2>7, <3>1, <3>2, Zenon
  <2> QED
    BY <2>4, <2>7, <2>8, Zenon
<1>5. ASSUME NEW a \in Callers, NEW e \in DOMAIN letters, Discard(a, e), letters'[d] # letters[d]
      PROVE  /\ RecordKept(letters[d], letters'[d])
             /\ letters'[d].live # letters[d].live => letters[d].live /\ \E b \in Callers :
                  replies'[b] # replies[b] /\ replies'[b].status = 204
  <2>1. letters[e] \in Records
    BY <1>0
  <2>2. [letters[e] EXCEPT !.live = FALSE] \in Records
    BY <2>1, Zenon DEF Records
  <2>3. DeleteDeadLetter(e) /\ Reply(a, "discard", e, IF letters[e].live THEN 204 ELSE StatusOf.missing)
    BY <1>5, Zenon DEF Discard
  <2>4. e = d /\ letters'[d] = [letters[d] EXCEPT !.live = FALSE]
    BY <1>0, <1>5, <2>2, <2>3, Changed, Zenon DEF DeleteDeadLetter
  <2>5. RecordKept(letters[d], letters'[d]) /\ letters'[d].live = FALSE
    BY <1>0, <2>4, RecordChanges, Zenon
  <2>6. ASSUME letters[d].live
        PROVE  replies'[a] # replies[a] /\ replies'[a].status = 204
    <3>1. replies' = [replies EXCEPT ![a] = [status |-> 204, op |-> "discard", on |-> e]]
      BY <2>3, <2>4, <2>6, Zenon DEF Reply
    <3>2. replies[a].status = 0
      BY <1>5 DEF Discard, MayStart, Idle
    <3> QED
      BY <1>0, <3>1, <3>2
  <2>7. letters[d].live \in BOOLEAN
    BY <1>0, Zenon DEF Records
  <2> QED
    BY <2>5, <2>6, <2>7, Zenon
<1> QED
  BY <1>1, <1>2, <1>3, <1>4, <1>5, LettersUnwritten, Zenon DEF Letters, Parks, Marks, Discards

(* A dead letter is written once, marked and discarded; nothing else: the  *)
(* engine keeps the audit trail whatever is replayed, fails or is deleted. *)
THEOREM LettersStay == Spec => LettersKept
<1>1. Base /\ [Next]_vars => [\A d \in DOMAIN letters :
         LET old == letters[d] new == letters'[d] IN
         /\ new = [old EXCEPT !.live = new.live, !.count = new.count,
                              !.replayedAs = new.replayedAs]
         /\ new.count \in {old.count, old.count + 1}
         /\ new.live # old.live => old.live /\ \E a \in Callers :
              replies'[a] # replies[a] /\ replies'[a].status = 204]_vars
  BY LetterStep, Zenon DEF RecordKept
<1> QED
  BY <1>1, BaseAlways, PTL DEF Spec, LettersKept
-----------------------------------------------------------------------------
(* What a step does to the rows of the messages. *)

(* What never changes of a message. *)
SameRow(old, new) ==
    new.queue = old.queue /\ new.pub = old.pub /\ new.by = old.by /\ new.replayOf = old.replayOf

(* The step appends the rows of a call, and the call goes on; or it fails. *)
Publishes(c) ==
    /\ At(c, "append") /\ c.op = "publish" /\ Works /\ AppendRows(PublishedRows(c))
    /\ Continue(c, [Ends(c, 202) EXCEPT !.due = Queued(PublishedRows(c))])
    /\ UNCHANGED <<declared, letters, overtaken>>
Replays(c) ==
    /\ At(c, "append") /\ c.op = "replay" /\ Works /\ AppendRows(<<ReplayRow(c)>>)
    /\ Continue(c, [c EXCEPT !.pc = "replayed", !.at = Len(msgs) + 1,
                             !.due = Queued(<<ReplayRow(c)>>)])
    /\ UNCHANGED <<declared, letters, overtaken>>
Writes(c) == Publishes(c) \/ Replays(c)
AppendFails(c) ==
    /\ At(c, "append") /\ Fails /\ Continue(c, Ends(c, 500))
    /\ UNCHANGED <<declared, tables, ghosts>>

LEMMA Appends ==
  ASSUME NEW c, AppendPublished(c) \/ AppendReplay(c)
  PROVE  Writes(c) \/ AppendFails(c)
BY DEF AppendPublished, AppendReplay, Writes, Publishes, Replays, AppendFails, PublishedRows,
       ReplayRow, StatusOf, tables, ghosts

(* A row that is written keeps its queue, its publication and its origin.  *)
LEMMA RowsKept ==
  ASSUME Base, [Next]_vars, \A c \in calls : ~Writes(c)
  PROVE  /\ Len(msgs') = Len(msgs) /\ DOMAIN msgs' = DOMAIN msgs
         /\ \A m \in DOMAIN msgs : SameRow(msgs[m], msgs'[m])
<1>0. /\ msgs \in Seq(MsgRows) /\ DOMAIN msgs = 1 .. Len(msgs) /\ Len(msgs) \in Nat
      /\ calls \subseteq CallSet /\ \A c \in calls : Shape(c)
  BY DEF Base, Typed
<1>1. ASSUME msgs' = msgs
      PROVE  /\ Len(msgs') = Len(msgs) /\ DOMAIN msgs' = DOMAIN msgs
             /\ \A m \in DOMAIN msgs : SameRow(msgs[m], msgs'[m])
  BY <1>1, Zenon DEF SameRow
<1>2. ASSUME NEW c \in calls, NEW pc \in {"handle", "retry", "release", "mark"},
             NEW s \in States, Settle(c, pc, s)
      PROVE  /\ Len(msgs') = Len(msgs) /\ DOMAIN msgs' = DOMAIN msgs
             /\ \A m \in DOMAIN msgs : SameRow(msgs[m], msgs'[m])
  <2>1. c.op \in {"delivery", "reclaim"} /\ c.on \in DOMAIN msgs
    BY <1>0, <1>2, Zenon DEF Settle, At, Shape, CallSet
  <2>2. CASE Become(c.on, s)
    <3>1. /\ Len(msgs') = Len(msgs) /\ DOMAIN msgs' = DOMAIN msgs
          /\ msgs'[c.on] = [msgs[c.on] EXCEPT !.state = s]
          /\ \A n \in DOMAIN msgs : n # c.on => msgs'[n] = msgs[n]
      BY <1>0, <2>1, <2>2, Became, Zenon
    <3>2. PICK old \in MsgRows : old = msgs[c.on]
      BY <1>0, <2>1
    <3>3. SameRow(old, [old EXCEPT !.state = s])
      BY Zenon DEF SameRow, MsgRows
    <3>4. \A m \in DOMAIN msgs : m # c.on => SameRow(msgs[m], msgs'[m])
      BY <3>1, Zenon DEF SameRow
    <3> QED
      BY <3>1, <3>2, <3>3, <3>4, Zenon
  <2> QED
    BY <1>1, <1>2, <2>2, Zenon DEF Settle
<1>3. ASSUME NEW m \in DOMAIN msgs, Claim(m)
      PROVE  /\ Len(msgs') = Len(msgs) /\ DOMAIN msgs' = DOMAIN msgs
             /\ \A n \in DOMAIN msgs : SameRow(msgs[n], msgs'[n])
  <2>1. PICK old \in MsgRows : old = msgs[m]
    BY <1>0
  <2>2. PICK k \in Nat : k = old.attempts + 1
    BY DEF MsgRows
  <2>3. PICK row : row = [old EXCEPT !.state = "PROCESSING", !.attempts = k]
    BY Zenon
  <2>4. row \in MsgRows /\ SameRow(old, row)
    BY <2>3, Zenon DEF MsgRows, SameRow, States
  <2>5. msgs' = [msgs EXCEPT ![m] = row]
    BY <1>3, <2>1, <2>2, <2>3, Zenon DEF Claim
  <2>6. /\ msgs' \in Seq(MsgRows) /\ Len(msgs') = Len(msgs)
        /\ msgs'[m] = row /\ \A n \in DOMAIN msgs : n # m => msgs'[n] = msgs[n]
    BY <1>0, <2>4, <2>5, ExceptIs
  <2>7. DOMAIN msgs' = DOMAIN msgs
    BY <2>5, Zenon
  <2>8. \A n \in DOMAIN msgs : n # m => SameRow(msgs[n], msgs'[n])
    BY <2>6, Zenon DEF SameRow
  <2> QED
    BY <2>1, <2>4, <2>6, <2>7, <2>8, Zenon
<1>4. ASSUME NEW q \in Queues, DeleteQueue(q)
      PROVE  /\ Len(msgs') = Len(msgs) /\ DOMAIN msgs' = DOMAIN msgs
             /\ \A n \in DOMAIN msgs : SameRow(msgs[n], msgs'[n])
  <2>1. /\ Len(msgs') = Len(msgs) /\ DOMAIN msgs' = DOMAIN msgs
        /\ \A m \in DOMAIN msgs :
              msgs'[m] = msgs[m] \/ msgs'[m] = [msgs[m] EXCEPT !.live = FALSE]
    BY <1>0, <1>4, DeletedIs, Zenon
  <2>2. ASSUME NEW m \in DOMAIN msgs
        PROVE  SameRow(msgs[m], msgs'[m])
    <3>1. PICK old \in MsgRows : old = msgs[m]
      BY <1>0
    <3>2. SameRow(old, old) /\ SameRow(old, [old EXCEPT !.live = FALSE])
      BY Zenon DEF SameRow, MsgRows
    <3> QED
      BY <2>1, <3>1, <3>2, Zenon
  <2> QED
    BY <2>1, <2>2, Zenon
<1>5. ASSUME NEW c \in calls, AppendPublished(c) \/ AppendReplay(c)
      PROVE  msgs' = msgs
  BY <1>5, Appends, Zenon DEF AppendFails, tables
<1>6. ASSUME NEW c \in calls, Acknowledge(c) \/ ScheduleRetry(c) \/ Release(c) \/ MarkDeadLettered(c)
      PROVE  \E pc \in {"handle", "retry", "release", "mark"}, s \in States : Settle(c, pc, s)
  BY <1>6, Zenon DEF Acknowledge, ScheduleRetry, Release, MarkDeadLettered, States
<1>7. CASE UNCHANGED vars
  BY <1>1, <1>7, Zenon DEF vars, tables
<1>8. ASSUME NEW a \in Callers,
             \/ \E p \in Pubs : Unroutable(a, p) \/ Reject(a, p) \/ Publish(a, p)
             \/ \E d \in DOMAIN letters : Replay(a, d) \/ Discard(a, d)
      PROVE  msgs' = msgs
  BY <1>8, Zenon DEF Unroutable, Reject, Publish, Replay, Discard, tables
<1>9. ASSUME NEW c \in calls,
               \/ RecordHistory(c) \/ MarkReplayed(c)
               \/ (\E kind \in {"handler", "permanent"} : HandlerFails(c, kind))
               \/ ReadHistory(c) \/ SaveDeadLetter(c)
      PROVE  msgs' = msgs
  BY <1>9, Zenon DEF RecordHistory, MarkReplayed, HandlerFails, ReadHistory, SaveDeadLetter, tables
<1>10. ASSUME Crash \/ \E m \in DOMAIN msgs : Reclaim(m)
       PROVE  msgs' = msgs
  BY <1>10, Zenon DEF Crash, Reclaim, tables
<1>11. ASSUME msgs' # msgs
       PROVE  \/ \E c \in calls, pc \in {"handle", "retry", "release", "mark"}, s \in States :
                   Settle(c, pc, s)
              \/ \E m \in DOMAIN msgs : Claim(m)
              \/ \E q \in Queues : DeleteQueue(q)
  BY <1>5, <1>6, <1>7, <1>8, <1>9, <1>10, <1>11, Zenon DEF Next, vars, tables
<1> QED
  BY <1>1, <1>2, <1>3, <1>4, <1>11, Zenon

(* The rows that are new, and the call they are written for. *)
LEMMA Published ==
  ASSUME Base, NEW c \in calls, Publishes(c)
  PROVE  /\ c \in CallSet /\ c.op = "publish" /\ c.by \in Callers /\ c.on \in Pubs
         /\ c.queues \in Seq(Queues)
         /\ msgs' \in Seq(MsgRows) /\ Len(msgs') = Len(msgs) + Len(c.queues)
         /\ \A m \in 1 .. Len(msgs) : msgs'[m] = msgs[m]
         /\ \A i \in 1 .. Len(c.queues) : msgs'[Len(msgs) + i] = Row(c.queues[i], c.on, c.by, 0)
         /\ \E d \in CallSet :
              /\ Succeeds(d, c) /\ d.pc = "end" /\ d.status = 202 /\ d.due \in Seq(History)
              /\ Len(d.due) = Len(c.queues) /\ Continue(c, d)
              /\ \A i \in 1 .. Len(c.queues) : d.due[i] = Event(Len(msgs) + i, "QUEUED", 0)
<1>0. c \in CallSet /\ Shape(c) /\ msgs \in Seq(MsgRows) /\ Typed
  BY Zenon DEF Base, Typed
<1>1. c.op = "publish" /\ c.by \in Callers /\ c.on \in Pubs /\ c.queues \in Seq(Queues)
  BY <1>0, Zenon DEF Publishes, Shape, CallSet
<1>2. PICK rows : rows = PublishedRows(c)
  BY Zenon
<1>3. rows \in Seq(MsgRows) /\ Len(rows) = Len(c.queues) /\ Len(rows) \in Nat
  BY <1>1, <1>2, RowsAre
<1>4. AppendRows(rows)
  BY <1>2, Zenon DEF Publishes
<1>5. /\ msgs' \in Seq(MsgRows) /\ Len(msgs') = Len(msgs) + Len(rows)
      /\ \A m \in 1 .. Len(msgs) : msgs'[m] = msgs[m]
      /\ \A i \in 1 .. Len(rows) : msgs'[Len(msgs) + i] = rows[i]
  BY <1>0, <1>3, <1>4, RowsAppended, Zenon
<1>6. \A i \in 1 .. Len(c.queues) : rows[i] = Row(c.queues[i], c.on, c.by, 0)
  <2>1. PICK qs \in Seq(Queues) : qs = c.queues
    BY <1>1, Zenon
  <2>2. rows = [i \in DOMAIN qs |-> Row(qs[i], c.on, c.by, 0)]
    BY <1>2, <2>1, Zenon DEF PublishedRows
  <2> QED
    BY <2>1, <2>2
<1>7. PICK t : t = Queued(rows)
  BY Zenon
<1>8. /\ t \in Seq(History) /\ Len(t) = Len(rows)
      /\ \A i \in 1 .. Len(rows) : t[i] = Event(Len(msgs) + i, "QUEUED", 0)
  BY <1>0, <1>3, <1>7, QueuedIs, Zenon
<1>9. PICK e : e = Ends(c, 202)
  BY Zenon
<1>10. e \in CallSet /\ Succeeds(e, c) /\ e.pc = "end" /\ e.status = 202
  BY <1>0, <1>9, Successors DEF Succeeds
<1>11. PICK d : d = [e EXCEPT !.due = t]
  BY Zenon
<1>12. d \in CallSet /\ Succeeds(d, c) /\ d.pc = "end" /\ d.status = 202 /\ d.due = t
  BY <1>8, <1>10, <1>11, Zenon DEF Succeeds, CallSet
<1>13. Continue(c, d)
  BY <1>2, <1>7, <1>9, <1>11, Zenon DEF Publishes
<1>14. /\ d.due \in Seq(History) /\ Len(d.due) = Len(c.queues)
       /\ \A i \in 1 .. Len(c.queues) : d.due[i] = Event(Len(msgs) + i, "QUEUED", 0)
  BY <1>3, <1>8, <1>12, Zenon
<1>15. /\ Len(msgs') = Len(msgs) + Len(c.queues)
       /\ \A i \in 1 .. Len(c.queues) : msgs'[Len(msgs) + i] = Row(c.queues[i], c.on, c.by, 0)
  BY <1>3, <1>5, <1>6, Zenon
<1>16. \E d0 \in CallSet :
         /\ Succeeds(d0, c) /\ d0.pc = "end" /\ d0.status = 202 /\ d0.due \in Seq(History)
         /\ Len(d0.due) = Len(c.queues) /\ Continue(c, d0)
         /\ \A i \in 1 .. Len(c.queues) : d0.due[i] = Event(Len(msgs) + i, "QUEUED", 0)
  BY <1>12, <1>13, <1>14, Zenon
<1> QED
  BY <1>0, <1>1, <1>5, <1>15, <1>16, Zenon

LEMMA Replayed ==
  ASSUME Base, NEW c \in calls, Replays(c)
  PROVE  /\ c \in CallSet /\ c.op = "replay" /\ c.by \in Callers /\ c.on \in DOMAIN letters
         /\ msgs' \in Seq(MsgRows) /\ Len(msgs') = Len(msgs) + 1
         /\ \A m \in 1 .. Len(msgs) : msgs'[m] = msgs[m]
         /\ msgs'[Len(msgs) + 1] = Row(letters[c.on].queue, letters[c.on].pub, c.by, c.on)
         /\ \E d \in CallSet :
              /\ Succeeds(d, c) /\ d.pc = "replayed" /\ d.at = Len(msgs) + 1
              /\ d.due \in Seq(History) /\ Len(d.due) = 1
              /\ d.due[1] = Event(Len(msgs) + 1, "QUEUED", 0)
              /\ Continue(c, d)
<1>0. c \in CallSet /\ Shape(c) /\ msgs \in Seq(MsgRows) /\ Typed /\ Len(msgs) \in Nat
  BY DEF Base, Typed
<1>1. c.op = "replay" /\ c.by \in Callers /\ c.on \in DOMAIN letters
  BY <1>0, Zenon DEF Replays, Shape, CallSet
<1>2. PICK row : row = ReplayRow(c)
  BY Zenon
<1>3. row \in MsgRows
  BY <1>1, <1>2, RowsAre, Zenon
<1>4. PICK rows : rows = <<row>>
  BY Zenon
<1>5. rows \in Seq(MsgRows) /\ Len(rows) = 1 /\ rows[1] = row
  BY <1>3, <1>4
<1>6. AppendRows(rows)
  BY <1>2, <1>4, Zenon DEF Replays
<1>7. /\ msgs' \in Seq(MsgRows) /\ Len(msgs') = Len(msgs) + Len(rows)
      /\ \A m \in 1 .. Len(msgs) : msgs'[m] = msgs[m]
      /\ \A i \in 1 .. Len(rows) : msgs'[Len(msgs) + i] = rows[i]
  BY <1>0, <1>5, <1>6, RowsAppended, Zenon
<1>8. msgs'[Len(msgs) + 1] = row
  BY <1>5, <1>7
<1>9. PICK t : t = Queued(rows)
  BY Zenon
<1>10. /\ t \in Seq(History) /\ Len(t) = 1 /\ t[1] = Event(Len(msgs) + 1, "QUEUED", 0)
  BY <1>0, <1>5, <1>9, QueuedIs
<1>11. PICK n \in Nat : n = Len(msgs) + 1
  BY <1>0
<1>12. PICK d : d = [c EXCEPT !.pc = "replayed", !.at = n, !.due = t]
  BY Zenon
<1>13. d \in CallSet /\ Succeeds(d, c) /\ d.pc = "replayed" /\ d.at = n /\ d.due = t
  BY <1>0, <1>10, <1>12, Zenon DEF Succeeds, CallSet, Pcs
<1>14. Continue(c, d)
  BY <1>2, <1>4, <1>9, <1>11, <1>12, Zenon DEF Replays
<1> QED
  BY <1>0, <1>1, <1>2, <1>5, <1>7, <1>8, <1>10, <1>11, <1>13, <1>14, Zenon DEF ReplayRow
-----------------------------------------------------------------------------
(* What a step does to the dead letters, the calls and the failures. *)

(* The records that are saved. *)
ParkedLetter(p) == Letter(0, Routed(p)[Min(Rejecting(p))], p, 0, "validation", 0)
DeadLetter(c)   == Letter(c.on, msgs[c.on].queue, msgs[c.on].pub, c.attempt, c.kind, c.first)

(* A record is only ever added at the end, by a rejected publication or a  *)
(* delivery that failed for good.                                          *)
LEMMA LettersGrow ==
  ASSUME Base, [Next]_vars
  PROVE  \/ Len(letters') = Len(letters) /\ DOMAIN letters' = DOMAIN letters
         \/ \E a \in Callers, p \in Pubs :
              Reject(a, p) /\ ParkedLetter(p) \in Records /\ Save(ParkedLetter(p))
         \/ \E c \in calls : /\ SaveDeadLetter(c) /\ DeadLetter(c) \in Records
                             /\ Save(DeadLetter(c)) /\ c \in CallSet
<1>0. /\ letters \in Seq(Records) /\ Len(letters) \in Nat /\ DOMAIN letters = 1 .. Len(letters)
      /\ calls \subseteq CallSet /\ \A c \in calls : Shape(c)
      /\ msgs \in Seq(MsgRows)
  BY DEF Base, Typed
<1>1. CASE letters' = letters
  BY <1>1, Zenon
<1>2. ASSUME NEW a \in Callers, NEW p \in Pubs, Reject(a, p), letters' # letters
      PROVE  ParkedLetter(p) \in Records /\ Save(ParkedLetter(p))
  BY <1>2, RejectingIs, Zenon DEF Letter, Records, Kinds, Reject, ParkedLetter
<1>3. ASSUME NEW c \in calls, SaveDeadLetter(c), letters' # letters
      PROVE  DeadLetter(c) \in Records /\ Save(DeadLetter(c)) /\ c \in CallSet
  <2>1. c \in CallSet /\ Shape(c) /\ c.on \in DOMAIN msgs
    BY <1>0, <1>3, Zenon DEF SaveDeadLetter, At, Shape, CallSet
  <2>2. PICK row \in MsgRows : row = msgs[c.on]
    BY <1>0, <2>1
  <2>3. row.queue \in Queues /\ row.pub \in Pubs
    BY Zenon DEF MsgRows
  <2>4. c.on \in Nat /\ c.attempt \in Nat /\ c.kind \in Kinds /\ c.first \in Nat
    BY <1>0, <2>1 DEF CallSet
  <2>5. DeadLetter(c) \in Records
    BY <2>2, <2>3, <2>4, Zenon DEF Letter, Records, DeadLetter
  <2> QED
    BY <1>3, <2>1, <2>5, Zenon DEF SaveDeadLetter, DeadLetter
<1>4. ASSUME NEW c \in calls, MarkReplayed(c)
      PROVE  Len(letters') = Len(letters) /\ DOMAIN letters' = DOMAIN letters
  <2>1. c.on \in DOMAIN letters /\ c.at \in Nat
    BY <1>0, <1>4, Zenon DEF MarkReplayed, At, Shape, CallSet
  <2>2. letters' = letters \/ MarkDeadLetterReplayed(c.on, c.at)
    BY <1>4, Zenon DEF MarkReplayed
  <2>3. letters' \in Seq(Records) /\ Len(letters') = Len(letters)
    BY <1>0, <2>1, <2>2, MarkedIs, Zenon
  <2> QED
    BY <1>0, <2>3
<1>5. ASSUME NEW a \in Callers, NEW e \in DOMAIN letters, Discard(a, e)
      PROVE  Len(letters') = Len(letters) /\ DOMAIN letters' = DOMAIN letters
  <2>1. letters[e] \in Records
    BY <1>0
  <2>2. [letters[e] EXCEPT !.live = FALSE] \in Records
    BY <2>1, Zenon DEF Records
  <2>3. letters' \in Seq(Records) /\ Len(letters') = Len(letters)
    BY <1>0, <1>5, <2>2, Changed, Zenon DEF DeleteDeadLetter, Discard
  <2> QED
    BY <1>0, <2>3
<1> QED
  BY <1>1, <1>2, <1>3, <1>4, <1>5, LettersUnwritten, Zenon DEF Letters, Parks, Marks, Discards

(* How the calls change; "replayed" is the only place where a request has  *)
(* written and goes on to another store call.                              *)
LEMMA CallStep ==
  ASSUME Base, [Next]_vars
  PROVE  \/ calls' = calls \/ Crash
         \/ \E d : calls' = calls \cup {d} /\ d.pc # "replayed"
         \/ \E c \in calls : \E d : Continue(c, d) /\ c.pc # "replayed" /\ d.pc # "replayed"
         \/ \E c \in calls : RecordHistory(c) \/ Replays(c) \/ MarkReplayed(c)
<1>0. calls \subseteq CallSet
  BY Zenon DEF Base, Typed
<1>1. ASSUME NEW a \in Callers,
             \/ \E p \in Pubs : Unroutable(a, p) \/ Reject(a, p) \/ Publish(a, p)
             \/ \E d \in DOMAIN letters : Replay(a, d) \/ Discard(a, d)
      PROVE  calls' = calls \/ \E d : calls' = calls \cup {d} /\ d.pc # "replayed"
  <2>1. ASSUME NEW p \in Pubs, Publish(a, p)
        PROVE  \E d : calls' = calls \cup {d} /\ d.pc # "replayed"
    <3>1. PICK d : d = [Call(a, "publish", p, "append") EXCEPT !.queues = Routed(p)]
      BY Zenon
    <3>2. d.pc = "append"
      BY <3>1, Zenon DEF Call
    <3> QED
      BY <2>1, <3>1, <3>2, Zenon DEF Publish
  <2>2. ASSUME NEW e \in DOMAIN letters, Replay(a, e)
        PROVE  calls' = calls \/ \E d : calls' = calls \cup {d} /\ d.pc # "replayed"
    <3>1. PICK d : d = Call(a, "replay", e, "append")
      BY Zenon
    <3>2. d.pc = "append"
      BY <3>1, Zenon DEF Call
    <3> QED
      BY <2>2, <3>1, <3>2, Zenon DEF Replay
  <2> QED
    BY <1>1, <2>1, <2>2, Zenon DEF Unroutable, Reject, Discard
<1>2. ASSUME NEW m \in DOMAIN msgs, Claim(m) \/ Reclaim(m)
      PROVE  \E d : calls' = calls \cup {d} /\ d.pc # "replayed"
  <2>1. CASE Claim(m)
    <3>1. PICK d : d = [Call("worker", "delivery", m, "handle") EXCEPT
             !.attempt = msgs[m].attempts + 1, !.due = <<Event(m, "PROCESSING", 0)>>]
      BY Zenon
    <3>2. d.pc = "handle"
      BY <3>1, Zenon DEF Call
    <3> QED
      BY <2>1, <3>1, <3>2, Zenon DEF Claim
  <2>2. CASE Reclaim(m)
    <3>1. PICK c : c = [Call("reclaimer", "reclaim", m, "release") EXCEPT
                   !.attempt = msgs[m].attempts, !.kind = "lease_expired"]
      BY Zenon
    <3>2. c.pc = "release" /\ [c EXCEPT !.pc = "first", !.at = failed[m] + 1].pc = "first"
      BY <3>1, Zenon DEF Call
    <3>3. \/ calls' = calls \cup {c}
          \/ calls' = calls \cup {[c EXCEPT !.pc = "first", !.at = failed[m] + 1]}
      BY <2>2, <3>1, Zenon DEF Reclaim
    <3> QED
      BY <3>2, <3>3, Zenon
  <2> QED
    BY <1>2, <2>1, <2>2, Zenon
<1>3. ASSUME NEW c \in calls, AppendPublished(c) \/ AppendReplay(c)
      PROVE  \/ \E d : Continue(c, d) /\ c.pc # "replayed" /\ d.pc # "replayed"
             \/ Replays(c)
  <2>1. c.pc = "append" /\ c \in CallSet
    BY <1>0, <1>3, Zenon DEF AppendPublished, AppendReplay, At
  <2>2. CASE Publishes(c)
    BY <2>1, <2>2, Published, Zenon
  <2>3. CASE AppendFails(c)
    BY <2>1, <2>3, Successors DEF AppendFails
  <2> QED
    BY <1>3, <2>2, <2>3, Appends, Zenon DEF Writes
<1>4. ASSUME NEW c \in calls, NEW pc \in {"handle", "retry", "release", "mark"},
             NEW s \in States, Settle(c, pc, s)
      PROVE  \E d : Continue(c, d) /\ c.pc # "replayed" /\ d.pc # "replayed"
  <2>1. c.pc = pc /\ c \in CallSet
    BY <1>0, <1>4, Zenon DEF Settle, At
  <2>2. PICK e : e = End(c)
    BY Zenon
  <2>3. e \in CallSet /\ e.pc = "end"
    BY <2>1, <2>2, Successors, Zenon DEF Succeeds
  <2>4. PICK d : d = [e EXCEPT !.due = <<Event(c.on, s, c.at)>>]
    BY Zenon
  <2>5. d.pc = "end"
    BY <2>3, <2>4, Zenon DEF CallSet
  <2> QED
    BY <1>4, <2>1, <2>2, <2>3, <2>4, <2>5, Zenon DEF Settle
<1>5. ASSUME NEW c \in calls, NEW kind \in {"handler", "permanent"}, HandlerFails(c, kind)
      PROVE  \E d : Continue(c, d) /\ c.pc # "replayed" /\ d.pc # "replayed"
  <2>1. c.pc = "handle" /\ c \in CallSet
    BY <1>0, <1>5, Zenon DEF HandlerFails, At
  <2>2. PICK p \in {"retry", "first"} :
          p = IF kind # "permanent" /\ ShouldRetry(c.attempt) THEN "retry" ELSE "first"
    BY Zenon
  <2>3. PICK d : d = [c EXCEPT !.pc = p, !.kind = kind, !.at = failed[c.on] + 1]
    BY Zenon
  <2>4. d.pc = p
    BY <2>1, <2>3, Zenon DEF CallSet
  <2>5. Continue(c, d)
    BY <1>5, <2>2, <2>3, Zenon DEF HandlerFails
  <2> QED
    BY <2>1, <2>4, <2>5, Zenon
<1>6. ASSUME NEW c \in calls, ReadHistory(c) \/ SaveDeadLetter(c)
      PROVE  \E d : Continue(c, d) /\ c.pc # "replayed" /\ d.pc # "replayed"
  <2>1. c.pc \in {"first", "save"} /\ c \in CallSet
    BY <1>0, <1>6, Zenon DEF ReadHistory, SaveDeadLetter, At
  <2>2. PICK d : /\ Continue(c, d)
                 /\ \/ d = [c EXCEPT !.pc = "save", !.first = FirstFailureAt(c.on, c.at)]
                    \/ d = [c EXCEPT !.pc = "save", !.first = c.at]
                    \/ d = [c EXCEPT !.pc = "mark"]
                    \/ d = End(c)
    BY <1>6, Zenon DEF ReadHistory, SaveDeadLetter
  <2>3. d.pc \in {"save", "mark", "end"}
    BY <2>1, <2>2, Zenon DEF CallSet, End
  <2> QED
    BY <2>1, <2>2, <2>3, Zenon
<1>7. ASSUME NEW c \in calls, Acknowledge(c) \/ ScheduleRetry(c) \/ Release(c) \/ MarkDeadLettered(c)
      PROVE  \E d : Continue(c, d) /\ c.pc # "replayed" /\ d.pc # "replayed"
  BY <1>4, <1>7, Zenon DEF Acknowledge, ScheduleRetry, Release, MarkDeadLettered, States
<1>8. ASSUME (\E q \in Queues : DeleteQueue(q)) \/ UNCHANGED vars
      PROVE  calls' = calls
  BY <1>8, Zenon DEF DeleteQueue, vars
<1> QED
  BY <1>1, <1>2, <1>3, <1>5, <1>6, <1>7, <1>8 DEF Next

(* Once a store call failed or the process was killed it is not Quiet. *)
LEMMA QuietStep ==
  ASSUME Base, [Next]_vars
  PROVE  (Quiet' => Quiet) /\ (Fails => ~Quiet') /\ (Crash => ~Quiet')
<1>0. spent \in [Env -> Nat] /\ "fault" \in Env /\ "crash" \in Env
  BY Zenon DEF Base, Typed, Env
<1>1. UNCHANGED spent \/ \E e \in Env : Spend(e)
  <2>1. ASSUME Works \/ Fails
        PROVE  UNCHANGED spent \/ \E e \in Env : Spend(e)
    BY <1>0, <2>1, Zenon DEF Works, Fails
  <2>2. ASSUME NEW a \in Callers, NEW p \in Pubs, Unroutable(a, p) \/ Reject(a, p) \/ Publish(a, p)
        PROVE  UNCHANGED spent \/ \E e \in Env : Spend(e)
    BY <2>1, <2>2, Zenon DEF Unroutable, Reject, Publish, Works
  <2>3. ASSUME NEW a \in Callers, NEW d \in DOMAIN letters, Replay(a, d) \/ Discard(a, d)
        PROVE  UNCHANGED spent \/ \E e \in Env : Spend(e)
    BY <2>1, <2>3, Zenon DEF Replay, Discard, Works
  <2>4. ASSUME NEW m \in DOMAIN msgs, Claim(m) \/ Reclaim(m)
        PROVE  \E e \in Env : Spend(e)
    BY <2>4, Zenon DEF Claim, Reclaim, Env
  <2>5. ASSUME NEW c \in calls, RecordHistory(c) \/ AppendPublished(c) \/ AppendReplay(c)
                                   \/ MarkReplayed(c) \/ ReadHistory(c) \/ SaveDeadLetter(c)
        PROVE  Works \/ Fails
    BY <2>5, Zenon DEF RecordHistory, AppendPublished, AppendReplay, MarkReplayed, ReadHistory,
                       SaveDeadLetter
  <2>6. ASSUME NEW c \in calls, Acknowledge(c) \/ ScheduleRetry(c) \/ Release(c) \/ MarkDeadLettered(c)
        PROVE  Works \/ Fails
    BY <2>6, Zenon DEF Acknowledge, ScheduleRetry, Release, MarkDeadLettered, Settle
  <2>7. ASSUME NEW c \in calls, NEW kind \in {"handler", "permanent"}, HandlerFails(c, kind)
        PROVE  UNCHANGED spent
    BY <2>7, Zenon DEF HandlerFails
  <2>8. ASSUME NEW q \in Queues, DeleteQueue(q)
        PROVE  \E e \in Env : Spend(e)
    BY <2>8, Zenon DEF DeleteQueue, Env
  <2>9. Crash => Spend("crash")
    BY Zenon DEF Crash
  <2>10. UNCHANGED vars => UNCHANGED spent
    BY Zenon DEF vars
  <2> QED
    BY <1>0, <2>1, <2>2, <2>3, <2>4, <2>5, <2>6, <2>7, <2>8, <2>9, <2>10, Zenon DEF Next
<1>2. spent'["fault"] \in Nat /\ spent'["crash"] \in Nat
  BY <1>0, <1>1, SpentIs, Zenon
<1>3. spent["fault"] <= spent'["fault"] /\ spent["crash"] <= spent'["crash"]
  BY <1>0, <1>1, SpentIs
<1>4. Fails => spent'["fault"] > 0
  BY <1>0, SpentIs DEF Fails
<1>5. Crash => spent'["crash"] > 0
  BY <1>0, SpentIs DEF Crash
<1>6. spent["fault"] \in Nat /\ spent["crash"] \in Nat
  BY <1>0, Zenon
<1> QED
  BY <1>2, <1>3, <1>4, <1>5, <1>6 DEF Quiet
=============================================================================
