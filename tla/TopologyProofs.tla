--------------------------- MODULE TopologyProofs ---------------------------
(***************************************************************************)
(* What the topology promises, for any number of callers, exchanges,       *)
(* queues, publications, crashes, failures and deletions.                  *)
(*                                                                         *)
(* Ground holds of every run: types, and what a request under way is.  On  *)
(* top of it stands one invariant for each property.                       *)
(***************************************************************************)
EXTENDS Topology, FiniteSetTheorems, TLAPS

Rows == [durable : BOOLEAN, timeout : Nat]

Answers == Rows \cup BOOLEAN

Elements(s) == {s[i] : i \in DOMAIN s}

(* A slice of bindings holds a queue once. *)
Distinct(s) == \A i, j \in DOMAIN s : s[i] = s[j] => i = j

Slices == {s \in Seq(Queues) : Distinct(s)}

(* A call is a record; only a repeated Bind points into the slice. *)
Shaped(c) ==
    /\ c = [by |-> c.by, op |-> c.op, on |-> c.on, arg |-> c.arg, slot |-> c.slot]
    /\ c.op # "SaveBinding" => c.slot = 0
    /\ c.op = "Save" => c.on \in Names /\ c.arg \in Specs
    /\ c.op \in {"SaveBinding", "DeleteBinding"} => c.on \in Bindings
    /\ c.op = "SaveBinding" => c.arg \subseteq Bindings
    /\ c.op = "DeleteQueue" => c.on \in Queues
    /\ c.op \in {"Save", "SaveBinding", "DeleteBinding", "DeleteQueue", "Append"}

Typed ==
    /\ registry \in [Names -> Rows] /\ stored \in [Names -> Rows]
    /\ bindings \in [Exchanges -> Slices]
    /\ storedB \subseteq Bindings /\ IsFiniteSet(storedB)
    /\ todo \subseteq DOMAIN Config \cup ConfigBindings
    /\ promise \in [Names \cup Bindings -> SUBSET Answers]
    /\ spent \in [crashes : Nat, failures : Nat, deletes : Nat]

Ground ==
    /\ Typed
    /\ calls # {} => phase = "up"
    /\ \A c \in calls : Shaped(c)
-----------------------------------------------------------------------------
(* Specs and what SaveQueue makes of them are rows. *)
LEMMA SpecsAreRows ==
  Absent \in Rows /\ \A s \in Specs : s \in Rows /\ Saved(s) \in Rows /\ s # Absent
<1>1. ASSUME NEW s \in Specs PROVE s \in Rows /\ Saved(s) \in Rows /\ s # Absent
  <2>1. s \in [durable : BOOLEAN, timeout : Nat \ {0}] /\ Resolution \in Nat \ {0}
    BY TopologyAssumption, Zenon
  <2>2. (s.timeout \div Resolution) * Resolution \in Nat
    BY <2>1
  <2> QED
    BY <2>1, <2>2 DEF Rows, Saved, Absent
<1> QED
  BY <1>1, Zenon DEF Rows, Absent

(* bind of the routing table appends a binding to the slice. *)
LEMMA AppendIs ==
  ASSUME NEW s \in Slices, NEW e \in Queues, e \notin Elements(s)
  PROVE  Append(s, e) \in Slices /\ Elements(Append(s, e)) = Elements(s) \cup {e}
<1>1. s \in Seq(Queues) /\ Distinct(s) /\ DOMAIN s = 1..Len(s) /\ Len(s) \in Nat
  BY DEF Slices
<1>2. PICK t : t = Append(s, e)
  BY Zenon
<1>3. /\ t \in Seq(Queues) /\ DOMAIN t = 1..(Len(s) + 1)
      /\ t[Len(s) + 1] = e /\ \A i \in 1..Len(s) : t[i] = s[i]
  BY <1>1, <1>2
<1>4. Distinct(t)
  BY <1>1, <1>3 DEF Distinct, Elements
<1>5. Elements(t) = Elements(s) \cup {e}
  BY <1>1, <1>3 DEF Elements
<1> QED
  BY <1>2, <1>3, <1>4, <1>5, Zenon DEF Slices

(* What one slice appended to another is. *)
LEMMA JoinIs ==
  ASSUME NEW T, NEW s \in Seq(T), NEW t \in Seq(T)
  PROVE  /\ s \o t \in Seq(T) /\ Len(s \o t) = Len(s) + Len(t)
         /\ \A j \in 1..(Len(s) + Len(t)) :
               (s \o t)[j] = IF j <= Len(s) THEN s[j] ELSE t[j - Len(s)]
OBVIOUS

(* unbind of the routing table cuts one element out of the slice. *)
LEMMA CutIs ==
  ASSUME NEW s \in Slices, NEW i \in DOMAIN s
  PROVE  Cut(s, i) \in Slices /\ Elements(Cut(s, i)) = Elements(s) \ {s[i]}
<1> DEFINE n == Len(s)
<1>0. s \in Seq(Queues) /\ Distinct(s) /\ DOMAIN s = 1..n /\ n \in Nat /\ i \in 1..n
  BY DEF Slices
<1>1. PICK u : u = SubSeq(s, 1, i-1)
  BY Zenon
<1>2. PICK v : v = SubSeq(s, i+1, n)
  BY Zenon
<1>3. u \in Seq(Queues) /\ Len(u) = i - 1 /\ \A j \in 1..(i-1) : u[j] = s[j]
  BY <1>0, <1>1
<1>4. v \in Seq(Queues) /\ Len(v) = n - i /\ \A j \in 1..(n - i) : v[j] = s[j+i]
  BY <1>0, <1>2
<1>5. PICK t : t = u \o v
  BY Zenon
<1>6. /\ t \in Seq(Queues) /\ Len(t) = Len(u) + Len(v)
      /\ \A j \in 1..(Len(u) + Len(v)) : t[j] = IF j <= Len(u) THEN u[j] ELSE v[j - Len(u)]
  BY <1>3, <1>4, <1>5, JoinIs, Zenon
<1>7. DOMAIN t = 1..(n - 1)
  BY <1>0, <1>3, <1>4, <1>6
<1> HIDE DEF n
<1>8. PICK at : at = [j \in 1..(n - 1) |-> IF j < i THEN j ELSE j + 1]
  BY Zenon
<1>9. /\ \A j \in 1..(n - 1) : at[j] \in 1..n /\ at[j] # i
      /\ \A j, k \in 1..(n - 1) : at[j] = at[k] => j = k
      /\ \A k \in 1..n : k # i => \E j \in 1..(n - 1) : at[j] = k
  <2>1. \A k \in 1..n : k < i => k \in 1..(n - 1) /\ at[k] = k
    BY <1>0, <1>8
  <2>2. \A k \in 1..n : k > i => k - 1 \in 1..(n - 1) /\ at[k - 1] = k
    BY <1>0, <1>8
  <2>3. \A k \in 1..n : k # i => k < i \/ k > i
    BY <1>0
  <2>4. \A k \in 1..n : k # i => \E j \in 1..(n - 1) : at[j] = k
    BY <2>1, <2>2, <2>3, Zenon
  <2> QED
    BY <1>0, <1>8, <2>4
<1>10. \A j \in 1..(n - 1) : t[j] = s[at[j]]
  <2> SUFFICES ASSUME NEW j \in 1..(n - 1) PROVE t[j] = s[at[j]]
    BY Zenon
  <2>1. j \in 1..(Len(u) + Len(v))
    BY <1>0, <1>3, <1>4
  <2>2. CASE j < i
    BY <1>0, <1>3, <1>6, <1>8, <2>1, <2>2
  <2>3. CASE ~(j < i)
    <3>1. ~(j <= Len(u)) /\ j - Len(u) \in 1..(n - i) /\ (j - Len(u)) + i = j + 1
      BY <1>0, <1>3, <2>3
    <3> QED
      BY <1>4, <1>6, <1>8, <2>1, <2>3, <3>1, Zenon
  <2> QED
    BY <2>2, <2>3, Zenon
<1>11. Distinct(t)
  BY <1>0, <1>7, <1>9, <1>10 DEF Distinct
<1>12. Elements(t) = Elements(s) \ {s[i]}
  <2>1. \A j \in 1..(n - 1) : \E k \in 1..n : t[j] = s[k] /\ s[k] # s[i]
    BY <1>0, <1>9, <1>10 DEF Distinct
  <2>2. \A k \in 1..n : s[k] # s[i] => \E j \in 1..(n - 1) : t[j] = s[k]
    BY <1>0, <1>9, <1>10
  <2>3. /\ \A e : e \in Elements(t) <=> \E j \in 1..(n - 1) : t[j] = e
        /\ \A e : e \in Elements(s) <=> \E k \in 1..n : s[k] = e
    BY <1>0, <1>7, Zenon DEF Elements
  <2>4. Elements(t) \subseteq Elements(s) \ {s[i]}
    BY <2>1, <2>3
  <2>5. Elements(s) \ {s[i]} \subseteq Elements(t)
    BY <2>2, <2>3, Zenon
  <2> QED
    BY <2>4, <2>5, Zenon
<1> QED
  BY <1>1, <1>2, <1>5, <1>6, <1>11, <1>12, Zenon DEF Cut, Slices, n

(* Restore fills a slice with each of its queues once. *)
LEMMA ListedIs ==
  ASSUME NEW S \in SUBSET Queues, IsFiniteSet(S)
  PROVE  Listed(S) \in Slices /\ Elements(Listed(S)) = S
<1> DEFINE n == Cardinality(S)
<1>1. n \in Nat /\ ExistsBijection(1..n, S)
  BY FS_CardinalityType, Zenon
<1>2. \E g \in [1..n -> S] : IsInjective(g)
  BY <1>1, Zenon DEF ExistsBijection, Bijection, Injection, IsInjective
<1>3. PICK f : f = Listed(S)
  BY Zenon
<1>4. f \in [1..n -> S] /\ IsInjective(f)
  BY <1>2, <1>3, Zenon DEF Listed
<1>5. f \in Injection(1..n, S)
  BY <1>4, Zenon DEF Injection, IsInjective
<1>6. IsFiniteSet(1..n) /\ Cardinality(1..n) = n
  BY <1>1, FS_Interval
<1>7. f \in Surjection(1..n, S)
  BY <1>5, <1>6, FS_Injection, Zenon
<1>8. f \in Seq(Queues) /\ DOMAIN f = 1..n
  BY <1>1, <1>4
<1>9. Distinct(f) /\ Elements(f) = S
  BY <1>4, <1>7, <1>8 DEF Distinct, Elements, Surjection, IsInjective
<1> QED
  BY <1>3, <1>8, <1>9, Zenon DEF Slices

(* A binding is in the registry if its queue is in its exchange's slice. *)
LEMMA InRegistryIs ==
  /\ InRegistry = {b \in Bindings : b[2] \in Elements(bindings[b[1]])}
  /\ InRegistry' = {b \in Bindings : b[2] \in Elements(bindings'[b[1]])}
  BY Zenon DEF InRegistry, Elements

(* One slice changes: one binding comes or goes. *)
LEMMA SliceIs ==
  ASSUME Typed, NEW b \in Bindings, NEW t \in Slices,
         bindings' = [bindings EXCEPT ![b[1]] = t]
  PROVE  /\ bindings' \in [Exchanges -> Slices]
         /\ Elements(t) = Elements(bindings[b[1]]) \cup {b[2]} =>
               InRegistry' = InRegistry \cup {b}
         /\ Elements(t) = Elements(bindings[b[1]]) \ {b[2]} =>
               InRegistry' = InRegistry \ {b}
<1>1. /\ b[1] \in Exchanges /\ b[2] \in Queues /\ b = <<b[1], b[2]>>
      /\ bindings \in [Exchanges -> Slices]
  BY DEF Bindings, Typed
<1>2. \A c \in Bindings : c[1] \in Exchanges /\ (c = b <=> c[1] = b[1] /\ c[2] = b[2])
  BY <1>1 DEF Bindings
<1>3. \A x \in Exchanges : bindings'[x] = IF x = b[1] THEN t ELSE bindings[x]
  BY <1>1, Zenon
<1>4. \A c \in Bindings : /\ c \in InRegistry <=> c[2] \in Elements(bindings[c[1]])
                          /\ c \in InRegistry' <=> c[2] \in Elements(bindings'[c[1]])
  BY InRegistryIs, Zenon
<1>5. InRegistry \subseteq Bindings /\ InRegistry' \subseteq Bindings
  BY InRegistryIs, Zenon
<1>6. ASSUME Elements(t) = Elements(bindings[b[1]]) \cup {b[2]}
      PROVE  InRegistry' = InRegistry \cup {b}
  <2>1. \A c \in Bindings : c \in InRegistry' <=> c \in InRegistry \/ c = b
    BY <1>1, <1>2, <1>3, <1>4, <1>6, Zenon
  <2> QED
    BY <1>5, <2>1, Zenon
<1>7. ASSUME Elements(t) = Elements(bindings[b[1]]) \ {b[2]}
      PROVE  InRegistry' = InRegistry \ {b}
  <2>1. \A c \in Bindings : c \in InRegistry' <=> c \in InRegistry /\ c # b
    BY <1>1, <1>2, <1>3, <1>4, <1>7, Zenon
  <2> QED
    BY <1>5, <2>1, Zenon
<1> QED
  BY <1>1, <1>6, <1>7, Zenon

(* bind. *)
LEMMA BoundIs ==
  ASSUME Typed, NEW b \in Bindings, b \notin InRegistry,
         bindings' = [bindings EXCEPT ![b[1]] = Append(@, b[2])]
  PROVE  bindings' \in [Exchanges -> Slices] /\ InRegistry' = InRegistry \cup {b}
<1>1. /\ b[1] \in Exchanges /\ b[2] \in Queues
      /\ bindings[b[1]] \in Slices /\ b[2] \notin Elements(bindings[b[1]])
  BY InRegistryIs, Zenon DEF Bindings, Typed
<1>2. PICK t : t = Append(bindings[b[1]], b[2])
  BY Zenon
<1>3. t \in Slices /\ Elements(t) = Elements(bindings[b[1]]) \cup {b[2]}
  BY <1>1, <1>2, AppendIs, Zenon
<1>4. bindings' = [bindings EXCEPT ![b[1]] = t]
  BY <1>2, Zenon
<1> QED
  BY <1>3, <1>4, SliceIs, Zenon

(* unbind. *)
LEMMA UnboundIs ==
  ASSUME Typed, NEW b \in Bindings, NEW i \in DOMAIN bindings[b[1]],
         bindings[b[1]][i] = b[2],
         bindings' = [bindings EXCEPT ![b[1]] = Cut(@, i)]
  PROVE  bindings' \in [Exchanges -> Slices] /\ InRegistry' = InRegistry \ {b}
<1>1. b[1] \in Exchanges /\ bindings[b[1]] \in Slices
  BY Zenon DEF Bindings, Typed
<1>2. PICK t : t = Cut(bindings[b[1]], i)
  BY Zenon
<1>3. t \in Slices /\ Elements(t) = Elements(bindings[b[1]]) \ {b[2]}
  BY <1>1, <1>2, CutIs
<1>4. bindings' = [bindings EXCEPT ![b[1]] = t]
  BY <1>2, Zenon
<1> QED
  BY <1>3, <1>4, SliceIs, Zenon

(* Restore: the bindings are those of the table. *)
LEMMA RestoredIs ==
  ASSUME Typed,
         bindings' = [x \in Exchanges |-> Listed({q \in Queues : <<x, q>> \in storedB})]
  PROVE  bindings' \in [Exchanges -> Slices] /\ InRegistry' = storedB
<1>1. ASSUME NEW x \in Exchanges
      PROVE  /\ bindings'[x] \in Slices
             /\ Elements(bindings'[x]) = {q \in Queues : <<x, q>> \in storedB}
  <2> DEFINE S == {q \in Queues : <<x, q>> \in storedB}
             f == [q \in S |-> <<x, q>>]
  <2>1. f \in Injection(S, storedB) /\ IsFiniteSet(storedB)
    BY Zenon DEF Injection, IsInjective, Typed
  <2>2. S \in SUBSET Queues /\ IsFiniteSet(S)
    BY <2>1, FS_Injection, Zenon
  <2>3. bindings'[x] = Listed(S)
    BY Zenon
  <2> QED
    BY <2>2, <2>3, ListedIs, Zenon
<1>2. PICK B : B = bindings'
  BY Zenon
<1>3. DOMAIN B = Exchanges /\ B = [x \in Exchanges |-> B[x]]
  BY <1>2, Zenon
<1>4. B \in [Exchanges -> Slices]
  BY <1>1, <1>2, <1>3, Zenon
<1>5. ASSUME NEW b \in Bindings PROVE b[2] \in Elements(B[b[1]]) <=> b \in storedB
  <2>1. b[1] \in Exchanges /\ b[2] \in Queues /\ b = <<b[1], b[2]>>
    BY DEF Bindings
  <2>2. Elements(B[b[1]]) = {q \in Queues : <<b[1], q>> \in storedB}
    BY <1>1, <1>2, <2>1, Zenon
  <2> QED
    BY <2>1, <2>2, Zenon
<1> QED
  BY <1>2, <1>4, <1>5, InRegistryIs, Zenon DEF Typed

(* Before the first boot, and after a crash, nothing is bound. *)
LEMMA ClearedIs ==
  ASSUME bindings' = [x \in Exchanges |-> <<>>]
  PROVE  bindings' \in [Exchanges -> Slices] /\ InRegistry' = {}
  BY DEF Slices, Distinct, InRegistry, Bindings
-----------------------------------------------------------------------------
(* Before the first boot there is nothing. *)
LEMMA GroundInit == Init => Ground /\ InRegistry = {}
<1> SUFFICES ASSUME Init PROVE Ground /\ InRegistry = {}
  BY Zenon
<1>1. registry \in [Names -> Rows] /\ stored \in [Names -> Rows]
  BY SpecsAreRows, Zenon DEF Init
<1>2. bindings \in [Exchanges -> Slices]
  BY DEF Init, Slices, Distinct
<1>3. storedB \subseteq Bindings /\ IsFiniteSet(storedB) /\ calls = {} /\ todo = {}
  BY FS_EmptySet, Zenon DEF Init
<1>4. promise \in [Names \cup Bindings -> SUBSET Answers]
  BY SpecsAreRows, Zenon DEF Init, Answers
<1>5. InRegistry = {}
  BY DEF Init, InRegistry, Bindings
<1> QED
  BY <1>1, <1>2, <1>3, <1>4, <1>5, Zenon DEF Ground, Typed, Init

(* Spending keeps count. *)
LEMMA SpendIs ==
  ASSUME Typed, NEW what \in {"crashes", "failures", "deletes"}, Spend(what)
  PROVE  /\ spent' \in [crashes : Nat, failures : Nat, deletes : Nat]
         /\ spent'[what] = spent[what] + 1
         /\ \A w \in {"crashes", "failures", "deletes"} \ {what} : spent'[w] = spent[w]
  BY DEF Typed, Spend

(* What Bind and Unbind do to the requests under way: they may make one    *)
(* that points into the slice read another binding.                        *)
LEMMA RereadIs ==
  ASSUME \A c \in calls : Shaped(c), NEW x \in Exchanges, NEW list \in Seq(Queues)
  PROVE  \A d \in Reread(calls, x, list) :
           \/ d \in calls
           \/ /\ d.op = "SaveBinding" /\ Shaped(d)
              /\ \E c \in calls : c.op = "SaveBinding" /\ c.on[1] = x
<1> SUFFICES ASSUME NEW c \in calls, c.slot # 0, c.slot \in DOMAIN list, c.on[1] = x,
                    NEW d, d = [c EXCEPT !.arg = @ \cup {<<x, list[c.slot]>>}]
             PROVE  d.op = "SaveBinding" /\ Shaped(d) /\ c.op = "SaveBinding"
  BY Zenon DEF Reread
<1>1. Shaped(c) /\ c.op = "SaveBinding"
  BY Zenon DEF Shaped
<1>2. PICK e : e = c.arg \cup {<<x, list[c.slot]>>}
  BY Zenon
<1>3. d = [by |-> c.by, op |-> c.op, on |-> c.on, arg |-> e, slot |-> c.slot]
  BY <1>1, <1>2, Zenon DEF Shaped
<1>4. e \subseteq Bindings
  BY <1>1, <1>2 DEF Shaped, Bindings
<1>5. d.by = c.by /\ d.op = c.op /\ d.on = c.on /\ d.arg = e /\ d.slot = c.slot
  BY <1>3
<1>6. d = [by |-> d.by, op |-> d.op, on |-> d.on, arg |-> d.arg, slot |-> d.slot]
  BY <1>3, <1>5, Zenon
<1> QED
  BY <1>1, <1>4, <1>5, <1>6, Zenon DEF Shaped

(* The requests after the registry step of Bind, *)
LEMMA BindCalls ==
  ASSUME Ground, NEW a \in Callers, NEW b \in Bindings, Bind(a, b)
  PROVE  /\ bindings' \in [Exchanges -> Slices] /\ InRegistry' = InRegistry \cup {b}
         /\ \A d \in calls' :
              \/ d \in calls
              \/ /\ d.op = "SaveBinding" /\ Shaped(d)
                 /\ \/ d.on = b /\ d.arg = {b}
                    \/ \E c \in calls : c.op = "SaveBinding" /\ c.on[1] = b[1]
<1>1. b[1] \in Exchanges /\ b[2] \in Queues /\ Typed /\ \A c \in calls : Shaped(c)
  BY Zenon DEF Bindings, Ground
<1> DEFINE found == {i \in DOMAIN bindings[b[1]] : bindings[b[1]][i] = b[2]}
<1>2. found = {} <=> b \notin InRegistry
  BY Zenon DEF InRegistry
<1>3. CASE /\ found = {} /\ bindings' = [bindings EXCEPT ![b[1]] = Append(@, b[2])]
           /\ calls' = Reread(calls, b[1], bindings'[b[1]]) \cup {Call(a, "SaveBinding", b, {b})}
  <2>1. bindings' \in [Exchanges -> Slices] /\ InRegistry' = InRegistry \cup {b}
    BY <1>1, <1>2, <1>3, BoundIs, Zenon
  <2>2. PICK list \in Seq(Queues) : list = bindings'[b[1]]
    BY <1>1, <2>1, Zenon DEF Slices
  <2>3. PICK new : new = Call(a, "SaveBinding", b, {b})
    BY Zenon
  <2>4. new.op = "SaveBinding" /\ new.on = b /\ new.arg = {b} /\ Shaped(new)
    BY <2>3, Zenon DEF Shaped, Call
  <2>5. \A d \in calls' : d \in Reread(calls, b[1], list) \/ d = new
    BY <1>3, <2>2, <2>3, Zenon
  <2>6. \A d \in Reread(calls, b[1], list) :
           \/ d \in calls
           \/ /\ d.op = "SaveBinding" /\ Shaped(d)
              /\ \E c \in calls : c.op = "SaveBinding" /\ c.on[1] = b[1]
    BY <1>1, RereadIs, Zenon
  <2> QED
    BY <2>1, <2>4, <2>5, <2>6, Zenon
<1>4. ASSUME NEW i \in found, bindings' = bindings,
             calls' = calls \cup {[Call(a, "SaveBinding", b, {b}) EXCEPT !.slot = i]}
      PROVE  /\ bindings' \in [Exchanges -> Slices] /\ InRegistry' = InRegistry \cup {b}
             /\ \A d \in calls' : d \in calls \/
                   (d.op = "SaveBinding" /\ Shaped(d) /\ d.on = b /\ d.arg = {b})
  <2>1. InRegistry' = InRegistry /\ b \in InRegistry /\ bindings' \in [Exchanges -> Slices]
    BY <1>1, <1>2, <1>4, Zenon DEF Typed, InRegistry
  <2> QED
    BY <1>4, <2>1 DEF Shaped, Call
<1> QED
  BY <1>3, <1>4, Zenon DEF Bind

(* ... and of Unbind. *)
LEMMA UnbindCalls ==
  ASSUME Ground, NEW a \in Callers, NEW b \in Bindings, Unbind(a, b)
  PROVE  /\ bindings' \in [Exchanges -> Slices] /\ InRegistry' = InRegistry \ {b}
         /\ \A d \in calls' :
              \/ d \in calls
              \/ /\ d.op = "SaveBinding" /\ Shaped(d)
                 /\ \E c \in calls : c.op = "SaveBinding" /\ c.on[1] = b[1]
              \/ d.op = "DeleteBinding" /\ d.on = b /\ Shaped(d)
<1>1. b[1] \in Exchanges /\ b[2] \in Queues /\ Typed /\ \A c \in calls : Shaped(c)
  BY Zenon DEF Bindings, Ground
<1>2. PICK i \in DOMAIN bindings[b[1]] :
        /\ bindings[b[1]][i] = b[2]
        /\ bindings' = [bindings EXCEPT ![b[1]] = Cut(@, i)]
  BY Zenon DEF Unbind
<1>3. bindings' \in [Exchanges -> Slices] /\ InRegistry' = InRegistry \ {b}
  BY <1>1, <1>2, UnboundIs, Zenon
<1>4. PICK list \in Seq(Queues) : list = bindings'[b[1]]
  BY <1>1, <1>3, Zenon DEF Slices
<1>5. PICK new : new = Call(a, "DeleteBinding", b, {})
  BY Zenon
<1>6. new.op = "DeleteBinding" /\ new.on = b /\ Shaped(new)
  BY <1>5, Zenon DEF Shaped, Call
<1>7. \A d \in calls' : d \in Reread(calls, b[1], list) \/ d = new
  BY <1>4, <1>5, Zenon DEF Unbind
<1>8. \A d \in Reread(calls, b[1], list) :
         \/ d \in calls
         \/ /\ d.op = "SaveBinding" /\ Shaped(d)
            /\ \E c \in calls : c.op = "SaveBinding" /\ c.on[1] = b[1]
  BY <1>1, RereadIs, Zenon
<1> QED
  BY <1>3, <1>6, <1>7, <1>8, Zenon

(* The registry step of a request keeps the ground. *)
LEMMA RequestGround ==
  ASSUME Ground, NEW a \in Callers,
         \/ \E n \in Names, s \in Specs : Declare(a, n, s)
         \/ \E b \in Bindings : Bind(a, b) \/ Unbind(a, b)
         \/ \E q \in Queues : DeleteQueue(a, q)
         \/ \E p \in Pubs, x \in Exchanges : Publish(a, p, x)
  PROVE  Ground'
<1> USE DEF Ground, Typed
<1>1. ASSUME NEW n \in Names, NEW s \in Specs, Declare(a, n, s)
      PROVE  Ground'
  <2>1. registry' \in [Names -> Rows] /\ phase' = phase /\ phase = "up"
    BY <1>1, SpecsAreRows, Zenon DEF Declare, MayStart, boot
  <2>2. promise' \in [Names \cup Bindings -> SUBSET Answers]
    BY <1>1, SpecsAreRows DEF Declare, Begin, Answers, Call
  <2>3. \A c \in calls' : c \in calls \/ c = Call(a, "Save", n, s)
    BY <1>1, Zenon DEF Declare, Begin
  <2>4. Shaped(Call(a, "Save", n, s))
    BY Zenon DEF Shaped, Call
  <2>5. UNCHANGED <<bindings, stored, storedB, todo, spent>>
    BY <1>1, Zenon DEF Declare, tables, boot
  <2>6. \A c \in calls' : Shaped(c)'
    BY <2>3, <2>4, Zenon DEF Shaped
  <2> QED
    BY <2>1, <2>2, <2>5, <2>6, Zenon
<1>2. ASSUME NEW b \in Bindings, Bind(a, b) \/ Unbind(a, b)
      PROVE  Ground'
  <2>1. /\ UNCHANGED <<registry, stored, storedB, todo, spent, phase>> /\ phase = "up"
        /\ promise' \in [Names \cup Bindings -> SUBSET Answers]
    <3>1. UNCHANGED <<registry, stored, storedB, todo, spent, phase>> /\ phase = "up"
      BY <1>2, Zenon DEF Bind, Unbind, MayStart, tables, boot
    <3>2. PICK t \in BOOLEAN : promise' = [promise EXCEPT ![b] = @ \cap {t}]
      BY <1>2, Zenon DEF Bind, Unbind
    <3>3. promise[b] \cap {t} \in SUBSET Answers
      BY Zenon DEF Typed
    <3>4. promise' \in [Names \cup Bindings -> SUBSET Answers]
      BY <3>2, <3>3, Zenon DEF Typed
    <3> QED
      BY <3>1, <3>4, Zenon
  <2>2. bindings' \in [Exchanges -> Slices] /\ \A d \in calls' : Shaped(d)
    BY <1>2, BindCalls, UnbindCalls, Zenon
  <2>3. \A d \in calls' : Shaped(d)'
    BY <2>2, Zenon DEF Shaped
  <2> QED
    BY <2>1, <2>2, <2>3, Zenon
<1>3. ASSUME NEW q \in Queues, DeleteQueue(a, q)
      PROVE  Ground'
  <2>1. /\ registry' \in [Names -> Rows] /\ phase' = phase /\ phase = "up"
        /\ UNCHANGED <<bindings, stored, storedB, todo>>
        /\ spent' \in [crashes : Nat, failures : Nat, deletes : Nat]
    BY <1>3, SpecsAreRows, SpendIs, Zenon DEF DeleteQueue, MayStart, tables, boot
  <2>2. promise' \in [Names \cup Bindings -> SUBSET Answers]
    BY <1>3, SpecsAreRows, Zenon DEF DeleteQueue, Begin, Answers, Call
  <2>3. \A c \in calls' : c \in calls \/ c = Call(a, "DeleteQueue", q, {})
    BY <1>3, Zenon DEF DeleteQueue, Begin
  <2>4. Shaped(Call(a, "DeleteQueue", q, {}))
    BY Zenon DEF Shaped, Call
  <2>5. \A c \in calls' : Shaped(c)'
    BY <2>3, <2>4, Zenon DEF Shaped
  <2> QED
    BY <2>1, <2>2, <2>5, Zenon
<1>4. ASSUME NEW p \in Pubs, NEW x \in Exchanges, Publish(a, p, x)
      PROVE  Ground'
  <2>1. /\ UNCHANGED <<registry, bindings, stored, storedB, todo, spent, phase, promise>>
        /\ phase = "up"
    BY <1>4, Zenon DEF Publish, memory, tables, boot
  <2>2. PICK arg : calls' = calls \cup {Call(a, "Append", p, arg)}
    BY <1>4, Zenon DEF Publish
  <2>3. Shaped(Call(a, "Append", p, arg))
    BY Zenon DEF Shaped, Call
  <2>4. \A c \in calls' : Shaped(c)'
    BY <2>2, <2>3, Zenon DEF Shaped
  <2> QED
    BY <2>1, <2>4, Zenon
<1> QED
  BY <1>1, <1>2, <1>3, <1>4, Zenon

(* So does the store step. *)
LEMMA StoreGround ==
  ASSUME Ground, NEW c \in calls,
         \/ Save(c) \/ SaveBinding(c) \/ DeleteBinding(c)
         \/ DeleteStored(c) \/ AppendMessages(c) \/ StoreFails(c)
  PROVE  Ground' /\ calls' = calls \ {c} /\ UNCHANGED <<registry, bindings, phase, todo>>
<1> USE DEF Ground, Typed
<1>1. calls' = calls \ {c} /\ UNCHANGED <<registry, bindings, phase, todo>> /\ Shaped(c)
  BY Zenon DEF Save, SaveBinding, DeleteBinding, DeleteStored, AppendMessages, StoreFails,
         Return, memory, boot
<1>2. stored' \in [Names -> Rows]
  <2>1. CASE Save(c)
    <3>1. c.on \in Names /\ c.arg \in Rows /\ Saved(c.arg) \in Rows
      BY <1>1, <2>1, SpecsAreRows, Zenon DEF Save, Shaped
    <3> QED
      BY <2>1, <3>1, Zenon DEF Save
  <2>2. CASE DeleteStored(c)
    BY <2>2, SpecsAreRows, Zenon DEF DeleteStored
  <2> QED
    BY <2>1, <2>2, Zenon DEF SaveBinding, DeleteBinding, AppendMessages, StoreFails, tables
<1>3. storedB' \subseteq Bindings /\ IsFiniteSet(storedB')
  <2>1. CASE SaveBinding(c)
    BY <1>1, <2>1, FS_AddElement DEF SaveBinding, Shaped
  <2>2. CASE DeleteBinding(c)
    BY <2>2, FS_RemoveElement, Zenon DEF DeleteBinding
  <2> QED
    BY <2>1, <2>2, Zenon DEF Save, DeleteStored, AppendMessages, StoreFails, tables
<1>4. promise' \in [Names \cup Bindings -> SUBSET Answers]
  <2>1. ASSUME NEW said \in Answers, Return(c, said)
        PROVE  promise' \in [Names \cup Bindings -> SUBSET Answers]
    BY <2>1, Zenon DEF Return
  <2>2. Save(c) => c.arg \in Answers
    BY <1>1, SpecsAreRows, Zenon DEF Save, Shaped, Answers
  <2>3. {Absent, TRUE, FALSE} \subseteq Answers
    BY SpecsAreRows, Zenon DEF Answers
  <2>4. promise' = promise \/ \E said \in Answers : Return(c, said)
    BY <2>2, <2>3, Zenon DEF Save, SaveBinding, DeleteBinding, DeleteStored, AppendMessages,
       StoreFails, answers
  <2> QED
    BY <2>1, <2>4, Zenon
<1>5. spent' \in [crashes : Nat, failures : Nat, deletes : Nat]
  BY SpendIs, Zenon
  DEF Save, SaveBinding, DeleteBinding, DeleteStored, AppendMessages, StoreFails, Return
<1> QED
  BY <1>1, <1>2, <1>3, <1>4, <1>5, Zenon DEF Shaped

(* While the process is down or boots no request is under way. *)
LEMMA BootGround ==
  ASSUME Ground,
         \/ \E n \in Names : BootDeclare(n)
         \/ \E b \in Bindings : BootBind(b)
         \/ Crash \/ Restart \/ Booted \/ BootFails
  PROVE  /\ Ground' /\ calls' = {}
         /\ Restart => InRegistry' = storedB
         /\ \A b \in Bindings : BootBind(b) /\ phase' = phase => InRegistry' = InRegistry \cup {b}
         /\ Crash \/ BootFails => InRegistry' = {}
<1> USE DEF Ground
<1>1. calls' = {}
  BY Zenon DEF BootDeclare, BootBind, Crash, Restart, Booted, BootFails
<1>2. ASSUME NEW n \in Names, BootDeclare(n)
      PROVE  Typed'
  <2>1. n \in DOMAIN Config /\ Config[n] \in Rows /\ Saved(Config[n]) \in Rows
    BY <1>2, TopologyAssumption, SpecsAreRows, Zenon DEF BootDeclare, Typed
  <2>2. UNCHANGED <<bindings, storedB, spent>> /\ todo' \subseteq todo
    BY <1>2, Zenon DEF BootDeclare
  <2>3. registry' \in [Names -> Rows] /\ stored' \in [Names -> Rows]
    BY <1>2, <2>1, Zenon DEF BootDeclare, Typed
  <2>4. promise' \in [Names \cup Bindings -> SUBSET Answers]
    BY <1>2, <2>1 DEF BootDeclare, Typed, Answers
  <2> QED
    BY <2>2, <2>3, <2>4, Zenon DEF Typed
<1>3. ASSUME NEW b \in Bindings, BootBind(b)
      PROVE  Typed' /\ (phase' = phase => InRegistry' = InRegistry \cup {b})
  <2>1. UNCHANGED <<registry, stored, spent>> /\ todo' \subseteq todo
    BY <1>3, Zenon DEF BootBind
  <2>2. storedB' \subseteq Bindings /\ IsFiniteSet(storedB')
    <3>1. storedB' \in {storedB, storedB \cup {b}}
      BY <1>3, Zenon DEF BootBind
    <3>2. storedB \subseteq Bindings /\ IsFiniteSet(storedB)
      BY Zenon DEF Typed
    <3> QED
      BY <3>1, <3>2, FS_AddElement, Zenon
  <2>3. promise' \in [Names \cup Bindings -> SUBSET Answers]
    <3>1. PICK true : true = {TRUE} /\ true \in SUBSET Answers
      BY Zenon DEF Answers
    <3>2. promise' = promise \/ promise' = [promise EXCEPT ![b] = true]
      BY <1>3, <3>1, Zenon DEF BootBind
    <3> QED
      BY <3>1, <3>2, Zenon DEF Typed
  <2>4. /\ bindings' \in [Exchanges -> Slices]
        /\ phase' = phase => InRegistry' = InRegistry \cup {b}
    <3>1. CASE bindings' = bindings
      <4>1. InRegistry' = InRegistry
        BY <3>1, Zenon DEF InRegistry
      <4>2. phase' = phase => b \in InRegistry
        <5> SUFFICES ASSUME b \notin InRegistry, phase' = phase PROVE FALSE
          BY Zenon
        <5>1. bindings' = [bindings EXCEPT ![b[1]] = Append(@, b[2])]
          BY <1>3, Zenon DEF BootBind
        <5>2. InRegistry' = InRegistry \cup {b}
          BY <5>1, BoundIs, Zenon
        <5> QED
          BY <4>1, <5>2, Zenon
      <4> QED
        BY <3>1, <4>1, <4>2, Zenon DEF Typed
    <3>2. CASE b \notin InRegistry /\ bindings' = [bindings EXCEPT ![b[1]] = Append(@, b[2])]
      BY <3>2, BoundIs, Zenon
    <3> QED
      BY <1>3, <3>1, <3>2, Zenon DEF BootBind
  <2> QED
    BY <2>1, <2>2, <2>3, <2>4, Zenon DEF Typed
<1>4. ASSUME Restart PROVE Typed'
  BY <1>4, RestoredIs, TopologyAssumption, Zenon DEF Restart, Typed, tables, answers
<1>5. ASSUME Booted PROVE Typed'
  BY <1>5, Zenon DEF Booted, Typed, memory, tables, answers
<1>6. ASSUME Crash PROVE Typed'
  <2>1. /\ UNCHANGED <<stored, storedB>> /\ todo' = {} /\ registry' \in [Names -> Rows]
        /\ bindings' \in [Exchanges -> Slices] /\ InRegistry' = {}
        /\ spent' \in [crashes : Nat, failures : Nat, deletes : Nat]
    BY <1>6, ClearedIs, SpecsAreRows, SpendIs, Zenon DEF Crash, tables
  <2>2. promise' \in [Names \cup Bindings -> SUBSET Answers]
    BY <1>6, Zenon DEF Crash, Typed
  <2> QED
    BY <2>1, <2>2, Zenon DEF Typed
<1>7. ASSUME BootFails PROVE Typed'
  BY <1>7, ClearedIs, SpecsAreRows, SpendIs, Zenon DEF BootFails, Typed, tables, answers
<1>8. Crash \/ BootFails => InRegistry' = {}
  BY ClearedIs, Zenon DEF Crash, BootFails
<1>9. Restart => InRegistry' = storedB
  BY RestoredIs, Zenon DEF Restart
<1> QED
  BY <1>1, <1>2, <1>3, <1>4, <1>5, <1>6, <1>7, <1>8, <1>9, Zenon

(* Nothing changes where nothing happens. *)
LEMMA StutterIs ==
  ASSUME UNCHANGED vars
  PROVE  /\ UNCHANGED <<registry, bindings, stored, storedB, rows, calls, phase, todo, sent,
                        promise, accepted, excused, spent>>
         /\ InRegistry' = InRegistry
  BY Zenon DEF vars, memory, tables, boot, answers, InRegistry

(* The ground holds throughout. *)
LEMMA GroundAlways == Spec => []Ground
<1>1. Ground /\ [Next]_vars => Ground'
  <2> SUFFICES ASSUME Ground, [Next]_vars PROVE Ground'
    BY Zenon
  <2>1. CASE Next
    BY <2>1, RequestGround, StoreGround, BootGround, Zenon DEF Next
  <2>2. CASE UNCHANGED vars
    BY <2>2, StutterIs, Zenon DEF Ground, Typed, Shaped
  <2> QED
    BY <2>1, <2>2, Zenon
<1> QED
  BY <1>1, GroundInit, PTL DEF Spec
-----------------------------------------------------------------------------
(* Accepted messages.  While a queue is being deleted it is not            *)
(* registered, and every message in it or on its way to it was there when  *)
(* the deletion began.                                                     *)
Deleting(c) ==
    c.op = "DeleteQueue" =>
      /\ registry[c.on] = Absent
      /\ \A m \in rows : m[2] = c.on => m \in excused
      /\ \A d \in calls : d.op = "Append" /\ c.on \in d.arg => <<d.on, c.on>> \in excused

AcceptedInv == AcceptedKept /\ \A c \in calls : Deleting(c)

(* The registry step of a declaration: not of a queue that is being        *)
(* deleted.                                                                *)
LEMMA DeclareAccepted ==
  ASSUME Ground, AcceptedInv, Exclusive, NEW a \in Callers, NEW n \in Names, NEW s \in Specs,
         Declare(a, n, s)
  PROVE  AcceptedInv'
<1> USE DEF AcceptedInv
<1>1. registry' = [registry EXCEPT ![n] = s] /\ UNCHANGED <<rows, accepted, excused>>
  BY Zenon DEF Declare, tables
<1>2. \A c \in calls : c.op = "DeleteQueue" => c.on # n /\ c.on \in Names
  BY TopologyAssumption, Zenon DEF Declare, MayStart, Area, Ground, Shaped, Names
<1>3. \A c \in calls : c.op = "DeleteQueue" => registry'[c.on] = Absent
  BY <1>1, <1>2, Zenon DEF Deleting, Ground, Typed
<1>4. calls' = calls \/ calls' = calls \cup {Call(a, "Save", n, s)}
  BY Zenon DEF Declare, Begin
<1>5. ASSUME NEW c \in calls' PROVE Deleting(c)'
  BY <1>1, <1>3, <1>4 DEF Deleting, Call
<1> QED
  BY <1>1, <1>5, Zenon DEF AcceptedKept

(* The registry step of a deletion, which excuses what is in the queue. *)
LEMMA DeleteAccepted ==
  ASSUME Ground, AcceptedInv, NEW a \in Callers, NEW q \in Queues, DeleteQueue(a, q)
  PROVE  AcceptedInv'
<1> USE DEF AcceptedInv
<1> DEFINE new == Call(a, "DeleteQueue", q, {})
<1>1. registry' = [registry EXCEPT ![q] = Absent] /\ registry \in [Names -> Rows]
  BY Zenon DEF DeleteQueue, Ground, Typed
<1>2. /\ UNCHANGED <<rows, accepted>>
      /\ calls' = calls \cup {new} /\ excused' = excused \cup Addressed(q)
  BY Zenon DEF DeleteQueue, Begin, tables
<1>3. \A n \in Names : registry[n] = Absent \/ n = q => registry'[n] = Absent
  BY <1>1, Zenon
<1>4. \A m \in rows : m[2] = q => m \in excused'
  BY <1>2, Zenon DEF Addressed
<1>5. \A d \in calls : d.op = "Append" /\ q \in d.arg => <<d.on, q>> \in excused'
  BY <1>2, Zenon DEF Addressed
<1>6. Deleting(new)'
  BY <1>2, <1>3, <1>4, <1>5, Zenon DEF Deleting, Call, Names
<1>7. ASSUME NEW c \in calls PROVE Deleting(c)'
  <2>1. c.op = "DeleteQueue" => registry'[c.on] = Absent
    BY <1>3, Zenon DEF Deleting, Ground, Shaped, Names
  <2> QED
    BY <1>2, <2>1 DEF Deleting, Call
<1> QED
  BY <1>2, <1>6, <1>7, Zenon DEF AcceptedKept

(* Bindings do not count; a publication is not routed to a queue that is   *)
(* being deleted.                                                          *)
LEMMA OtherAccepted ==
  ASSUME Ground, AcceptedInv, NEW a \in Callers,
         \/ \E b \in Bindings : Bind(a, b) \/ Unbind(a, b)
         \/ \E p \in Pubs, x \in Exchanges : Publish(a, p, x)
  PROVE  AcceptedInv'
<1> USE DEF AcceptedInv
<1>1. UNCHANGED <<registry, rows, accepted, excused>>
  BY Zenon DEF Bind, Unbind, Publish, memory, tables
<1>2. ASSUME NEW b \in Bindings, Bind(a, b) \/ Unbind(a, b)
      PROVE  AcceptedInv'
  <2>1. \A d \in calls' : d \in calls \/ d.op \in {"SaveBinding", "DeleteBinding"}
    BY <1>2, BindCalls, UnbindCalls, Zenon
  <2> QED
    BY <1>1, <2>1, Zenon DEF Deleting, AcceptedKept
<1>3. ASSUME NEW p \in Pubs, NEW x \in Exchanges, Publish(a, p, x)
      PROVE  AcceptedInv'
  <2>1. PICK matching : calls' = calls \cup {Call(a, "Append", p, Routed(matching))}
    BY <1>3, Zenon DEF Publish
  <2>2. \A c \in calls : c.op = "DeleteQueue" => c.on \notin Routed(matching)
    BY Zenon DEF Routed, Deleting
  <2>3. ASSUME NEW c \in calls' PROVE Deleting(c)'
    BY <1>1, <2>1, <2>2 DEF Deleting, Call
  <2> QED
    BY <1>1, <2>3, Zenon DEF AcceptedKept
<1> QED
  BY <1>2, <1>3, Zenon

(* The store steps: only a deletion removes messages, and those are        *)
(* excused.                                                                *)
LEMMA StoreAccepted ==
  ASSUME Ground, AcceptedInv, NEW c \in calls,
         \/ Save(c) \/ SaveBinding(c) \/ DeleteBinding(c)
         \/ DeleteStored(c) \/ AppendMessages(c) \/ StoreFails(c)
  PROVE  AcceptedInv'
<1> USE DEF AcceptedInv
<1>1. calls' = calls \ {c} /\ UNCHANGED <<registry, excused>>
  BY StoreGround, Zenon DEF Save, SaveBinding, DeleteBinding, DeleteStored, AppendMessages,
     StoreFails, Return, answers
<1>2. CASE UNCHANGED <<rows, accepted>>
  BY <1>1, <1>2, Zenon DEF AcceptedKept, Deleting
<1>3. CASE DeleteStored(c)
  <2>1. rows' \subseteq rows /\ accepted' = accepted
        /\ \A m \in rows \ rows' : m[2] = c.on
    BY <1>3, Zenon DEF DeleteStored, Return
  <2>2. rows \ rows' \subseteq excused
    BY <1>3, <2>1, Zenon DEF DeleteStored, Deleting
  <2> QED
    BY <1>1, <2>1, <2>2, Zenon DEF AcceptedKept, Deleting
<1>4. CASE AppendMessages(c)
  <2>1. /\ c.op = "Append"
        /\ rows' = rows \cup ({c.on} \X c.arg)
        /\ accepted' = accepted \cup ({c.on} \X c.arg)
    BY <1>4, Zenon DEF AppendMessages
  <2>2. ASSUME NEW d \in calls, d.op = "DeleteQueue", NEW m \in rows', m[2] = d.on
        PROVE  m \in excused
    <3>1. CASE m \in rows
      BY <2>2, <3>1, Zenon DEF Deleting
    <3>2. CASE m \in {c.on} \X c.arg
      <4>1. m = <<c.on, d.on>> /\ d.on \in c.arg
        BY <2>2, <3>2
      <4> QED
        BY <2>1, <2>2, <4>1, Zenon DEF Deleting
    <3> QED
      BY <2>1, <2>2, <3>1, <3>2, Zenon
  <2> QED
    BY <1>1, <2>1, <2>2, Zenon DEF AcceptedKept, Deleting
<1> QED
  BY <1>2, <1>3, <1>4, Zenon
  DEF Save, SaveBinding, DeleteBinding, StoreFails, Return, tables, answers

(* A message whose publisher was answered stays in the store, through      *)
(* crashes, failed store calls and boots, unless its queue is deleted by a *)
(* request that began after the message was routed (Publish, DeleteQueue   *)
(* of the engine).                                                         *)
THEOREM AcceptedStays == ASSUME Exclusive PROVE Spec => []AcceptedKept
<1>1. Init => AcceptedInv
  BY Zenon DEF Init, AcceptedInv, AcceptedKept
<1>2. Ground /\ AcceptedInv /\ [Next]_vars => AcceptedInv'
  <2> SUFFICES ASSUME Ground, AcceptedInv, [Next]_vars PROVE AcceptedInv'
    BY Zenon
  <2>1. ASSUME \/ \E n \in Names : BootDeclare(n)
               \/ \E b \in Bindings : BootBind(b)
               \/ Crash \/ Restart \/ Booted \/ BootFails
        PROVE  AcceptedInv'
    <3>1. calls' = {} /\ UNCHANGED <<rows, accepted, excused>>
      BY <2>1, BootGround, Zenon DEF BootDeclare, BootBind, Crash, Restart, Booted, BootFails,
         tables, answers
    <3> QED
      BY <3>1, Zenon DEF AcceptedInv, AcceptedKept
  <2>2. CASE UNCHANGED vars
    BY <2>2, StutterIs, Zenon DEF AcceptedInv, AcceptedKept, Deleting
  <2> QED
    BY <2>1, <2>2, DeclareAccepted, DeleteAccepted, OtherAccepted, StoreAccepted, Zenon DEF Next
<1>3. AcceptedInv => AcceptedKept
  BY Zenon DEF AcceptedInv
<1> QED
  BY <1>1, <1>2, <1>3, GroundAlways, PTL DEF Spec
-----------------------------------------------------------------------------
(* Bindings.  A restart may bring a binding back without its queue (a      *)
(* crash between the two steps of a request, or a binding of a queue that  *)
(* is not durable); without crash and failure only the first boot reads    *)
(* the tables, and they are empty.                                         *)
Undisturbed == spent.crashes + spent.failures = 0

Registered(b) == registry[b[1]] # Absent /\ registry[b[2]] # Absent

BoundInv ==
    Undisturbed => /\ \A b \in InRegistry : Registered(b)
                   /\ phase = "down" => storedB = {}

(* The count of crashes and failures only grows. *)
LEMMA UndisturbedBefore ==
  ASSUME Ground, spent' = spent \/ Spend("deletes"), Undisturbed'
  PROVE  Undisturbed
  BY SpendIs, Zenon DEF Ground, Undisturbed, Typed

(* ... and a crash or a failure is counted. *)
LEMMA Disturbed ==
  ASSUME Ground, Spend("crashes") \/ Spend("failures")
  PROVE  ~Undisturbed'
<1>1. Typed /\ spent.crashes \in Nat /\ spent.failures \in Nat
  BY Zenon DEF Ground, Typed
<1>2. CASE Spend("crashes")
  BY <1>1, <1>2, SpendIs DEF Undisturbed
<1>3. CASE Spend("failures")
  BY <1>1, <1>3, SpendIs DEF Undisturbed
<1> QED
  BY <1>2, <1>3, Zenon

(* A request binds what is registered and removes what is not bound. *)
LEMMA RequestBound ==
  ASSUME Ground, Ground', BoundInv, NEW a \in Callers,
         \/ \E n \in Names, s \in Specs : Declare(a, n, s)
         \/ \E b \in Bindings : Bind(a, b) \/ Unbind(a, b)
         \/ \E q \in Queues : DeleteQueue(a, q)
         \/ \E p \in Pubs, x \in Exchanges : Publish(a, p, x)
  PROVE  BoundInv'
<1>1. phase' = "up" /\ (spent' = spent \/ Spend("deletes"))
  BY Zenon DEF Declare, Bind, Unbind, DeleteQueue, Publish, MayStart, boot
<1> SUFFICES ASSUME Undisturbed' PROVE \A b \in InRegistry' : Registered(b)'
  BY <1>1, Zenon DEF BoundInv
<1>2. \A b \in InRegistry : Registered(b)
  BY <1>1, UndisturbedBefore, Zenon DEF BoundInv
<1>3. \A b \in InRegistry : b[1] \in Exchanges /\ b[2] \in Queues
  BY Zenon DEF InRegistry, Bindings
<1>4. registry \in [Names -> Rows] /\ Exchanges \cap Queues = {}
  BY TopologyAssumption, Zenon DEF Ground, Typed
<1>5. ASSUME NEW n \in Names, NEW s \in Specs, Declare(a, n, s)
      PROVE  \A b \in InRegistry' : Registered(b)'
  <2>1. InRegistry' = InRegistry /\ registry' = [registry EXCEPT ![n] = s] /\ s # Absent
    BY <1>5, SpecsAreRows, Zenon DEF Declare, InRegistry
  <2> QED
    BY <1>2, <1>3, <1>4, <2>1, Zenon DEF Registered, Names
<1>6. ASSUME NEW b \in Bindings, Bind(a, b) \/ Unbind(a, b)
      PROVE  \A c \in InRegistry' : Registered(c)'
  <2>1. registry' = registry
    BY <1>6, Zenon DEF Bind, Unbind
  <2>2. Bind(a, b) => Registered(b)
    BY Zenon DEF Bind, Registered
  <2> QED
    BY <1>2, <1>6, <2>1, <2>2, BindCalls, UnbindCalls DEF Registered
<1>7. ASSUME NEW q \in Queues, DeleteQueue(a, q)
      PROVE  \A b \in InRegistry' : Registered(b)'
  <2>1. /\ InRegistry' = InRegistry /\ registry' = [registry EXCEPT ![q] = Absent]
        /\ \A b \in InRegistry : b[2] # q
    BY <1>7, Zenon DEF DeleteQueue, Unreferenced, InRegistry
  <2> QED
    BY <1>2, <1>3, <1>4, <2>1, Zenon DEF Registered, Names
<1>8. ASSUME NEW p \in Pubs, NEW x \in Exchanges, Publish(a, p, x)
      PROVE  \A b \in InRegistry' : Registered(b)'
  BY <1>2, <1>8, Zenon DEF Publish, memory, InRegistry, Registered
<1> QED
  BY <1>5, <1>6, <1>7, <1>8, Zenon

(* So does the boot. *)
LEMMA BootBound ==
  ASSUME Ground, BoundInv,
         \/ \E n \in Names : BootDeclare(n)
         \/ \E b \in Bindings : BootBind(b)
         \/ Crash \/ Restart \/ Booted \/ BootFails
  PROVE  BoundInv'
<1> SUFFICES ASSUME Undisturbed'
             PROVE  /\ \A b \in InRegistry' : Registered(b)'
                    /\ phase' = "down" => storedB' = {}
  BY Zenon DEF BoundInv
<1>1. ~Crash /\ ~BootFails
  BY Disturbed, Zenon DEF Crash, BootFails
<1>2. spent' = spent /\ phase' # "down"
  BY <1>1, Zenon DEF BootDeclare, BootBind, Restart, Booted
<1>3. /\ \A b \in InRegistry : Registered(b)
      /\ phase = "down" => storedB = {}
  BY <1>2, UndisturbedBefore, Zenon DEF BoundInv
<1>4. ASSUME NEW n \in Names, BootDeclare(n)
      PROVE  \A b \in InRegistry' : Registered(b)'
  <2>1. InRegistry' = InRegistry
    BY <1>4, Zenon DEF BootDeclare, InRegistry
  <2>2. \A b \in InRegistry : b[1] \in Names /\ b[2] \in Names
    BY Zenon DEF InRegistry, Bindings, Names
  <2>3. registry \in [Names -> Rows] /\ n \in DOMAIN Config /\ Config[n] # Absent
    BY <1>4, TopologyAssumption, SpecsAreRows, Zenon DEF Ground, Typed, BootDeclare
  <2>4. registry' = registry \/ registry' = [registry EXCEPT ![n] = Config[n]]
    BY <1>4, Zenon DEF BootDeclare
  <2> QED
    BY <1>3, <2>1, <2>2, <2>3, <2>4, Zenon DEF Registered
<1>5. ASSUME NEW b \in Bindings, BootBind(b)
      PROVE  \A c \in InRegistry' : Registered(c)'
  <2>1. registry' = registry
    BY <1>5, Zenon DEF BootBind
  <2>2. CASE Registered(b)
    <3>1. phase' = phase
      BY <1>5, <2>2, Zenon DEF BootBind, Registered
    <3> QED
      BY <1>3, <1>5, <2>1, <2>2, <3>1, BootGround, Zenon DEF Registered
  <2>3. CASE ~Registered(b)
    <3>1. bindings' = bindings
      BY <1>5, <2>3, Zenon DEF BootBind, Registered
    <3> QED
      BY <1>3, <2>1, <3>1, Zenon DEF Registered, InRegistry
  <2> QED
    BY <2>2, <2>3, Zenon
<1>6. ASSUME Restart PROVE \A b \in InRegistry' : Registered(b)'
  <2>1. InRegistry' = {}
    BY <1>3, <1>6, BootGround, Zenon DEF Restart
  <2> QED
    BY <2>1, Zenon
<1>7. ASSUME Booted PROVE \A b \in InRegistry' : Registered(b)'
  BY <1>3, <1>7, Zenon DEF Booted, memory, InRegistry, Registered
<1> QED
  BY <1>1, <1>2, <1>4, <1>5, <1>6, <1>7, Zenon

(* The registry never routes into the void: without a restart, every bound *)
(* queue and exchange is registered, whatever declarations, deletions and  *)
(* bindings run at the same time (broker.go Bind, Unbind, DeleteQueue).    *)
THEOREM BoundExist == Spec => []BoundQueuesExist
<1>1. Init => BoundInv
  BY GroundInit, Zenon DEF Init, BoundInv
<1>2. Ground /\ Ground' /\ BoundInv /\ [Next]_vars => BoundInv'
  <2> SUFFICES ASSUME Ground, Ground', BoundInv, [Next]_vars PROVE BoundInv'
    BY Zenon
  <2>1. ASSUME NEW c \in calls,
               \/ Save(c) \/ SaveBinding(c) \/ DeleteBinding(c)
               \/ DeleteStored(c) \/ AppendMessages(c) \/ StoreFails(c)
        PROVE  BoundInv'
    <3>1. UNCHANGED <<registry, bindings, phase>> /\ phase = "up"
      BY <2>1, StoreGround, Zenon DEF Ground
    <3>2. spent' = spent \/ ~Undisturbed'
      BY <2>1, Disturbed, Zenon DEF Save, SaveBinding, DeleteBinding, DeleteStored, AppendMessages,
         StoreFails, Return
    <3> QED
      BY <3>1, <3>2, UndisturbedBefore, Zenon DEF BoundInv, InRegistry, Registered
  <2>2. CASE UNCHANGED vars
    BY <2>2, StutterIs, Zenon DEF BoundInv, Undisturbed, Registered
  <2> QED
    BY <2>1, <2>2, RequestBound, BootBound, Zenon DEF Next
<1>3. BoundInv => BoundQueuesExist
  BY Zenon DEF BoundInv, BoundQueuesExist, Undisturbed, Registered
<1> QED
  BY <1>1, <1>2, <1>3, GroundAlways, PTL DEF Spec
-----------------------------------------------------------------------------
(* Boots.  The configuration file names what it binds, and its timeouts    *)
(* are whole milliseconds.  config.Load asks for neither: a file that      *)
(* binds an undeclared queue does not boot, and a timeout that SaveQueue   *)
(* cuts off is another spec when it is declared again.                     *)
SoundConfig ==
    /\ \A n \in DOMAIN Config \cap Queues : Saved(Config[n]) = Config[n]
    /\ \A b \in ConfigBindings : b[1] \in DOMAIN Config /\ b[2] \in DOMAIN Config

(* A configured name is as configured wherever it is, and in the registry  *)
(* once its declaration has run.                                           *)
AsConfigured(n) ==
    /\ stored[n] \in {Absent, Config[n]}
    /\ phase \in {"up", "booting"} =>
         /\ registry[n] \in {Absent, Config[n]}
         /\ n \notin todo => registry[n] = Config[n]
    /\ \A c \in calls : c.op = "Save" /\ c.on = n => c.arg = Config[n]

BootInv ==
    spent.deletes = 0 =>
      /\ phase # "failed" /\ (phase = "up" => todo = {})
      /\ \A c \in calls : c.op # "DeleteQueue"
      /\ \A n \in DOMAIN Config : AsConfigured(n)

(* Deletions are counted and the count only grows. *)
LEMMA DeletesGrow ==
  ASSUME Ground
  PROVE  /\ spent' = spent \/ Spend("crashes") \/ Spend("failures") =>
              spent.deletes = spent'.deletes
         /\ Spend("deletes") => spent'.deletes # 0
<1>1. Typed /\ spent.deletes \in Nat
  BY Zenon DEF Ground, Typed
<1>2. Spend("crashes") => spent.deletes = spent'.deletes
  BY <1>1, SpendIs, Zenon
<1>3. Spend("failures") => spent.deletes = spent'.deletes
  BY <1>1, SpendIs, Zenon
<1>4. Spend("deletes") => spent'.deletes # 0
  BY <1>1, SpendIs
<1> QED
  BY <1>2, <1>3, <1>4, Zenon

(* A request declares a configured name again only as it is configured. *)
LEMMA RequestBoots ==
  ASSUME Ground, BootInv, NEW a \in Callers,
         \/ \E n \in Names, s \in Specs : Declare(a, n, s)
         \/ \E b \in Bindings : Bind(a, b) \/ Unbind(a, b)
         \/ \E q \in Queues : DeleteQueue(a, q)
         \/ \E p \in Pubs, x \in Exchanges : Publish(a, p, x)
  PROVE  BootInv'
<1> SUFFICES ASSUME spent'.deletes = 0
             PROVE  /\ phase' # "failed" /\ (phase' = "up" => todo' = {})
                    /\ \A c \in calls' : c.op # "DeleteQueue"
                    /\ \A n \in DOMAIN Config : AsConfigured(n)'
  BY Zenon DEF BootInv
<1>1. \A q \in Queues : ~DeleteQueue(a, q)
  BY DeletesGrow, Zenon DEF DeleteQueue
<1>2. spent' = spent /\ phase = "up" /\ UNCHANGED <<phase, todo, stored>>
  BY <1>1, Zenon DEF Declare, Bind, Unbind, Publish, MayStart, boot, tables
<1>3. /\ todo = {} /\ \A c \in calls : c.op # "DeleteQueue"
      /\ \A n \in DOMAIN Config : AsConfigured(n) /\ registry[n] = Config[n]
  BY <1>2, Zenon DEF BootInv, AsConfigured
<1>4. ASSUME NEW n \in Names, NEW s \in Specs, Declare(a, n, s)
      PROVE  /\ \A c \in calls' : c.op # "DeleteQueue"
             /\ \A m \in DOMAIN Config : AsConfigured(m)'
  <2>1. \A c \in calls' : c \in calls \/ (c.op = "Save" /\ c.on = n /\ c.arg = s)
    BY <1>4 DEF Declare, Begin, Call
  <2>2. n \in DOMAIN Config => s = Config[n]
    <3>1. n \in DOMAIN Config => Config[n] # Absent
      BY TopologyAssumption, SpecsAreRows, Zenon
    <3> QED
      BY <1>3, <1>4, <3>1, Zenon DEF Declare, Accepts
  <2>3. \A m \in DOMAIN Config : registry'[m] = Config[m]
    BY <1>3, <1>4, <2>2, TopologyAssumption, Zenon DEF Declare, Ground, Typed
  <2> QED
    BY <1>2, <1>3, <2>1, <2>2, <2>3, Zenon DEF AsConfigured
<1>5. ASSUME NEW b \in Bindings, Bind(a, b) \/ Unbind(a, b)
      PROVE  /\ \A c \in calls' : c.op # "DeleteQueue"
             /\ \A m \in DOMAIN Config : AsConfigured(m)'
  <2>1. registry' = registry
    BY <1>5, Zenon DEF Bind, Unbind
  <2>2. \A d \in calls' : d \in calls \/ d.op \in {"SaveBinding", "DeleteBinding"}
    BY <1>5, BindCalls, UnbindCalls, Zenon
  <2> QED
    BY <1>2, <1>3, <2>1, <2>2, Zenon DEF AsConfigured
<1>6. ASSUME NEW p \in Pubs, NEW x \in Exchanges, Publish(a, p, x)
      PROVE  /\ \A c \in calls' : c.op # "DeleteQueue"
             /\ \A m \in DOMAIN Config : AsConfigured(m)'
  <2>1. registry' = registry /\ \A c \in calls' : c \in calls \/ c.op = "Append"
    BY <1>6 DEF Publish, Call, memory
  <2> QED
    BY <1>2, <1>3, <2>1, Zenon DEF AsConfigured
<1> QED
  BY <1>1, <1>2, <1>3, <1>4, <1>5, <1>6, Zenon

(* What the store step of a declaration writes is what is configured. *)
LEMMA StoreBoots ==
  ASSUME Ground, SoundConfig, BootInv, NEW c \in calls,
         \/ Save(c) \/ SaveBinding(c) \/ DeleteBinding(c)
         \/ DeleteStored(c) \/ AppendMessages(c) \/ StoreFails(c)
  PROVE  BootInv'
<1> SUFFICES ASSUME spent'.deletes = 0
             PROVE  /\ phase' # "failed" /\ (phase' = "up" => todo' = {})
                    /\ \A d \in calls' : d.op # "DeleteQueue"
                    /\ \A n \in DOMAIN Config : AsConfigured(n)'
  BY Zenon DEF BootInv
<1>1. calls' = calls \ {c} /\ UNCHANGED <<registry, phase, todo>> /\ Shaped(c)
  BY StoreGround, Zenon DEF Ground
<1>2. spent.deletes = 0
  BY DeletesGrow, Zenon DEF Save, SaveBinding, DeleteBinding, DeleteStored, AppendMessages,
     StoreFails, Return
<1>3. /\ phase # "failed" /\ (phase = "up" => todo = {})
      /\ \A d \in calls : d.op # "DeleteQueue"
      /\ \A n \in DOMAIN Config : AsConfigured(n)
  BY <1>2, Zenon DEF BootInv
<1>4. ASSUME NEW n \in DOMAIN Config PROVE stored'[n] \in {Absent, Config[n]}
  <2>1. stored[n] \in {Absent, Config[n]} /\ n \in Names /\ stored \in [Names -> Rows]
    BY <1>3, TopologyAssumption, Zenon DEF AsConfigured, Ground, Typed
  <2>2. CASE Save(c)
    <3>1. c.on \in Names /\ (c.on = n => c.arg = Config[n])
      BY <1>1, <1>3, <2>2, Zenon DEF Save, Shaped, AsConfigured
    <3> QED
      BY <2>1, <2>2, <3>1, Zenon DEF Save, SoundConfig
  <2>3. CASE ~Save(c)
    <3>1. stored' = stored
      BY <1>3, <2>3, Zenon DEF SaveBinding, DeleteBinding, DeleteStored, AppendMessages, StoreFails,
         tables
    <3> QED
      BY <2>1, <3>1, Zenon
  <2> QED
    BY <2>2, <2>3, Zenon
<1> QED
  BY <1>1, <1>3, <1>4, Zenon DEF AsConfigured

(* A boot finds the configured names absent or as configured. *)
LEMMA BootBoots ==
  ASSUME Ground, SoundConfig, BootInv,
         \/ \E n \in Names : BootDeclare(n)
         \/ \E b \in Bindings : BootBind(b)
         \/ Crash \/ Restart \/ Booted \/ BootFails
  PROVE  BootInv'
<1> SUFFICES ASSUME spent'.deletes = 0
             PROVE  /\ phase' # "failed" /\ (phase' = "up" => todo' = {})
                    /\ \A c \in calls' : c.op # "DeleteQueue"
                    /\ \A n \in DOMAIN Config : AsConfigured(n)'
  BY Zenon DEF BootInv
<1>1. calls' = {}
  BY BootGround, Zenon
<1>2. spent.deletes = 0
  BY DeletesGrow, Zenon DEF BootDeclare, BootBind, Crash, Restart, Booted, BootFails
<1>3. phase # "failed" /\ \A n \in DOMAIN Config : AsConfigured(n) /\ n \in Names
  BY <1>2, TopologyAssumption, Zenon DEF BootInv
<1>4. registry \in [Names -> Rows] /\ stored \in [Names -> Rows]
  BY Zenon DEF Ground, Typed
<1>5. ASSUME NEW n \in Names, BootDeclare(n)
      PROVE  phase' = "booting" /\ \A m \in DOMAIN Config : AsConfigured(m)'
  <2>1. n \in DOMAIN Config /\ phase = "booting"
    BY <1>5, TopologyAssumption, Zenon DEF BootDeclare, Ground, Typed
  <2>2. registry[n] \in {Absent, Config[n]}
    BY <1>3, <2>1, Zenon DEF AsConfigured
  <2>3. /\ registry' = [registry EXCEPT ![n] = Config[n]] /\ todo' = todo \ {n}
        /\ \/ stored' = stored
           \/ stored' = [stored EXCEPT ![n] = Config[n]]
        /\ phase' = phase
    BY <1>5, <2>1, <2>2, Zenon DEF BootDeclare, Accepts, SoundConfig
  <2> QED
    BY <1>1, <1>3, <1>4, <2>1, <2>3, Zenon DEF AsConfigured
<1>6. ASSUME NEW b \in Bindings, BootBind(b)
      PROVE  phase' = "booting" /\ \A m \in DOMAIN Config : AsConfigured(m)'
  <2>1. b \in ConfigBindings /\ phase = "booting" /\ todo \cap Names = {}
    BY <1>6, TopologyAssumption, Zenon DEF BootBind, Ground, Typed
  <2>2. b[1] \in DOMAIN Config /\ b[2] \in DOMAIN Config
    BY <2>1, Zenon DEF SoundConfig
  <2>3. \A n \in DOMAIN Config : registry[n] = Config[n] /\ Config[n] # Absent
    BY <1>3, <2>1, TopologyAssumption, SpecsAreRows, Zenon DEF AsConfigured
  <2>4. phase' = phase /\ UNCHANGED <<registry, stored>>
    BY <1>6, <2>2, <2>3, Zenon DEF BootBind
  <2> QED
    BY <1>1, <1>3, <2>1, <2>3, <2>4, Zenon DEF AsConfigured
<1>7. ASSUME Restart
      PROVE  phase' = "booting" /\ \A m \in DOMAIN Config : AsConfigured(m)'
  BY <1>1, <1>3, <1>7, Zenon DEF Restart, AsConfigured, tables
<1>8. ASSUME Booted
      PROVE  phase' = "up" /\ todo' = {} /\ \A m \in DOMAIN Config : AsConfigured(m)'
  BY <1>1, <1>3, <1>8, Zenon DEF Booted, AsConfigured, tables, memory
<1>9. ASSUME Crash \/ BootFails
      PROVE  phase' = "down" /\ \A m \in DOMAIN Config : AsConfigured(m)'
  <2>1. phase' = "down" /\ stored' = stored
    BY <1>9, Zenon DEF Crash, BootFails, tables
  <2> QED
    BY <1>1, <1>3, <2>1, Zenon DEF AsConfigured
<1> QED
  BY <1>1, <1>5, <1>6, <1>7, <1>8, <1>9, Zenon

(* Declaring the configured topology is idempotent: with a sound           *)
(* configuration a boot fails only after somebody deleted a queue,         *)
(* whatever requests, crashes and store failures came before it            *)
(* (declareTopology after Restore).                                        *)
THEOREM BootSucceeds == ASSUME SoundConfig PROVE Spec => []BootsAgain
<1>1. Init => BootInv
  <2> SUFFICES ASSUME Init PROVE BootInv
    BY Zenon
  <2>1. \A n \in DOMAIN Config : AsConfigured(n)
    BY TopologyAssumption, Zenon DEF Init, AsConfigured
  <2> QED
    BY <2>1, Zenon DEF Init, BootInv
<1>2. Ground /\ BootInv /\ [Next]_vars => BootInv'
  <2> SUFFICES ASSUME Ground, BootInv, [Next]_vars PROVE BootInv'
    BY Zenon
  <2>1. CASE UNCHANGED vars
    BY <2>1, StutterIs, Zenon DEF BootInv, AsConfigured
  <2> QED
    BY <2>1, RequestBoots, StoreBoots, BootBoots, Zenon DEF Next
<1>3. Ground /\ BootInv => BootsAgain
  BY DEF Ground, Typed, BootInv, BootsAgain
<1> QED
  BY <1>1, <1>2, <1>3, GroundAlways, PTL DEF Spec
-----------------------------------------------------------------------------
(* Promises.  Timeouts that SaveQueue does not cut off come back from the  *)
(* store as they were declared.                                            *)
Whole == \A s \in Specs : Saved(s) = s

Alive == phase \in {"up", "booting"}

(* What the last answer about a name said is stored if it lasts, and       *)
(* registered once the process is up; a boot may still have to declare it. *)
NameKept(n) ==
    \A s \in promise[n] :
      /\ s.durable \/ s = Absent => stored[n] = s
      /\ phase = "up" => registry[n] = s
      /\ phase = "booting" => n \in todo \/ registry[n] = s
      /\ phase \in {"down", "booting"} => s.durable \/ s = Absent \/ n \in DOMAIN Config

BindingKept(b) ==
    /\ promise[b] \subseteq BOOLEAN
    /\ TRUE \in promise[b] => b \in storedB /\ (Alive => b \in InRegistry)
    /\ FALSE \in promise[b] => b \notin storedB /\ (Alive => b \notin InRegistry)

(* A request under way has changed the registry as its answer will say,    *)
(* and nothing else is promised about its name.                            *)
CallKept(c) ==
    /\ c.op = "Save" => registry[c.on] = c.arg /\ promise[c.on] \subseteq {c.arg}
    /\ c.op = "DeleteQueue" => registry[c.on] = Absent /\ promise[c.on] \subseteq {Absent}
    /\ c.op = "SaveBinding" =>
         c.arg = {c.on} /\ c.on \in InRegistry /\ promise[c.on] \subseteq {TRUE}
    /\ c.op = "DeleteBinding" => c.on \notin InRegistry /\ promise[c.on] \subseteq {FALSE}

PromiseInv ==
    /\ \A n \in Names : NameKept(n)
    /\ \A b \in Bindings : BindingKept(b)
    /\ \A c \in calls : CallKept(c)

(* A name is no binding, and the area of a binding is its exchange. *)
LEMMA AreaIs ==
  /\ \A n \in Names : n \notin Bindings /\ Area(n) = n
  /\ \A b \in Bindings : b \notin Names /\ Area(b) = b[1] /\ b[1] \in Names
  BY TopologyAssumption, Zenon DEF Area, Names, Bindings

(* A request about a name leaves the promises about the others alone. *)
LEMMA NamePromises ==
  ASSUME Ground, PromiseInv, NEW n \in Names,
         \A m \in (Names \cup Bindings) \ {n} : promise'[m] = promise[m],
         \A m \in Names \ {n} : registry'[m] = registry[m] /\ stored'[m] = stored[m],
         UNCHANGED <<storedB, phase, todo>>, InRegistry' = InRegistry,
         NameKept(n)'
  PROVE  /\ \A m \in Names : NameKept(m)'
         /\ \A b \in Bindings : BindingKept(b)'
         /\ \A c \in calls : c.on # n => CallKept(c)'
<1>1. \A m \in Names \ {n} : NameKept(m)'
  BY DEF PromiseInv, NameKept
<1>2. \A b \in Bindings : b # n
  BY AreaIs, Zenon
<1>3. \A b \in Bindings : BindingKept(b)'
  BY <1>2, Zenon DEF PromiseInv, BindingKept, Alive
<1>4. ASSUME NEW c \in calls, c.on # n PROVE CallKept(c)'
  <2>1. /\ CallKept(c) /\ (c.op \in {"Save", "DeleteQueue"} => c.on \in Names)
        /\ c.op \in {"SaveBinding", "DeleteBinding"} => c.on \in Bindings
    BY Zenon DEF PromiseInv, Ground, Shaped, Names
  <2> QED
    BY <1>4, <2>1, Zenon DEF CallKept
<1> QED
  BY <1>1, <1>3, <1>4, Zenon

(* The same for a request about a binding. *)
LEMMA BindingPromises ==
  ASSUME Ground, PromiseInv, NEW b \in Bindings,
         \A k \in (Names \cup Bindings) \ {b} : promise'[k] = promise[k],
         \A d \in Bindings \ {b} : /\ d \in InRegistry' <=> d \in InRegistry
                                   /\ d \in storedB' <=> d \in storedB,
         UNCHANGED <<registry, stored, phase, todo>>,
         BindingKept(b)'
  PROVE  /\ \A n \in Names : NameKept(n)'
         /\ \A d \in Bindings : BindingKept(d)'
         /\ \A c \in calls : c.on # b => CallKept(c)'
<1>1. \A n \in Names : n # b
  BY AreaIs, Zenon
<1>2. \A n \in Names : NameKept(n)'
  BY <1>1, Zenon DEF PromiseInv, NameKept
<1>3. \A d \in Bindings \ {b} : BindingKept(d)'
  BY Zenon DEF PromiseInv, BindingKept, Alive
<1>4. ASSUME NEW c \in calls, c.on # b PROVE CallKept(c)'
  <2>1. /\ CallKept(c) /\ (c.op \in {"Save", "DeleteQueue"} => c.on \in Names)
        /\ c.op \in {"SaveBinding", "DeleteBinding"} => c.on \in Bindings
    BY Zenon DEF PromiseInv, Ground, Shaped, Names
  <2> QED
    BY <1>4, <2>1, Zenon DEF CallKept
<1> QED
  BY <1>2, <1>3, <1>4, Zenon

(* A request starts when no other is under way in its area. *)
LEMMA AloneIs ==
  ASSUME Exclusive, Ground, NEW a \in Callers, NEW k \in Names \cup Bindings, MayStart(a, k)
  PROVE  /\ phase = "up"
         /\ \A c \in calls : c.op # "Append" => c.on # k
         /\ k \in Bindings =>
              \A c \in calls : c.op = "SaveBinding" => c.on[1] # k[1]
<1>1. phase = "up" /\ \A c \in calls : c.op # "Append" => Area(c.on) # Area(k)
  BY Zenon DEF MayStart
<1>2. \A c \in calls : c.op = "SaveBinding" => c.on \in Bindings
  BY Zenon DEF Ground, Shaped
<1> QED
  BY <1>1, <1>2, AreaIs, Zenon

(* Declarations. *)
LEMMA DeclarePromises ==
  ASSUME Exclusive, Ground, PromiseInv, NEW a \in Callers, NEW n \in Names, NEW s \in Specs,
         Declare(a, n, s)
  PROVE  PromiseInv'
<1>1. phase = "up" /\ \A c \in calls : c.op # "Append" => c.on # n
  BY AloneIs, Zenon DEF Declare
<1>2. /\ registry' = [registry EXCEPT ![n] = s] /\ s # Absent
      /\ UNCHANGED <<bindings, stored, storedB, phase, todo>>
  BY SpecsAreRows, Zenon DEF Declare, tables, boot
<1>3. PICK said : /\ promise' = [promise EXCEPT ![n] = said] /\ said \subseteq {s}
                  /\ s.durable => said \subseteq promise[n]
  <2>1. CASE s.durable
    <3>1. PICK both : both = promise[n] \cap {s}
      BY Zenon
    <3>2. promise' = [promise EXCEPT ![n] = both]
      BY <2>1, <3>1, Zenon DEF Declare, Begin, Call
    <3>3. both \subseteq {s} /\ both \subseteq promise[n]
      BY <3>1, Zenon
    <3> QED
      BY <3>2, <3>3, Zenon
  <2>2. CASE ~s.durable
    <3>1. promise' = [promise EXCEPT ![n] = {s}]
      BY <2>2, Zenon DEF Declare
    <3> QED
      BY <2>2, <3>1, Zenon
  <2> QED
    BY <2>1, <2>2, Zenon
<1>4. \A c \in calls' : c \in calls \/ (c.op = "Save" /\ c.on = n /\ c.arg = s)
  BY DEF Declare, Begin, Call
<1>5. /\ registry \in [Names -> Rows] /\ promise \in [Names \cup Bindings -> SUBSET Answers]
      /\ InRegistry' = InRegistry
  BY <1>2, Zenon DEF Ground, Typed, InRegistry
<1>6. promise'[n] = said /\ registry'[n] = s
  BY <1>2, <1>3, <1>5, Zenon
<1>7. NameKept(n)'
  <2> SUFFICES ASSUME NEW t \in said
               PROVE  /\ t.durable \/ t = Absent => stored'[n] = t
                      /\ registry'[n] = t
    BY <1>1, <1>2, <1>6, Zenon DEF NameKept
  <2>1. t = s
    BY <1>3, Zenon
  <2>2. s.durable => stored[n] = s
    BY <1>3, <2>1, Zenon DEF PromiseInv, NameKept
  <2> QED
    BY <1>2, <1>6, <2>1, <2>2, Zenon
<1>8. /\ \A m \in (Names \cup Bindings) \ {n} : promise'[m] = promise[m]
      /\ \A m \in Names \ {n} : registry'[m] = registry[m] /\ stored'[m] = stored[m]
  BY <1>2, <1>3, <1>5, Zenon
<1>9. /\ \A m \in Names : NameKept(m)'
      /\ \A b \in Bindings : BindingKept(b)'
      /\ \A c \in calls : c.on # n => CallKept(c)'
  BY <1>2, <1>5, <1>7, <1>8, NamePromises, Zenon
<1>10. ASSUME NEW c \in calls' PROVE CallKept(c)'
  <2>1. CASE c \in calls /\ c.on # n
    BY <1>9, <2>1, Zenon
  <2>2. CASE c \in calls /\ c.on = n
    BY <1>1, <2>2, Zenon DEF CallKept
  <2>3. CASE c.op = "Save" /\ c.on = n /\ c.arg = s
    BY <1>3, <1>6, <2>3, Zenon DEF CallKept
  <2> QED
    BY <1>4, <2>1, <2>2, <2>3, Zenon
<1> QED
  BY <1>9, <1>10, Zenon DEF PromiseInv

(* Deletions. *)
LEMMA DeletePromises ==
  ASSUME Exclusive, Ground, PromiseInv, NEW a \in Callers, NEW q \in Queues, DeleteQueue(a, q)
  PROVE  PromiseInv'
<1>0. q \in Names
  BY Zenon DEF Names
<1>1. phase = "up" /\ \A c \in calls : c.op # "Append" => c.on # q
  BY <1>0, AloneIs, Zenon DEF DeleteQueue
<1>2. /\ registry' = [registry EXCEPT ![q] = Absent] /\ registry[q] # Absent
      /\ promise' = [promise EXCEPT ![q] = promise[q] \cap {Absent}]
      /\ UNCHANGED <<bindings, stored, storedB, phase, todo>>
  BY Zenon DEF DeleteQueue, Begin, Call, tables, boot
<1>3. \A c \in calls' : c \in calls \/ (c.op = "DeleteQueue" /\ c.on = q)
  BY DEF DeleteQueue, Begin, Call
<1>4. /\ registry \in [Names -> Rows] /\ promise \in [Names \cup Bindings -> SUBSET Answers]
      /\ InRegistry' = InRegistry
  BY <1>2, Zenon DEF Ground, Typed, InRegistry
<1>5. Absent \notin promise[q]
  BY <1>0, <1>1, <1>2, Zenon DEF PromiseInv, NameKept
<1>6. promise'[q] = {} /\ registry'[q] = Absent
  BY <1>0, <1>2, <1>4, <1>5, Zenon
<1>7. NameKept(q)'
  BY <1>6, Zenon DEF NameKept
<1>8. /\ \A m \in (Names \cup Bindings) \ {q} : promise'[m] = promise[m]
      /\ \A m \in Names \ {q} : registry'[m] = registry[m] /\ stored'[m] = stored[m]
  BY <1>0, <1>2, <1>4, Zenon
<1>9. /\ \A m \in Names : NameKept(m)'
      /\ \A b \in Bindings : BindingKept(b)'
      /\ \A c \in calls : c.on # q => CallKept(c)'
  BY <1>0, <1>2, <1>4, <1>7, <1>8, NamePromises, Zenon
<1>10. ASSUME NEW c \in calls' PROVE CallKept(c)'
  <2>1. CASE c \in calls /\ c.on # q
    BY <1>9, <2>1, Zenon
  <2>2. CASE c \in calls /\ c.on = q
    BY <1>1, <2>2, Zenon DEF CallKept
  <2>3. CASE c.op = "DeleteQueue" /\ c.on = q
    BY <1>6, <2>3, Zenon DEF CallKept
  <2> QED
    BY <1>3, <2>1, <2>2, <2>3, Zenon
<1> QED
  BY <1>9, <1>10, Zenon DEF PromiseInv

(* Bindings: nobody else holds a pointer into the slice. *)
LEMMA BindPromises ==
  ASSUME Exclusive, Ground, PromiseInv, NEW a \in Callers, NEW b \in Bindings,
         Bind(a, b) \/ Unbind(a, b)
  PROVE  PromiseInv'
<1>1. /\ phase = "up" /\ \A c \in calls : c.op # "Append" => c.on # b
      /\ \A c \in calls : c.op = "SaveBinding" => c.on[1] # b[1]
  BY AloneIs, Zenon DEF Bind, Unbind
<1>2. UNCHANGED <<registry, stored, storedB, phase, todo>>
  BY Zenon DEF Bind, Unbind, tables, boot
<1>3. /\ Bind(a, b) => promise' = [promise EXCEPT ![b] = promise[b] \cap {TRUE}]
      /\ Unbind(a, b) => promise' = [promise EXCEPT ![b] = promise[b] \cap {FALSE}]
  BY Zenon DEF Bind, Unbind
<1>4. /\ Bind(a, b) => /\ InRegistry' = InRegistry \cup {b}
                       /\ \A d \in calls' : d \in calls \/
                             (d.op = "SaveBinding" /\ d.on = b /\ d.arg = {b})
      /\ Unbind(a, b) => /\ InRegistry' = InRegistry \ {b}
                         /\ \A d \in calls' : d \in calls \/ (d.op = "DeleteBinding" /\ d.on = b)
  BY <1>1, BindCalls, UnbindCalls
<1>5. promise \in [Names \cup Bindings -> SUBSET Answers]
  BY Zenon DEF Ground, Typed
<1>6. /\ \A k \in (Names \cup Bindings) \ {b} : promise'[k] = promise[k]
      /\ Bind(a, b) => promise'[b] = promise[b] \cap {TRUE}
      /\ Unbind(a, b) => promise'[b] = promise[b] \cap {FALSE}
  BY <1>3, <1>5, Zenon
<1>7. BindingKept(b)'
  <2>1. BindingKept(b)
    BY Zenon DEF PromiseInv
  <2>2. CASE Bind(a, b)
    <3>1. promise'[b] \subseteq promise[b] /\ FALSE \notin promise'[b] /\ b \in InRegistry'
      BY <1>4, <1>6, <2>2, Zenon
    <3> QED
      BY <1>2, <2>1, <3>1, Zenon DEF BindingKept
  <2>3. CASE Unbind(a, b)
    <3>1. promise'[b] \subseteq promise[b] /\ TRUE \notin promise'[b] /\ b \notin InRegistry'
      BY <1>4, <1>6, <2>3, Zenon
    <3> QED
      BY <1>2, <2>1, <3>1, Zenon DEF BindingKept
  <2> QED
    BY <2>2, <2>3, Zenon
<1>8. \A d \in Bindings \ {b} : /\ d \in InRegistry' <=> d \in InRegistry
                                /\ d \in storedB' <=> d \in storedB
  BY <1>2, <1>4, Zenon
<1>9. /\ \A n \in Names : NameKept(n)'
      /\ \A d \in Bindings : BindingKept(d)'
      /\ \A c \in calls : c.on # b => CallKept(c)'
  BY <1>2, <1>6, <1>7, <1>8, BindingPromises, Zenon
<1>10. ASSUME NEW c \in calls' PROVE CallKept(c)'
  <2>1. CASE c \in calls /\ c.on # b
    BY <1>9, <2>1, Zenon
  <2>2. CASE c \in calls /\ c.on = b
    BY <1>1, <2>2, Zenon DEF CallKept
  <2>3. CASE c \notin calls
    <3>1. CASE Bind(a, b)
      BY <1>4, <1>6, <2>3, <3>1, Zenon DEF CallKept
    <3>2. CASE Unbind(a, b)
      BY <1>4, <1>6, <2>3, <3>2, Zenon DEF CallKept
    <3> QED
      BY <3>1, <3>2, Zenon
  <2> QED
    BY <2>1, <2>2, <2>3, Zenon
<1> QED
  BY <1>9, <1>10, Zenon DEF PromiseInv

(* Publications promise nothing about the topology. *)
LEMMA PublishPromises ==
  ASSUME PromiseInv, NEW a \in Callers, NEW p \in Pubs, NEW x \in Exchanges, Publish(a, p, x)
  PROVE  PromiseInv'
<1>1. UNCHANGED <<registry, bindings, stored, storedB, phase, todo, promise>>
  BY Zenon DEF Publish, memory, tables, boot
<1>2. InRegistry' = InRegistry
  BY <1>1, Zenon DEF InRegistry
<1>3. \A c \in calls' : c \in calls \/ c.op = "Append"
  BY DEF Publish, Call
<1>4. \A n \in Names : NameKept(n)'
  BY <1>1, Zenon DEF PromiseInv, NameKept
<1>5. \A b \in Bindings : BindingKept(b)'
  BY <1>1, <1>2, Zenon DEF PromiseInv, BindingKept, Alive
<1>6. \A c \in calls' : CallKept(c)'
  BY <1>1, <1>2, <1>3, Zenon DEF PromiseInv, CallKept
<1> QED
  BY <1>4, <1>5, <1>6, Zenon DEF PromiseInv

(* The store step makes the answer true. *)
LEMMA StorePromises ==
  ASSUME Whole, Ground, PromiseInv, NEW c \in calls,
         \/ Save(c) \/ SaveBinding(c) \/ DeleteBinding(c)
         \/ DeleteStored(c) \/ AppendMessages(c) \/ StoreFails(c)
  PROVE  PromiseInv'
<1>1. /\ calls' = calls \ {c} /\ UNCHANGED <<registry, bindings, phase, todo>>
      /\ phase = "up" /\ Shaped(c) /\ CallKept(c)
  BY StoreGround, Zenon DEF Ground, PromiseInv
<1>2. InRegistry' = InRegistry
  BY <1>1, Zenon DEF InRegistry
<1>3. /\ stored \in [Names -> Rows] /\ promise \in [Names \cup Bindings -> SUBSET Answers]
      /\ \A d \in calls : Shaped(d) /\ CallKept(d)
  BY Zenon DEF Ground, Typed, PromiseInv
<1>4. ASSUME NEW n \in Names, NEW s \in Rows, c.on = n, c.op # "Append",
             registry[n] = s, stored' = [stored EXCEPT ![n] = s],
             promise' = [promise EXCEPT ![n] = {s}], storedB' = storedB
      PROVE  PromiseInv'
  <2>1. promise'[n] = {s} /\ stored'[n] = s
    BY <1>3, <1>4, Zenon
  <2>2. NameKept(n)'
    BY <1>1, <1>4, <2>1, Zenon DEF NameKept
  <2>3. /\ \A m \in (Names \cup Bindings) \ {n} : promise'[m] = promise[m]
        /\ \A m \in Names \ {n} : registry'[m] = registry[m] /\ stored'[m] = stored[m]
    BY <1>1, <1>3, <1>4, Zenon
  <2>4. /\ \A m \in Names : NameKept(m)'
        /\ \A b \in Bindings : BindingKept(b)'
        /\ \A d \in calls : d.on # n => CallKept(d)'
    BY <1>1, <1>2, <1>4, <2>2, <2>3, NamePromises, Zenon
  <2>5. ASSUME NEW d \in calls, d.on = n PROVE CallKept(d)'
    <3>1. d.op \notin {"SaveBinding", "DeleteBinding"}
      BY <1>3, <2>5, AreaIs, Zenon DEF Shaped
    <3>2. /\ d.op = "Save" => s = d.arg
          /\ d.op = "DeleteQueue" => s = Absent
      BY <1>3, <1>4, <2>5, Zenon DEF CallKept
    <3> QED
      BY <1>1, <1>4, <2>1, <2>5, <3>1, <3>2, Zenon DEF CallKept
  <2> QED
    BY <1>1, <2>4, <2>5, Zenon DEF PromiseInv
<1>5. ASSUME NEW b \in Bindings, NEW said, c.on = b, stored' = stored,
             promise' = [promise EXCEPT ![b] = {said}],
             \/ said = TRUE /\ b \in InRegistry /\ storedB' = storedB \cup {b}
             \/ said = FALSE /\ b \notin InRegistry /\ storedB' = storedB \ {b}
      PROVE  PromiseInv'
  <2>1. promise'[b] = {said}
    BY <1>3, <1>5, Zenon
  <2>2. BindingKept(b)'
    BY <1>1, <1>2, <1>5, <2>1, Zenon DEF BindingKept
  <2>3. /\ \A k \in (Names \cup Bindings) \ {b} : promise'[k] = promise[k]
        /\ \A d \in Bindings \ {b} : /\ d \in InRegistry' <=> d \in InRegistry
                                     /\ d \in storedB' <=> d \in storedB
    BY <1>2, <1>3, <1>5, Zenon
  <2>4. /\ \A m \in Names : NameKept(m)'
        /\ \A d \in Bindings : BindingKept(d)'
        /\ \A d \in calls : d.on # b => CallKept(d)'
    BY <1>1, <1>5, <2>2, <2>3, BindingPromises, Zenon
  <2>5. ASSUME NEW d \in calls, d.on = b PROVE CallKept(d)'
    <3>1. d.op \notin {"Save", "DeleteQueue"}
      BY <1>3, <2>5, AreaIs, Zenon DEF Shaped, Names
    <3>2. /\ d.op = "SaveBinding" => b \in InRegistry
          /\ d.op = "DeleteBinding" => b \notin InRegistry
      BY <1>3, <2>5, Zenon DEF CallKept
    <3> QED
      BY <1>2, <1>3, <1>5, <2>1, <2>5, <3>1, <3>2, Zenon DEF CallKept
  <2> QED
    BY <1>1, <2>4, <2>5, Zenon DEF PromiseInv
<1>6. CASE Save(c)
  <2>1. c.on \in Names /\ c.arg \in Specs /\ c.arg \in Rows /\ registry[c.on] = c.arg
    BY <1>1, <1>6, SpecsAreRows, Zenon DEF Save, Shaped, CallKept
  <2>2. /\ stored' = [stored EXCEPT ![c.on] = c.arg] /\ storedB' = storedB
        /\ promise' = [promise EXCEPT ![c.on] = {c.arg}]
    BY <1>6, <2>1, Zenon DEF Save, Return, Whole
  <2> QED
    BY <1>4, <1>6, <2>1, <2>2, Zenon DEF Save
<1>7. CASE DeleteStored(c)
  <2>1. c.on \in Names /\ Absent \in Rows /\ registry[c.on] = Absent
    BY <1>1, <1>7, SpecsAreRows, Zenon DEF DeleteStored, Shaped, CallKept, Names
  <2> QED
    BY <1>4, <1>7, <2>1, Zenon DEF DeleteStored, Return
<1>8. CASE SaveBinding(c)
  <2>1. c.on \in Bindings /\ c.arg = {c.on} /\ c.on \in InRegistry
    BY <1>1, <1>8, Zenon DEF SaveBinding, Shaped, CallKept
  <2>2. storedB' = storedB \cup {c.on}
    BY <1>8, <2>1, Zenon DEF SaveBinding
  <2> QED
    BY <1>5, <1>8, <2>1, <2>2, Zenon DEF SaveBinding, Return
<1>9. CASE DeleteBinding(c)
  <2>1. c.on \in Bindings /\ c.on \notin InRegistry
    BY <1>1, <1>9, Zenon DEF DeleteBinding, Shaped, CallKept
  <2> QED
    BY <1>5, <1>9, <2>1, Zenon DEF DeleteBinding, Return
<1>10. CASE AppendMessages(c) \/ StoreFails(c)
  <2>1. UNCHANGED <<stored, storedB, promise>>
    BY <1>10, Zenon DEF AppendMessages, StoreFails, tables, answers
  <2> QED
    BY <1>1, <1>2, <2>1, ZenonT(30) DEF PromiseInv, NameKept, BindingKept, CallKept, Alive
<1> QED
  BY <1>6, <1>7, <1>8, <1>9, <1>10, Zenon

(* A crash forgets what does not last; a boot restores and declares. *)
LEMMA BootPromises ==
  ASSUME Whole, Ground, PromiseInv,
         \/ \E n \in Names : BootDeclare(n)
         \/ \E b \in Bindings : BootBind(b)
         \/ Crash \/ Restart \/ Booted \/ BootFails
  PROVE  PromiseInv'
<1> SUFFICES (\A n \in Names : NameKept(n)') /\ \A b \in Bindings : BindingKept(b)'
  BY BootGround, Zenon DEF PromiseInv
<1>1. /\ \A n \in Names : NameKept(n)
      /\ \A b \in Bindings : BindingKept(b)
      /\ registry \in [Names -> Rows] /\ stored \in [Names -> Rows]
      /\ promise \in [Names \cup Bindings -> SUBSET Answers]
  BY Zenon DEF PromiseInv, Ground, Typed
<1>2. ASSUME NEW n \in Names, BootDeclare(n), phase' # "failed"
      PROVE  (\A m \in Names : NameKept(m)') /\ \A b \in Bindings : BindingKept(b)'
  <2>1. n \in DOMAIN Config /\ phase = "booting"
    BY <1>2, TopologyAssumption, Zenon DEF BootDeclare, Ground, Typed
  <2>2. PICK s \in Specs : s = Config[n] /\ Saved(s) = s /\ s # Absent /\ s \in Rows
    BY <2>1, TopologyAssumption, SpecsAreRows, Zenon DEF Whole
  <2>3. /\ registry' = [registry EXCEPT ![n] = s]
        /\ promise' = [promise EXCEPT ![n] = {s}] /\ todo' = todo \ {n}
        /\ stored' = IF s.durable THEN [stored EXCEPT ![n] = s] ELSE stored
        /\ UNCHANGED <<phase, storedB, bindings>>
    BY <1>2, <2>2, Zenon DEF BootDeclare
  <2>4. registry'[n] = s /\ promise'[n] = {s} /\ (s.durable => stored'[n] = s)
    BY <1>1, <2>3, Zenon
  <2>5. NameKept(n)'
    BY <2>1, <2>2, <2>3, <2>4, Zenon DEF NameKept
  <2>6. ASSUME NEW m \in Names \ {n} PROVE NameKept(m)'
    <3>1. /\ registry'[m] = registry[m] /\ promise'[m] = promise[m] /\ stored'[m] = stored[m]
          /\ (m \in todo' <=> m \in todo)
      BY <1>1, <2>3, Zenon
    <3> QED
      BY <1>1, <2>3, <3>1, Zenon DEF NameKept
  <2>7. ASSUME NEW b \in Bindings PROVE BindingKept(b)'
    <3>1. promise'[b] = promise[b] /\ InRegistry' = InRegistry
      BY <1>1, <2>3, AreaIs DEF InRegistry
    <3> QED
      BY <1>1, <2>3, <3>1, Zenon DEF BindingKept, Alive
  <2> QED
    BY <2>5, <2>6, <2>7, Zenon
<1>3. ASSUME NEW b \in Bindings, BootBind(b), phase' # "failed"
      PROVE  (\A m \in Names : NameKept(m)') /\ \A d \in Bindings : BindingKept(d)'
  <2>1. /\ phase = "booting" /\ UNCHANGED <<registry, stored, phase>>
        /\ promise' = [promise EXCEPT ![b] = {TRUE}] /\ todo' = todo \ {b}
        /\ storedB' = storedB \cup {b}
    BY <1>3, Zenon DEF BootBind
  <2>2. InRegistry' = InRegistry \cup {b}
    BY <1>3, <2>1, BootGround, Zenon
  <2>3. ASSUME NEW m \in Names PROVE NameKept(m)'
    <3>1. promise'[m] = promise[m] /\ (m \in todo' <=> m \in todo)
      BY <1>1, <2>1, AreaIs, Zenon
    <3> QED
      BY <1>1, <2>1, <3>1, Zenon DEF NameKept
  <2>4. ASSUME NEW d \in Bindings, d # b PROVE BindingKept(d)'
    <3>1. promise'[d] = promise[d]
      BY <1>1, <2>1, <2>4, Zenon
    <3> QED
      BY <1>1, <2>1, <2>2, <2>4, <3>1, Zenon DEF BindingKept, Alive
  <2>5. BindingKept(b)'
    <3>1. promise'[b] = {TRUE}
      BY <1>1, <2>1, Zenon
    <3> QED
      BY <2>1, <2>2, <3>1, Zenon DEF BindingKept
  <2> QED
    BY <2>3, <2>4, <2>5, Zenon
<1>4. ASSUME phase' = "failed"
      PROVE  (\A m \in Names : NameKept(m)') /\ \A d \in Bindings : BindingKept(d)'
  <2>1. UNCHANGED <<stored, storedB, promise>>
    BY <1>4, Zenon DEF BootDeclare, BootBind, Crash, Restart, Booted, BootFails
  <2> QED
    BY <1>1, <1>4, <2>1, Zenon DEF NameKept, BindingKept, Alive
<1>5. CASE Crash
  <2>1. /\ phase' = "down" /\ UNCHANGED <<stored, storedB>>
        /\ \A n \in Names : promise'[n] = {s \in promise[n] : s.durable \/ s = Absent}
        /\ \A b \in Bindings : promise'[b] = promise[b]
    BY <1>1, <1>5, AreaIs, Zenon DEF Crash, tables
  <2> QED
    BY <1>1, <2>1, ZenonT(30) DEF NameKept, BindingKept, Alive
<1>6. CASE Restart
  <2>1. /\ phase = "down" /\ phase' = "booting" /\ registry' = stored
        /\ DOMAIN Config \subseteq todo' /\ UNCHANGED <<stored, storedB, promise>>
    BY <1>6, Zenon DEF Restart, tables, answers
  <2>2. InRegistry' = storedB
    BY <1>6, BootGround, Zenon
  <2>3. \A n \in Names : NameKept(n)'
    BY <1>1, <2>1, Zenon DEF NameKept
  <2>4. \A b \in Bindings : BindingKept(b)'
    BY <1>1, <2>1, <2>2, Zenon DEF BindingKept, Alive
  <2> QED
    BY <2>3, <2>4, Zenon
<1>7. CASE Booted
  <2>1. /\ phase = "booting" /\ todo = {} /\ phase' = "up"
        /\ UNCHANGED <<registry, bindings, stored, storedB, promise>>
    BY <1>7, Zenon DEF Booted, memory, tables, answers
  <2>2. InRegistry' = InRegistry
    BY <2>1, Zenon DEF InRegistry
  <2>3. \A n \in Names : NameKept(n)'
    BY <1>1, <2>1, Zenon DEF NameKept
  <2>4. \A b \in Bindings : BindingKept(b)'
    BY <1>1, <2>1, <2>2, Zenon DEF BindingKept, Alive
  <2> QED
    BY <2>3, <2>4, Zenon
<1>8. CASE BootFails
  <2>1. phase = "booting" /\ phase' = "down" /\ UNCHANGED <<stored, storedB, promise>>
    BY <1>8, Zenon DEF BootFails, tables, answers
  <2> QED
    BY <1>1, <2>1, Zenon DEF NameKept, BindingKept, Alive
<1> QED
  BY <1>2, <1>3, <1>4, <1>5, <1>6, <1>7, <1>8, Zenon

(* What a successful answer said about a queue, an exchange or a binding   *)
(* stays true in memory and in the store, through crashes, failed store    *)
(* calls and boots, until the next request about it (engine.go Declare,    *)
(* DeleteQueue, Bind, Unbind and Restore), when requests about the same    *)
(* name do not overlap and timeouts are whole milliseconds.                *)
THEOREM AnswersStay == ASSUME Exclusive, Whole PROVE Spec => []PromisesKept
<1>1. Init => PromiseInv
  <2> SUFFICES ASSUME Init PROVE PromiseInv
    BY Zenon
  <2>1. \A n \in Names : promise[n] = {Absent} /\ stored[n] = Absent
    BY Zenon DEF Init
  <2>2. \A b \in Bindings : promise[b] = {FALSE}
    BY AreaIs, Zenon DEF Init
  <2>3. \A n \in Names : NameKept(n)
    BY <2>1, Zenon DEF Init, NameKept
  <2>4. \A b \in Bindings : BindingKept(b)
    BY <2>2, GroundInit, Zenon DEF Init, BindingKept
  <2> QED
    BY <2>3, <2>4, Zenon DEF Init, PromiseInv
<1>2. Ground /\ PromiseInv /\ [Next]_vars => PromiseInv'
  <2> SUFFICES ASSUME Ground, PromiseInv, [Next]_vars PROVE PromiseInv'
    BY Zenon
  <2>1. CASE UNCHANGED vars
    BY <2>1, StutterIs, ZenonT(30) DEF PromiseInv, NameKept, BindingKept, CallKept, Alive
  <2> QED
    BY <2>1, DeclarePromises, DeletePromises, BindPromises, PublishPromises, StorePromises,
       BootPromises, Zenon DEF Next
<1>3. PromiseInv => PromisesKept
  <2> SUFFICES ASSUME PromiseInv PROVE PromisesKept
    BY Zenon
  <2>1. \A n \in Names : \A s \in promise[n] :
          /\ phase = "up" => registry[n] = s
          /\ s.durable \/ s = Absent => stored[n] = s
    BY Zenon DEF PromiseInv, NameKept
  <2>2. ASSUME NEW b \in Bindings, NEW s \in promise[b]
        PROVE  (phase = "up" => (b \in InRegistry) = s) /\ (b \in storedB) = s
    <3>1. BindingKept(b)
      BY Zenon DEF PromiseInv
    <3>2. CASE s = TRUE
      <4>1. b \in storedB /\ (phase = "up" => b \in InRegistry)
        BY <3>1, <3>2, Zenon DEF BindingKept, Alive
      <4> QED
        BY <3>2, <4>1, Zenon
    <3>3. CASE s = FALSE
      <4>1. b \notin storedB /\ (phase = "up" => b \notin InRegistry)
        BY <3>1, <3>3, Zenon DEF BindingKept, Alive
      <4>2. (phase = "up" => (b \in InRegistry) = FALSE) /\ (b \in storedB) = FALSE
        BY <4>1
      <4> QED
        BY <3>3, <4>2, Zenon
    <3>4. s \in BOOLEAN
      BY <3>1, Zenon DEF BindingKept
    <3> QED
      BY <3>2, <3>3, <3>4, Zenon
  <2> QED
    BY <2>1, <2>2, Zenon DEF PromisesKept
<1> QED
  BY <1>1, <1>2, <1>3, GroundAlways, PTL DEF Spec
=============================================================================
