--------------------------- MODULE BuildersProofs ---------------------------
(***************************************************************************)
(* Proofs about Builders, for any specs that the CRD admits, any values of    *)
(* labels, images and quantities, and any number of edits.                    *)
(***************************************************************************)
EXTENDS Builders, TLAPS

\* At most one element of seq has this name.
Single(seq, name) ==
    \A i, j \in DOMAIN seq : seq[i].name = name /\ seq[j].name = name => i = j

\* A container as the API server stores it: one port is the workload's, and a
\* limit has its request.
TidyContainer(c) == Single(c.ports, "http") /\ DOMAIN c.limits \subseteq DOMAIN c.requests

\* A Deployment as the API server stores it.
TidyDeployment(d) ==
    /\ Single(d.containers, "workload")
    /\ \A i \in DOMAIN d.containers : TidyContainer(d.containers[i])

Tidy == kind = "Deployment" /\ object # Nil => TidyDeployment(object)

BuildersInv == TypeOK /\ Tidy /\ LikeNew /\ Quiet

-----------------------------------------------------------------------------
(* Maps *)

\* A map is a function with keys in S and values in Values.
LEMMA MapsDef ==
    ASSUME NEW S, NEW f
    PROVE  f \in Maps(S) <=> /\ DOMAIN f \subseteq S
                             /\ f = [x \in DOMAIN f |-> f[x]]
                             /\ \A x \in DOMAIN f : f[x] \in Values
<1>1. ASSUME f \in Maps(S)
      PROVE  /\ DOMAIN f \subseteq S
             /\ f = [x \in DOMAIN f |-> f[x]]
             /\ \A x \in DOMAIN f : f[x] \in Values
  <2>1. PICK T \in SUBSET S : f \in [T -> Values]
    BY <1>1 DEF Maps
  <2> QED BY <2>1
<1>2. ASSUME DOMAIN f \subseteq S, f = [x \in DOMAIN f |-> f[x]],
             \A x \in DOMAIN f : f[x] \in Values
      PROVE  f \in Maps(S)
  <2>1. f \in [DOMAIN f -> Values]
    BY <1>2
  <2> QED BY <1>2, <2>1 DEF Maps
<1> QED BY <1>1, <1>2

\* Two maps are equal when they have the same keys and the same values.
LEMMA MapsEqual ==
    ASSUME NEW f, NEW g, f = [x \in DOMAIN f |-> f[x]], g = [x \in DOMAIN g |-> g[x]],
           DOMAIN f = DOMAIN g, \A x \in DOMAIN f : f[x] = g[x]
    PROVE  f = g
OBVIOUS

\* Over combines two maps into one.
LEMMA OverType ==
    ASSUME NEW S, NEW f \in Maps(S), NEW g \in Maps(S)
    PROVE  Over(f, g) \in Maps(S)
<1>1. DOMAIN f \subseteq S /\ \A x \in DOMAIN f : f[x] \in Values
  BY MapsDef
<1>2. DOMAIN g \subseteq S /\ \A x \in DOMAIN g : g[x] \in Values
  BY MapsDef
<1> DEFINE o == Over(f, g)
<1>3. /\ o = [x \in DOMAIN o |-> o[x]] /\ DOMAIN o = DOMAIN f \cup DOMAIN g
      /\ \A x \in DOMAIN f : o[x] = f[x]
      /\ \A x \in DOMAIN g \ DOMAIN f : o[x] = g[x]
  BY DEF Over
<1> HIDE DEF o
<1>4. DOMAIN o \subseteq S /\ \A x \in DOMAIN o : o[x] \in Values
  BY <1>1, <1>2, <1>3
<1>5. o \in Maps(S)
  BY <1>3, <1>4, MapsDef
<1> QED BY <1>5 DEF o

\* What Restrict returns, key by key.
LEMMA RestrictFields ==
    ASSUME NEW f, NEW T
    PROVE  /\ DOMAIN Restrict(f, T) = T
           /\ Restrict(f, T) = [x \in DOMAIN Restrict(f, T) |-> Restrict(f, T)[x]]
           /\ \A x \in T : Restrict(f, T)[x] = f[x]
BY DEF Restrict

\* A map restricted to some of its keys is a map.
LEMMA RestrictType ==
    ASSUME NEW S, NEW f \in Maps(S), NEW T \in SUBSET (DOMAIN f)
    PROVE  Restrict(f, T) \in Maps(S)
<1>1. DOMAIN f \subseteq S /\ \A x \in DOMAIN f : f[x] \in Values
  BY MapsDef
<1> QED BY <1>1, RestrictFields, MapsDef

\* The empty map, and a map of more keys.
LEMMA MapsFacts ==
    ASSUME NEW S
    PROVE  /\ Empty \in Maps(S) /\ DOMAIN Empty = {}
           /\ \A T \in SUBSET S : Maps(T) \subseteq Maps(S)
           /\ \A k \in S, v \in Values : Entry(k, v) \in Maps(S)
<1>1. DOMAIN Empty = {} /\ Empty = [x \in DOMAIN Empty |-> Empty[x]]
  BY DEF Empty
<1>2. Empty \in Maps(S)
  BY <1>1, MapsDef
<1>3. ASSUME NEW T \in SUBSET S, NEW f \in Maps(T)
      PROVE  f \in Maps(S)
  BY MapsDef
<1>4. ASSUME NEW k \in S, NEW v \in Values
      PROVE  Entry(k, v) \in Maps(S)
  <2> DEFINE m == Entry(k, v)
  <2>1. DOMAIN m = {k} /\ m = [x \in DOMAIN m |-> m[x]] /\ m[k] = v
    BY DEF Entry
  <2> HIDE DEF m
  <2>2. m \in Maps(S)
    BY <2>1, MapsDef
  <2> QED BY <2>2 DEF m
<1> QED BY <1>1, <1>2, <1>3, <1>4

-----------------------------------------------------------------------------
(* Labels *)

\* The labels that the workload asks for.
LEMMA WantedFields ==
    ASSUME NEW s \in Workloads
    PROVE  /\ Wanted(s) = [x \in DOMAIN Wanted(s) |-> Wanted(s)[x]]
           /\ DOMAIN Wanted(s) \subseteq Optional \cup {"managed"}
           /\ "managed" \in DOMAIN Wanted(s)
           /\ Wanted(s) \in Labels
<1>1. /\ DOMAIN Wanted(s) = {"managed"} \cup {o \in Optional : s[o] # Nil}
      /\ Wanted(s) = [x \in DOMAIN Wanted(s) |-> Wanted(s)[x]]
      /\ \A x \in DOMAIN Wanted(s) :
             Wanted(s)[x] = IF x = "managed" THEN 1 ELSE s[x]
  BY DEF Wanted
<1>2. \A o \in Optional : s[o] \in Values \cup {Nil}
  BY DEF Workloads, Optional
<1>3. 1 \in Values
  BY BuildersAssumption
<1>4. \A x \in DOMAIN Wanted(s) : Wanted(s)[x] \in Values
  BY <1>1, <1>2, <1>3
<1>5. DOMAIN Wanted(s) \subseteq LabelKeys
  BY <1>1 DEF LabelKeys
<1> QED BY <1>1, <1>4, <1>5, MapsDef DEF Labels

\* managedMetadata yields labels.
LEMMA MetadataType ==
    ASSUME NEW s \in Workloads, NEW l \in Labels
    PROVE  managedMetadata(l, s) \in Labels
BY WantedFields, RestrictType, OverType DEF managedMetadata, Labels

\* What managedMetadata returns, key by key.
LEMMA MetadataFields ==
    ASSUME NEW s \in Workloads, NEW l \in Labels
    PROVE  LET m == managedMetadata(l, s)
           IN  /\ m = [x \in DOMAIN m |-> m[x]]
               /\ DOMAIN m = DOMAIN Wanted(s) \cup (DOMAIN l \cap {"foreign"})
               /\ \A x \in DOMAIN Wanted(s) : m[x] = Wanted(s)[x]
               /\ "foreign" \in DOMAIN l => m["foreign"] = l["foreign"]
<1> DEFINE r == Restrict(l, DOMAIN l \ Optional)
<1>1. DOMAIN l \subseteq Optional \cup {"managed", "foreign"}
  BY MapsDef DEF Labels, LabelKeys
<1>2. DOMAIN r = DOMAIN l \ Optional /\ \A x \in DOMAIN r : r[x] = l[x]
  BY RestrictFields
<1>3. "foreign" \notin Optional /\ "managed" # "foreign"
  BY DEF Optional
<1>4. managedMetadata(l, s) = Over(Wanted(s), r)
  BY DEF managedMetadata
<1>5. "foreign" \notin DOMAIN Wanted(s)
  BY <1>3, WantedFields
<1> HIDE DEF r
<1>6. DOMAIN Wanted(s) \cup DOMAIN r = DOMAIN Wanted(s) \cup (DOMAIN l \cap {"foreign"})
  BY <1>1, <1>2, <1>3, WantedFields
<1> DEFINE m == managedMetadata(l, s)
<1>7. /\ m = [x \in DOMAIN m |-> m[x]] /\ DOMAIN m = DOMAIN Wanted(s) \cup DOMAIN r
      /\ \A x \in DOMAIN Wanted(s) : m[x] = Wanted(s)[x]
      /\ \A x \in DOMAIN r \ DOMAIN Wanted(s) : m[x] = r[x]
  BY <1>4 DEF Over
<1> HIDE DEF m
<1>8. "foreign" \in DOMAIN l => m["foreign"] = l["foreign"]
  BY <1>2, <1>3, <1>5, <1>7
<1> QED BY <1>6, <1>7, <1>8 DEF m

\* A second pass of managedMetadata changes nothing.
LEMMA MetadataTwice ==
    ASSUME NEW s \in Workloads, NEW l \in Labels
    PROVE  managedMetadata(managedMetadata(l, s), s) = managedMetadata(l, s)
<1> DEFINE m == managedMetadata(l, s)
           n == managedMetadata(m, s)
<1>1. m \in Labels
  BY MetadataType
<1>2. "foreign" \notin DOMAIN Wanted(s)
  BY WantedFields DEF Optional
<1>3. /\ m = [x \in DOMAIN m |-> m[x]]
      /\ DOMAIN m = DOMAIN Wanted(s) \cup (DOMAIN l \cap {"foreign"})
      /\ \A x \in DOMAIN Wanted(s) : m[x] = Wanted(s)[x]
  BY MetadataFields
<1> HIDE DEF m
<1>4. /\ n = [x \in DOMAIN n |-> n[x]]
      /\ DOMAIN n = DOMAIN Wanted(s) \cup (DOMAIN m \cap {"foreign"})
      /\ \A x \in DOMAIN Wanted(s) : n[x] = Wanted(s)[x]
      /\ "foreign" \in DOMAIN m => n["foreign"] = m["foreign"]
  BY <1>1, MetadataFields
<1> HIDE DEF n
<1>5. DOMAIN n = DOMAIN m /\ \A x \in DOMAIN n : n[x] = m[x]
  BY <1>2, <1>3, <1>4
<1>6. n = m
  BY <1>3, <1>4, <1>5, MapsEqual
<1> QED BY <1>6 DEF m, n

\* The workload decides every label but the foreign one, and keeps that one.
LEMMA MetadataParts ==
    ASSUME NEW s \in Workloads, NEW l \in Labels
    PROVE  LET m == managedMetadata(l, s)
           IN  /\ Restrict(m, DOMAIN m \ {"foreign"}) = Wanted(s)
               /\ Restrict(m, DOMAIN m \cap {"foreign"})
                      = Restrict(l, DOMAIN l \cap {"foreign"})
<1> DEFINE m == managedMetadata(l, s)
           d == Restrict(m, DOMAIN m \ {"foreign"})
           f == Restrict(m, DOMAIN m \cap {"foreign"})
           g == Restrict(l, DOMAIN l \cap {"foreign"})
<1>1. "foreign" \notin DOMAIN Wanted(s)
  BY WantedFields DEF Optional
<1>2. /\ DOMAIN m = DOMAIN Wanted(s) \cup (DOMAIN l \cap {"foreign"})
      /\ \A x \in DOMAIN Wanted(s) : m[x] = Wanted(s)[x]
      /\ "foreign" \in DOMAIN l => m["foreign"] = l["foreign"]
  BY MetadataFields
<1> HIDE DEF m
<1>3. /\ d = [x \in DOMAIN d |-> d[x]]
      /\ DOMAIN d = DOMAIN m \ {"foreign"} /\ \A x \in DOMAIN d : d[x] = m[x]
  BY RestrictFields
<1>4. /\ f = [x \in DOMAIN f |-> f[x]]
      /\ DOMAIN f = DOMAIN m \cap {"foreign"} /\ \A x \in DOMAIN f : f[x] = m[x]
  BY RestrictFields
<1>5. /\ g = [x \in DOMAIN g |-> g[x]]
      /\ DOMAIN g = DOMAIN l \cap {"foreign"} /\ \A x \in DOMAIN g : g[x] = l[x]
  BY RestrictFields
<1> HIDE DEF d, f, g
<1>6. d = Wanted(s)
  <2>1. DOMAIN d = DOMAIN Wanted(s) /\ \A x \in DOMAIN d : d[x] = Wanted(s)[x]
    BY <1>1, <1>2, <1>3
  <2> QED BY <1>3, <2>1, WantedFields, MapsEqual
<1>7. f = g
  <2>1. DOMAIN f = DOMAIN g /\ \A x \in DOMAIN f : f[x] = g[x]
    BY <1>1, <1>2, <1>4, <1>5
  <2> QED BY <1>4, <1>5, <2>1, MapsEqual
<1> QED BY <1>6, <1>7 DEF d, f, g, m

-----------------------------------------------------------------------------
(* Compute resources *)

\* What the workload asks for: cpu and memory only, and a request for each limit.
LEMMA ComputeFields ==
    ASSUME NEW s \in Workloads
    PROVE  LET c == resourceLists(s.resources)
           IN  /\ c.requests \in Maps(Owned) /\ c.limits \in Maps(Owned)
               /\ DOMAIN c.limits \subseteq DOMAIN c.requests
<1> DEFINE r == s.resources
<1>1. r \in [requests : Maps(Owned), limits : Maps(Owned)] \cup {Nil}
  BY DEF Workloads
<1> HIDE DEF r
<1>2. CASE r = Nil
  <2>1. resourceLists(r) = [requests |-> Empty, limits |-> Empty]
    BY <1>2 DEF resourceLists
  <2>2. resourceLists(r).requests = Empty /\ resourceLists(r).limits = Empty
    BY <2>1
  <2> QED BY <2>2, MapsFacts DEF r
<1>3. CASE r # Nil
  <2>1. r \in [requests : Maps(Owned), limits : Maps(Owned)]
    BY <1>1, <1>3
  <2>2. resourceLists(r) = [r EXCEPT !.requests = Over(@, r.limits)]
    BY <1>3 DEF resourceLists
  <2>3. /\ resourceLists(r).requests = Over(r.requests, r.limits)
        /\ resourceLists(r).limits = r.limits
    BY <2>1, <2>2
  <2>4. DOMAIN Over(r.requests, r.limits) = DOMAIN r.requests \cup DOMAIN r.limits
    BY DEF Over
  <2>5. Over(r.requests, r.limits) \in Maps(Owned)
    BY <2>1, OverType
  <2> QED BY <2>1, <2>3, <2>4, <2>5 DEF r
<1> QED BY <1>2, <1>3

\* What replaceCompute returns, key by key.
LEMMA ReplaceFields ==
    ASSUME NEW current \in Lists, NEW desired \in Maps(Owned)
    PROVE  LET m == replaceCompute(current, desired)
           IN  /\ m \in Lists /\ m = [x \in DOMAIN m |-> m[x]]
               /\ DOMAIN m = DOMAIN desired \cup (DOMAIN current \ Owned)
               /\ \A x \in DOMAIN desired : m[x] = desired[x]
               /\ \A x \in DOMAIN current \ Owned : m[x] = current[x]
<1> DEFINE r == Restrict(current, DOMAIN current \ Owned)
           m == replaceCompute(current, desired)
<1>1. desired \in Lists /\ DOMAIN desired \subseteq Owned
  BY MapsFacts, MapsDef DEF Lists
<1>2. r \in Lists
  BY RestrictType DEF Lists
<1>3. DOMAIN r = DOMAIN current \ Owned /\ \A x \in DOMAIN r : r[x] = current[x]
  BY RestrictFields
<1>4. m = Over(desired, r)
  BY DEF replaceCompute
<1> HIDE DEF r, m
<1>5. m \in Lists
  BY <1>1, <1>2, <1>4, OverType DEF Lists
<1>6. /\ m = [x \in DOMAIN m |-> m[x]] /\ DOMAIN m = DOMAIN desired \cup DOMAIN r
      /\ \A x \in DOMAIN desired : m[x] = desired[x]
      /\ \A x \in DOMAIN r \ DOMAIN desired : m[x] = r[x]
  BY <1>4 DEF Over
<1>7. \A x \in DOMAIN current \ Owned : m[x] = current[x]
  BY <1>1, <1>3, <1>6
<1> QED BY <1>3, <1>5, <1>6, <1>7 DEF m

\* Lists whose cpu and memory are the desired ones already are left as they are.
LEMMA ReplaceNothing ==
    ASSUME NEW current \in Lists, NEW desired \in Maps(Owned),
           DOMAIN current \cap Owned = DOMAIN desired,
           \A x \in DOMAIN desired : current[x] = desired[x]
    PROVE  replaceCompute(current, desired) = current
<1> DEFINE m == replaceCompute(current, desired)
<1>1. /\ m = [x \in DOMAIN m |-> m[x]]
      /\ DOMAIN m = DOMAIN desired \cup (DOMAIN current \ Owned)
      /\ \A x \in DOMAIN desired : m[x] = desired[x]
      /\ \A x \in DOMAIN current \ Owned : m[x] = current[x]
  BY ReplaceFields
<1> HIDE DEF m
<1>2. DOMAIN m = DOMAIN current /\ \A x \in DOMAIN m : m[x] = current[x]
  BY <1>1
<1>3. current = [x \in DOMAIN current |-> current[x]]
  BY MapsDef DEF Lists
<1>4. m = current
  BY <1>1, <1>2, <1>3, MapsEqual
<1> QED BY <1>4 DEF m

\* Filling in keys that are there already changes nothing.
LEMMA OverNothing ==
    ASSUME NEW f \in Lists, NEW g \in Lists, DOMAIN g \subseteq DOMAIN f
    PROVE  Over(f, g) = f
<1> DEFINE o == Over(f, g)
<1>1. /\ DOMAIN o = DOMAIN f /\ o = [x \in DOMAIN o |-> o[x]]
      /\ \A x \in DOMAIN o : o[x] = f[x]
  BY DEF Over
<1>2. f = [x \in DOMAIN f |-> f[x]]
  BY MapsDef DEF Lists
<1> HIDE DEF o
<1>3. o = f
  BY <1>1, <1>2, MapsEqual
<1> QED BY <1>3 DEF o

\* The lists m have the owned part d, which the callback leaves as it is, and the
\* foreign part of c.
Merged(m, d, c) ==
    /\ Restrict(m, DOMAIN m \cap Owned) = d
    /\ Restrict(m, DOMAIN m \ Owned) = Restrict(c, DOMAIN c \ Owned)
    /\ replaceCompute(m, d) = m

\* Lists that agree with d on the owned keys, with c on the others.
LEMMA ListParts ==
    ASSUME NEW m \in Lists, NEW d \in Maps(Owned), NEW c \in Lists,
           DOMAIN m = DOMAIN d \cup (DOMAIN c \ Owned),
           \A x \in DOMAIN d : m[x] = d[x],
           \A x \in DOMAIN c \ Owned : m[x] = c[x]
    PROVE  Merged(m, d, c)
<1>1. d = [x \in DOMAIN d |-> d[x]] /\ DOMAIN d \subseteq Owned
  BY MapsDef
<1> DEFINE o == Restrict(m, DOMAIN m \cap Owned)
           f == Restrict(m, DOMAIN m \ Owned)
           g == Restrict(c, DOMAIN c \ Owned)
<1>2. /\ o = [x \in DOMAIN o |-> o[x]]
      /\ DOMAIN o = DOMAIN m \cap Owned /\ \A x \in DOMAIN o : o[x] = m[x]
  BY RestrictFields
<1>3. /\ f = [x \in DOMAIN f |-> f[x]]
      /\ DOMAIN f = DOMAIN m \ Owned /\ \A x \in DOMAIN f : f[x] = m[x]
  BY RestrictFields
<1>4. /\ g = [x \in DOMAIN g |-> g[x]]
      /\ DOMAIN g = DOMAIN c \ Owned /\ \A x \in DOMAIN g : g[x] = c[x]
  BY RestrictFields
<1> HIDE DEF o, f, g
<1>5. DOMAIN o = DOMAIN d /\ \A x \in DOMAIN o : o[x] = d[x]
  BY <1>1, <1>2
<1>6. DOMAIN f = DOMAIN g /\ \A x \in DOMAIN f : f[x] = g[x]
  BY <1>1, <1>3, <1>4
<1>7. o = d
  BY <1>1, <1>2, <1>5, MapsEqual
<1>8. f = g
  BY <1>3, <1>4, <1>6, MapsEqual
<1>9. replaceCompute(m, d) = m
  BY <1>1, ReplaceNothing
<1> QED BY <1>7, <1>8, <1>9 DEF o, f, g, Merged

\* Limits after a callback.
LEMMA LimitParts ==
    ASSUME NEW c \in Lists, NEW d \in Maps(Owned)
    PROVE  Merged(replaceCompute(c, d), d, c)
<1> DEFINE m == replaceCompute(c, d)
<1>1. /\ m \in Lists /\ DOMAIN m = DOMAIN d \cup (DOMAIN c \ Owned)
      /\ \A x \in DOMAIN d : m[x] = d[x]
      /\ \A x \in DOMAIN c \ Owned : m[x] = c[x]
  BY ReplaceFields
<1> HIDE DEF m
<1>2. Merged(m, d, c)
  BY <1>1, ListParts
<1> QED BY <1>2 DEF m

\* Requests after a callback and the API server's defaults, which fill in nothing
\* for cpu and memory.
LEMMA RequestParts ==
    ASSUME NEW R \in Lists, NEW L \in Lists, NEW d \in Maps(Owned), NEW e \in Maps(Owned),
           DOMAIN e \subseteq DOMAIN d
    PROVE  Merged(Over(replaceCompute(R, d), replaceCompute(L, e)), d, Over(R, L))
<1> DEFINE l == replaceCompute(L, e)
           r == replaceCompute(R, d)
           m == Over(r, l)
           c == Over(R, L)
<1>1. DOMAIN d \subseteq Owned
  BY MapsDef
<1>2. /\ l \in Lists /\ DOMAIN l = DOMAIN e \cup (DOMAIN L \ Owned)
      /\ \A x \in DOMAIN L \ Owned : l[x] = L[x]
  BY ReplaceFields
<1>3. /\ r \in Lists /\ DOMAIN r = DOMAIN d \cup (DOMAIN R \ Owned)
      /\ \A x \in DOMAIN d : r[x] = d[x]
      /\ \A x \in DOMAIN R \ Owned : r[x] = R[x]
  BY ReplaceFields
<1>4. c \in Lists
  BY OverType DEF Lists
<1>5. /\ DOMAIN c = DOMAIN R \cup DOMAIN L /\ c = [x \in DOMAIN c |-> c[x]]
      /\ \A x \in DOMAIN R : c[x] = R[x]
      /\ \A x \in DOMAIN L \ DOMAIN R : c[x] = L[x]
  BY DEF Over
<1> HIDE DEF l, r, c
<1>6. m \in Lists
  BY <1>2, <1>3, OverType DEF Lists
<1>7. /\ DOMAIN m = DOMAIN r \cup DOMAIN l
      /\ \A x \in DOMAIN r : m[x] = r[x]
      /\ \A x \in DOMAIN l \ DOMAIN r : m[x] = l[x]
  BY DEF Over
<1> HIDE DEF m
<1>8. DOMAIN m = DOMAIN d \cup (DOMAIN c \ Owned)
  BY <1>2, <1>3, <1>5, <1>7
<1>9. \A x \in DOMAIN d : m[x] = d[x]
  BY <1>3, <1>7
<1>10. \A x \in DOMAIN c \ Owned : m[x] = c[x]
  <2> SUFFICES ASSUME NEW x \in DOMAIN c \ Owned PROVE m[x] = c[x]
    OBVIOUS
  <2>1. CASE x \in DOMAIN R
    BY <1>3, <1>5, <1>7, <2>1
  <2>2. CASE x \notin DOMAIN R
    <3>1. x \in DOMAIN L \ Owned /\ x \notin DOMAIN r
      BY <1>1, <1>3, <1>5, <2>2
    <3> QED BY <1>2, <1>5, <1>7, <2>2, <3>1
  <2> QED BY <2>1, <2>2
<1>11. Merged(m, d, c)
  BY <1>4, <1>6, <1>8, <1>9, <1>10, ListParts
<1> QED BY <1>11 DEF m, r, l, c

-----------------------------------------------------------------------------
(* Named elements of sequences *)

\* A sequence is a function on its positions.
LEMMA Positions ==
    ASSUME NEW S, NEW seq \in Seq(S)
    PROVE  /\ Len(seq) \in Nat /\ DOMAIN seq = 1..Len(seq)
           /\ seq = [i \in DOMAIN seq |-> seq[i]]
           /\ \A i \in DOMAIN seq : i \in Nat \ {0} /\ seq[i] \in S
OBVIOUS

\* The search for a name finds its only position, or 0.
LEMMA Found ==
    ASSUME NEW S, NEW seq \in Seq(S), NEW n, Single(seq, n)
    PROVE  LET i == SelectInSeq(seq, LAMBDA x : x.name = n)
           IN  \/ i = 0 /\ \A j \in DOMAIN seq : seq[j].name # n
               \/ /\ i # 0 /\ i \in DOMAIN seq /\ seq[i].name = n
                  /\ \A j \in DOMAIN seq \ {i} : seq[j].name # n
<1> DEFINE I == {j \in 1..Len(seq) : seq[j].name = n}
           i == SelectInSeq(seq, LAMBDA x : x.name = n)
<1>1. i = IF I # {} THEN Min(I) ELSE 0
  BY DEF SelectInSeq
<1>2. DOMAIN seq = 1..Len(seq) /\ \A j \in DOMAIN seq : j \in Nat \ {0}
  BY Positions
<1> HIDE DEF i
<1>3. CASE I = {}
  BY <1>1, <1>2, <1>3 DEF i
<1>4. CASE I # {}
  <2>1. PICK k \in I : TRUE
    BY <1>4
  <2>2. k \in DOMAIN seq /\ seq[k].name = n
    BY <1>2, <2>1
  <2>3. \A j \in DOMAIN seq \ {k} : seq[j].name # n
    BY <2>2 DEF Single
  <2>4. I = {k}
    BY <1>2, <2>2, <2>3
  <2>5. k \in Nat \ {0}
    BY <1>2, <2>2
  <2>6. Min({k}) = k
    BY <2>5 DEF Min
  <2>7. i = k
    BY <1>1, <2>4, <2>6
  <2> QED BY <2>2, <2>3, <2>5, <2>7 DEF i
<1> QED BY <1>3, <1>4

\* p is seq with e at position i, which was free or held an element of that name.
Placed(p, seq, e, i) ==
    /\ i \in DOMAIN p /\ p[i] = e /\ DOMAIN p = DOMAIN seq \cup {i}
    /\ i \in DOMAIN seq => seq[i].name = e.name
    /\ \A j \in DOMAIN seq \ {i} : p[j] = seq[j] /\ seq[j].name # e.name

\* Put stores e at one position, the only one with that name, and keeps the rest.
LEMMA PutFields ==
    ASSUME NEW S, NEW seq \in Seq(S), NEW e \in S, Single(seq, e.name)
    PROVE  Put(seq, e) \in Seq(S) /\ \E i : Placed(Put(seq, e), seq, e, i)
<1> DEFINE i == SelectInSeq(seq, LAMBDA x : x.name = e.name)
           p == Put(seq, e)
<1>1. \/ i = 0 /\ \A j \in DOMAIN seq : seq[j].name # e.name
      \/ /\ i # 0 /\ i \in DOMAIN seq /\ seq[i].name = e.name
         /\ \A j \in DOMAIN seq \ {i} : seq[j].name # e.name
  BY Found
<1>2. p = IF i = 0 THEN Append(seq, e) ELSE ReplaceAt(seq, i, e)
  BY DEF Put
<1>3. Len(seq) \in Nat /\ DOMAIN seq = 1..Len(seq)
  BY Positions
<1> HIDE DEF i, p
<1>4. CASE i = 0
  <2>1. p = Append(seq, e)
    BY <1>2, <1>4
  <2>2. p \in Seq(S) /\ Len(p) = Len(seq) + 1
    BY <2>1
  <2>3. DOMAIN p = DOMAIN seq \cup {Len(seq) + 1}
    BY <1>3, <2>2
  <2>4. p[Len(seq) + 1] = e /\ \A j \in DOMAIN seq : p[j] = seq[j]
    BY <1>3, <2>1
  <2>5. Len(seq) + 1 \notin DOMAIN seq
    BY <1>3
  <2>6. \A j \in DOMAIN seq : seq[j].name # e.name
    BY <1>1, <1>3, <1>4
  <2>7. Placed(p, seq, e, Len(seq) + 1)
    BY <2>3, <2>4, <2>5, <2>6 DEF Placed
  <2> QED BY <2>2, <2>7 DEF p
<1>5. CASE i # 0
  <2>1. i \in DOMAIN seq /\ seq[i].name = e.name
    BY <1>1, <1>5
  <2>2. p = [seq EXCEPT ![i] = e]
    BY <1>2, <1>5 DEF ReplaceAt
  <2>3. p \in Seq(S) /\ DOMAIN p = DOMAIN seq
    BY <1>3, <2>1, <2>2
  <2>4. p[i] = e /\ \A j \in DOMAIN seq \ {i} : p[j] = seq[j]
    BY <1>3, <2>1, <2>2
  <2>5. \A j \in DOMAIN seq \ {i} : seq[j].name # e.name
    BY <1>1, <1>5
  <2>6. Placed(p, seq, e, i)
    BY <2>1, <2>3, <2>4, <2>5 DEF Placed
  <2> QED BY <2>3, <2>6 DEF p
<1> QED BY <1>4, <1>5

\* A sequence that holds e already is left as it is.
LEMMA PutNothing ==
    ASSUME NEW S, NEW seq \in Seq(S), NEW e \in S, Single(seq, e.name),
           NEW k \in DOMAIN seq, seq[k] = e
    PROVE  Put(seq, e) = seq
<1> DEFINE p == Put(seq, e)
<1>1. p \in Seq(S)
  BY PutFields
<1>2. PICK i : Placed(p, seq, e, i)
  BY PutFields
<1> HIDE DEF p
<1> USE DEF Placed
<1>3. i = k
  BY <1>2
<1>4. DOMAIN p = DOMAIN seq /\ \A j \in DOMAIN p : p[j] = seq[j]
  BY <1>2, <1>3
<1>5. p = [j \in DOMAIN p |-> p[j]] /\ seq = [j \in DOMAIN seq |-> seq[j]]
  BY <1>1, Positions
<1>6. p = seq
  BY <1>4, <1>5, MapsEqual
<1> QED BY <1>6 DEF p

\* The elements with other names, at their positions.
Others(seq, name) == Restrict(seq, {i \in DOMAIN seq : seq[i].name # name})

\* Sequences with the same others.
LEMMA SameOthers ==
    ASSUME NEW p, NEW q, NEW n,
           {i \in DOMAIN p : p[i].name # n} = {i \in DOMAIN q : q[i].name # n},
           \A i \in {j \in DOMAIN q : q[j].name # n} : p[i] = q[i]
    PROVE  Others(p, n) = Others(q, n)
<1> DEFINE f == Others(p, n)
           g == Others(q, n)
<1>1. /\ f = [x \in DOMAIN f |-> f[x]] /\ DOMAIN f = {i \in DOMAIN p : p[i].name # n}
      /\ \A x \in DOMAIN f : f[x] = p[x]
  BY DEF Others, Restrict
<1>2. /\ g = [x \in DOMAIN g |-> g[x]] /\ DOMAIN g = {i \in DOMAIN q : q[i].name # n}
      /\ \A x \in DOMAIN g : g[x] = q[x]
  BY DEF Others, Restrict
<1> HIDE DEF f, g
<1>3. DOMAIN f = DOMAIN g /\ \A x \in DOMAIN f : f[x] = g[x]
  BY <1>1, <1>2
<1>4. f = g
  BY <1>1, <1>2, <1>3, MapsEqual
<1> QED BY <1>4 DEF f, g

\* Where e was placed, its name has one element, e, the others stand where they
\* stood, and a Put of e would change nothing.
LEMMA PlacedParts ==
    ASSUME NEW S, NEW seq \in Seq(S), NEW e \in S, NEW p \in Seq(S), NEW i,
           Placed(p, seq, e, i)
    PROVE  /\ Single(p, e.name)
           /\ {x \in Range(p) : x.name = e.name} = {e}
           /\ Others(p, e.name) = Others(seq, e.name)
           /\ Put(p, e) = p
<1> USE DEF Placed
<1>1. \A j \in DOMAIN p : p[j].name = e.name <=> j = i
  OBVIOUS
<1>2. Single(p, e.name)
  BY <1>1 DEF Single
<1>3. {x \in Range(p) : x.name = e.name} = {e}
  <2>1. Range(p) = {p[j] : j \in DOMAIN p}
    BY DEF Range
  <2> QED BY <1>1, <2>1
<1>4. {j \in DOMAIN p : p[j].name # e.name} = {j \in DOMAIN seq : seq[j].name # e.name}
  BY <1>1
<1>5. \A j \in {k \in DOMAIN seq : seq[k].name # e.name} : p[j] = seq[j]
  OBVIOUS
<1>6. Others(p, e.name) = Others(seq, e.name)
  BY <1>4, <1>5, SameOthers
<1>7. Put(p, e) = p
  BY <1>2, PutNothing
<1> QED BY <1>2, <1>3, <1>6, <1>7

-----------------------------------------------------------------------------
(* Containers *)

\* A container that may still be empty.
RawContainers ==
    [name : {"workload", "sidecar"}, image : Values \cup {Nil}, requests : Lists,
     limits : Lists, ports : Seq(Ports), envFrom : Seq(Values),
     probes : SUBSET {"readiness", "liveness"}, security : Fixed \cup {Nil},
     foreign : Values]

\* What the workload decides about its container.
OwnedContainer(s) ==
    [name |-> "workload", image |-> s.image,
     requests |-> resourceLists(s.resources).requests,
     limits |-> resourceLists(s.resources).limits,
     ports |-> {[name |-> "http", port |-> s.port]}, envFrom |-> s.secretRefs,
     probes |-> s.health, security |-> "managed", foreign |-> 0]

\* A container comes from the API server or is new.
LEMMA ContainerTypes ==
    /\ Containers \subseteq RawContainers
    /\ NewContainer \in RawContainers /\ TidyContainer(NewContainer)
    /\ NewContainer.name = "workload"
<1>1. Containers \subseteq RawContainers
  BY DEF Containers, RawContainers
<1>2. Empty \in Lists /\ DOMAIN Empty = {}
  BY MapsFacts DEF Lists
<1>3. 1 \in Values
  BY BuildersAssumption
<1>4. << >> \in Seq(Ports) /\ << >> \in Seq(Values) /\ DOMAIN << >> = {}
  OBVIOUS
<1>5. NewContainer \in RawContainers
  BY <1>2, <1>3, <1>4 DEF NewContainer, RawContainers
<1>6. /\ NewContainer.ports = << >> /\ NewContainer.limits = Empty
      /\ NewContainer.requests = Empty /\ NewContainer.name = "workload"
  BY DEF NewContainer
<1> QED BY <1>1, <1>2, <1>4, <1>5, <1>6 DEF TidyContainer, Single

\* What the API server fills in: the requests, and nothing when they are all there.
LEMMA DefaultedFields ==
    ASSUME NEW c \in Containers, Single(c.ports, "http")
    PROVE  /\ Defaulted(c) \in Containers /\ TidyContainer(Defaulted(c))
           /\ Defaulted(c).name = c.name /\ Defaulted(c).ports = c.ports
           /\ Defaulted(c).requests = Over(c.requests, c.limits)
           /\ Defaulted(c).limits = c.limits
           /\ TidyContainer(c) => Defaulted(c) = c
<1> DEFINE r == Over(c.requests, c.limits)
<1>1. c.requests \in Lists /\ c.limits \in Lists
  BY DEF Containers
<1>2. r \in Lists
  BY <1>1, OverType DEF Lists
<1>3. /\ DOMAIN r = DOMAIN c.requests \cup DOMAIN c.limits /\ r = [x \in DOMAIN r |-> r[x]]
      /\ \A x \in DOMAIN c.requests : r[x] = c.requests[x]
  BY DEF Over
<1>4. Defaulted(c) = [c EXCEPT !.requests = r]
  BY DEF Defaulted
<1> HIDE DEF r
<1>5. [c EXCEPT !.requests = r] \in Containers
  BY <1>2 DEF Containers
<1>6. /\ Defaulted(c).name = c.name /\ Defaulted(c).ports = c.ports
      /\ Defaulted(c).limits = c.limits /\ Defaulted(c).requests = r
  BY <1>4 DEF Containers
<1>7. TidyContainer(Defaulted(c))
  BY <1>3, <1>6 DEF TidyContainer
<1>8. ASSUME TidyContainer(c)
      PROVE  Defaulted(c) = c
  <2>1. r = c.requests
    BY <1>1, <1>8, OverNothing DEF r, TidyContainer
  <2> QED BY <1>4, <2>1 DEF Containers
<1> QED BY <1>4, <1>5, <1>6, <1>7, <1>8 DEF r

\* The callback on the workload's container, field by field.
LEMMA MutatedContainer ==
    ASSUME NEW s \in Workloads, NEW c \in RawContainers, c.name = "workload",
           Single(c.ports, "http")
    PROVE  LET l == resourceLists(s.resources)
               m == mutateContainer(c, s)
           IN  /\ m \in Containers /\ m.name = "workload" /\ Single(m.ports, "http")
               /\ m = [name |-> "workload", image |-> s.image,
                       requests |-> replaceCompute(c.requests, l.requests),
                       limits |-> replaceCompute(c.limits, l.limits),
                       ports |-> Put(c.ports, [name |-> "http", port |-> s.port]),
                       envFrom |-> s.secretRefs, probes |-> s.health,
                       security |-> "managed", foreign |-> c.foreign]
<1> DEFINE l == resourceLists(s.resources)
           e == [name |-> "http", port |-> s.port]
           m == mutateContainer(c, s)
           r == replaceCompute(c.requests, l.requests)
           t == replaceCompute(c.limits, l.limits)
           p == Put(c.ports, e)
<1>1. l.requests \in Maps(Owned) /\ l.limits \in Maps(Owned)
  BY ComputeFields
<1>2. /\ c.requests \in Lists /\ c.limits \in Lists /\ c.ports \in Seq(Ports)
      /\ c.foreign \in Values
  BY DEF RawContainers
<1>3. /\ s.port \in Values /\ s.image \in Values /\ s.secretRefs \in Seq(Values)
      /\ s.health \in SUBSET {"readiness", "liveness"}
  BY DEF Workloads
<1>4. e \in Ports /\ e.name = "http"
  BY <1>3 DEF Ports
<1> HIDE DEF e, l
<1>5. r \in Lists /\ t \in Lists
  BY <1>1, <1>2, ReplaceFields
<1>6. p \in Seq(Ports) /\ Single(p, "http")
  BY <1>2, <1>4, PutFields, PlacedParts
<1>7. m = [c EXCEPT !.image = s.image, !.requests = r, !.limits = t, !.ports = p,
                    !.envFrom = s.secretRefs, !.probes = s.health, !.security = "managed"]
  BY DEF mutateContainer, l, e
<1> HIDE DEF r, t, p, m
<1>8. m = [name |-> "workload", image |-> s.image, requests |-> r, limits |-> t,
           ports |-> p, envFrom |-> s.secretRefs, probes |-> s.health,
           security |-> "managed", foreign |-> c.foreign]
  BY <1>7 DEF RawContainers
<1>9. m \in Containers
  BY <1>2, <1>3, <1>5, <1>6, <1>8 DEF Containers, Fixed
<1>10. m.ports = p /\ m.name = "workload"
  BY <1>8
<1> QED BY <1>6, <1>8, <1>9, <1>10 DEF m, r, t, p, e, l

\* The workload's container once stored: the callback would leave it as it is, its
\* owned part is that of the spec, its foreign part that of the container before.
LEMMA StoredContainer ==
    ASSUME NEW s \in Workloads, NEW c \in RawContainers, c.name = "workload",
           Single(c.ports, "http")
    PROVE  LET d == Defaulted(mutateContainer(c, s))
           IN  /\ d \in Containers /\ d.name = "workload" /\ TidyContainer(d)
               /\ mutateContainer(d, s) = d
               /\ [d EXCEPT !.requests = Restrict(@, DOMAIN @ \cap Owned),
                            !.limits = Restrict(@, DOMAIN @ \cap Owned),
                            !.ports = {p \in Range(@) : p.name = "http"},
                            !.foreign = 0] = OwnedContainer(s)
               /\ d.foreign = c.foreign
               /\ Others(d.ports, "http") = Others(c.ports, "http")
               /\ Restrict(d.limits, DOMAIN d.limits \ Owned)
                      = Restrict(c.limits, DOMAIN c.limits \ Owned)
               /\ TidyContainer(c) =>
                      Restrict(d.requests, DOMAIN d.requests \ Owned)
                          = Restrict(c.requests, DOMAIN c.requests \ Owned)
<1> DEFINE l == resourceLists(s.resources)
           e == [name |-> "http", port |-> s.port]
           m == mutateContainer(c, s)
           r == replaceCompute(c.requests, l.requests)
           t == replaceCompute(c.limits, l.limits)
           p == Put(c.ports, e)
           q == Over(r, t)
           d == Defaulted(m)
<1>1. /\ l.requests \in Maps(Owned) /\ l.limits \in Maps(Owned)
      /\ DOMAIN l.limits \subseteq DOMAIN l.requests
  BY ComputeFields
<1>2. c.requests \in Lists /\ c.limits \in Lists /\ c.ports \in Seq(Ports)
  BY DEF RawContainers
<1>3. s.port \in Values
  BY DEF Workloads
<1>4. e \in Ports /\ e.name = "http"
  BY <1>3 DEF Ports
<1>5. /\ m \in Containers /\ Single(m.ports, "http")
      /\ m = [name |-> "workload", image |-> s.image, requests |-> r, limits |-> t,
              ports |-> p, envFrom |-> s.secretRefs, probes |-> s.health,
              security |-> "managed", foreign |-> c.foreign]
  BY MutatedContainer
<1> HIDE DEF l, e, m
<1>6. /\ Single(p, "http") /\ Others(p, "http") = Others(c.ports, "http")
      /\ {x \in Range(p) : x.name = "http"} = {e} /\ Put(p, e) = p
  <2>1. p \in Seq(Ports) /\ \E i : Placed(p, c.ports, e, i)
    BY <1>2, <1>4, PutFields
  <2> QED BY <1>2, <1>4, <2>1, PlacedParts
<1>7. Merged(t, l.limits, c.limits)
  BY <1>1, <1>2, LimitParts
<1>8. Merged(q, l.requests, Over(c.requests, c.limits))
  BY <1>1, <1>2, RequestParts
<1>9. d = [m EXCEPT !.requests = Over(@, m.limits)]
  BY DEF Defaulted
<1> HIDE DEF r, t, p
<1>10. m.requests = r /\ m.limits = t
  BY <1>5
<1>11. /\ d \in Containers /\ TidyContainer(d)
  BY <1>5, DefaultedFields
<1> HIDE DEF q
<1>12. d = [m EXCEPT !.requests = q]
  BY <1>9, <1>10, <1>5 DEF q
<1> HIDE DEF d
<1>13. d = [name |-> "workload", image |-> s.image, requests |-> q, limits |-> t,
            ports |-> p, envFrom |-> s.secretRefs, probes |-> s.health,
            security |-> "managed", foreign |-> c.foreign]
  BY <1>5, <1>12
<1>14. /\ d.name = "workload" /\ d.requests = q /\ d.limits = t /\ d.ports = p
       /\ d.foreign = c.foreign /\ d.image = s.image /\ d.envFrom = s.secretRefs
       /\ d.probes = s.health /\ d.security = "managed"
  BY <1>13
<1>15. mutateContainer(d, s) = d
  <2>1. d \in RawContainers /\ Single(d.ports, "http")
    BY <1>6, <1>11, <1>14, ContainerTypes
  <2>2. mutateContainer(d, s) =
            [name |-> "workload", image |-> s.image,
             requests |-> replaceCompute(d.requests, l.requests),
             limits |-> replaceCompute(d.limits, l.limits), ports |-> Put(d.ports, e),
             envFrom |-> s.secretRefs, probes |-> s.health,
             security |-> "managed", foreign |-> d.foreign]
    BY <1>14, <2>1, MutatedContainer DEF l, e
  <2> QED BY <1>6, <1>7, <1>8, <1>13, <1>14, <2>2 DEF Merged
<1> DEFINE o == [d EXCEPT !.requests = Restrict(@, DOMAIN @ \cap Owned),
                          !.limits = Restrict(@, DOMAIN @ \cap Owned),
                          !.ports = {x \in Range(@) : x.name = "http"}, !.foreign = 0]
<1>16. o = OwnedContainer(s)
  <2>1. o = [d EXCEPT !.requests = Restrict(d.requests, DOMAIN d.requests \cap Owned),
                      !.limits = Restrict(d.limits, DOMAIN d.limits \cap Owned),
                      !.ports = {x \in Range(d.ports) : x.name = "http"}, !.foreign = 0]
    OBVIOUS
  <2> HIDE DEF o
  <2>2. o = [d EXCEPT !.requests = l.requests, !.limits = l.limits, !.ports = {e},
                      !.foreign = 0]
    BY <1>6, <1>7, <1>8, <1>14, <2>1 DEF Merged
  <2>3. o = [name |-> "workload", image |-> s.image, requests |-> l.requests,
             limits |-> l.limits, ports |-> {e}, envFrom |-> s.secretRefs,
             probes |-> s.health, security |-> "managed", foreign |-> 0]
    BY <1>13, <2>2
  <2> QED BY <2>3 DEF OwnedContainer, l, e
<1>17. TidyContainer(c) => Over(c.requests, c.limits) = c.requests
  BY <1>2, OverNothing DEF TidyContainer
<1> QED BY <1>6, <1>7, <1>8, <1>11, <1>14, <1>15, <1>16, <1>17 DEF d, m, Merged

-----------------------------------------------------------------------------
(* Deployments *)

\* A Deployment that may still be empty.
RawDeployments ==
    [labels : Labels, selector : Fixed \cup {Nil}, template : Labels,
     rollout : Fixed \cup {Nil}, pod : Fixed \cup {Nil}, foreign : Values,
     containers : Seq(Containers)]

\* What the workload decides about its Deployment.
OwnedDeployment(s) ==
    [labels |-> Wanted(s), selector |-> "managed", template |-> Wanted(s),
     rollout |-> "managed", pod |-> "managed", foreign |-> 0,
     containers |-> OwnedContainer(s)]

\* The workload's container, if there is one.
LEMMA AppOf ==
    ASSUME NEW d, d.containers \in Seq(Containers), Single(d.containers, "workload")
    PROVE  /\ \A i \in DOMAIN d.containers :
                  d.containers[i].name = "workload" => App(d) = d.containers[i]
           /\ (\A i \in DOMAIN d.containers : d.containers[i].name # "workload") =>
                  App(d) = NewContainer
<1> DEFINE i == SelectInSeq(d.containers, LAMBDA c : c.name = "workload")
           cs == d.containers
<1>1. \/ i = 0 /\ \A j \in DOMAIN cs : cs[j].name # "workload"
      \/ /\ i # 0 /\ i \in DOMAIN cs /\ cs[i].name = "workload"
         /\ \A j \in DOMAIN cs \ {i} : cs[j].name # "workload"
  BY Found
<1>2. App(d) = IF i = 0 THEN NewContainer ELSE cs[i]
  BY DEF App
<1> HIDE DEF i
<1> QED BY <1>1, <1>2

\* The container that the callback starts from.
LEMMA AppFields ==
    ASSUME NEW d, d.containers \in Seq(Containers), TidyDeployment(d)
    PROVE  App(d) \in RawContainers /\ App(d).name = "workload" /\ TidyContainer(App(d))
<1>1. Single(d.containers, "workload")
  BY DEF TidyDeployment
<1>2. CASE \E i \in DOMAIN d.containers : d.containers[i].name = "workload"
  <2>1. PICK i \in DOMAIN d.containers : d.containers[i].name = "workload"
    BY <1>2
  <2>2. App(d) = d.containers[i]
    BY <1>1, <2>1, AppOf
  <2>3. d.containers[i] \in Containers
    OBVIOUS
  <2> QED BY <2>1, <2>2, <2>3, ContainerTypes DEF TidyDeployment
<1>3. CASE \A i \in DOMAIN d.containers : d.containers[i].name # "workload"
  <2>1. App(d) = NewContainer
    BY <1>1, <1>3, AppOf
  <2> QED BY <2>1, ContainerTypes
<1> QED BY <1>2, <1>3

\* The containers once stored: the workload's at its place, the others untouched.
LEMMA StoredContainers ==
    ASSUME NEW cs \in Seq(Containers), Single(cs, "workload"),
           \A i \in DOMAIN cs : TidyContainer(cs[i]),
           NEW x \in Containers, x.name = "workload", Single(x.ports, "http"),
           NEW q, q = [i \in DOMAIN Put(cs, x) |-> Defaulted(Put(cs, x)[i])]
    PROVE  /\ q \in Seq(Containers) /\ \A i \in DOMAIN q : TidyContainer(q[i])
           /\ \E i : Placed(q, cs, Defaulted(x), i)
<1> DEFINE p == Put(cs, x)
<1>1. p \in Seq(Containers) /\ \E i : Placed(p, cs, x, i)
  BY PutFields
<1>2. q = [i \in DOMAIN p |-> Defaulted(p[i])]
  OBVIOUS
<1> HIDE DEF p
<1>3. PICK i : Placed(p, cs, x, i)
  BY <1>1
<1>4. /\ i \in DOMAIN p /\ p[i] = x /\ DOMAIN p = DOMAIN cs \cup {i}
      /\ i \in DOMAIN cs => cs[i].name = x.name
      /\ \A j \in DOMAIN cs \ {i} : p[j] = cs[j] /\ cs[j].name # x.name
  BY <1>3 DEF Placed
<1>5. /\ Defaulted(x) \in Containers /\ TidyContainer(Defaulted(x))
      /\ Defaulted(x).name = "workload"
  BY DefaultedFields
<1>6. \A j \in DOMAIN cs : cs[j] \in Containers /\ Defaulted(cs[j]) = cs[j]
  BY DefaultedFields DEF TidyContainer
<1>7. Len(p) \in Nat /\ DOMAIN p = 1..Len(p)
  BY <1>1, Positions
<1>8. DOMAIN q = DOMAIN p /\ q[i] = Defaulted(x) /\ \A j \in DOMAIN cs \ {i} : q[j] = cs[j]
  BY <1>2, <1>4, <1>6
<1>9. \A j \in DOMAIN q : q[j] \in Containers /\ TidyContainer(q[j])
  BY <1>4, <1>5, <1>6, <1>8
<1>10. q \in [1..Len(p) -> Containers]
  BY <1>2, <1>7, <1>9
<1>11. q \in Seq(Containers)
  BY <1>7, <1>10
<1>12. Placed(q, cs, Defaulted(x), i)
  BY <1>4, <1>5, <1>8 DEF Placed
<1> QED BY <1>9, <1>11, <1>12

\* The callback on a Deployment, field by field.
LEMMA MutatedDeployment ==
    ASSUME NEW s \in Workloads, NEW d \in RawDeployments
    PROVE  mutateDeployment(d, s) =
               [labels |-> managedMetadata(d.labels, s), selector |-> "managed",
                template |-> managedMetadata(d.template, s), rollout |-> "managed",
                pod |-> "managed", foreign |-> d.foreign,
                containers |-> Put(d.containers, mutateContainer(App(d), s))]
<1> DEFINE m == mutateDeployment(d, s)
           l == managedMetadata(d.labels, s)
           t == managedMetadata(d.template, s)
           p == Put(d.containers, mutateContainer(App(d), s))
<1>1. m = [d EXCEPT !.labels = l, !.template = t, !.selector = "managed",
                    !.rollout = "managed", !.pod = "managed", !.containers = p]
  BY DEF mutateDeployment
<1> HIDE DEF m, l, t, p
<1>2. m = [labels |-> l, selector |-> "managed", template |-> t, rollout |-> "managed",
           pod |-> "managed", foreign |-> d.foreign, containers |-> p]
  BY <1>1 DEF RawDeployments
<1> QED BY <1>2 DEF m, l, t, p

\* A Deployment once stored.
LEMMA StoredDeployment ==
    ASSUME NEW s \in Workloads, NEW d \in RawDeployments, TidyDeployment(d),
           NEW o, o = Default("Deployment", mutateDeployment(d, s))
    PROVE  /\ o \in Objects("Deployment") /\ TidyDeployment(o)
           /\ mutateDeployment(o, s) = o
           /\ OwnedPart("Deployment", o) = OwnedDeployment(s)
           /\ ForeignPart("Deployment", o) = ForeignPart("Deployment", d)
<1> DEFINE l == managedMetadata(d.labels, s)
           t == managedMetadata(d.template, s)
           c == App(d)
           x == mutateContainer(c, s)
           y == Defaulted(x)
           p == Put(d.containers, x)
           q == [i \in DOMAIN p |-> Defaulted(p[i])]
           m == mutateDeployment(d, s)
<1>1. /\ d.labels \in Labels /\ d.template \in Labels /\ d.foreign \in Values
      /\ d.containers \in Seq(Containers)
  BY DEF RawDeployments
<1>2. c \in RawContainers /\ c.name = "workload" /\ TidyContainer(c)
  BY <1>1, AppFields
<1>3. Single(c.ports, "http")
  BY <1>2 DEF TidyContainer
<1>4. m = [labels |-> l, selector |-> "managed", template |-> t, rollout |-> "managed",
           pod |-> "managed", foreign |-> d.foreign, containers |-> p]
  BY MutatedDeployment
<1>5. /\ l \in Labels /\ t \in Labels
  BY <1>1, MetadataType
<1>6. /\ managedMetadata(l, s) = l /\ managedMetadata(t, s) = t
  BY <1>1, MetadataTwice
<1>7. /\ Restrict(l, DOMAIN l \ {"foreign"}) = Wanted(s)
      /\ Restrict(l, DOMAIN l \cap {"foreign"})
             = Restrict(d.labels, DOMAIN d.labels \cap {"foreign"})
      /\ Restrict(t, DOMAIN t \ {"foreign"}) = Wanted(s)
      /\ Restrict(t, DOMAIN t \cap {"foreign"})
             = Restrict(d.template, DOMAIN d.template \cap {"foreign"})
  BY <1>1, MetadataParts
<1> HIDE DEF l, t
<1>8. x \in Containers /\ Single(x.ports, "http") /\ x.name = "workload"
  BY <1>2, <1>3, MutatedContainer
<1>9. /\ y \in Containers /\ y.name = "workload" /\ TidyContainer(y)
      /\ mutateContainer(y, s) = y
      /\ [y EXCEPT !.requests = Restrict(@, DOMAIN @ \cap Owned),
                   !.limits = Restrict(@, DOMAIN @ \cap Owned),
                   !.ports = {e \in Range(@) : e.name = "http"},
                   !.foreign = 0] = OwnedContainer(s)
      /\ y.foreign = c.foreign
      /\ Others(y.ports, "http") = Others(c.ports, "http")
      /\ Restrict(y.limits, DOMAIN y.limits \ Owned)
             = Restrict(c.limits, DOMAIN c.limits \ Owned)
      /\ Restrict(y.requests, DOMAIN y.requests \ Owned)
             = Restrict(c.requests, DOMAIN c.requests \ Owned)
  BY <1>2, <1>3, StoredContainer
<1> HIDE DEF x, m
<1>10. /\ q \in Seq(Containers) /\ \A i \in DOMAIN q : TidyContainer(q[i])
       /\ \E i : Placed(q, d.containers, y, i)
  BY <1>1, <1>8, StoredContainers DEF TidyDeployment
<1>11. o = [m EXCEPT !.containers = [i \in DOMAIN @ |-> Defaulted(@[i])]]
  BY DEF Default, m
<1>12. m.containers = p
  BY <1>4
<1> HIDE DEF p
<1>13. o = [m EXCEPT !.containers = q]
  BY <1>11, <1>12
<1> HIDE DEF q, y, c
<1>14. o = [labels |-> l, selector |-> "managed", template |-> t, rollout |-> "managed",
            pod |-> "managed", foreign |-> d.foreign, containers |-> q]
  BY <1>4, <1>13
<1>15. /\ o.labels = l /\ o.template = t /\ o.containers = q /\ o.foreign = d.foreign
       /\ o.selector = "managed" /\ o.rollout = "managed" /\ o.pod = "managed"
  BY <1>14
<1>16. o \in Objects("Deployment") /\ o \in RawDeployments
  BY <1>1, <1>5, <1>10, <1>14 DEF Objects, RawDeployments, Fixed
<1>17. PICK i : Placed(q, d.containers, y, i)
  BY <1>10
<1>18. i \in DOMAIN q /\ q[i] = y
  BY <1>17 DEF Placed
<1>19. /\ Single(q, "workload") /\ Put(q, y) = q
       /\ Others(q, "workload") = Others(d.containers, "workload")
  BY <1>1, <1>9, <1>10, <1>17, PlacedParts
<1>20. TidyDeployment(o)
  BY <1>10, <1>15, <1>19 DEF TidyDeployment
<1>21. App(o) = y
  BY <1>9, <1>10, <1>15, <1>18, <1>19, AppOf
<1>22. mutateDeployment(o, s) = o
  <2>1. mutateDeployment(o, s) =
            [labels |-> managedMetadata(o.labels, s), selector |-> "managed",
             template |-> managedMetadata(o.template, s), rollout |-> "managed",
             pod |-> "managed", foreign |-> o.foreign,
             containers |-> Put(o.containers, mutateContainer(App(o), s))]
    BY <1>16, MutatedDeployment
  <2>2. Put(o.containers, mutateContainer(App(o), s)) = q
    BY <1>9, <1>15, <1>19, <1>21
  <2> QED BY <1>6, <1>14, <1>15, <2>1, <2>2
<1> DEFINE w == OwnedPart("Deployment", o)
<1>23. w = OwnedDeployment(s)
  <2>1. w = [o EXCEPT !.labels = Restrict(@, DOMAIN @ \ {"foreign"}),
                      !.template = Restrict(@, DOMAIN @ \ {"foreign"}), !.foreign = 0,
                      !.containers =
                         [App(o) EXCEPT !.requests = Restrict(@, DOMAIN @ \cap Owned),
                                        !.limits = Restrict(@, DOMAIN @ \cap Owned),
                                        !.ports = {e \in Range(@) : e.name = "http"},
                                        !.foreign = 0]]
    BY DEF OwnedPart
  <2> HIDE DEF w
  <2>2. w = [o EXCEPT !.labels = Wanted(s), !.template = Wanted(s), !.foreign = 0,
                      !.containers = OwnedContainer(s)]
    BY <1>7, <1>9, <1>15, <1>21, <2>1
  <2>3. w = [labels |-> Wanted(s), selector |-> "managed", template |-> Wanted(s),
             rollout |-> "managed", pod |-> "managed", foreign |-> 0,
             containers |-> OwnedContainer(s)]
    BY <1>15, <1>16, <2>2 DEF RawDeployments
  <2> QED BY <2>3 DEF OwnedDeployment
<1>24. ForeignPart("Deployment", o) = ForeignPart("Deployment", d)
  <2>1. \A e : ForeignPart("Deployment", e) =
            <<Restrict(e.labels, DOMAIN e.labels \cap {"foreign"}),
              Restrict(e.template, DOMAIN e.template \cap {"foreign"}), e.foreign,
              Others(e.containers, "workload"),
              Restrict(App(e).requests, DOMAIN App(e).requests \ Owned),
              Restrict(App(e).limits, DOMAIN App(e).limits \ Owned), App(e).foreign,
              Others(App(e).ports, "http")>>
    BY DEF ForeignPart, Others
  <2>2. App(d) = c
    BY DEF c
  <2>3. ForeignPart("Deployment", o) =
            <<Restrict(l, DOMAIN l \cap {"foreign"}),
              Restrict(t, DOMAIN t \cap {"foreign"}), d.foreign,
              Others(q, "workload"), Restrict(y.requests, DOMAIN y.requests \ Owned),
              Restrict(y.limits, DOMAIN y.limits \ Owned), y.foreign,
              Others(y.ports, "http")>>
    BY <1>15, <1>21, <2>1, Zenon
  <2>4. ForeignPart("Deployment", d) =
            <<Restrict(d.labels, DOMAIN d.labels \cap {"foreign"}),
              Restrict(d.template, DOMAIN d.template \cap {"foreign"}), d.foreign,
              Others(d.containers, "workload"),
              Restrict(c.requests, DOMAIN c.requests \ Owned),
              Restrict(c.limits, DOMAIN c.limits \ Owned), c.foreign,
              Others(c.ports, "http")>>
    BY <2>1, <2>2, Zenon
  <2> QED BY <1>7, <1>9, <1>19, <2>3, <2>4
<1> QED BY <1>16, <1>20, <1>22, <1>23, <1>24

\* A Deployment is new or comes from the API server.
LEMMA DeploymentTypes ==
    /\ Objects("Deployment") \subseteq RawDeployments
    /\ New("Deployment") \in RawDeployments /\ TidyDeployment(New("Deployment"))
<1>1. Objects("Deployment") \subseteq RawDeployments
  BY DEF Objects, RawDeployments
<1>2. Empty \in Labels /\ 1 \in Values /\ << >> \in Seq(Containers)
  BY MapsFacts, BuildersAssumption DEF Labels
<1>3. New("Deployment") =
          [labels |-> Empty, selector |-> Nil, template |-> Empty, rollout |-> Nil,
           pod |-> Nil, foreign |-> 1, containers |-> <<>>]
  BY DEF New
<1>4. New("Deployment") \in RawDeployments
  <2>1. \A e, f, g, h : e \in Labels /\ f \in Seq(Containers) /\ g \in Values /\ h = Nil =>
            [labels |-> e, selector |-> h, template |-> e, rollout |-> h,
             pod |-> h, foreign |-> g, containers |-> f] \in RawDeployments
    BY DEF RawDeployments
  <2> QED BY <1>2, <1>3, <2>1
<1>5. New("Deployment").containers = << >> /\ DOMAIN << >> = {}
  BY <1>3
<1> QED BY <1>1, <1>4, <1>5 DEF TidyDeployment, Single

-----------------------------------------------------------------------------
(* The other kinds *)

\* The labels m have the owned part of the spec, which the callback leaves as it
\* is, and the foreign part of l.
Labelled(m, l, s) ==
    /\ m \in Labels /\ managedMetadata(m, s) = m
    /\ Restrict(m, DOMAIN m \ {"foreign"}) = Wanted(s)
    /\ Restrict(m, DOMAIN m \cap {"foreign"}) = Restrict(l, DOMAIN l \cap {"foreign"})

\* What managedMetadata does, in the terms of the properties.
LEMMA MetadataFacts ==
    ASSUME NEW s \in Workloads, NEW l \in Labels
    PROVE  Labelled(managedMetadata(l, s), l, s)
BY MetadataType, MetadataTwice, MetadataParts DEF Labelled

\* A ServiceAccount once stored.
LEMMA StoredServiceAccount ==
    ASSUME NEW s \in Workloads,
           NEW a \in [labels : Labels, automount : Fixed \cup {Nil}, foreign : Values],
           NEW o, o = Default("ServiceAccount", mutateServiceAccount(a, s))
    PROVE  /\ o \in Objects("ServiceAccount")
           /\ mutateServiceAccount(o, s) = o
           /\ OwnedPart("ServiceAccount", o) =
                  [labels |-> Wanted(s), automount |-> "managed", foreign |-> 0]
           /\ ForeignPart("ServiceAccount", o) = ForeignPart("ServiceAccount", a)
<1> DEFINE l == managedMetadata(a.labels, s)
<1>1. /\ l \in Labels /\ managedMetadata(l, s) = l
      /\ Restrict(l, DOMAIN l \ {"foreign"}) = Wanted(s)
      /\ Restrict(l, DOMAIN l \cap {"foreign"})
             = Restrict(a.labels, DOMAIN a.labels \cap {"foreign"})
  <2>1. Labelled(l, a.labels, s)
    BY MetadataFacts
  <2> HIDE DEF l
  <2> QED BY <2>1 DEF Labelled
<1>2. o = [a EXCEPT !.labels = l, !.automount = "managed"]
  BY DEF Default, mutateServiceAccount
<1> HIDE DEF l
<1>3. o = [labels |-> l, automount |-> "managed", foreign |-> a.foreign]
  BY <1>2
<1>4. o.labels = l /\ o.automount = "managed" /\ o.foreign = a.foreign
  BY <1>3
<1>5. o \in Objects("ServiceAccount")
  BY <1>1, <1>3 DEF Objects, Fixed
<1> DEFINE n == mutateServiceAccount(o, s)
           w == OwnedPart("ServiceAccount", o)
<1>6. n = o
  <2>1. n = [o EXCEPT !.labels = managedMetadata(o.labels, s), !.automount = "managed"]
    BY DEF mutateServiceAccount
  <2> HIDE DEF n
  <2> QED BY <1>1, <1>3, <1>4, <2>1
<1>7. w = [labels |-> Wanted(s), automount |-> "managed", foreign |-> 0]
  <2>1. w = [o EXCEPT !.labels = Restrict(o.labels, DOMAIN o.labels \ {"foreign"}),
                      !.foreign = 0]
    BY DEF OwnedPart
  <2> HIDE DEF w
  <2>2. w = [o EXCEPT !.labels = Wanted(s), !.foreign = 0]
    BY <1>1, <1>4, <2>1
  <2> QED BY <1>4, <1>5, <2>2 DEF Objects
<1>8. ForeignPart("ServiceAccount", o) = ForeignPart("ServiceAccount", a)
  BY <1>1, <1>4 DEF ForeignPart
<1> QED BY <1>5, <1>6, <1>7, <1>8

\* A Service once stored.
LEMMA StoredService ==
    ASSUME NEW s \in Workloads, s.service # Nil,
           NEW v \in [labels : Labels, type : {"ClusterIP", "NodePort", Nil},
                      selector : Fixed \cup {Nil}, ports : Seq(Ports),
                      clusterIP : {"allocated", Nil}],
           NEW o, o = Default("Service", mutateService(v, s))
    PROVE  /\ o \in Objects("Service")
           /\ mutateService(o, s) = o
           /\ OwnedPart("Service", o) =
                  [labels |-> Wanted(s), type |-> "ClusterIP", selector |-> "managed",
                   ports |-> <<[name |-> "http", port |-> s.service]>>,
                   clusterIP |-> "allocated"]
           /\ v.clusterIP = "allocated" =>
                  ForeignPart("Service", o) = ForeignPart("Service", v)
<1> DEFINE l == managedMetadata(v.labels, s)
           p == <<[name |-> "http", port |-> s.service]>>
           m == mutateService(v, s)
<1>1. /\ l \in Labels /\ managedMetadata(l, s) = l
      /\ Restrict(l, DOMAIN l \ {"foreign"}) = Wanted(s)
      /\ Restrict(l, DOMAIN l \cap {"foreign"})
             = Restrict(v.labels, DOMAIN v.labels \cap {"foreign"})
  <2>1. Labelled(l, v.labels, s)
    BY MetadataFacts
  <2> HIDE DEF l
  <2> QED BY <2>1 DEF Labelled
<1>2. m = [v EXCEPT !.labels = l, !.type = "ClusterIP", !.selector = "managed", !.ports = p]
  BY DEF mutateService
<1>3. p \in Seq(Ports)
  <2>1. s.service \in Values
    BY DEF Workloads
  <2>2. [name |-> "http", port |-> s.service] \in Ports
    BY <2>1 DEF Ports
  <2> QED BY <2>2
<1> HIDE DEF l, p, m
<1>4. m = [labels |-> l, type |-> "ClusterIP", selector |-> "managed", ports |-> p,
           clusterIP |-> v.clusterIP]
  BY <1>2
<1>5. o = [m EXCEPT !.clusterIP = IF @ = Nil THEN "allocated" ELSE @]
  BY DEF Default, m
<1>6. m.clusterIP = v.clusterIP /\ v.clusterIP \in {"allocated", Nil}
  BY <1>4
<1>7. o = [m EXCEPT !.clusterIP = "allocated"]
  BY <1>5, <1>6
<1>8. o = [labels |-> l, type |-> "ClusterIP", selector |-> "managed", ports |-> p,
           clusterIP |-> "allocated"]
  BY <1>4, <1>7
<1>9. /\ o.labels = l /\ o.clusterIP = "allocated" /\ o.type = "ClusterIP"
      /\ o.selector = "managed" /\ o.ports = p
  BY <1>8
<1>10. o \in Objects("Service")
  BY <1>1, <1>3, <1>8 DEF Objects, Fixed
<1> DEFINE n == mutateService(o, s)
           w == OwnedPart("Service", o)
<1>11. n = o
  <2>1. n = [o EXCEPT !.labels = managedMetadata(o.labels, s), !.type = "ClusterIP",
                      !.selector = "managed", !.ports = p]
    BY DEF mutateService, p
  <2> HIDE DEF n
  <2>2. n = [o EXCEPT !.labels = l, !.type = "ClusterIP", !.selector = "managed", !.ports = p]
    BY <1>1, <1>9, <2>1
  <2> QED BY <1>9, <1>10, <2>2 DEF Objects
<1>12. w = [labels |-> Wanted(s), type |-> "ClusterIP", selector |-> "managed",
            ports |-> p, clusterIP |-> "allocated"]
  <2>1. w = [o EXCEPT !.labels = Restrict(o.labels, DOMAIN o.labels \ {"foreign"})]
    BY DEF OwnedPart
  <2> HIDE DEF w
  <2>2. w = [o EXCEPT !.labels = Wanted(s)]
    BY <1>1, <1>9, <2>1
  <2> QED BY <1>8, <2>2
<1>13. v.clusterIP = "allocated" => ForeignPart("Service", o) = ForeignPart("Service", v)
  BY <1>1, <1>9 DEF ForeignPart
<1> QED BY <1>10, <1>11, <1>12, <1>13 DEF p

\* A NetworkPolicy once stored.
LEMMA StoredNetworkPolicy ==
    ASSUME NEW s \in Workloads, NEW a \in [labels : Labels, rules : Fixed \cup {Nil}],
           NEW o, o = Default("NetworkPolicy", mutateNetworkPolicy(a, s))
    PROVE  /\ o \in Objects("NetworkPolicy")
           /\ mutateNetworkPolicy(o, s) = o
           /\ OwnedPart("NetworkPolicy", o) = [labels |-> Wanted(s), rules |-> "managed"]
           /\ ForeignPart("NetworkPolicy", o) = ForeignPart("NetworkPolicy", a)
<1> DEFINE l == managedMetadata(a.labels, s)
<1>1. /\ l \in Labels /\ managedMetadata(l, s) = l
      /\ Restrict(l, DOMAIN l \ {"foreign"}) = Wanted(s)
      /\ Restrict(l, DOMAIN l \cap {"foreign"})
             = Restrict(a.labels, DOMAIN a.labels \cap {"foreign"})
  <2>1. Labelled(l, a.labels, s)
    BY MetadataFacts
  <2> HIDE DEF l
  <2> QED BY <2>1 DEF Labelled
<1>2. o = [a EXCEPT !.labels = l, !.rules = "managed"]
  BY DEF Default, mutateNetworkPolicy
<1> HIDE DEF l
<1>3. o = [labels |-> l, rules |-> "managed"]
  BY <1>2
<1>4. o.labels = l /\ o.rules = "managed"
  BY <1>3
<1>5. o \in Objects("NetworkPolicy")
  BY <1>1, <1>3 DEF Objects, Fixed
<1> DEFINE n == mutateNetworkPolicy(o, s)
           w == OwnedPart("NetworkPolicy", o)
<1>6. n = o
  <2>1. n = [o EXCEPT !.labels = managedMetadata(o.labels, s), !.rules = "managed"]
    BY DEF mutateNetworkPolicy
  <2> HIDE DEF n
  <2>2. n = [o EXCEPT !.labels = l, !.rules = "managed"]
    BY <1>1, <1>4, <2>1
  <2> QED BY <1>4, <1>5, <2>2 DEF Objects
<1>7. w = [labels |-> Wanted(s), rules |-> "managed"]
  <2>1. w = [o EXCEPT !.labels = Restrict(o.labels, DOMAIN o.labels \ {"foreign"})]
    BY DEF OwnedPart
  <2> HIDE DEF w
  <2>2. w = [o EXCEPT !.labels = Wanted(s)]
    BY <1>1, <1>4, <2>1
  <2> QED BY <1>3, <2>2
<1>8. ForeignPart("NetworkPolicy", o) = ForeignPart("NetworkPolicy", a)
  BY <1>1, <1>4 DEF ForeignPart
<1> QED BY <1>5, <1>6, <1>7, <1>8

\* A PodDisruptionBudget once stored.
LEMMA StoredPDB ==
    ASSUME NEW s \in Workloads, s.availability # Nil,
           NEW b \in [labels : Labels, selector : Fixed \cup {Nil},
                      budget : [shape : {"min", "max"}, n : Nat] \cup {Nil}],
           NEW o, o = Default("PDB", mutatePDB(b, s))
    PROVE  /\ o \in Objects("PDB")
           /\ mutatePDB(o, s) = o
           /\ OwnedPart("PDB", o) = [labels |-> Wanted(s), selector |-> "managed",
                                     budget |-> s.availability]
           /\ ForeignPart("PDB", o) = ForeignPart("PDB", b)
<1> DEFINE l == managedMetadata(b.labels, s)
           c == s.availability
<1>1. /\ l \in Labels /\ managedMetadata(l, s) = l
      /\ Restrict(l, DOMAIN l \ {"foreign"}) = Wanted(s)
      /\ Restrict(l, DOMAIN l \cap {"foreign"})
             = Restrict(b.labels, DOMAIN b.labels \cap {"foreign"})
  <2>1. Labelled(l, b.labels, s)
    BY MetadataFacts
  <2> HIDE DEF l
  <2> QED BY <2>1 DEF Labelled
<1>2. o = [b EXCEPT !.labels = l, !.selector = "managed", !.budget = c]
  BY DEF Default, mutatePDB
<1>3. c \in [shape : {"min", "max"}, n : Nat]
  BY DEF Workloads
<1> HIDE DEF l, c
<1>4. o = [labels |-> l, selector |-> "managed", budget |-> c]
  BY <1>2
<1>5. o.labels = l /\ o.selector = "managed" /\ o.budget = c
  BY <1>4
<1>6. o \in Objects("PDB")
  BY <1>1, <1>3, <1>4 DEF Objects, Fixed
<1> DEFINE n == mutatePDB(o, s)
           w == OwnedPart("PDB", o)
<1>7. n = o
  <2>1. n = [o EXCEPT !.labels = managedMetadata(o.labels, s), !.selector = "managed",
                      !.budget = c]
    BY DEF mutatePDB, c
  <2> HIDE DEF n
  <2>2. n = [o EXCEPT !.labels = l, !.selector = "managed", !.budget = c]
    BY <1>1, <1>5, <2>1
  <2> QED BY <1>5, <1>6, <2>2 DEF Objects
<1>8. w = [labels |-> Wanted(s), selector |-> "managed", budget |-> c]
  <2>1. w = [o EXCEPT !.labels = Restrict(o.labels, DOMAIN o.labels \ {"foreign"})]
    BY DEF OwnedPart
  <2> HIDE DEF w
  <2>2. w = [o EXCEPT !.labels = Wanted(s)]
    BY <1>1, <1>5, <2>1
  <2> QED BY <1>4, <2>2
<1>9. ForeignPart("PDB", o) = ForeignPart("PDB", b)
  BY <1>1, <1>5 DEF ForeignPart
<1> QED BY <1>6, <1>7, <1>8, <1>9 DEF c

\* Each metric of the spec becomes one that autoscaling/v2 accepts.
LEMMA MetricsType ==
    ASSUME NEW metrics \in Seq(Metrics)
    PROVE  hpaMetrics(metrics) \in Seq(Sources)
<1> DEFINE h == hpaMetrics(metrics)
           g(i) == CASE metrics[i] = "CPU" -> <<"Resource", "cpu", "Utilization">>
                     [] metrics[i] = "Memory" -> <<"Resource", "memory", "Utilization">>
                     [] metrics[i] = "Pods" -> <<"Pods", "named", "AverageValue">>
                     [] metrics[i] = "External" -> <<"External", "named", "Value">>
<1>1. DOMAIN metrics = 1..Len(metrics) /\ Len(metrics) \in Nat
  BY Positions
<1>2. \A i \in DOMAIN metrics : metrics[i] \in Metrics
  OBVIOUS
<1>3. h = [i \in DOMAIN metrics |-> g(i)]
  BY DEF hpaMetrics
<1>4. ASSUME NEW i \in DOMAIN metrics
      PROVE  g(i) \in Sources
  <2>1. \/ g(i) = <<"Resource", "cpu", "Utilization">>
        \/ g(i) = <<"Resource", "memory", "Utilization">>
        \/ g(i) = <<"Pods", "named", "AverageValue">>
        \/ g(i) = <<"External", "named", "Value">>
    BY <1>2 DEF Metrics
  <2> HIDE DEF g
  <2> QED BY <2>1 DEF Sources
<1> HIDE DEF h, g
<1>5. h \in [1..Len(metrics) -> Sources]
  BY <1>1, <1>3, <1>4
<1>6. h \in Seq(Sources)
  BY <1>1, <1>5
<1> QED BY <1>6 DEF h

\* What the API server makes of a behavior.
Filled(b) == IF b = Nil THEN Nil ELSE [b EXCEPT !.filled = TRUE]

\* The behavior that the callback writes.
Behavior(s) ==
    IF s.autoscaling.window = Nil THEN Nil
    ELSE [window |-> s.autoscaling.window, filled |-> FALSE]

\* A behavior as it is stored.
LEMMA FilledType ==
    ASSUME NEW b, NEW w \in Nat, NEW f \in BOOLEAN,
           b = Nil \/ b = [window |-> w, filled |-> f]
    PROVE  Filled(b) \in [window : Nat, filled : {TRUE}] \cup {Nil}
<1> DEFINE r == Filled(b)
<1>1. CASE b = Nil
  BY <1>1 DEF Filled
<1>2. CASE b # Nil
  <2>1. r = [b EXCEPT !.filled = TRUE]
    BY <1>2 DEF Filled
  <2> HIDE DEF r
  <2>2. ASSUME NEW t, r = [b EXCEPT !.filled = t]
        PROVE  r = [window |-> w, filled |-> t]
    BY <1>2, <2>2
  <2>3. r = [window |-> w, filled |-> TRUE]
    BY <2>1, <2>2
  <2>4. r \in [window : Nat, filled : {TRUE}]
    BY <2>3
  <2> QED BY <2>4 DEF r
<1> QED BY <1>1, <1>2

\* An HPA once stored.
LEMMA StoredHPA ==
    ASSUME NEW s \in Workloads, s.autoscaling # Nil,
           NEW h \in [labels : Labels, target : Fixed \cup {Nil}, min : Nat \cup {Nil},
                      max : Nat \cup {Nil}, metrics : Seq(Sources),
                      behavior : [window : Nat, filled : {TRUE}] \cup {Nil}],
           NEW o, o = Default("HPA", mutateHPA(h, s))
    PROVE  /\ o \in Objects("HPA")
           /\ Default("HPA", mutateHPA(o, s)) = o
           /\ s.autoscaling.window = Nil => mutateHPA(o, s) = o
           /\ OwnedPart("HPA", o) =
                  [labels |-> Wanted(s), target |-> "managed", min |-> s.autoscaling.min,
                   max |-> s.autoscaling.max, metrics |-> hpaMetrics(s.autoscaling.metrics),
                   behavior |-> Filled(Behavior(s))]
           /\ ForeignPart("HPA", o) = ForeignPart("HPA", h)
<1> DEFINE l == managedMetadata(h.labels, s)
           a == s.autoscaling
           e == hpaMetrics(a.metrics)
           m == mutateHPA(h, s)
<1>1. /\ l \in Labels /\ managedMetadata(l, s) = l
      /\ Restrict(l, DOMAIN l \ {"foreign"}) = Wanted(s)
      /\ Restrict(l, DOMAIN l \cap {"foreign"})
             = Restrict(h.labels, DOMAIN h.labels \cap {"foreign"})
  <2>1. Labelled(l, h.labels, s)
    BY MetadataFacts
  <2> HIDE DEF l
  <2> QED BY <2>1 DEF Labelled
<1>2. a \in [min : Nat, max : Nat, metrics : Seq(Metrics), window : Nat \cup {Nil}]
  BY DEF Workloads
<1>3. m = [h EXCEPT !.labels = l, !.target = "managed", !.min = a.min, !.max = a.max,
                    !.metrics = e, !.behavior = Behavior(s)]
  BY DEF mutateHPA, Behavior
<1>4. Behavior(s) = IF a.window = Nil THEN Nil ELSE [window |-> a.window, filled |-> FALSE]
  BY DEF Behavior
<1> HIDE DEF l, a
<1>5. a.min \in Nat /\ a.max \in Nat /\ e \in Seq(Sources)
  BY <1>2, MetricsType
<1>6. Filled(Behavior(s)) \in [window : Nat, filled : {TRUE}] \cup {Nil}
  <2>1. CASE a.window = Nil
    BY <1>4, <2>1, FilledType DEF Filled
  <2>2. CASE a.window # Nil
    <3>1. a.window \in Nat
      BY <1>2, <2>2
    <3>2. Behavior(s) = [window |-> a.window, filled |-> FALSE]
      BY <1>4, <2>2
    <3> QED BY <3>1, <3>2, FilledType
  <2> QED BY <2>1, <2>2
<1> HIDE DEF e, m
<1>7. m = [labels |-> l, target |-> "managed", min |-> a.min, max |-> a.max,
           metrics |-> e, behavior |-> Behavior(s)]
  BY <1>3
<1>8. o = [m EXCEPT !.behavior = Filled(@)]
  BY DEF Default, m, Filled
<1>9. m.behavior = Behavior(s)
  BY <1>7
<1> DEFINE b == Filled(Behavior(s))
<1>10. o = [m EXCEPT !.behavior = b]
  BY <1>8, <1>9
<1> HIDE DEF b
<1>11. o = [labels |-> l, target |-> "managed", min |-> a.min, max |-> a.max,
            metrics |-> e, behavior |-> b]
  BY <1>7, <1>10
<1>12. /\ o.labels = l /\ o.target = "managed" /\ o.min = a.min /\ o.max = a.max
       /\ o.metrics = e /\ o.behavior = b
  BY <1>11
<1>13. o \in Objects("HPA")
  <2> DEFINE B == [window : Nat, filled : {TRUE}] \cup {Nil}
  <2>1. b \in B
    BY <1>6 DEF b
  <2>2. Objects("HPA") = [labels : Labels, target : Fixed, min : Nat, max : Nat,
                          metrics : Seq(Sources), behavior : B]
    BY DEF Objects
  <2> HIDE DEF B
  <2> QED BY <1>1, <1>5, <1>11, <2>1, <2>2 DEF Fixed
<1> DEFINE n == mutateHPA(o, s)
           f == Default("HPA", n)
           w == OwnedPart("HPA", o)
<1>14. n = [labels |-> l, target |-> "managed", min |-> a.min, max |-> a.max,
            metrics |-> e, behavior |-> Behavior(s)]
  <2>1. n = [o EXCEPT !.labels = managedMetadata(o.labels, s), !.target = "managed",
                      !.min = a.min, !.max = a.max, !.metrics = e,
                      !.behavior = Behavior(s)]
    BY DEF mutateHPA, Behavior, a, e
  <2> HIDE DEF n
  <2>2. n = [o EXCEPT !.labels = l, !.target = "managed", !.min = a.min, !.max = a.max,
                      !.metrics = e, !.behavior = Behavior(s)]
    BY <1>1, <1>12, <2>1
  <2> QED BY <1>12, <1>13, <2>2 DEF Objects
<1>15. f = o
  <2>1. f = [n EXCEPT !.behavior = Filled(@)]
    BY DEF Default, Filled
  <2> HIDE DEF n, f
  <2>2. n.behavior = Behavior(s)
    BY <1>14
  <2>3. f = [n EXCEPT !.behavior = b]
    BY <2>1, <2>2 DEF b
  <2>4. f = [labels |-> l, target |-> "managed", min |-> a.min, max |-> a.max,
             metrics |-> e, behavior |-> b]
    BY <1>14, <2>3
  <2> QED BY <1>11, <2>4
<1>16. s.autoscaling.window = Nil => n = o
  <2>1. a.window = Nil => b = Behavior(s)
    BY <1>4 DEF b, Filled
  <2> HIDE DEF n
  <2>2. a.window = Nil => n = o
    BY <1>11, <1>14, <2>1
  <2> QED BY <2>2 DEF a
<1>17. w = [labels |-> Wanted(s), target |-> "managed", min |-> a.min, max |-> a.max,
            metrics |-> e, behavior |-> b]
  <2>1. w = [o EXCEPT !.labels = Restrict(o.labels, DOMAIN o.labels \ {"foreign"})]
    BY DEF OwnedPart
  <2> HIDE DEF w
  <2>2. w = [o EXCEPT !.labels = Wanted(s)]
    BY <1>1, <1>12, <2>1
  <2> QED BY <1>12, <1>13, <2>2 DEF Objects
<1>18. ForeignPart("HPA", o) = ForeignPart("HPA", h)
  BY <1>1, <1>12 DEF ForeignPart
<1> QED BY <1>13, <1>15, <1>16, <1>17, <1>18 DEF a, b, e

-----------------------------------------------------------------------------
(* An apply *)

ChildKinds == {"ServiceAccount", "Deployment", "Service", "NetworkPolicy", "HPA", "PDB"}

\* What the workload decides about a child of kind k.
OwnedOf(k, s) ==
    CASE k = "ServiceAccount" ->
           [labels |-> Wanted(s), automount |-> "managed", foreign |-> 0]
      [] k = "Deployment" -> OwnedDeployment(s)
      [] k = "Service" ->
           [labels |-> Wanted(s), type |-> "ClusterIP", selector |-> "managed",
            ports |-> <<[name |-> "http", port |-> s.service]>>, clusterIP |-> "allocated"]
      [] k = "NetworkPolicy" -> [labels |-> Wanted(s), rules |-> "managed"]
      [] k = "HPA" ->
           [labels |-> Wanted(s), target |-> "managed", min |-> s.autoscaling.min,
            max |-> s.autoscaling.max, metrics |-> hpaMetrics(s.autoscaling.metrics),
            behavior |-> Filled(Behavior(s))]
      [] k = "PDB" -> [labels |-> Wanted(s), selector |-> "managed", budget |-> s.availability]

\* o needs no patch, or one that the API server's defaults undo.
Settled(k, o, s) ==
    IF k = "HPA" /\ s.autoscaling # Nil /\ s.autoscaling.window # Nil
    THEN Default(k, Mutate(k, o, s)) = o ELSE Mutate(k, o, s) = o

\* A child that an apply can start from.
Base(k, d) ==
    \/ d = New(k)
    \/ d \in Objects(k) /\ ~Refuses(k, d) /\ (k = "Deployment" => TidyDeployment(d))

\* What an apply of d leaves in the API server.
Applied(k, d, s, o) ==
    /\ o \in Objects(k) /\ (k = "Deployment" => TidyDeployment(o))
    /\ OwnedPart(k, o) = OwnedOf(k, s)
    /\ Settled(k, o, s)
    /\ d \in Objects(k) /\ ~Refuses(k, d) => ForeignPart(k, o) = ForeignPart(k, d)

\* An apply of any child leaves it well formed, settled, with the owned part of the
\* spec and the foreign part that it had.
LEMMA AppliedFacts ==
    ASSUME NEW k \in ChildKinds, NEW s \in Workloads, ~Absent(k, s), NEW d, Base(k, d),
           NEW o, o = Default(k, Mutate(k, d, s))
    PROVE  Applied(k, d, s, o)
<1>1. Empty \in Labels /\ 1 \in Values
  BY MapsFacts, BuildersAssumption DEF Labels
<1>2. CASE k = "ServiceAccount"
  <2>1. d \in [labels : Labels, automount : Fixed \cup {Nil}, foreign : Values]
    BY <1>1, <1>2 DEF Base, New, Objects
  <2>2. \A e : Mutate(k, e, s) = mutateServiceAccount(e, s)
    BY <1>2 DEF Mutate
  <2>3. o = Default("ServiceAccount", mutateServiceAccount(d, s))
    BY <1>2, <2>2
  <2>4. /\ o \in Objects("ServiceAccount") /\ mutateServiceAccount(o, s) = o
        /\ OwnedPart("ServiceAccount", o) =
               [labels |-> Wanted(s), automount |-> "managed", foreign |-> 0]
        /\ ForeignPart("ServiceAccount", o) = ForeignPart("ServiceAccount", d)
    BY <2>1, <2>3, StoredServiceAccount
  <2>5. OwnedOf(k, s) = [labels |-> Wanted(s), automount |-> "managed", foreign |-> 0]
    BY <1>2 DEF OwnedOf
  <2>6. Settled(k, o, s)
    BY <1>2, <2>2, <2>4 DEF Settled
  <2> QED BY <1>2, <2>4, <2>5, <2>6 DEF Applied
<1>3. CASE k = "Deployment"
  <2>1. d \in RawDeployments /\ TidyDeployment(d)
    BY <1>3, DeploymentTypes DEF Base
  <2>2. \A e : Mutate(k, e, s) = mutateDeployment(e, s)
    BY <1>3 DEF Mutate
  <2>3. o = Default("Deployment", mutateDeployment(d, s))
    BY <1>3, <2>2
  <2>4. /\ o \in Objects("Deployment") /\ TidyDeployment(o) /\ mutateDeployment(o, s) = o
        /\ OwnedPart("Deployment", o) = OwnedDeployment(s)
        /\ ForeignPart("Deployment", o) = ForeignPart("Deployment", d)
    BY <2>1, <2>3, StoredDeployment
  <2>5. OwnedOf(k, s) = OwnedDeployment(s)
    BY <1>3 DEF OwnedOf
  <2>6. Settled(k, o, s)
    BY <1>3, <2>2, <2>4 DEF Settled
  <2> QED BY <1>3, <2>4, <2>5, <2>6 DEF Applied
<1>4. CASE k = "Service"
  <2> DEFINE V == [labels : Labels, type : {"ClusterIP", "NodePort", Nil},
                   selector : Fixed \cup {Nil}, ports : Seq(Ports),
                   clusterIP : {"allocated", Nil}]
  <2>1. ASSUME d = New(k)
        PROVE  d \in V
    <3>1. d = [labels |-> Empty, type |-> Nil, selector |-> Nil, ports |-> << >>,
               clusterIP |-> Nil]
      BY <1>4, <2>1 DEF New
    <3>2. \A e, f : e \in Labels /\ f \in Seq(Ports) =>
              [labels |-> e, type |-> Nil, selector |-> Nil, ports |-> f,
               clusterIP |-> Nil] \in V
      OBVIOUS
    <3>3. << >> \in Seq(Ports)
      OBVIOUS
    <3> QED BY <1>1, <3>1, <3>2, <3>3
  <2>2. ASSUME d \in Objects(k), ~Refuses(k, d)
        PROVE  d \in V /\ d.clusterIP = "allocated"
    <3>1. d \in [labels : Labels, type : {"ClusterIP", "NodePort"}, selector : Fixed,
                 ports : Seq(Ports), clusterIP : {"None", "allocated"}]
      BY <1>4, <2>2 DEF Objects
    <3>2. d.clusterIP # "None"
      BY <1>4, <2>2 DEF Refuses
    <3> QED BY <3>1, <3>2
  <2>3. d \in V
    BY <2>1, <2>2 DEF Base
  <2>4. \A e : Mutate(k, e, s) = mutateService(e, s)
    BY <1>4 DEF Mutate
  <2>5. o = Default("Service", mutateService(d, s)) /\ s.service # Nil
    BY <1>4, <2>4 DEF Absent
  <2>6. /\ o \in Objects("Service") /\ mutateService(o, s) = o
        /\ OwnedPart("Service", o) =
               [labels |-> Wanted(s), type |-> "ClusterIP", selector |-> "managed",
                ports |-> <<[name |-> "http", port |-> s.service]>>,
                clusterIP |-> "allocated"]
        /\ d.clusterIP = "allocated" => ForeignPart("Service", o) = ForeignPart("Service", d)
    BY <2>3, <2>5, StoredService
  <2>7. OwnedOf(k, s) =
            [labels |-> Wanted(s), type |-> "ClusterIP", selector |-> "managed",
             ports |-> <<[name |-> "http", port |-> s.service]>>, clusterIP |-> "allocated"]
    BY <1>4 DEF OwnedOf
  <2>8. Settled(k, o, s)
    BY <1>4, <2>4, <2>6 DEF Settled
  <2> QED BY <1>4, <2>2, <2>6, <2>7, <2>8 DEF Applied
<1>5. CASE k = "NetworkPolicy"
  <2>1. d \in [labels : Labels, rules : Fixed \cup {Nil}]
    BY <1>1, <1>5 DEF Base, New, Objects
  <2>2. \A e : Mutate(k, e, s) = mutateNetworkPolicy(e, s)
    BY <1>5 DEF Mutate
  <2>3. o = Default("NetworkPolicy", mutateNetworkPolicy(d, s))
    BY <1>5, <2>2
  <2>4. /\ o \in Objects("NetworkPolicy") /\ mutateNetworkPolicy(o, s) = o
        /\ OwnedPart("NetworkPolicy", o) = [labels |-> Wanted(s), rules |-> "managed"]
        /\ ForeignPart("NetworkPolicy", o) = ForeignPart("NetworkPolicy", d)
    BY <2>1, <2>3, StoredNetworkPolicy
  <2>5. OwnedOf(k, s) = [labels |-> Wanted(s), rules |-> "managed"]
    BY <1>5 DEF OwnedOf
  <2>6. Settled(k, o, s)
    BY <1>5, <2>2, <2>4 DEF Settled
  <2> QED BY <1>5, <2>4, <2>5, <2>6 DEF Applied
<1>6. CASE k = "HPA"
  <2> DEFINE B == [window : Nat, filled : {TRUE}] \cup {Nil}
             H == [labels : Labels, target : Fixed \cup {Nil}, min : Nat \cup {Nil},
                   max : Nat \cup {Nil}, metrics : Seq(Sources), behavior : B]
  <2>1. ASSUME d = New(k)
        PROVE  d \in H
    <3>1. d = [labels |-> Empty, target |-> Nil, min |-> Nil, max |-> Nil,
               metrics |-> << >>, behavior |-> Nil]
      BY <1>6, <2>1 DEF New
    <3>2. << >> \in Seq(Sources) /\ Nil \in B
      OBVIOUS
    <3> HIDE DEF B
    <3>3. \A e, f : e \in Labels /\ f \in Seq(Sources) =>
              [labels |-> e, target |-> Nil, min |-> Nil, max |-> Nil,
               metrics |-> f, behavior |-> Nil] \in H
      BY <3>2
    <3> QED BY <1>1, <3>1, <3>2, <3>3
  <2>2. ASSUME d \in Objects(k)
        PROVE  d \in H
    <3>1. Objects(k) = [labels : Labels, target : Fixed, min : Nat, max : Nat,
                        metrics : Seq(Sources), behavior : B]
      BY <1>6 DEF Objects
    <3> HIDE DEF B
    <3> QED BY <2>2, <3>1
  <2>3. d \in H
    BY <2>1, <2>2 DEF Base
  <2>4. \A e : Mutate(k, e, s) = mutateHPA(e, s)
    BY <1>6 DEF Mutate
  <2>5. o = Default("HPA", mutateHPA(d, s)) /\ s.autoscaling # Nil
    BY <1>6, <2>4 DEF Absent
  <2>6. /\ o \in Objects("HPA") /\ Default("HPA", mutateHPA(o, s)) = o
        /\ s.autoscaling.window = Nil => mutateHPA(o, s) = o
        /\ OwnedPart("HPA", o) =
               [labels |-> Wanted(s), target |-> "managed", min |-> s.autoscaling.min,
                max |-> s.autoscaling.max, metrics |-> hpaMetrics(s.autoscaling.metrics),
                behavior |-> Filled(Behavior(s))]
        /\ ForeignPart("HPA", o) = ForeignPart("HPA", d)
    BY <2>3, <2>5, StoredHPA
  <2>7. OwnedOf(k, s) =
            [labels |-> Wanted(s), target |-> "managed", min |-> s.autoscaling.min,
             max |-> s.autoscaling.max, metrics |-> hpaMetrics(s.autoscaling.metrics),
             behavior |-> Filled(Behavior(s))]
    BY <1>6 DEF OwnedOf
  <2>8. Settled(k, o, s)
    <3>1. s.autoscaling # Nil
      BY <2>5
    <3>2. Mutate(k, o, s) = mutateHPA(o, s)
      BY <2>4
    <3>3. Default(k, Mutate(k, o, s)) = o
      BY <1>6, <2>6, <3>2
    <3>4. s.autoscaling.window = Nil => Mutate(k, o, s) = o
      BY <2>6, <3>2
    <3>5. Settled(k, o, s) <=>
              IF k = "HPA" /\ s.autoscaling # Nil /\ s.autoscaling.window # Nil
              THEN Default(k, Mutate(k, o, s)) = o ELSE Mutate(k, o, s) = o
      BY Zenon DEF Settled
    <3>6. CASE s.autoscaling.window = Nil
      BY <3>4, <3>5, <3>6
    <3>7. CASE s.autoscaling.window # Nil
      BY <1>6, <3>1, <3>3, <3>5, <3>7
    <3> QED BY <3>6, <3>7
  <2> QED BY <1>6, <2>6, <2>7, <2>8 DEF Applied
<1>7. CASE k = "PDB"
  <2> DEFINE B == [shape : {"min", "max"}, n : Nat]
  <2>1. d \in [labels : Labels, selector : Fixed \cup {Nil}, budget : B \cup {Nil}]
    <3>1. /\ Objects(k) = [labels : Labels, selector : Fixed, budget : B]
          /\ New(k) = [labels |-> Empty, selector |-> Nil, budget |-> Nil]
      BY <1>7 DEF Objects, New
    <3> HIDE DEF B
    <3> QED BY <1>1, <3>1 DEF Base
  <2>2. \A e : Mutate(k, e, s) = mutatePDB(e, s)
    BY <1>7 DEF Mutate
  <2>3. o = Default("PDB", mutatePDB(d, s)) /\ s.availability # Nil
    BY <1>7, <2>2 DEF Absent
  <2>4. /\ o \in Objects("PDB") /\ mutatePDB(o, s) = o
        /\ OwnedPart("PDB", o) = [labels |-> Wanted(s), selector |-> "managed",
                                  budget |-> s.availability]
        /\ ForeignPart("PDB", o) = ForeignPart("PDB", d)
    BY <2>1, <2>3, StoredPDB
  <2>5. OwnedOf(k, s) = [labels |-> Wanted(s), selector |-> "managed",
                         budget |-> s.availability]
    BY <1>7 DEF OwnedOf
  <2>6. Settled(k, o, s)
    BY <1>7, <2>2, <2>4 DEF Settled
  <2> QED BY <1>7, <2>4, <2>5, <2>6 DEF Applied
<1> QED BY <1>2, <1>3, <1>4, <1>5, <1>6, <1>7 DEF ChildKinds

-----------------------------------------------------------------------------
(* Edits by others *)

\* An edit of the labels yields labels.
LEMMA RelabelledType ==
    ASSUME NEW l \in Labels
    PROVE  Relabelled(l) \subseteq Labels
<1>1. ASSUME NEW x \in LabelKeys
      PROVE  Restrict(l, DOMAIN l \ {x}) \in Labels
  BY RestrictType DEF Labels
<1>2. ASSUME NEW x \in LabelKeys, NEW v \in Values
      PROVE  Over(Entry(x, v), l) \in Labels
  BY MapsFacts, OverType DEF Labels
<1>3. ASSUME NEW m \in Relabelled(l)
      PROVE  \/ \E x \in LabelKeys : m = Restrict(l, DOMAIN l \ {x})
             \/ \E x \in LabelKeys, v \in Values : m = Over(Entry(x, v), l)
  BY DEF Relabelled
<1> QED BY <1>1, <1>2, <1>3

\* A container whose name is kept and whose http port stays unique.
Like(c, e) == e \in Containers /\ e.name = c.name /\ Single(e.ports, "http")

\* An edit of the workload's container.
LEMMA EditedFields ==
    ASSUME NEW c \in Containers, Single(c.ports, "http"), NEW e \in Edited(c)
    PROVE  Like(c, e)
<1>1. /\ c.requests \in Lists /\ c.limits \in Lists /\ c.ports \in Seq(Ports)
      /\ c.envFrom \in Seq(Values)
  BY DEF Containers
<1>2. 1 \in Values /\ 2 \in Values
  BY BuildersAssumption
<1>3. ASSUME NEW v \in Values, e = [c EXCEPT !.image = v]
      PROVE  Like(c, e)
  BY <1>3 DEF Containers, Like
<1>4. ASSUME NEW r \in Lists, e = [c EXCEPT !.requests = r]
      PROVE  Like(c, e)
  BY <1>4 DEF Containers, Like
<1>5. ASSUME NEW r \in Lists, e = [c EXCEPT !.limits = r]
      PROVE  Like(c, e)
  BY <1>5 DEF Containers, Like
<1>6. ASSUME NEW p \in Seq(Ports), Single(p, "http"), e = [c EXCEPT !.ports = p]
      PROVE  Like(c, e)
  BY <1>6 DEF Containers, Like
<1>7. ASSUME NEW q \in Seq(Values), e = [c EXCEPT !.envFrom = q]
      PROVE  Like(c, e)
  BY <1>7 DEF Containers, Like
<1>8. ASSUME NEW q \in SUBSET {"readiness", "liveness"}, e = [c EXCEPT !.probes = q]
      PROVE  Like(c, e)
  BY <1>8 DEF Containers, Like
<1>9. ASSUME NEW q \in Fixed, e = [c EXCEPT !.security = q]
      PROVE  Like(c, e)
  BY <1>9 DEF Containers, Like
<1>10. ASSUME NEW q \in Values, e = [c EXCEPT !.foreign = q]
       PROVE  Like(c, e)
  BY <1>10 DEF Containers, Like
<1>11. ASSUME NEW v \in Values
       PROVE  Over(Entry("cpu", v), c.requests) \in Lists
  <2>1. "cpu" \in Owned \cup {"gpu"}
    BY DEF Owned
  <2>2. Entry("cpu", v) \in Lists
    BY <2>1, MapsFacts DEF Lists
  <2> QED BY <1>1, <2>2, OverType DEF Lists
<1>12. ASSUME NEW n \in Owned
       PROVE  Restrict(c.requests, DOMAIN c.requests \ {n}) \in Lists
  BY <1>1, RestrictType DEF Lists
<1>13. ASSUME NEW n \in {"memory", "gpu"}, NEW v \in Values
       PROVE  Over(Entry(n, v), c.limits) \in Lists
  <2>1. n \in Owned \cup {"gpu"}
    BY DEF Owned
  <2>2. Entry(n, v) \in Lists
    BY <2>1, MapsFacts DEF Lists
  <2> QED BY <1>1, <2>2, OverType DEF Lists
<1>14. << >> \in Seq(Ports) /\ Single(<< >>, "http")
  BY DEF Single
<1> DEFINE a == [name |-> "admin", port |-> 1]
           p == <<a>> \o c.ports
<1>15. p \in Seq(Ports) /\ Single(p, "http")
  <2>1. a \in Ports /\ a.name # "http"
    BY <1>2 DEF Ports
  <2> HIDE DEF a
  <2>2. p \in Seq(Ports) /\ Len(p) = 1 + Len(c.ports)
    BY <1>1, <2>1
  <2>3. Len(c.ports) \in Nat /\ DOMAIN c.ports = 1..Len(c.ports) /\ DOMAIN p = 1..Len(p)
    BY <1>1, <2>2, Positions
  <2>4. p[1] = a
    BY <1>1, <2>1
  <2>5. \A i \in DOMAIN p \ {1} : i - 1 \in DOMAIN c.ports /\ p[i] = c.ports[i - 1]
    BY <1>1, <2>1, <2>2, <2>3
  <2> HIDE DEF p
  <2>6. ASSUME NEW i \in DOMAIN p, NEW j \in DOMAIN p, p[i].name = "http",
               p[j].name = "http"
        PROVE  i = j
    <3>1. i # 1 /\ j # 1
      BY <2>1, <2>4, <2>6
    <3>2. /\ i - 1 \in DOMAIN c.ports /\ j - 1 \in DOMAIN c.ports
          /\ c.ports[i - 1].name = "http" /\ c.ports[j - 1].name = "http"
      BY <2>5, <2>6, <3>1
    <3>3. i - 1 = j - 1
      BY <3>2 DEF Single
    <3> QED BY <2>2, <2>3, <3>3
  <2> QED BY <2>2, <2>6 DEF Single
<1>16. Append(c.envFrom, 2) \in Seq(Values)
  BY <1>1, <1>2
<1> DEFINE E1 == {[c EXCEPT !.image = v] : v \in Values}
           E2 == {[c EXCEPT !.requests = Over(Entry("cpu", v), @)] : v \in Values}
           E3 == {[c EXCEPT !.requests = Restrict(@, DOMAIN @ \ {n})] : n \in Owned}
           E4 == {[c EXCEPT !.limits = Over(Entry(n, v), @)] :
                     n \in {"memory", "gpu"}, v \in Values}
           E5 == {[c EXCEPT !.ports = q] : q \in {<<>>, p}}
           E6 == {[c EXCEPT !.envFrom = Append(@, 2)], [c EXCEPT !.probes = {}],
                  [c EXCEPT !.security = "other"], [c EXCEPT !.foreign = 2]}
<1>17. Edited(c) = E1 \cup E2 \cup E3 \cup E4 \cup E5 \cup E6
  BY DEF Edited
<1> HIDE DEF a, p
<1>18. CASE e \in E1
  BY <1>3, <1>18
<1>19. CASE e \in E2
  <2>1. PICK v \in Values : e = [c EXCEPT !.requests = Over(Entry("cpu", v), c.requests)]
    BY <1>19
  <2> QED BY <1>4, <1>11, <2>1
<1>20. CASE e \in E3
  <2>1. PICK n \in Owned :
            e = [c EXCEPT !.requests = Restrict(c.requests, DOMAIN c.requests \ {n})]
    BY <1>20
  <2> QED BY <1>4, <1>12, <2>1
<1>21. CASE e \in E4
  <2>1. PICK n \in {"memory", "gpu"}, v \in Values :
            e = [c EXCEPT !.limits = Over(Entry(n, v), c.limits)]
    BY <1>21
  <2> QED BY <1>5, <1>13, <2>1
<1>22. CASE e \in E5
  <2>1. e = [c EXCEPT !.ports = << >>] \/ e = [c EXCEPT !.ports = p]
    BY <1>22
  <2> QED BY <1>6, <1>14, <1>15, <2>1
<1>23. CASE e \in E6
  <2>1. CASE e = [c EXCEPT !.envFrom = Append(c.envFrom, 2)]
    BY <1>7, <1>16, <2>1
  <2>2. CASE e = [c EXCEPT !.probes = {}]
    BY <1>8, <2>2
  <2>3. CASE e = [c EXCEPT !.security = "other"]
    BY <1>9, <2>3 DEF Fixed
  <2>4. CASE e = [c EXCEPT !.foreign = 2]
    BY <1>2, <1>10, <2>4
  <2> QED BY <1>23, <2>1, <2>2, <2>3, <2>4
<1> HIDE DEF E1, E2, E3, E4, E5, E6
<1> QED BY <1>17, <1>18, <1>19, <1>20, <1>21, <1>22, <1>23

\* Containers that the API server can store.
Proper(cs) ==
    /\ cs \in Seq(Containers) /\ Single(cs, "workload")
    /\ \A i \in DOMAIN cs : Single(cs[i].ports, "http")

\* Containers taken one by one from proper ones, and sidecars, are proper.
LEMMA ProperFrom ==
    ASSUME NEW cs, Proper(cs), NEW n \in Seq(Containers),
           \A i \in DOMAIN n : \/ n[i].name # "workload" /\ Single(n[i].ports, "http")
                               \/ \E k \in DOMAIN cs : Like(cs[k], n[i]),
           \A i, j \in DOMAIN n : n[i].name = "workload" /\ n[j].name = "workload" /\ i # j =>
               \E k, m \in DOMAIN cs :
                   k # m /\ cs[k].name = "workload" /\ cs[m].name = "workload"
    PROVE  Proper(n)
<1>1. \A i \in DOMAIN n : Single(n[i].ports, "http")
  BY DEF Like
<1>2. \A k, m \in DOMAIN cs : cs[k].name = "workload" /\ cs[m].name = "workload" => k = m
  BY DEF Proper, Single
<1>3. Single(n, "workload")
  BY <1>2 DEF Single
<1> QED BY <1>1, <1>3 DEF Proper

\* A sidecar is a container.
LEMMA SidecarFields ==
    Sidecar \in Containers /\ Sidecar.name = "sidecar" /\ Single(Sidecar.ports, "http")
<1>1. Empty \in Lists
  BY MapsFacts DEF Lists
<1>2. 1 \in Values /\ 2 \in Values
  BY BuildersAssumption
<1>3. NewContainer =
          [name |-> "workload", image |-> Nil, requests |-> Empty, limits |-> Empty,
           ports |-> <<>>, envFrom |-> <<>>, probes |-> {}, security |-> Nil, foreign |-> 1]
  BY DEF NewContainer
<1> DEFINE d == Sidecar
<1>4. d = [NewContainer EXCEPT !.name = "sidecar", !.image = 2, !.security = "other"]
  BY DEF Sidecar
<1> HIDE DEF d
<1>5. d = [name |-> "sidecar", image |-> 2, requests |-> Empty, limits |-> Empty,
           ports |-> <<>>, envFrom |-> <<>>, probes |-> {}, security |-> "other",
           foreign |-> 1]
  BY <1>3, <1>4
<1>6. << >> \in Seq(Ports) /\ << >> \in Seq(Values)
  OBVIOUS
<1>7. \A i, f, r, p, e : i \in Values /\ f \in Values /\ r \in Lists /\ p \in Seq(Ports)
          /\ e \in Seq(Values) =>
          [name |-> "sidecar", image |-> i, requests |-> r, limits |-> r, ports |-> p,
           envFrom |-> e, probes |-> {}, security |-> "other", foreign |-> f] \in Containers
  BY DEF Containers, Fixed
<1>8. d \in Containers
  BY <1>1, <1>2, <1>5, <1>6, <1>7
<1>9. d.name = "sidecar" /\ d.ports = << >> /\ DOMAIN << >> = {}
  BY <1>5
<1> QED BY <1>8, <1>9 DEF d, Single

\* The elements of a concatenation.
LEMMA Concatenated ==
    ASSUME NEW S, NEW a \in Seq(S), NEW b \in Seq(S)
    PROVE  /\ a \o b \in Seq(S) /\ Len(a \o b) = Len(a) + Len(b)
           /\ \A j \in 1..Len(a) : (a \o b)[j] = a[j]
           /\ \A j \in (Len(a) + 1)..(Len(a) + Len(b)) : (a \o b)[j] = b[j - Len(a)]
OBVIOUS

\* An edit of the list of containers.
LEMMA RecontainedFields ==
    ASSUME NEW cs, Proper(cs), NEW n \in Recontained(cs)
    PROVE  Proper(n)
<1>1. /\ cs \in Seq(Containers) /\ Len(cs) \in Nat /\ DOMAIN cs = 1..Len(cs)
      /\ \A i \in DOMAIN cs : cs[i] \in Containers /\ Single(cs[i].ports, "http")
  BY Positions DEF Proper
<1>2. \A i \in DOMAIN cs : Like(cs[i], cs[i])
  BY <1>1 DEF Like
<1>3. ASSUME NEW i \in DOMAIN cs, n = RemoveAt(cs, i)
      PROVE  Proper(n)
  <2>1. i \in 1..Len(cs)
    BY <1>1
  <2>2. /\ n \in Seq(Containers) /\ Len(n) = Len(cs) - 1
        /\ \A j \in 1..Len(n) : n[j] = IF j < i THEN cs[j] ELSE cs[j + 1]
    <3> DEFINE a == SubSeq(cs, 1, i - 1)
               b == SubSeq(cs, i + 1, Len(cs))
    <3>1. n = a \o b
      BY <1>3 DEF RemoveAt
    <3>2. /\ a \in Seq(Containers) /\ Len(a) = i - 1
          /\ \A j \in 1..(i - 1) : a[j] = cs[j]
      BY <1>1, <2>1
    <3>3. /\ b \in Seq(Containers) /\ Len(b) = Len(cs) - i
          /\ \A j \in 1..(Len(cs) - i) : b[j] = cs[i + j]
      BY <1>1, <2>1
    <3> HIDE DEF a, b
    <3>4. n \in Seq(Containers) /\ Len(n) = Len(cs) - 1
      <4>1. n \in Seq(Containers) /\ Len(n) = Len(a) + Len(b)
        BY <3>1, <3>2, <3>3, Concatenated
      <4> QED BY <1>1, <2>1, <3>2, <3>3, <4>1
    <3>5. ASSUME NEW j \in 1..Len(n)
          PROVE  n[j] = IF j < i THEN cs[j] ELSE cs[j + 1]
      <4>1. CASE j < i
        BY <1>1, <2>1, <3>1, <3>2, <3>3, <3>4, <4>1
      <4>2. CASE ~(j < i)
        <5>1. j - Len(a) \in 1..(Len(cs) - i) /\ i + (j - Len(a)) = j + 1
          <6>1. j \in 1..(Len(cs) - 1) /\ Len(a) = i - 1
            BY <3>2, <3>4
          <6> QED BY <1>1, <2>1, <4>2, <6>1
        <5>2. n[j] = b[j - Len(a)]
          <6>1. j \in (Len(a) + 1)..(Len(a) + Len(b))
            BY <1>1, <2>1, <3>2, <3>3, <3>4, <4>2
          <6> QED BY <3>1, <3>2, <3>3, <6>1, Concatenated
        <5>3. b[j - Len(a)] = cs[j + 1]
          BY <3>3, <5>1
        <5> QED BY <4>2, <5>2, <5>3
      <4> QED BY <4>1, <4>2
    <3> QED BY <3>4, <3>5
  <2> DEFINE g(j) == IF j < i THEN j ELSE j + 1
  <2>3. \A j \in DOMAIN n : g(j) \in DOMAIN cs /\ n[j] = cs[g(j)]
    BY <1>1, <2>1, <2>2
  <2>4. \A j, k \in DOMAIN n : j # k => g(j) # g(k)
    BY <1>1, <2>1, <2>2
  <2> HIDE DEF g
  <2> QED BY <1>2, <2>2, <2>3, <2>4, ProperFrom
<1>4. ASSUME n = <<Sidecar>> \o cs
      PROVE  Proper(n)
  <2>1. /\ n \in Seq(Containers) /\ Len(n) = Len(cs) + 1
        /\ n[1] = Sidecar /\ \A j \in 2..Len(n) : n[j] = cs[j - 1]
    BY <1>1, <1>4, SidecarFields
  <2>2. n[1].name # "workload" /\ Single(n[1].ports, "http")
    BY <2>1, SidecarFields
  <2>3. \A j \in DOMAIN n \ {1} : j - 1 \in DOMAIN cs /\ n[j] = cs[j - 1]
    BY <1>1, <2>1
  <2>4. \A j, k \in DOMAIN n : j # k => j - 1 # k - 1
    BY <2>1
  <2>5. \A j \in DOMAIN n : \/ n[j].name # "workload" /\ Single(n[j].ports, "http")
                            \/ \E k \in DOMAIN cs : Like(cs[k], n[j])
    BY <1>2, <2>2, <2>3
  <2>6. \A j, k \in DOMAIN n : n[j].name = "workload" /\ n[k].name = "workload" /\ j # k =>
            \E x, y \in DOMAIN cs : x # y /\ cs[x].name = "workload" /\ cs[y].name = "workload"
    BY <2>2, <2>3, <2>4
  <2> QED BY <2>1, <2>5, <2>6, ProperFrom
<1>5. ASSUME n = Append(cs, Sidecar)
      PROVE  Proper(n)
  <2>1. /\ n \in Seq(Containers) /\ Len(n) = Len(cs) + 1
        /\ n[Len(n)] = Sidecar /\ \A j \in 1..Len(cs) : n[j] = cs[j]
    BY <1>1, <1>5, SidecarFields
  <2>2. n[Len(n)].name # "workload" /\ Single(n[Len(n)].ports, "http")
    BY <2>1, SidecarFields
  <2>3. \A j \in DOMAIN n \ {Len(n)} : j \in DOMAIN cs /\ n[j] = cs[j]
    BY <1>1, <2>1
  <2>4. \A j \in DOMAIN n : \/ n[j].name # "workload" /\ Single(n[j].ports, "http")
                            \/ \E k \in DOMAIN cs : Like(cs[k], n[j])
    BY <1>2, <2>2, <2>3
  <2>5. \A j, k \in DOMAIN n : n[j].name = "workload" /\ n[k].name = "workload" /\ j # k =>
            \E x, y \in DOMAIN cs : x # y /\ cs[x].name = "workload" /\ cs[y].name = "workload"
    BY <2>2, <2>3
  <2> QED BY <2>1, <2>4, <2>5, ProperFrom
<1>6. ASSUME NEW i \in DOMAIN cs, NEW c \in Edited(cs[i]), n = ReplaceAt(cs, i, c)
      PROVE  Proper(n)
  <2>1. Like(cs[i], c)
    BY <1>1, EditedFields
  <2>2. n = [cs EXCEPT ![i] = c]
    BY <1>6 DEF ReplaceAt
  <2>3. n \in Seq(Containers) /\ DOMAIN n = DOMAIN cs
    BY <1>1, <2>1, <2>2 DEF Like
  <2>4. \A j \in DOMAIN n : n[j] = IF j = i THEN c ELSE cs[j]
    BY <1>1, <2>2
  <2>5. \A j \in DOMAIN n : Like(cs[j], n[j])
    BY <1>2, <2>1, <2>3, <2>4
  <2>6. \A j \in DOMAIN n : n[j].name = cs[j].name
    BY <2>5 DEF Like
  <2> QED BY <2>3, <2>5, <2>6, ProperFrom
<1>7. \/ n \in {RemoveAt(cs, i) : i \in DOMAIN cs}
      \/ n \in {<<Sidecar>> \o cs, Append(cs, Sidecar)}
      \/ n \in UNION {{ReplaceAt(cs, i, c) : c \in Edited(cs[i])} :
                         i \in {j \in DOMAIN cs : cs[j].name = "workload"}}
  BY DEF Recontained
<1> QED BY <1>3, <1>4, <1>5, <1>6, <1>7

\* A Deployment with proper containers is tidy once it is stored.
LEMMA DefaultedDeployment ==
    ASSUME NEW d \in Objects("Deployment"), Proper(d.containers),
           NEW o, o = Default("Deployment", d)
    PROVE  o \in Objects("Deployment") /\ TidyDeployment(o)
<1> DEFINE cs == d.containers
           q == [i \in DOMAIN cs |-> Defaulted(cs[i])]
<1>1. /\ cs \in Seq(Containers) /\ Len(cs) \in Nat /\ DOMAIN cs = 1..Len(cs)
      /\ \A i \in DOMAIN cs : cs[i] \in Containers /\ Single(cs[i].ports, "http")
  BY Positions DEF Proper
<1>2. Single(cs, "workload")
  BY DEF Proper
<1>3. o = [d EXCEPT !.containers = q]
  BY DEF Default
<1> HIDE DEF cs
<1>4. DOMAIN q = DOMAIN cs /\ \A i \in DOMAIN q : q[i] = Defaulted(cs[i])
  OBVIOUS
<1>5. \A i \in DOMAIN q : /\ q[i] \in Containers /\ TidyContainer(q[i])
                          /\ q[i].name = cs[i].name
  BY <1>1, <1>4, DefaultedFields
<1>6. q \in [1..Len(cs) -> Containers]
  BY <1>1, <1>4, <1>5
<1>7. q \in Seq(Containers)
  BY <1>1, <1>6
<1> HIDE DEF q
<1>8. Single(q, "workload")
  BY <1>2, <1>4, <1>5 DEF Single
<1>9. o \in Objects("Deployment") /\ o.containers = q
  BY <1>3, <1>7 DEF Objects
<1> QED BY <1>5, <1>8, <1>9 DEF TidyDeployment

\* An edit of a Deployment.
LEMMA TamperedDeployment ==
    ASSUME NEW o \in Objects("Deployment"), TidyDeployment(o),
           NEW e \in Tampered("Deployment", o)
    PROVE  e \in Objects("Deployment") /\ Proper(e.containers)
<1>1. /\ o.labels \in Labels /\ o.template \in Labels /\ o.containers \in Seq(Containers)
  BY DEF Objects
<1>2. Proper(o.containers)
  BY <1>1 DEF TidyDeployment, TidyContainer, Proper
<1>3. 2 \in Values
  BY BuildersAssumption
<1>4. ASSUME NEW l \in Relabelled(o.labels), e = [o EXCEPT !.labels = l]
      PROVE  e \in Objects("Deployment") /\ Proper(e.containers)
  <2>1. l \in Labels
    BY <1>1, RelabelledType
  <2>2. e \in Objects("Deployment") /\ e.containers = o.containers
    BY <1>4, <2>1 DEF Objects
  <2> QED BY <1>2, <2>2
<1>5. ASSUME NEW l \in Relabelled(o.template), e = [o EXCEPT !.template = l]
      PROVE  e \in Objects("Deployment") /\ Proper(e.containers)
  <2>1. l \in Labels
    BY <1>1, RelabelledType
  <2>2. e \in Objects("Deployment") /\ e.containers = o.containers
    BY <1>5, <2>1 DEF Objects
  <2> QED BY <1>2, <2>2
<1>6. ASSUME NEW v \in Fixed, e = [o EXCEPT !.rollout = v] \/ e = [o EXCEPT !.pod = v]
      PROVE  e \in Objects("Deployment") /\ Proper(e.containers)
  <2>1. e \in Objects("Deployment") /\ e.containers = o.containers
    BY <1>6 DEF Objects
  <2> QED BY <1>2, <2>1
<1>7. ASSUME NEW v \in Values, e = [o EXCEPT !.foreign = v]
      PROVE  e \in Objects("Deployment") /\ Proper(e.containers)
  <2>1. e \in Objects("Deployment") /\ e.containers = o.containers
    BY <1>7 DEF Objects
  <2> QED BY <1>2, <2>1
<1>8. ASSUME NEW cs \in Recontained(o.containers), e = [o EXCEPT !.containers = cs]
      PROVE  e \in Objects("Deployment") /\ Proper(e.containers)
  <2>1. Proper(cs)
    BY <1>2, RecontainedFields
  <2>2. e \in Objects("Deployment") /\ e.containers = cs
    BY <1>8, <2>1 DEF Objects, Proper
  <2> QED BY <2>1, <2>2
<1> DEFINE E1 == {[o EXCEPT !.labels = l] : l \in Relabelled(o.labels)}
           E2 == {[o EXCEPT !.template = l] : l \in Relabelled(o.template)}
           E3 == {[o EXCEPT !.rollout = "other"], [o EXCEPT !.pod = "other"],
                  [o EXCEPT !.foreign = 2]}
           E4 == {[o EXCEPT !.containers = cs] : cs \in Recontained(o.containers)}
<1>9. Tampered("Deployment", o) \subseteq E1 \cup E2 \cup E3 \cup E4
  <2>1. Tampered("Deployment", o) = E1 \cup {d \in E2 \cup E3 \cup E4 : Admitted(d)}
    BY DEF Tampered
  <2> HIDE DEF E1, E2, E3, E4
  <2> QED BY <2>1
<1>10. CASE e \in E1
  BY <1>4, <1>10
<1>11. CASE e \in E2
  BY <1>5, <1>11
<1>12. CASE e \in E3
  BY <1>3, <1>6, <1>7, <1>12 DEF Fixed
<1>13. CASE e \in E4
  BY <1>8, <1>13
<1> HIDE DEF E1, E2, E3, E4
<1> QED BY <1>9, <1>10, <1>11, <1>12, <1>13

\* An edit of an HPA, once it is stored.
LEMMA TamperedHPA ==
    ASSUME NEW o \in Objects("HPA"), NEW e \in Tampered("HPA", o),
           NEW n, n = Default("HPA", e)
    PROVE  n \in Objects("HPA")
<1> DEFINE B == [window : Nat, filled : {TRUE}] \cup {Nil}
           H(S) == [labels : Labels, target : Fixed, min : Nat, max : Nat,
                    metrics : Seq(Sources), behavior : S]
           x == [window |-> 2, filled |-> FALSE]
<1>1. Objects("HPA") = H(B)
  BY DEF Objects
<1>2. n = [e EXCEPT !.behavior = Filled(@)]
  BY DEF Default, Filled
<1>3. Filled(x) \in B
  BY FilledType
<1>4. ASSUME NEW b \in B
      PROVE  Filled(b) \in B
  <2>1. CASE b = Nil
    BY <2>1 DEF Filled
  <2>2. CASE b # Nil
    <3>1. b \in [window : Nat, filled : {TRUE}]
      BY <2>2
    <3>2. b.window \in Nat /\ b.filled \in BOOLEAN
          /\ b = [window |-> b.window, filled |-> b.filled]
      BY <3>1
    <3> QED BY <3>2, FilledType
  <2> QED BY <2>1, <2>2
<1>5. Nil \in B
  OBVIOUS
<1>6. <<<<"Resource", "cpu", "Utilization">>>> \in Seq(Sources)
  BY DEF Sources
<1>7. o \in H(B)
  BY <1>1
<1> HIDE DEF B
<1>8. o.max \in Nat /\ o.labels \in Labels
  BY <1>7
<1> HIDE DEF x
<1>9. e \in H(B \cup {x})
  <2>1. ASSUME NEW l \in Relabelled(o.labels), e = [o EXCEPT !.labels = l]
        PROVE  e \in H(B \cup {x})
    <3>1. l \in Labels
      BY <1>8, RelabelledType
    <3> QED BY <1>7, <2>1, <3>1
  <2>2. ASSUME e = [o EXCEPT !.target = "other"]
        PROVE  e \in H(B \cup {x})
    BY <1>7, <2>2 DEF Fixed
  <2>3. ASSUME e = [o EXCEPT !.max = o.max + 1]
        PROVE  e \in H(B \cup {x})
    <3>1. o.max + 1 \in Nat
      BY <1>8
    <3> QED BY <1>7, <2>3, <3>1
  <2>4. ASSUME NEW m \in Seq(Sources), e = [o EXCEPT !.metrics = m]
        PROVE  e \in H(B \cup {x})
    BY <1>7, <2>4
  <2>5. ASSUME NEW b \in B \cup {x}, e = [o EXCEPT !.behavior = b]
        PROVE  e \in H(B \cup {x})
    BY <1>7, <2>5
  <2> DEFINE E1 == {[o EXCEPT !.labels = l] : l \in Relabelled(o.labels)}
  <2>6. Tampered("HPA", o) = E1 \cup
            {[o EXCEPT !.target = "other"], [o EXCEPT !.max = o.max + 1],
             [o EXCEPT !.metrics = <<<<"Resource", "cpu", "Utilization">>>>],
             [o EXCEPT !.behavior = Nil], [o EXCEPT !.behavior = x]}
    BY DEF Tampered, x
  <2>7. CASE e \in E1
    BY <2>1, <2>7
  <2> HIDE DEF E1
  <2> QED BY <1>5, <1>6, <2>2, <2>3, <2>4, <2>5, <2>6, <2>7
<1>10. e.behavior \in B \cup {x}
  BY <1>9
<1>11. Filled(e.behavior) \in B
  BY <1>3, <1>4, <1>10
<1>12. n \in H(B)
  BY <1>2, <1>9, <1>11
<1> QED BY <1>1, <1>12

\* An edit of a Service, once it is stored.
LEMMA TamperedService ==
    ASSUME NEW o \in Objects("Service"), NEW e \in Tampered("Service", o),
           NEW n, n = Default("Service", e)
    PROVE  n \in Objects("Service")
<1> DEFINE V == [labels : Labels, type : {"ClusterIP", "NodePort"}, selector : Fixed,
                 ports : Seq(Ports), clusterIP : {"None", "allocated"}]
           a == [name |-> "admin", port |-> 1]
           E1 == {[o EXCEPT !.labels = l] : l \in Relabelled(o.labels)}
<1>1. Objects("Service") = V
  BY DEF Objects
<1>2. o \in V
  BY <1>1
<1>3. o.labels \in Labels /\ o.ports \in Seq(Ports)
  BY <1>2
<1>4. a \in Ports
  BY BuildersAssumption DEF Ports
<1>5. Tampered("Service", o) = E1 \cup
          {[o EXCEPT !.type = "NodePort"], [o EXCEPT !.selector = "other"],
           [o EXCEPT !.ports = Append(o.ports, a)]}
  BY DEF Tampered
<1> HIDE DEF a
<1>6. CASE e \in E1
  <2>1. PICK l \in Relabelled(o.labels) : e = [o EXCEPT !.labels = l]
    BY <1>6
  <2>2. l \in Labels
    BY <1>3, RelabelledType
  <2>3. e \in V
    BY <1>2, <2>1, <2>2
  <2>4. n = [e EXCEPT !.clusterIP = IF @ = Nil THEN "allocated" ELSE @]
    BY DEF Default
  <2> QED BY <1>1, <2>3, <2>4
<1>7. CASE e \notin E1
  <2> HIDE DEF E1
  <2>1. \/ e = [o EXCEPT !.type = "NodePort"] \/ e = [o EXCEPT !.selector = "other"]
        \/ e = [o EXCEPT !.ports = Append(o.ports, a)]
    BY <1>5, <1>7
  <2>2. Append(o.ports, a) \in Seq(Ports)
    BY <1>3, <1>4
  <2>3. e \in V
    BY <1>2, <2>1, <2>2 DEF Fixed
  <2>4. n = [e EXCEPT !.clusterIP = IF @ = Nil THEN "allocated" ELSE @]
    BY DEF Default
  <2> QED BY <1>1, <2>3, <2>4
<1> QED BY <1>6, <1>7

\* An edit of a child of a kind that has no defaults.
LEMMA TamperedOthers ==
    ASSUME NEW k \in {"ServiceAccount", "NetworkPolicy", "PDB"}, NEW o \in Objects(k),
           NEW e \in Tampered(k, o)
    PROVE  e \in Objects(k)
<1> DEFINE E1 == {[o EXCEPT !.labels = l] : l \in Relabelled(o.labels)}
<1>1. 2 \in Values
  BY BuildersAssumption
<1>2. o.labels \in Labels
  BY DEF Objects
<1>3. ASSUME NEW l \in Labels, e = [o EXCEPT !.labels = l]
      PROVE  e \in Objects(k)
  BY <1>3 DEF Objects
<1>4. CASE e \in E1
  <2>1. PICK l \in Relabelled(o.labels) : e = [o EXCEPT !.labels = l]
    BY <1>4
  <2>2. l \in Labels
    BY <1>2, RelabelledType
  <2> QED BY <1>3, <2>1, <2>2
<1>5. CASE e \notin E1 /\ k = "ServiceAccount"
  <2>1. Tampered(k, o) =
            E1 \cup {[o EXCEPT !.automount = "other"], [o EXCEPT !.foreign = 2]}
    BY <1>5 DEF Tampered
  <2> HIDE DEF E1
  <2>2. e = [o EXCEPT !.automount = "other"] \/ e = [o EXCEPT !.foreign = 2]
    BY <1>5, <2>1
  <2> QED BY <1>1, <1>5, <2>2 DEF Objects, Fixed
<1>6. CASE e \notin E1 /\ k = "NetworkPolicy"
  <2>1. Tampered(k, o) = E1 \cup {[o EXCEPT !.rules = "other"]}
    BY <1>6 DEF Tampered
  <2> HIDE DEF E1
  <2>2. e = [o EXCEPT !.rules = "other"]
    BY <1>6, <2>1
  <2> QED BY <1>6, <2>2 DEF Objects, Fixed
<1>7. CASE e \notin E1 /\ k = "PDB"
  <2> DEFINE B == [shape : {"min", "max"}, n : Nat]
             b == [o.budget EXCEPT !.n = @ + 1]
  <2>1. Tampered(k, o) = E1 \cup {[o EXCEPT !.selector = "other"], [o EXCEPT !.budget = b]}
    BY <1>7 DEF Tampered
  <2> HIDE DEF E1
  <2>2. e = [o EXCEPT !.selector = "other"] \/ e = [o EXCEPT !.budget = b]
    BY <1>7, <2>1
  <2>3. Objects(k) = [labels : Labels, selector : Fixed, budget : B]
    BY <1>7 DEF Objects
  <2>4. o.budget \in B
    BY <2>3
  <2>5. b \in B
    BY <2>4
  <2> HIDE DEF B, b
  <2> QED BY <2>2, <2>3, <2>5 DEF Fixed
<1> QED BY <1>4, <1>5, <1>6, <1>7

\* Whatever others do to a child, it is well formed once it is stored.
LEMMA TamperedFields ==
    ASSUME NEW k \in ChildKinds, NEW o \in Objects(k),
           k = "Deployment" => TidyDeployment(o),
           NEW e \in Tampered(k, o), NEW n, n = Default(k, e)
    PROVE  n \in Objects(k) /\ (k = "Deployment" => TidyDeployment(n))
<1>1. CASE k = "Deployment"
  <2>1. e \in Objects("Deployment") /\ Proper(e.containers)
    BY <1>1, TamperedDeployment
  <2> QED BY <1>1, <2>1, DefaultedDeployment
<1>2. CASE k = "HPA"
  BY <1>2, TamperedHPA
<1>3. CASE k = "Service"
  BY <1>3, TamperedService
<1>4. CASE k \in {"ServiceAccount", "NetworkPolicy", "PDB"}
  <2>1. n = e
    BY <1>4 DEF Default
  <2> QED BY <1>4, <2>1, TamperedOthers
<1> QED BY <1>1, <1>2, <1>3, <1>4 DEF ChildKinds

\* An object made by hand is well formed.
LEMMA PlantedFields ==
    ASSUME NEW k \in ChildKinds, NEW s \in Workloads, ~Absent(k, s), NEW o \in Planted(k, s)
    PROVE  o \in Objects(k) /\ (k = "Deployment" => TidyDeployment(o))
<1> DEFINE d == Default(k, Mutate(k, New(k), s))
<1>1. d \in Objects(k) /\ (k = "Deployment" => TidyDeployment(d))
  <2>1. Base(k, New(k))
    BY DEF Base
  <2>2. Applied(k, New(k), s, d)
    BY <2>1, AppliedFacts
  <2> HIDE DEF d
  <2> QED BY <2>2 DEF Applied
<1>2. CASE k = "Deployment"
  <2>1. o = [d EXCEPT !.selector = "other"]
    BY <1>2 DEF Planted
  <2> HIDE DEF d
  <2>2. o \in Objects(k) /\ o.containers = d.containers
    BY <1>1, <1>2, <2>1 DEF Objects, Fixed
  <2> QED BY <1>1, <1>2, <2>2 DEF TidyDeployment
<1>3. CASE k = "Service"
  <2> DEFINE m == Mutate(k, New(k), s)
  <2>1. o = [m EXCEPT !.clusterIP = "None"]
    BY <1>3 DEF Planted
  <2>2. d = [m EXCEPT !.clusterIP = IF @ = Nil THEN "allocated" ELSE @]
    BY <1>3 DEF Default
  <2> HIDE DEF d, m
  <2>3. o = [d EXCEPT !.clusterIP = "None"]
    BY <2>1, <2>2
  <2> QED BY <1>1, <1>3, <2>3 DEF Objects
<1>4. CASE k \notin {"Deployment", "Service"}
  BY <1>4 DEF Planted
<1> QED BY <1>2, <1>3, <1>4

-----------------------------------------------------------------------------
(* The invariant *)

\* The kinds and the specs of the instance are ones that the lemmas are about.
LEMMA Instance ==
    ASSUME TypeOK
    PROVE  kind \in ChildKinds /\ spec \in Workloads
BY BuildersAssumption DEF TypeOK, ChildKinds

\* The first state.
LEMMA InvInit == Init => BuildersInv
<1> SUFFICES ASSUME Init PROVE BuildersInv
  OBVIOUS
<1>1. /\ kind \in Kinds /\ kind \in ChildKinds /\ fuel \in Nat /\ spec \in Specs
      /\ spec \in Workloads /\ outcome = "stale"
  BY BuildersAssumption DEF Init, ChildKinds
<1>2. object # Nil => ~Absent(kind, spec) /\ object \in Planted(kind, spec)
  BY DEF Init
<1>3. object # Nil => /\ object \in Objects(kind)
                      /\ kind = "Deployment" => TidyDeployment(object)
  BY <1>1, <1>2, PlantedFields
<1>4. TypeOK
  BY <1>1, <1>3 DEF TypeOK
<1>5. Tidy
  BY <1>3 DEF Tidy
<1>6. LikeNew /\ Quiet
  BY <1>1 DEF LikeNew, Current, Quiet
<1> QED BY <1>4, <1>5, <1>6 DEF BuildersInv

\* What an apply that writes does, from an empty object or from the one it found.
LEMMA WriteStep ==
    ASSUME BuildersInv, Create \/ Repair
    PROVE  /\ ~Absent(kind, spec) /\ UNCHANGED <<kind, fuel, spec>>
           /\ outcome' \in {"created", "patched", "unchanged"}
           /\ \E d : /\ Applied(kind, d, spec, object')
                     /\ Repair => d = object /\ object \in Objects(kind)
                                             /\ ~Refuses(kind, object)
<1>1. kind \in ChildKinds /\ spec \in Workloads
  BY Instance DEF BuildersInv
<1>2. ASSUME Create
      PROVE  /\ ~Absent(kind, spec) /\ UNCHANGED <<kind, fuel, spec>> /\ ~Repair
             /\ outcome' \in {"created", "patched", "unchanged"}
             /\ Applied(kind, New(kind), spec, object')
  <2>1. Base(kind, New(kind))
    BY DEF Base
  <2>2. ~Absent(kind, spec) /\ object' = Default(kind, Mutate(kind, New(kind), spec))
    BY <1>2 DEF Create
  <2>3. Applied(kind, New(kind), spec, object')
    BY <1>1, <2>1, <2>2, AppliedFacts
  <2>4. /\ UNCHANGED <<kind, fuel, spec>> /\ outcome' = "created" /\ ~Repair
    BY <1>2 DEF Create, Repair
  <2> QED BY <2>2, <2>3, <2>4
<1>3. ASSUME Repair
      PROVE  /\ ~Absent(kind, spec) /\ UNCHANGED <<kind, fuel, spec>>
             /\ outcome' \in {"created", "patched", "unchanged"}
             /\ object \in Objects(kind) /\ ~Refuses(kind, object)
             /\ Applied(kind, object, spec, object')
  <2>1. /\ ~Absent(kind, spec) /\ object # Nil /\ ~Refuses(kind, object)
        /\ object' = Default(kind, Mutate(kind, object, spec))
    BY <1>3 DEF Repair
  <2>2. /\ object \in Objects(kind)
        /\ kind = "Deployment" => TidyDeployment(object)
    BY <2>1 DEF BuildersInv, TypeOK, Tidy
  <2>3. Base(kind, object)
    BY <2>1, <2>2 DEF Base
  <2>4. Applied(kind, object, spec, object')
    BY <1>1, <2>1, <2>3, AppliedFacts
  <2>5. UNCHANGED <<kind, fuel, spec>> /\ outcome' \in {"patched", "unchanged"}
    BY <1>3 DEF Repair
  <2> QED BY <2>1, <2>2, <2>4, <2>5
<1>4. CASE Create
  BY <1>2, <1>4
<1>5. CASE Repair
  BY <1>3, <1>5
<1> QED BY <1>4, <1>5

\* Every step preserves the invariant.
LEMMA InvStep == BuildersInv /\ [Next]_vars => BuildersInv'
<1> SUFFICES ASSUME BuildersInv, [Next]_vars PROVE BuildersInv'
  OBVIOUS
<1>1. TypeOK /\ Tidy /\ kind \in ChildKinds /\ spec \in Workloads
  BY Instance DEF BuildersInv
<1>2. CASE Create \/ Repair
  <2>1. /\ ~Absent(kind, spec) /\ UNCHANGED <<kind, fuel, spec>>
        /\ outcome' \in {"created", "patched", "unchanged"}
    BY <1>2, WriteStep
  <2>2. PICK d : Applied(kind, d, spec, object')
    BY <1>2, WriteStep
  <2>3. /\ object' \in Objects(kind) /\ (kind = "Deployment" => TidyDeployment(object'))
        /\ OwnedPart(kind, object') = OwnedOf(kind, spec)
        /\ Settled(kind, object', spec)
    BY <2>2 DEF Applied
  <2>4. TypeOK'
    BY <1>1, <2>1, <2>3 DEF TypeOK
  <2>5. Tidy'
    BY <2>1, <2>3 DEF Tidy
  <2>6. LikeNew'
    <3> DEFINE n == Default(kind, Mutate(kind, New(kind), spec))
    <3>1. Base(kind, New(kind))
      BY DEF Base
    <3>2. Applied(kind, New(kind), spec, n)
      BY <1>1, <2>1, <3>1, AppliedFacts
    <3>3. OwnedPart(kind, n) = OwnedOf(kind, spec)
      BY <3>2 DEF Applied
    <3>4. OwnedPart(kind, object') =
              OwnedPart(kind, Default(kind, Mutate(kind, New(kind), spec)))
      BY <2>3, <3>3
    <3> QED BY <2>1, <3>4 DEF LikeNew
  <2>7. Quiet'
    BY <2>1, <2>3 DEF Quiet, Stabilized, Settled
  <2> QED BY <2>4, <2>5, <2>6, <2>7 DEF BuildersInv
<1>3. CASE Refuse
  <2>1. UNCHANGED <<kind, fuel, spec, object>> /\ outcome' = "refused"
    BY <1>3 DEF Refuse
  <2>2. TypeOK' /\ Tidy'
    BY <1>1, <2>1 DEF TypeOK, Tidy
  <2>3. LikeNew' /\ Quiet'
    BY <2>1 DEF LikeNew, Current, Quiet
  <2> QED BY <2>2, <2>3 DEF BuildersInv
<1>4. CASE Delete
  <2>1. /\ Absent(kind, spec) /\ UNCHANGED <<kind, fuel, spec>> /\ object' = Nil
        /\ outcome' \in {"unchanged", "deleted"}
    BY <1>4 DEF Delete
  <2>2. TypeOK' /\ Tidy'
    BY <1>1, <2>1 DEF TypeOK, Tidy
  <2>3. LikeNew'
    BY <2>1 DEF LikeNew
  <2>4. Quiet'
    BY <2>1 DEF Quiet
  <2> QED BY <2>2, <2>3, <2>4 DEF BuildersInv
<1>5. CASE EditSpec
  <2>1. /\ fuel' \in Nat /\ outcome' = "stale" /\ UNCHANGED <<kind, object>>
        /\ spec' \in Specs
    BY <1>1, <1>5 DEF EditSpec, Spend, TypeOK
  <2>2. TypeOK' /\ Tidy'
    BY <1>1, <2>1 DEF TypeOK, Tidy
  <2>3. LikeNew' /\ Quiet'
    BY <2>1 DEF LikeNew, Current, Quiet
  <2> QED BY <2>2, <2>3 DEF BuildersInv
<1>6. CASE Tamper
  <2>1. /\ object # Nil /\ fuel' \in Nat /\ outcome' = "stale" /\ UNCHANGED <<kind, spec>>
    BY <1>1, <1>6 DEF Tamper, Spend, TypeOK
  <2>2. PICK e \in Tampered(kind, object) : object' = Default(kind, e)
    BY <1>6 DEF Tamper
  <2>3. object \in Objects(kind) /\ (kind = "Deployment" => TidyDeployment(object))
    BY <1>1, <2>1 DEF TypeOK, Tidy
  <2>4. object' \in Objects(kind) /\ (kind = "Deployment" => TidyDeployment(object'))
    BY <1>1, <2>2, <2>3, TamperedFields
  <2>5. TypeOK' /\ Tidy'
    BY <1>1, <2>1, <2>4 DEF TypeOK, Tidy
  <2>6. LikeNew' /\ Quiet'
    BY <2>1 DEF LikeNew, Current, Quiet
  <2> QED BY <2>5, <2>6 DEF BuildersInv
<1>7. CASE UNCHANGED vars
  <2>1. UNCHANGED <<kind, fuel, spec, object, outcome>>
    BY <1>7 DEF vars
  <2>2. TypeOK' /\ Tidy'
    BY <1>1, <2>1 DEF TypeOK, Tidy
  <2>3. LikeNew'
    BY <2>1 DEF BuildersInv, LikeNew, Current
  <2>4. Quiet'
    BY <2>1 DEF BuildersInv, Quiet, Stabilized
  <2> QED BY <2>2, <2>3, <2>4 DEF BuildersInv
<1> QED BY <1>2, <1>3, <1>4, <1>5, <1>6, <1>7 DEF Next, Apply

\* An apply of an existing child keeps the foreign part.
LEMMA RepairKeeps ==
    ASSUME BuildersInv, Repair
    PROVE  ForeignPart(kind, object') = ForeignPart(kind, object)
<1>1. PICK d : /\ Applied(kind, d, spec, object')
               /\ d = object /\ object \in Objects(kind) /\ ~Refuses(kind, object)
  BY WriteStep
<1>2. Applied(kind, object, spec, object')
  BY <1>1
<1> QED BY <1>1, <1>2 DEF Applied

-----------------------------------------------------------------------------
(* Theorems *)

\* Children keep their types under every callback, edit and default: in particular
\* every metric that hpaMetrics writes is one of the four that autoscaling/v2 accepts,
\* and every field of a new child has been set or defaulted.
THEOREM TypeCorrect == Spec => []TypeOK
<1>1. BuildersInv => TypeOK
  BY DEF BuildersInv
<1> QED BY <1>1, InvInit, InvStep, PTL DEF Spec

\* Drift repair is complete, whatever was edited and whatever specs the child went
\* through: the fields that the Mutate callbacks own are those of a child created
\* from the current spec alone.
THEOREM RepairComplete == Spec => []LikeNew
<1>1. BuildersInv => LikeNew
  BY DEF BuildersInv
<1> QED BY <1>1, InvInit, InvStep, PTL DEF Spec

\* A child that was just applied and defaulted by the API server needs no patch, or,
\* an HPA with a window, one that leaves it as it is.
THEOREM NoUpdateStorm == Spec => []Quiet
<1>1. BuildersInv => Quiet
  BY DEF BuildersInv
<1> QED BY <1>1, InvInit, InvStep, PTL DEF Spec

\* Mutate sets only owned fields: a repair keeps foreign labels, sidecars and other
\* ports at their places, extended resources and the cluster address.
THEOREM ForeignPreserved == Spec => ForeignKept
<1>1. BuildersInv /\ [Next]_vars =>
          [Repair => ForeignPart(kind, object') = ForeignPart(kind, object)]_vars
  BY RepairKeeps
<1> QED BY <1>1, InvInit, InvStep, PTL DEF Spec, ForeignKept

=============================================================================
