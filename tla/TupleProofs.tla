------------------------------ MODULE TupleProofs ------------------------------
(***************************************************************************)
(* However a tuple is put together, every storage has exactly one owner at *)
(* every moment: for any width of tuples, any bound on what the caller     *)
(* holds, any set of addresses and any scalars.                            *)
(***************************************************************************)
EXTENDS TupleConstruction, FiniteSetTheorems, SequenceTheorems, WellFoundedInduction, TLAPS

(***************************************************************************)
(* Types.                                                                  *)
(***************************************************************************)

Containers == {"scalar", "vector", "tuple"}

\* An address, or a null pointer.
Addressed == Addresses \cup {0}

Payloads == [storage : Addressed, length : Nat]

NodeRecords ==
  [container : Containers, scalar : Nat, first_child : Nat, child_count : Nat,
   tuple_reservation_index : Nat, vector_payload_index : Nat]

Arenas ==
  [nodes : Seq(NodeRecords), child_indexes : Seq(Nat), vector_payloads : Seq(Payloads),
   reservations : Seq(Payloads), root_index : Nat, root_reservation : Payloads,
   first_child : Nat, child_count : Nat]

ValueRecords ==
  [claimed : BOOLEAN, container : Containers, scalar : Nat, vector : Payloads,
   tuple : Arenas]

\* Fields that the container of a value does not use are empty, and so are all
\* those of a value that has been moved away.
Clean(v) ==
  /\ v.container # "vector" => v.vector = NoPayload
  /\ v.container # "tuple" => v.tuple = NoTuple
  /\ ~v.claimed => v = Unclaimed

Proper(o) == o = Owner(o.value, o.tree) /\ o.value \in ValueRecords /\ Clean(o.value)

Drafts == [tuple : Arenas, roots : Seq(Nat)]

CountRecords == [nodes : Nat, edges : Nat, payloads : Nat, tables : Nat]

Stages == {"idle", "producing", "making", "reserved", "moving", "assembling", "publishing"}

Calls == [stage : Stages, by : {"none", "execute", "caller"}, width : 0 .. Width, done : 0 .. Width]

Typed ==
  /\ \A o \in pool : Proper(o)
  /\ DOMAIN scratch = Positions /\ scratch = [i \in Positions |-> scratch[i]]
  /\ \A i \in Positions : Proper(scratch[i])
  /\ live \subseteq Addresses
  /\ call \in Calls /\ call.done <= call.width
  /\ call.stage = "idle" => call = Idle
  /\ table \in Payloads
  /\ draft \in Drafts
  /\ {capacity, moved} \subseteq CountRecords

(***************************************************************************)
(* What holds between the steps of a call.                                 *)
(***************************************************************************)

\* Where the call keeps storage of its own; a make has not begun to move.
CallHolds ==
  /\ call.stage \in {"making", "reserved"} => call.done = 0
  /\ call.stage \in {"idle", "producing", "making"} => table = NoPayload
  /\ call.stage \notin {"moving", "publishing"} => draft = NoDraft
  /\ draft.tuple.root_reservation = NoPayload

\* The slots a call has not filled yet, or has emptied; beyond its width there is
\* only what an earlier call kept because it could not be validated.
SlotsOf ==
  /\ \A i \in Positions : i > call.width => LeftBehind(scratch[i].value)
  /\ call.stage \in {"producing", "assembling"} =>
       \A i \in Positions : call.done < i /\ i <= call.width => ~scratch[i].value.claimed
  /\ call.stage \in {"moving", "publishing"} =>
       \A i \in Positions : i <= call.done => ~scratch[i].value.claimed

(***************************************************************************)
(* Who owns what, one owner at a time.                                     *)
(***************************************************************************)

\* The storages of an arena, by what it keeps them in.
Kept(t) == Elements(Pointers(t.vector_payloads)) \cup Elements(Pointers(t.reservations))

KeptOnce(t) ==
  /\ Distinct(Pointers(t.vector_payloads)) /\ Distinct(Pointers(t.reservations))
  /\ Elements(Pointers(t.vector_payloads)) \cap Elements(Pointers(t.reservations)) = {}

Has(o) == Elements(OwnedBy(o.value))
CallHas == Kept(draft.tuple) \cup ({table.storage} \ {0})

HeldBySomeone(s) ==
  (\E o \in pool : s \in Has(o)) \/ (\E i \in Positions : s \in Has(scratch[i])) \/ s \in CallHas

LiveIsHeld == \A s : s \in live <=> HeldBySomeone(s)

HeldOnce ==
  /\ \A o \in pool : Distinct(OwnedBy(o.value))
  /\ \A i \in Positions : Distinct(OwnedBy(scratch[i].value))
  /\ KeptOnce(draft.tuple) /\ table.storage \notin Kept(draft.tuple)

HeldApart ==
  /\ \A o, p \in pool : o # p => Has(o) \cap Has(p) = {}
  /\ \A i, j \in Positions : i # j => Has(scratch[i]) \cap Has(scratch[j]) = {}
  /\ \A o \in pool, i \in Positions : Has(o) \cap Has(scratch[i]) = {}
  /\ \A o \in pool : Has(o) \cap CallHas = {}
  /\ \A i \in Positions : Has(scratch[i]) \cap CallHas = {}

Holdings == LiveIsHeld /\ HeldOnce /\ HeldApart

OwnershipInv == Typed /\ CallHolds /\ SlotsOf /\ Holdings

(***************************************************************************)
(* Sequences of pointers.                                                  *)
(***************************************************************************)

LEMMA LeastOf ==
  ASSUME NEW T \in SUBSET Nat, T # {}
  PROVE  \E x \in T : \A y \in T : x <= y
<1> DEFINE R == OpToRel(<, Nat)
<1>1. \E x \in T : \A y \in T : ~ (<<y, x>> \in R)
  BY NatLessThanWellFounded, WFMin, Zenon
<1>2. PICK x \in T : \A y \in T : ~ (<<y, x>> \in R)
  BY <1>1
<1>3. ASSUME NEW y \in T PROVE x <= y
  <2>1. ~ (<<y, x>> \in {p \in Nat \X Nat : p[1] < p[2]})
    BY <1>2, <1>3 DEF OpToRel
  <2> QED BY <2>1
<1> QED BY <1>3

LEMMA ConcatElements ==
  ASSUME NEW s \in Seq(Addressed), NEW t \in Seq(Addressed)
  PROVE  /\ s \o t \in Seq(Addressed)
         /\ Elements(s \o t) = Elements(s) \cup Elements(t)
<1>1. s \o t \in Seq(Addressed) /\ Len(s \o t) = Len(s) + Len(t)
  BY ConcatProperties
<1>2. \A i \in DOMAIN s : (s \o t)[i] = s[i] /\ i \in DOMAIN (s \o t)
  BY <1>1, ConcatProperties
<1>3. \A i \in DOMAIN t : (s \o t)[i + Len(s)] = t[i] /\ i + Len(s) \in DOMAIN (s \o t)
  BY <1>1, ConcatProperties
<1>4. ASSUME NEW i \in DOMAIN (s \o t)
      PROVE  (s \o t)[i] \in {s[j] : j \in DOMAIN s} \cup {t[j] : j \in DOMAIN t}
  <2>1. CASE i <= Len(s)
    BY <1>1, <1>2, <2>1
  <2>2. CASE i > Len(s)
    <3>1. i - Len(s) \in DOMAIN t /\ i = (i - Len(s)) + Len(s)
      BY <1>1, <2>2
    <3> QED BY <1>3, <3>1
  <2> QED BY <1>1, <2>1, <2>2
<1> HIDE <1>4
<1>5. \A x : x \in Elements(s \o t) <=> x \in Elements(s) \cup Elements(t)
  BY <1>2, <1>3, <1>4 DEF Elements
<1> QED BY <1>1, <1>5

LEMMA ConcatDistinct ==
  ASSUME NEW s \in Seq(Addressed), NEW t \in Seq(Addressed)
  PROVE  Distinct(s \o t) <=>
           Distinct(s) /\ Distinct(t) /\ Elements(s) \cap Elements(t) = {}
<1>1. s \o t \in Seq(Addressed) /\ Len(s \o t) = Len(s) + Len(t)
  BY ConcatProperties
<1>2. \A i \in DOMAIN s : (s \o t)[i] = s[i] /\ i \in DOMAIN (s \o t)
  BY <1>1, ConcatProperties
<1>3. \A i \in DOMAIN t : (s \o t)[i + Len(s)] = t[i] /\ i + Len(s) \in DOMAIN (s \o t)
  BY <1>1, ConcatProperties
<1>4. ASSUME Distinct(s \o t)
      PROVE  Distinct(s) /\ Distinct(t) /\ Elements(s) \cap Elements(t) = {}
  <2>1. Distinct(s)
    BY <1>2, <1>4 DEF Distinct
  <2>2. Distinct(t)
    <3> SUFFICES ASSUME NEW i \in DOMAIN t, NEW j \in DOMAIN t, i # j, t[i] # 0
                 PROVE  t[i] # t[j]
      BY DEF Distinct
    <3>1. i + Len(s) # j + Len(s)
      BY <1>1
    <3> QED BY <1>3, <1>4, <3>1 DEF Distinct
  <2>3. ASSUME NEW x \in Elements(s), x \in Elements(t) PROVE FALSE
    <3>1. PICK i \in DOMAIN s : x = s[i]
      BY DEF Elements
    <3>2. PICK j \in DOMAIN t : x = t[j]
      BY <2>3 DEF Elements
    <3>3. i # j + Len(s)
      BY <1>1
    <3> QED BY <1>2, <1>3, <1>4, <3>1, <3>2, <3>3 DEF Distinct, Elements
  <2> QED BY <2>1, <2>2, <2>3
<1>5. ASSUME Distinct(s), Distinct(t), Elements(s) \cap Elements(t) = {},
             NEW i \in DOMAIN (s \o t), NEW j \in DOMAIN (s \o t), i < j,
             (s \o t)[i] # 0, (s \o t)[i] = (s \o t)[j]
      PROVE  FALSE
  <2>1. CASE j <= Len(s)
    BY <1>1, <1>2, <1>5, <2>1 DEF Distinct
  <2>2. CASE i > Len(s)
    <3>1. /\ i - Len(s) \in DOMAIN t /\ i = (i - Len(s)) + Len(s)
          /\ j - Len(s) \in DOMAIN t /\ j = (j - Len(s)) + Len(s)
          /\ i - Len(s) # j - Len(s)
      BY <1>1, <1>5, <2>2
    <3> QED BY <1>3, <1>5, <3>1 DEF Distinct
  <2>3. CASE i <= Len(s) /\ j > Len(s)
    <3>1. /\ i \in DOMAIN s
          /\ j - Len(s) \in DOMAIN t /\ j = (j - Len(s)) + Len(s)
      BY <1>1, <2>3
    <3>2. (s \o t)[i] = s[i] /\ (s \o t)[j] = t[j - Len(s)]
      BY <1>2, <1>3, <3>1
    <3> QED BY <1>5, <3>1, <3>2 DEF Elements
  <2> QED BY <1>1, <1>5, <2>1, <2>2, <2>3
<1>6. ASSUME Distinct(s), Distinct(t), Elements(s) \cap Elements(t) = {}
      PROVE  Distinct(s \o t)
  <2> SUFFICES ASSUME NEW i \in DOMAIN (s \o t), NEW j \in DOMAIN (s \o t), i # j,
                      (s \o t)[i] # 0, (s \o t)[i] = (s \o t)[j]
               PROVE  FALSE
    BY DEF Distinct
  <2>1. i < j \/ j < i
    BY <1>1
  <2> QED BY <1>5, <1>6, <2>1
<1> QED BY <1>4, <1>6

LEMMA ConcatPointers ==
  ASSUME NEW p \in Seq(Payloads), NEW q \in Seq(Payloads)
  PROVE  /\ Pointers(p) \in Seq(Addressed)
         /\ p \o q \in Seq(Payloads)
         /\ Pointers(p \o q) = Pointers(p) \o Pointers(q)
<1>1. ASSUME NEW r \in Seq(Payloads)
      PROVE  Pointers(r) \in Seq(Addressed) /\ Len(Pointers(r)) = Len(r)
             /\ \A i \in 1 .. Len(r) : Pointers(r)[i] = r[i].storage
  <2>1. Len(r) \in Nat /\ DOMAIN r = 1 .. Len(r) /\ \A i \in 1 .. Len(r) : r[i] \in Payloads
    BY <1>1, LenProperties, ElementOfSeq
  <2>2. Pointers(r) = [i \in 1 .. Len(r) |-> r[i].storage]
    BY <2>1 DEF Pointers
  <2>3. Pointers(r) \in Seq(Addressed) /\ DOMAIN Pointers(r) = 1 .. Len(r)
    BY <2>1, <2>2, IsASeq DEF Payloads, Addressed
  <2> QED BY <2>1, <2>2, <2>3, LenProperties
<1>2. /\ p \o q \in Seq(Payloads) /\ Len(p \o q) = Len(p) + Len(q)
      /\ \A i \in 1 .. Len(p) + Len(q) :
           (p \o q)[i] = IF i <= Len(p) THEN p[i] ELSE q[i - Len(p)]
  BY ConcatProperties
<1>3. Pointers(p) \in Seq(Addressed) /\ Pointers(q) \in Seq(Addressed) /\ Pointers(p \o q) \in Seq(Addressed)
  BY <1>1, <1>2
<1>4. /\ Len(Pointers(p)) = Len(p) /\ Len(Pointers(q)) = Len(q)
      /\ Len(Pointers(p \o q)) = Len(p) + Len(q)
      /\ Len(p) \in Nat /\ Len(q) \in Nat
  BY <1>1, <1>2, LenProperties
<1>5. /\ Pointers(p) \o Pointers(q) \in Seq(Addressed)
      /\ Len(Pointers(p) \o Pointers(q)) = Len(p) + Len(q)
      /\ \A i \in 1 .. Len(p) + Len(q) : (Pointers(p) \o Pointers(q))[i] =
           IF i <= Len(p) THEN Pointers(p)[i] ELSE Pointers(q)[i - Len(p)]
  <2> DEFINE a == Pointers(p)
             b == Pointers(q)
  <2>1. a \in Seq(Addressed) /\ b \in Seq(Addressed) /\ Len(a) = Len(p) /\ Len(b) = Len(q)
    BY <1>3, <1>4
  <2> HIDE DEF a, b
  <2>2. /\ a \o b \in Seq(Addressed) /\ Len(a \o b) = Len(a) + Len(b)
        /\ \A i \in 1 .. Len(a) + Len(b) : (a \o b)[i] = IF i <= Len(a) THEN a[i] ELSE b[i - Len(a)]
    BY <2>1, ConcatProperties
  <2>3. /\ a \o b \in Seq(Addressed) /\ Len(a \o b) = Len(p) + Len(q)
        /\ \A i \in 1 .. Len(p) + Len(q) : (a \o b)[i] = IF i <= Len(p) THEN a[i] ELSE b[i - Len(p)]
    BY <2>1, <2>2
  <2> QED BY <2>3 DEF a, b
<1>6. ASSUME NEW i \in 1 .. Len(p) + Len(q)
      PROVE  Pointers(p \o q)[i] = (Pointers(p) \o Pointers(q))[i]
  <2>1. Pointers(p \o q)[i] = (p \o q)[i].storage
    BY <1>1, <1>2, <1>4
  <2>2. CASE i <= Len(p)
    <3>1. i \in 1 .. Len(p)
      BY <1>4, <2>2
    <3> QED BY <1>1, <1>2, <1>5, <2>1, <2>2, <3>1
  <2>3. CASE i > Len(p)
    <3>1. i - Len(p) \in 1 .. Len(q) /\ ~(i <= Len(p))
      BY <1>4, <2>3
    <3>2. Pointers(q)[i - Len(p)] = q[i - Len(p)].storage
      BY <1>1, <3>1
    <3> QED BY <1>2, <1>5, <2>1, <3>1, <3>2
  <2> QED BY <1>4, <2>2, <2>3
<1> QED BY <1>2, <1>3, <1>4, <1>5, <1>6, SeqEqual

(***************************************************************************)
(* What values and arenas own.                                             *)
(***************************************************************************)

LEMMA EmptyValuesAreTyped ==
  /\ NoPayload \in Payloads
  /\ NoTuple \in Arenas
  /\ NoDraft \in Drafts /\ NoDraft.tuple = NoTuple
  /\ Unclaimed \in ValueRecords /\ ~Unclaimed.claimed /\ Unclaimed.vector = NoPayload
     /\ Unclaimed.tuple = NoTuple /\ Unclaimed.container = "scalar"
  /\ Clean(Unclaimed)
  /\ Proper(NoOwner) /\ NoOwner.value = Unclaimed
<1>1. NoPayload \in Payloads
  BY DEF NoPayload, Payload, Payloads, Addressed
<1>2. <<>> \in Seq(NodeRecords) /\ <<>> \in Seq(Nat) /\ <<>> \in Seq(Payloads)
  BY EmptySeq
<1>3. NoTuple \in Arenas
  BY <1>1, <1>2 DEF NoTuple, Arenas
<1>4. NoDraft \in Drafts /\ NoDraft.tuple = NoTuple
  BY <1>2, <1>3 DEF NoDraft, Drafts
<1>5. /\ Unclaimed \in ValueRecords /\ ~Unclaimed.claimed /\ Unclaimed.vector = NoPayload
      /\ Unclaimed.tuple = NoTuple /\ Unclaimed.container = "scalar"
  BY <1>1, <1>3 DEF Unclaimed, ScalarValue, Value, ValueRecords, Containers, Blank
<1>6. Clean(Unclaimed)
  BY <1>5 DEF Clean
<1>7. Proper(NoOwner) /\ NoOwner.value = Unclaimed
  BY <1>5, <1>6 DEF Proper, NoOwner, Owner
<1> QED BY <1>1, <1>3, <1>4, <1>5, <1>6, <1>7

LEMMA OneElement ==
  ASSUME NEW s \in Addressed
  PROVE  /\ <<s>> \in Seq(Addressed)
         /\ Elements(<<s>>) = {s} \ {0}
         /\ Distinct(<<s>>)
<1>1. <<s>> \in Seq(Addressed) /\ DOMAIN <<s>> = {1} /\ <<s>>[1] = s
  OBVIOUS
<1> QED BY <1>1 DEF Elements, Distinct

LEMMA StoragesOfArena ==
  ASSUME NEW t \in Arenas
  PROVE  LET r == {t.root_reservation.storage} \ {0} IN
         /\ Storages(t) \in Seq(Addressed)
         /\ Elements(Storages(t)) = Kept(t) \cup r
         /\ Distinct(Storages(t)) <=> KeptOnce(t) /\ Kept(t) \cap r = {}
<1> DEFINE a == Pointers(t.vector_payloads)
           b == Pointers(t.reservations)
           c == t.root_reservation.storage
<1>1. a \in Seq(Addressed) /\ b \in Seq(Addressed) /\ c \in Addressed
  BY ConcatPointers DEF Arenas, Payloads
<1>2. <<c>> \in Seq(Addressed) /\ Elements(<<c>>) = {c} \ {0} /\ Distinct(<<c>>)
  BY <1>1, OneElement
<1>3. Storages(t) = (a \o b) \o <<c>>
  BY DEF Storages
<1> HIDE DEF a, b, c
<1>4. /\ a \o b \in Seq(Addressed)
      /\ Elements(a \o b) = Elements(a) \cup Elements(b)
      /\ Distinct(a \o b) <=> Distinct(a) /\ Distinct(b) /\ Elements(a) \cap Elements(b) = {}
  BY <1>1, ConcatElements, ConcatDistinct
<1>5. /\ (a \o b) \o <<c>> \in Seq(Addressed)
      /\ Elements((a \o b) \o <<c>>) = Elements(a \o b) \cup Elements(<<c>>)
      /\ Distinct((a \o b) \o <<c>>) <=>
           Distinct(a \o b) /\ Distinct(<<c>>) /\ Elements(a \o b) \cap Elements(<<c>>) = {}
  <2> DEFINE u == a \o b
             w == <<c>>
  <2>1. u \in Seq(Addressed) /\ w \in Seq(Addressed)
    BY <1>2, <1>4
  <2> HIDE DEF u, w
  <2>2. /\ u \o w \in Seq(Addressed)
        /\ Elements(u \o w) = Elements(u) \cup Elements(w)
        /\ Distinct(u \o w) <=> Distinct(u) /\ Distinct(w) /\ Elements(u) \cap Elements(w) = {}
    BY <2>1, ConcatElements, ConcatDistinct
  <2> QED BY <2>2 DEF u, w
<1> QED BY <1>2, <1>3, <1>4, <1>5 DEF a, b, c, Kept, KeptOnce

LEMMA NoTupleOwnsNothing ==
  /\ Kept(NoTuple) = {} /\ KeptOnce(NoTuple)
  /\ Elements(Storages(NoTuple)) = {} /\ Distinct(Storages(NoTuple))
<1>1. NoTuple.vector_payloads = <<>> /\ NoTuple.reservations = <<>>
      /\ NoTuple.root_reservation.storage = 0
  BY DEF NoTuple, NoPayload, Payload
<1>2. DOMAIN Pointers(<<>>) = {}
  BY DEF Pointers
<1>3. Elements(Pointers(<<>>)) = {} /\ Distinct(Pointers(<<>>))
  BY <1>2 DEF Elements, Distinct
<1>4. Kept(NoTuple) = {} /\ KeptOnce(NoTuple)
  BY <1>1, <1>3 DEF Kept, KeptOnce
<1> QED BY <1>1, <1>4, StoragesOfArena, EmptyValuesAreTyped

LEMMA StoragesOfValue ==
  ASSUME NEW v \in ValueRecords, Clean(v)
  PROVE  /\ OwnedBy(v) \in Seq(Addressed)
         /\ Elements(OwnedBy(v)) = ({v.vector.storage} \ {0}) \cup Elements(Storages(v.tuple))
         /\ Distinct(OwnedBy(v)) <=> Distinct(Storages(v.tuple))
                                       /\ v.vector.storage \notin Elements(Storages(v.tuple))

<1> DEFINE c == v.vector.storage
           s == Storages(v.tuple)
<1>1. c \in Addressed /\ s \in Seq(Addressed)
  BY StoragesOfArena DEF ValueRecords, Payloads
<1>2. CASE v.claimed
  <2>1. <<c>> \in Seq(Addressed) /\ Elements(<<c>>) = {c} \ {0} /\ Distinct(<<c>>)
    BY <1>1, OneElement
  <2>2. OwnedBy(v) = <<c>> \o s
    BY <1>2 DEF OwnedBy
  <2>3. 0 \notin Elements(s)
    BY DEF Elements
  <2> HIDE DEF c, s
  <2>4. /\ <<c>> \o s \in Seq(Addressed)
        /\ Elements(<<c>> \o s) = ({c} \ {0}) \cup Elements(s)
        /\ Distinct(<<c>> \o s) <=> Distinct(s) /\ ({c} \ {0}) \cap Elements(s) = {}
    BY <1>1, <2>1, ConcatElements, ConcatDistinct
  <2> QED BY <2>2, <2>3, <2>4 DEF c, s
<1>3. CASE ~v.claimed
  <2>1. OwnedBy(v) = <<>> /\ v.vector = NoPayload /\ v.tuple = NoTuple
    BY <1>3, EmptyValuesAreTyped DEF OwnedBy, Clean
  <2>2. Elements(<<>>) = {} /\ Distinct(<<>>) /\ <<>> \in Seq(Addressed)
    BY DEF Elements, Distinct
  <2>3. Elements(Storages(NoTuple)) = {} /\ Distinct(Storages(NoTuple))
    BY NoTupleOwnsNothing
  <2> QED BY <2>1, <2>2, <2>3 DEF NoPayload, Payload
<1> QED BY <1>2, <1>3

LEMMA MorePayloads ==
  ASSUME NEW p \in Seq(Payloads), NEW q \in Seq(Payloads)
  PROVE  /\ p \o q \in Seq(Payloads)
         /\ Elements(Pointers(p \o q)) = Elements(Pointers(p)) \cup Elements(Pointers(q))
         /\ Distinct(Pointers(p \o q)) <=>
              /\ Distinct(Pointers(p)) /\ Distinct(Pointers(q))
              /\ Elements(Pointers(p)) \cap Elements(Pointers(q)) = {}
<1> DEFINE a == Pointers(p)
           b == Pointers(q)
<1>1. a \in Seq(Addressed) /\ b \in Seq(Addressed) /\ Pointers(p \o q) = a \o b /\ p \o q \in Seq(Payloads)
  BY ConcatPointers
<1> HIDE DEF a, b
<1>2. /\ Elements(a \o b) = Elements(a) \cup Elements(b)
      /\ Distinct(a \o b) <=> Distinct(a) /\ Distinct(b) /\ Elements(a) \cap Elements(b) = {}
  BY <1>1, ConcatElements, ConcatDistinct
<1> QED BY <1>1, <1>2 DEF a, b

LEMMA OnePayload ==
  ASSUME NEW r \in Payloads
  PROVE  /\ <<r>> \in Seq(Payloads)
         /\ Elements(Pointers(<<r>>)) = {r.storage} \ {0}
         /\ Distinct(Pointers(<<r>>))
<1>1. <<r>> \in Seq(Payloads) /\ Pointers(<<r>>) = <<r.storage>> /\ r.storage \in Addressed
  BY DEF Pointers, Payloads
<1> QED BY <1>1, OneElement

LEMMA DraftOf ==
  ASSUME NEW t \in Arenas, NEW r \in Seq(Nat)
  PROVE  LET d == [tuple |-> t, roots |-> r] IN d \in Drafts /\ d.tuple = t /\ d.roots = r
BY DEF Drafts

\* What an element adds to the arena it is moved into.
LEMMA LeafMoves ==
  ASSUME NEW d \in Drafts, NEW v \in ValueRecords, Clean(v), v.container # "tuple",
         NEW idle \in Nat
  PROVE  LET e == MoveLeaf(d, v, idle) IN
         /\ e \in Drafts /\ e.tuple.root_reservation = d.tuple.root_reservation
         /\ Kept(e.tuple) = Kept(d.tuple) \cup Elements(OwnedBy(v))
         /\ KeptOnce(d.tuple) /\ Kept(d.tuple) \cap Elements(OwnedBy(v)) = {} => KeptOnce(e.tuple)
<1> DEFINE t == d.tuple
           e == MoveLeaf(d, v, idle)
           place == IF v.container = "vector" THEN Len(t.vector_payloads) ELSE idle
           node == Node(v.container, v.scalar, 0, 0, 0, place)
           p == t.vector_payloads
<1>1. /\ t \in Arenas /\ d.roots \in Seq(Nat)
      /\ t.nodes \in Seq(NodeRecords) /\ p \in Seq(Payloads) /\ t.reservations \in Seq(Payloads)
  BY DEF Drafts, Arenas
<1>2. Len(t.nodes) \in Nat /\ Len(p) \in Nat
  BY <1>1, LenProperties
<1>3. node \in NodeRecords
  BY <1>2 DEF node, Node, NodeRecords, ValueRecords
<1>4. Append(t.nodes, node) \in Seq(NodeRecords) /\ Append(d.roots, Len(t.nodes)) \in Seq(Nat)
  BY <1>1, <1>2, <1>3, AppendProperties
<1>5. v.vector \in Payloads
  BY DEF ValueRecords
<1>6. Elements(OwnedBy(v)) = {v.vector.storage} \ {0}
  <2>1. v.tuple = NoTuple
    BY DEF Clean
  <2> QED BY <2>1, StoragesOfValue, NoTupleOwnsNothing
<1>7. CASE v.container = "vector"
  <2>1. Append(p, v.vector) = p \o <<v.vector>> /\ Append(p, v.vector) \in Seq(Payloads)
    BY <1>1, <1>5, AppendIsConcat, AppendProperties
  <2>2. e = [tuple |-> [t EXCEPT !.nodes = Append(t.nodes, node),
                                 !.vector_payloads = p \o <<v.vector>>],
             roots |-> Append(d.roots, Len(t.nodes))]
    BY <1>7, <2>1 DEF MoveLeaf
  <2> HIDE DEF node, p, t, e
  <2>3. /\ e \in Drafts /\ e.tuple.root_reservation = t.root_reservation
        /\ e.tuple.vector_payloads = p \o <<v.vector>> /\ e.tuple.reservations = t.reservations
    <3> DEFINE nodes == Append(t.nodes, node)
               payloads == p \o <<v.vector>>
               w == [t EXCEPT !.nodes = nodes, !.vector_payloads = payloads]
               roots == Append(d.roots, Len(t.nodes))
    <3>1. nodes \in Seq(NodeRecords) /\ payloads \in Seq(Payloads) /\ roots \in Seq(Nat)
          /\ e = [tuple |-> w, roots |-> roots]
      BY <1>4, <2>1, <2>2
    <3> HIDE DEF nodes, payloads, roots
    <3>2. /\ w \in Arenas /\ w.root_reservation = t.root_reservation
          /\ w.vector_payloads = payloads /\ w.reservations = t.reservations
      BY <1>1, <3>1 DEF Arenas
    <3> HIDE DEF w
    <3>3. e \in Drafts /\ e.tuple = w
      BY <3>1, <3>2, DraftOf
    <3> QED BY <3>2, <3>3 DEF payloads
  <2>4. /\ Elements(Pointers(p \o <<v.vector>>)) = Elements(Pointers(p)) \cup ({v.vector.storage} \ {0})
        /\ Distinct(Pointers(p \o <<v.vector>>)) <=>
             Distinct(Pointers(p)) /\ Elements(Pointers(p)) \cap ({v.vector.storage} \ {0}) = {}
    <3> DEFINE q == <<v.vector>>
    <3>1. /\ q \in Seq(Payloads) /\ Elements(Pointers(q)) = {v.vector.storage} \ {0}
          /\ Distinct(Pointers(q))
      BY <1>5, OnePayload
    <3> HIDE DEF q
    <3>2. /\ Elements(Pointers(p \o q)) = Elements(Pointers(p)) \cup Elements(Pointers(q))
          /\ Distinct(Pointers(p \o q)) <=>
               /\ Distinct(Pointers(p)) /\ Distinct(Pointers(q))
               /\ Elements(Pointers(p)) \cap Elements(Pointers(q)) = {}
      BY <1>1, <3>1, MorePayloads
    <3>3. /\ Elements(Pointers(p \o q)) = Elements(Pointers(p)) \cup ({v.vector.storage} \ {0})
          /\ Distinct(Pointers(p \o q)) <=>
               Distinct(Pointers(p)) /\ Elements(Pointers(p)) \cap ({v.vector.storage} \ {0}) = {}
      BY <3>1, <3>2
    <3> QED BY <3>3 DEF q
  <2> QED BY <1>6, <2>3, <2>4 DEF Kept, KeptOnce, p, t, e
<1>8. CASE v.container # "vector"
  <2>1. e = [tuple |-> [t EXCEPT !.nodes = Append(t.nodes, node), !.vector_payloads = p],
             roots |-> Append(d.roots, Len(t.nodes))]
    BY <1>8 DEF MoveLeaf
  <2> HIDE DEF node, p, t, e
  <2>2. /\ e \in Drafts /\ e.tuple.root_reservation = t.root_reservation
        /\ e.tuple.vector_payloads = p /\ e.tuple.reservations = t.reservations
    <3> DEFINE nodes == Append(t.nodes, node)
               w == [t EXCEPT !.nodes = nodes, !.vector_payloads = p]
               roots == Append(d.roots, Len(t.nodes))
    <3>1. nodes \in Seq(NodeRecords) /\ roots \in Seq(Nat) /\ e = [tuple |-> w, roots |-> roots]
      BY <1>4, <2>1
    <3> HIDE DEF nodes, roots
    <3>2. /\ w \in Arenas /\ w.root_reservation = t.root_reservation
          /\ w.vector_payloads = p /\ w.reservations = t.reservations
      BY <1>1, <3>1 DEF Arenas
    <3> HIDE DEF w
    <3>3. e \in Drafts /\ e.tuple = w
      BY <3>1, <3>2, DraftOf
    <3> QED BY <3>2, <3>3
  <2>3. Elements(OwnedBy(v)) = {}
    BY <1>6, <1>8 DEF Clean, NoPayload, Payload
  <2> QED BY <2>2, <2>3 DEF Kept, KeptOnce, p, t, e
<1> QED BY <1>7, <1>8

LEMMA MovedIsTyped ==
  ASSUME NEW n \in NodeRecords, NEW e \in Nat, NEW r \in Nat, NEW p \in Nat
  PROVE  Moved(n, e, r, p) \in NodeRecords
<1> USE DEF NodeRecords
<1>1. CASE n.container = "tuple"
  <2>1. n.first_child + e \in Nat /\ n.tuple_reservation_index + r \in Nat
    OBVIOUS
  <2>2. \A x, y \in Nat : [n EXCEPT !.first_child = x, !.tuple_reservation_index = y] \in NodeRecords
    OBVIOUS
  <2>3. Moved(n, e, r, p) = [n EXCEPT !.first_child = n.first_child + e,
                                      !.tuple_reservation_index = n.tuple_reservation_index + r]
    BY <1>1 DEF Moved
  <2> QED BY <2>1, <2>2, <2>3
<1>2. CASE n.container = "vector"
  <2>1. n.vector_payload_index + p \in Nat
    OBVIOUS
  <2>2. \A x \in Nat : [n EXCEPT !.vector_payload_index = x] \in NodeRecords
    OBVIOUS
  <2>3. Moved(n, e, r, p) = [n EXCEPT !.vector_payload_index = n.vector_payload_index + p]
    BY <1>2 DEF Moved
  <2> QED BY <2>1, <2>2, <2>3
<1>3. CASE n.container \notin {"tuple", "vector"}
  BY <1>3 DEF Moved
<1> QED BY <1>1, <1>2, <1>3

LEMMA MovedNodesAreTyped ==
  ASSUME NEW s \in Seq(NodeRecords), NEW e \in Nat, NEW r \in Nat, NEW p \in Nat
  PROVE  [k \in DOMAIN s |-> Moved(s[k], e, r, p)] \in Seq(NodeRecords)
<1>1. Len(s) \in Nat /\ DOMAIN s = 1 .. Len(s) /\ \A k \in 1 .. Len(s) : s[k] \in NodeRecords
  BY LenProperties, ElementOfSeq
<1>2. \A k \in 1 .. Len(s) : Moved(s[k], e, r, p) \in NodeRecords
  BY <1>1, MovedIsTyped
<1> QED BY <1>1, <1>2, IsASeq

LEMMA ShiftedIsTyped ==
  ASSUME NEW s \in Seq(Nat), NEW n \in Nat
  PROVE  [k \in DOMAIN s |-> s[k] + n] \in Seq(Nat)
<1>1. Len(s) \in Nat /\ DOMAIN s = 1 .. Len(s) /\ \A k \in 1 .. Len(s) : s[k] \in Nat
  BY LenProperties, ElementOfSeq
<1>2. \A k \in 1 .. Len(s) : s[k] + n \in Nat
  BY <1>1
<1> QED BY <1>1, <1>2, IsASeq

LEMMA TupleMoves ==
  ASSUME NEW d \in Drafts, NEW v \in ValueRecords, Clean(v), v.container = "tuple"
  PROVE  LET e == MoveTuple(d, v) IN
         /\ e \in Drafts /\ e.tuple.root_reservation = d.tuple.root_reservation
         /\ Kept(e.tuple) = Kept(d.tuple) \cup Elements(OwnedBy(v))
         /\ KeptOnce(d.tuple) /\ Distinct(OwnedBy(v)) /\ Kept(d.tuple) \cap Elements(OwnedBy(v)) = {}
              => KeptOnce(e.tuple)
<1> DEFINE t == d.tuple
           u == v.tuple
           e == MoveTuple(d, v)
           nodes == Len(t.nodes)
           more == Len(u.nodes)
           edges == Len(t.child_indexes)
           tables == Len(t.reservations)
           last == Len(u.reservations)
           payloads == Len(t.vector_payloads)
           inner == [k \in DOMAIN u.nodes |-> Moved(u.nodes[k], edges, tables, payloads)]
           root == Node("tuple", Blank, u.first_child + edges, u.child_count, tables + last, 0)
           shifted == [k \in DOMAIN u.child_indexes |-> u.child_indexes[k] + nodes]
<1>1. /\ t \in Arenas /\ d.roots \in Seq(Nat) /\ u \in Arenas
  BY DEF Drafts, ValueRecords
<1>2. /\ t.nodes \in Seq(NodeRecords) /\ t.vector_payloads \in Seq(Payloads)
      /\ t.reservations \in Seq(Payloads) /\ t.child_indexes \in Seq(Nat)
      /\ u.nodes \in Seq(NodeRecords) /\ u.vector_payloads \in Seq(Payloads)
      /\ u.reservations \in Seq(Payloads) /\ u.child_indexes \in Seq(Nat)
      /\ u.root_reservation \in Payloads /\ u.first_child \in Nat /\ u.child_count \in Nat
  BY <1>1 DEF Arenas
<1>3. {nodes, more, edges, tables, last, payloads} \subseteq Nat
  BY <1>2, LenProperties
<1>9. e = [tuple |-> [t EXCEPT
                        !.nodes = t.nodes \o Append(inner, root),
                        !.child_indexes = t.child_indexes \o shifted,
                        !.vector_payloads = t.vector_payloads \o u.vector_payloads,
                        !.reservations = t.reservations \o TablesOf(u)],
           roots |-> Append(d.roots, nodes + more)]
  BY DEF MoveTuple
<1> HIDE DEF nodes, more, edges, tables, last, payloads
<1>4. inner \in Seq(NodeRecords)
  BY <1>2, <1>3, MovedNodesAreTyped
<1>5. root \in NodeRecords
  <2>1. u.first_child + edges \in Nat /\ tables + last \in Nat
    <3> DEFINE first == u.first_child
    <3>1. first \in Nat
      BY <1>2
    <3> HIDE DEF t, u, first
    <3>2. first + edges \in Nat /\ tables + last \in Nat
      BY <1>3, <3>1
    <3> QED BY <3>2 DEF first
  <2> QED BY <1>2, <2>1 DEF Node, NodeRecords, Containers, Blank
<1>6. shifted \in Seq(Nat)
  BY <1>2, <1>3, ShiftedIsTyped
<1> HIDE DEF inner, root, shifted, e, t, u
<1>7. /\ t.nodes \o Append(inner, root) \in Seq(NodeRecords)
      /\ t.child_indexes \o shifted \in Seq(Nat)
      /\ Append(d.roots, nodes + more) \in Seq(Nat)
  <2>1. Append(inner, root) \in Seq(NodeRecords)
    BY <1>4, <1>5, AppendProperties
  <2>2. t.nodes \o Append(inner, root) \in Seq(NodeRecords)
    BY <1>2, <2>1, ConcatProperties
  <2>3. t.child_indexes \o shifted \in Seq(Nat)
    BY <1>2, <1>6, ConcatProperties
  <2>4. nodes + more \in Nat
    BY <1>3
  <2> QED BY <1>1, <2>2, <2>3, <2>4, AppendProperties
<1>8. /\ TablesOf(u) = u.reservations \o <<u.root_reservation>>
      /\ TablesOf(u) \in Seq(Payloads)
      /\ t.reservations \o TablesOf(u) \in Seq(Payloads)
      /\ t.vector_payloads \o u.vector_payloads \in Seq(Payloads)
  <2>1. \A r \in Seq(Payloads), p \in Payloads :
          Append(r, p) = r \o <<p>> /\ Append(r, p) \in Seq(Payloads)
    BY AppendIsConcat, AppendProperties
  <2>2. TablesOf(u) = u.reservations \o <<u.root_reservation>> /\ TablesOf(u) \in Seq(Payloads)
    BY <1>2, <2>1 DEF TablesOf
  <2> QED BY <1>2, <2>2, ConcatProperties
<1>10. /\ e \in Drafts /\ e.tuple.root_reservation = t.root_reservation
       /\ e.tuple.vector_payloads = t.vector_payloads \o u.vector_payloads
       /\ e.tuple.reservations = t.reservations \o TablesOf(u)
  <2> DEFINE n == t.nodes \o Append(inner, root)
             c == t.child_indexes \o shifted
             p == t.vector_payloads \o u.vector_payloads
             r == t.reservations \o TablesOf(u)
             w == [t EXCEPT !.nodes = n, !.child_indexes = c, !.vector_payloads = p,
                            !.reservations = r]
             roots == Append(d.roots, nodes + more)
  <2>1. /\ n \in Seq(NodeRecords) /\ c \in Seq(Nat) /\ p \in Seq(Payloads) /\ r \in Seq(Payloads)
        /\ roots \in Seq(Nat) /\ e = [tuple |-> w, roots |-> roots]
    BY <1>7, <1>8, <1>9
  <2> HIDE DEF n, c, p, r, roots
  <2>2. /\ w \in Arenas /\ w.root_reservation = t.root_reservation
        /\ w.vector_payloads = p /\ w.reservations = r
    BY <1>1, <2>1 DEF Arenas
  <2> HIDE DEF w
  <2>3. e \in Drafts /\ e.tuple = w
    BY <2>1, <2>2, DraftOf
  <2> QED BY <2>2, <2>3 DEF p, r
<1>11. /\ Elements(OwnedBy(v)) = Kept(u) \cup ({u.root_reservation.storage} \ {0})
       /\ Distinct(OwnedBy(v)) =>
            KeptOnce(u) /\ Kept(u) \cap ({u.root_reservation.storage} \ {0}) = {}
  <2>1. v.vector.storage = 0
    BY DEF Clean, NoPayload, Payload
  <2> QED BY <1>1, <2>1, StoragesOfValue, StoragesOfArena DEF u
<1>12. /\ Elements(Pointers(TablesOf(u))) =
            Elements(Pointers(u.reservations)) \cup ({u.root_reservation.storage} \ {0})
       /\ Distinct(Pointers(TablesOf(u))) <=>
            /\ Distinct(Pointers(u.reservations))
            /\ Elements(Pointers(u.reservations)) \cap ({u.root_reservation.storage} \ {0}) = {}
  <2> DEFINE q == <<u.root_reservation>>
  <2>1. /\ q \in Seq(Payloads) /\ Elements(Pointers(q)) = {u.root_reservation.storage} \ {0}
        /\ Distinct(Pointers(q)) /\ TablesOf(u) = u.reservations \o q
    BY <1>2, <1>8, OnePayload
  <2> HIDE DEF q
  <2> QED BY <1>2, <2>1, MorePayloads
<1>13. /\ Elements(Pointers(e.tuple.vector_payloads)) =
            Elements(Pointers(t.vector_payloads)) \cup Elements(Pointers(u.vector_payloads))
       /\ Distinct(Pointers(e.tuple.vector_payloads)) <=>
            /\ Distinct(Pointers(t.vector_payloads)) /\ Distinct(Pointers(u.vector_payloads))
            /\ Elements(Pointers(t.vector_payloads)) \cap Elements(Pointers(u.vector_payloads)) = {}
  BY <1>2, <1>10, MorePayloads
<1>14. /\ Elements(Pointers(e.tuple.reservations)) =
            Elements(Pointers(t.reservations)) \cup Elements(Pointers(TablesOf(u)))
       /\ Distinct(Pointers(e.tuple.reservations)) <=>
            /\ Distinct(Pointers(t.reservations)) /\ Distinct(Pointers(TablesOf(u)))
            /\ Elements(Pointers(t.reservations)) \cap Elements(Pointers(TablesOf(u))) = {}
  <2> DEFINE r == t.reservations
             q == TablesOf(u)
  <2>1. r \in Seq(Payloads) /\ q \in Seq(Payloads) /\ e.tuple.reservations = r \o q
    BY <1>2, <1>8, <1>10
  <2> HIDE DEF r, q
  <2>2. /\ Elements(Pointers(r \o q)) = Elements(Pointers(r)) \cup Elements(Pointers(q))
        /\ Distinct(Pointers(r \o q)) <=>
             /\ Distinct(Pointers(r)) /\ Distinct(Pointers(q))
             /\ Elements(Pointers(r)) \cap Elements(Pointers(q)) = {}
    BY <2>1, MorePayloads
  <2> QED BY <2>1, <2>2 DEF r, q
<1>15. Kept(e.tuple) = Kept(t) \cup Elements(OwnedBy(v))
  BY <1>11, <1>12, <1>13, <1>14 DEF Kept
<1>16. ASSUME KeptOnce(t), Distinct(OwnedBy(v)), Kept(t) \cap Elements(OwnedBy(v)) = {}
       PROVE  KeptOnce(e.tuple)
  BY <1>11, <1>12, <1>13, <1>14, <1>16 DEF Kept, KeptOnce
<1>17. t = d.tuple /\ e = MoveTuple(d, v)
  BY DEF e, t
<1> QED BY <1>10, <1>15, <1>16, <1>17

LEMMA ElementMoves ==
  ASSUME NEW d \in Drafts, NEW v \in ValueRecords, Clean(v), NEW idle \in Nat
  PROVE  LET e == MoveElement(d, v, idle) IN
         /\ e \in Drafts /\ e.tuple.root_reservation = d.tuple.root_reservation
         /\ Kept(e.tuple) = Kept(d.tuple) \cup Elements(OwnedBy(v))
         /\ KeptOnce(d.tuple) /\ Distinct(OwnedBy(v)) /\ Kept(d.tuple) \cap Elements(OwnedBy(v)) = {}
              => KeptOnce(e.tuple)
<1>1. CASE v.container = "tuple"
  <2>1. MoveElement(d, v, idle) = MoveTuple(d, v)
    BY <1>1 DEF MoveElement
  <2> QED BY <1>1, <2>1, TupleMoves
<1>2. CASE v.container # "tuple"
  <2>1. MoveElement(d, v, idle) = MoveLeaf(d, v, idle)
    BY <1>2 DEF MoveElement
  <2> DEFINE e == MoveLeaf(d, v, idle)
  <2>2. /\ e \in Drafts /\ e.tuple.root_reservation = d.tuple.root_reservation
        /\ Kept(e.tuple) = Kept(d.tuple) \cup Elements(OwnedBy(v))
        /\ KeptOnce(d.tuple) /\ Kept(d.tuple) \cap Elements(OwnedBy(v)) = {} => KeptOnce(e.tuple)
    BY <1>2, LeafMoves
  <2>3. MoveElement(d, v, idle) = e
    BY <2>1
  <2> HIDE DEF e
  <2> QED BY <2>2, <2>3
<1> QED BY <1>1, <1>2

(***************************************************************************)
(* A tuple that is delivered.                                              *)
(***************************************************************************)

LEMMA ClosedArena ==
  ASSUME NEW d \in Drafts, NEW r \in Payloads
  PROVE  LET t == CloseTuple(d, r) IN
         /\ t \in Arenas /\ t.root_reservation = r
         /\ t.nodes = d.tuple.nodes /\ t.child_indexes = d.tuple.child_indexes \o d.roots
         /\ t.vector_payloads = d.tuple.vector_payloads
         /\ t.reservations = d.tuple.reservations
<1> DEFINE u == d.tuple
           first == Len(u.child_indexes)
           edges == u.child_indexes \o d.roots
           count == Len(d.roots)
           root == Len(u.nodes)
           t == CloseTuple(d, r)
<1>1. u \in Arenas /\ d.roots \in Seq(Nat) /\ u.child_indexes \in Seq(Nat) /\ u.nodes \in Seq(NodeRecords)
  BY DEF Drafts, Arenas
<1>2. first \in Nat /\ edges \in Seq(Nat) /\ count \in Nat /\ root \in Nat
  BY <1>1, LenProperties, ConcatProperties
<1>3. t = [u EXCEPT !.first_child = first, !.child_indexes = edges, !.child_count = count,
                    !.root_index = root, !.root_reservation = r]
  BY DEF CloseTuple
<1>4. edges = d.tuple.child_indexes \o d.roots
  OBVIOUS
<1> HIDE DEF first, edges, count, root, t
<1>5. /\ t \in Arenas /\ t.root_reservation = r /\ t.child_indexes = edges
      /\ t.nodes = u.nodes /\ t.vector_payloads = u.vector_payloads /\ t.reservations = u.reservations
  BY <1>1, <1>2, <1>3 DEF Arenas
<1>6. t = CloseTuple(d, r)
  BY DEF t
<1> QED BY <1>4, <1>5, <1>6

LEMMA FillerOwnsNothing ==
  ASSUME NEW n \in Nat, NEW used \in Nat
  PROVE  /\ Filler(n, used, NoPayload) \in Seq(Payloads)
         /\ Elements(Pointers(Filler(n, used, NoPayload))) = {}
         /\ Distinct(Pointers(Filler(n, used, NoPayload)))
<1> DEFINE f == Filler(n, used, NoPayload)
<1>1. f = [i \in 1 .. n - used |-> NoPayload]
  BY DEF Filler
<1>2. f \in Seq(Payloads)
  <2>1. CASE used <= n
    <3>1. n - used \in Nat
      BY <2>1
    <3> QED BY <1>1, <3>1, IsASeq, EmptyValuesAreTyped
  <2>2. CASE used > n
    <3>1. f = [i \in 1 .. 0 |-> NoPayload]
      BY <1>1, <2>2
    <3> QED BY <3>1, IsASeq, EmptyValuesAreTyped
  <2> QED BY <2>1, <2>2
<1>3. \A i \in DOMAIN f : f[i].storage = 0
  BY <1>1 DEF NoPayload, Payload
<1> HIDE DEF f
<1>4. \A i \in DOMAIN Pointers(f) : Pointers(f)[i] = 0
  BY <1>3 DEF Pointers
<1>5. f \in Seq(Payloads) /\ Elements(Pointers(f)) = {} /\ Distinct(Pointers(f))
  BY <1>2, <1>4 DEF Elements, Distinct
<1> QED BY <1>5 DEF f

LEMMA FillerIsTyped ==
  ASSUME NEW n \in Nat, NEW used \in Nat, NEW S, NEW blank \in S
  PROVE  Filler(n, used, blank) \in Seq(S)
<1>1. Filler(n, used, blank) = [i \in 1 .. n - used |-> blank]
  BY DEF Filler
<1>2. CASE used <= n
  <2>1. n - used \in Nat
    BY <1>2
  <2> QED BY <1>1, <2>1, IsASeq
<1>3. CASE used > n
  <2>1. Filler(n, used, blank) = [i \in 1 .. 0 |-> blank]
    BY <1>1, <1>3
  <2> QED BY <2>1, IsASeq
<1> QED BY <1>2, <1>3

LEMMA PublishedArena ==
  ASSUME draft \in Drafts, capacity \in CountRecords, NEW t \in Arenas
  PROVE  LET u == Published(t)
             p == draft.tuple.vector_payloads
             r == draft.tuple.reservations
         IN  /\ u \in Arenas /\ u.root_reservation = t.root_reservation
             /\ u.vector_payloads = p \o Filler(capacity.payloads, Len(p), NoPayload)
             /\ u.reservations = r \o Filler(capacity.tables, Len(r), NoPayload)
<1> DEFINE d == draft.tuple
           n == d.nodes \o Filler(capacity.nodes, Len(d.nodes), Node("scalar", Blank, 0, 0, 0, 0))
           c == d.child_indexes \o Filler(capacity.edges, Len(d.child_indexes), 0) \o draft.roots
           p == d.vector_payloads \o Filler(capacity.payloads, Len(d.vector_payloads), NoPayload)
           r == d.reservations \o Filler(capacity.tables, Len(d.reservations), NoPayload)
           first == capacity.edges
           root == capacity.nodes
           u == Published(t)
<1>1. /\ d.nodes \in Seq(NodeRecords) /\ d.child_indexes \in Seq(Nat) /\ draft.roots \in Seq(Nat)
      /\ d.vector_payloads \in Seq(Payloads) /\ d.reservations \in Seq(Payloads)
      /\ first \in Nat /\ root \in Nat /\ capacity.payloads \in Nat /\ capacity.tables \in Nat
  BY DEF Drafts, Arenas, CountRecords
<1>2. /\ Len(d.nodes) \in Nat /\ Len(d.child_indexes) \in Nat
      /\ Len(d.vector_payloads) \in Nat /\ Len(d.reservations) \in Nat
  BY <1>1, LenProperties
<1>3. n \in Seq(NodeRecords)
  <2>1. Node("scalar", Blank, 0, 0, 0, 0) \in NodeRecords
    BY DEF Node, NodeRecords, Containers, Blank
  <2>2. Filler(capacity.nodes, Len(d.nodes), Node("scalar", Blank, 0, 0, 0, 0)) \in Seq(NodeRecords)
    BY <1>1, <1>2, <2>1, FillerIsTyped
  <2> QED BY <1>1, <2>2, ConcatProperties
<1>4. c \in Seq(Nat)
  <2>1. Filler(capacity.edges, Len(d.child_indexes), 0) \in Seq(Nat)
    BY <1>1, <1>2, FillerIsTyped
  <2> QED BY <1>1, <2>1, ConcatProperties
<1>5. p \in Seq(Payloads) /\ r \in Seq(Payloads)
  BY <1>1, <1>2, FillerOwnsNothing, ConcatProperties
<1>6. u = [t EXCEPT !.nodes = n, !.child_indexes = c, !.vector_payloads = p, !.reservations = r,
                    !.first_child = first, !.root_index = root]
  BY DEF Published
<1> HIDE DEF n, c, p, r, first, root, u
<1>7. /\ u \in Arenas /\ u.root_reservation = t.root_reservation
      /\ u.vector_payloads = p /\ u.reservations = r
  BY <1>1, <1>3, <1>4, <1>5, <1>6 DEF Arenas
<1> QED BY <1>7 DEF p, r, u

LEMMA TupleValueOwns ==
  ASSUME NEW t \in Arenas
  PROVE  LET v == TupleValue(t) IN
         /\ v \in ValueRecords /\ Clean(v) /\ v.claimed
         /\ Elements(OwnedBy(v)) = Kept(t) \cup ({t.root_reservation.storage} \ {0})
         /\ Distinct(OwnedBy(v)) <=> KeptOnce(t) /\ t.root_reservation.storage \notin Kept(t)
<1> DEFINE v == TupleValue(t)
<1>1. /\ v \in ValueRecords /\ v.claimed /\ v.tuple = t /\ v.vector = NoPayload
      /\ v.container = "tuple"
  BY EmptyValuesAreTyped DEF TupleValue, Value, ValueRecords, Containers, Blank
<1> HIDE DEF v
<1>2. Clean(v)
  BY <1>1 DEF Clean
<1>3. v.vector.storage = 0
  BY <1>1 DEF NoPayload, Payload
<1>4. /\ Elements(OwnedBy(v)) = Elements(Storages(t))
      /\ Distinct(OwnedBy(v)) <=> Distinct(Storages(t))
  <2>1. 0 \notin Elements(Storages(t))
    BY DEF Elements
  <2> QED BY <1>1, <1>2, <1>3, <2>1, StoragesOfValue
<1>5. 0 \notin Kept(t)
  BY DEF Kept, Elements
<1>6. /\ Elements(Storages(t)) = Kept(t) \cup ({t.root_reservation.storage} \ {0})
      /\ Distinct(Storages(t)) <=> KeptOnce(t) /\ Kept(t) \cap ({t.root_reservation.storage} \ {0}) = {}
  BY StoragesOfArena
<1>7. v \in ValueRecords /\ Clean(v) /\ v.claimed
      /\ Elements(OwnedBy(v)) = Kept(t) \cup ({t.root_reservation.storage} \ {0})
      /\ (Distinct(OwnedBy(v)) <=> KeptOnce(t) /\ t.root_reservation.storage \notin Kept(t))
  BY <1>1, <1>2, <1>4, <1>5, <1>6
<1> QED BY <1>7 DEF v

LEMMA CallOwns ==
  ASSUME draft \in Drafts, draft.tuple.root_reservation = NoPayload, table \in Payloads
  PROVE  LET s == Storages(draft.tuple) \o <<table.storage>> IN
         /\ Elements(s) = Kept(draft.tuple) \cup ({table.storage} \ {0})
         /\ Distinct(s) <=> KeptOnce(draft.tuple) /\ table.storage \notin Kept(draft.tuple)
<1> DEFINE a == Storages(draft.tuple)
           b == <<table.storage>>
<1>1. draft.tuple \in Arenas /\ table.storage \in Addressed
  BY DEF Drafts, Payloads
<1>2. draft.tuple.root_reservation.storage = 0
  BY DEF NoPayload, Payload
<1>3. /\ a \in Seq(Addressed) /\ Elements(a) = Kept(draft.tuple)
      /\ Distinct(a) <=> KeptOnce(draft.tuple)
  BY <1>1, <1>2, StoragesOfArena
<1>4. b \in Seq(Addressed) /\ Elements(b) = {table.storage} \ {0} /\ Distinct(b)
  BY <1>1, OneElement
<1> HIDE DEF a, b
<1>5. /\ Elements(a \o b) = Elements(a) \cup Elements(b)
      /\ Distinct(a \o b) <=> Distinct(a) /\ Distinct(b) /\ Elements(a) \cap Elements(b) = {}
  BY <1>3, <1>4, ConcatElements, ConcatDistinct
<1>6. 0 \notin Kept(draft.tuple)
  BY DEF Kept, Elements
<1>7. /\ Elements(a \o b) = Kept(draft.tuple) \cup ({table.storage} \ {0})
      /\ Distinct(a \o b) <=> KeptOnce(draft.tuple) /\ table.storage \notin Kept(draft.tuple)
  BY <1>3, <1>4, <1>5, <1>6
<1> QED BY <1>7 DEF a, b

(***************************************************************************)
(* Totals of counts.                                                       *)
(***************************************************************************)

LEMMA PlusIsTyped ==
  ASSUME NEW a \in CountRecords, NEW b \in CountRecords
  PROVE  Plus(a, b) \in CountRecords
<1>1. /\ DOMAIN a = {"nodes", "edges", "payloads", "tables"}
      /\ \A f \in {"nodes", "edges", "payloads", "tables"} : a[f] \in Nat /\ b[f] \in Nat
  BY DEF CountRecords
<1>2. Plus(a, b) = [f \in {"nodes", "edges", "payloads", "tables"} |-> a[f] + b[f]]
  BY <1>1 DEF Plus
<1>3. \A f \in {"nodes", "edges", "payloads", "tables"} : a[f] + b[f] \in Nat
  BY <1>1
<1>4. Plus(a, b) = Counts(a["nodes"] + b["nodes"], a["edges"] + b["edges"],
                          a["payloads"] + b["payloads"], a["tables"] + b["tables"])
  BY <1>2 DEF Counts
<1> QED BY <1>3, <1>4 DEF Counts, CountRecords

\* The sums of the first counts, for as many as there are.
IsSum(sum, counts, n) ==
  sum = [i \in 0 .. n |-> IF i = 0 THEN NoCounts ELSE Plus(sum[i - 1], counts[i])]

LEMMA SumExists ==
  ASSUME NEW counts, NEW n \in Nat
  PROVE  \E sum : IsSum(sum, counts, n)
<1> DEFINE T == {m \in Nat : ~ \E sum : IsSum(sum, counts, m)}
<1>1. SUFFICES ASSUME T # {} PROVE FALSE
  OBVIOUS
<1>2. PICK m \in T : \A y \in T : m <= y
  BY <1>1, LeastOf
<1>3. CASE m = 0
  <2> DEFINE g == [i \in 0 .. 0 |-> NoCounts]
  <2>1. g = [i \in 0 .. 0 |-> IF i = 0 THEN NoCounts ELSE Plus(g[i - 1], counts[i])]
    OBVIOUS
  <2> QED BY <1>2, <1>3, <2>1 DEF IsSum
<1>4. CASE m # 0
  <2>1. m - 1 \in Nat /\ m - 1 \notin T
    BY <1>2, <1>4
  <2>2. PICK h : IsSum(h, counts, m - 1)
    BY <2>1
  <2> DEFINE g == [i \in 0 .. m |-> IF i = m THEN Plus(h[m - 1], counts[m]) ELSE h[i]]
  <2>3. ASSUME NEW i \in 0 .. m
        PROVE  g[i] = IF i = 0 THEN NoCounts ELSE Plus(g[i - 1], counts[i])
    <3>1. CASE i = m
      <4>1. m - 1 \in 0 .. m /\ m - 1 # m /\ g[m - 1] = h[m - 1]
        BY <2>1
      <4> QED BY <1>4, <3>1, <4>1
    <3>2. CASE i # m /\ i # 0
      <4>1. i \in 0 .. m - 1 /\ i - 1 \in 0 .. m /\ i - 1 # m
        BY <1>2, <3>2
      <4>2. h[i] = Plus(h[i - 1], counts[i])
        BY <2>2, <3>2, <4>1 DEF IsSum
      <4>3. g[i - 1] = h[i - 1] /\ g[i] = h[i]
        BY <3>2, <4>1
      <4> QED BY <3>2, <4>2, <4>3
    <3>3. CASE i # m /\ i = 0
      <4>1. 0 \in 0 .. m - 1
        BY <2>1
      <4> QED BY <2>2, <3>3, <4>1 DEF IsSum
    <3> QED BY <3>1, <3>2, <3>3
  <2>4. DOMAIN g = 0 .. m /\ g = [i \in 0 .. m |-> g[i]]
    OBVIOUS
  <2> HIDE DEF g
  <2>5. IsSum(g, counts, m)
    BY <2>3, <2>4 DEF IsSum
  <2> QED BY <1>2, <2>5
<1> QED BY <1>3, <1>4

LEMMA TotalIs ==
  ASSUME NEW counts, NEW n \in Nat
  PROVE  \E sum : IsSum(sum, counts, n) /\ Total(counts, n) = sum[n]
<1> DEFINE f == CHOOSE sum : IsSum(sum, counts, n)
<1>1. IsSum(f, counts, n)
  BY SumExists
<1>2. Total(counts, n) = f[n]
  BY DEF Total, IsSum
<1> QED BY <1>1, <1>2

LEMMA SumsAreTyped ==
  ASSUME NEW n \in Nat, NEW counts, \A i \in 1 .. n : counts[i] \in CountRecords,
         NEW sum, IsSum(sum, counts, n)
  PROVE  \A i \in 0 .. n : sum[i] \in CountRecords
<1> DEFINE T == {i \in 0 .. n : sum[i] \notin CountRecords}
<1>1. SUFFICES ASSUME T # {} PROVE FALSE
  OBVIOUS
<1>2. PICK m \in T : \A y \in T : m <= y
  <2>1. T \in SUBSET Nat
    OBVIOUS
  <2> QED BY <1>1, <2>1, LeastOf
<1>3. CASE m = 0
  <2>1. sum[0] = NoCounts
    BY DEF IsSum
  <2> QED BY <1>2, <1>3, <2>1 DEF NoCounts, Counts, CountRecords
<1>4. CASE m # 0
  <2>1. m - 1 \in 0 .. n /\ m - 1 \notin T /\ m \in 1 .. n
    BY <1>2, <1>4
  <2>2. sum[m] = Plus(sum[m - 1], counts[m])
    BY <1>4, <2>1 DEF IsSum
  <2> QED BY <1>2, <2>1, <2>2, PlusIsTyped
<1> QED BY <1>3, <1>4

LEMMA TotalIsTyped ==
  ASSUME NEW n \in Nat, NEW counts, \A i \in 1 .. n : counts[i] \in CountRecords
  PROVE  Total(counts, n) \in CountRecords
<1>1. PICK sum : IsSum(sum, counts, n) /\ Total(counts, n) = sum[n]
  BY TotalIs
<1>2. n \in 0 .. n
  OBVIOUS
<1> QED BY <1>1, <1>2, SumsAreTyped

(***************************************************************************)
(* New storages and the values made with them.                             *)
(***************************************************************************)

LEMMA FreshIsFree ==
  ASSUME NEW s \in Free, NEW n \in Nat
  PROVE  /\ s \in Addresses /\ s \notin live /\ s # 0
         /\ Payload(s, n) \in Payloads /\ Payload(s, n).storage = s
BY ConstructionAssumption DEF Free, Payload, Payloads, Addressed

LEMMA VectorIsTyped ==
  ASSUME NEW p \in Payloads
  PROVE  LET v == VectorValue(p) IN
         /\ v \in ValueRecords /\ v.claimed /\ Clean(v) /\ v.container = "vector"
         /\ v.vector = p /\ v.tuple = NoTuple
<1> DEFINE v == VectorValue(p)
<1>1. /\ v \in ValueRecords /\ v.claimed /\ v.container = "vector" /\ v.vector = p /\ v.tuple = NoTuple
  BY EmptyValuesAreTyped DEF VectorValue, Value, ValueRecords, Containers, Blank
<1> HIDE DEF v
<1>2. Clean(v)
  BY <1>1 DEF Clean
<1>3. v = VectorValue(p)
  BY DEF v
<1> QED BY <1>1, <1>2, <1>3

LEMMA ScalarIsTyped ==
  ASSUME NEW k \in Nat
  PROVE  LET v == ScalarValue(k) IN
         /\ v \in ValueRecords /\ v.claimed /\ Clean(v) /\ v.container = "scalar"
         /\ v.vector = NoPayload /\ v.tuple = NoTuple
<1> DEFINE v == ScalarValue(k)
<1>1. /\ v \in ValueRecords /\ v.claimed /\ v.container = "scalar" /\ v.vector = NoPayload
      /\ v.tuple = NoTuple
  BY EmptyValuesAreTyped DEF ScalarValue, Value, ValueRecords, Containers
<1> HIDE DEF v
<1>2. Clean(v)
  BY <1>1 DEF Clean
<1>3. v = ScalarValue(k)
  BY DEF v
<1> QED BY <1>1, <1>2, <1>3

\* A value without a tuple owns its vector.
LEMMA PlainValueOwns ==
  ASSUME NEW v \in ValueRecords, Clean(v), v.tuple = NoTuple
  PROVE  Elements(OwnedBy(v)) = {v.vector.storage} \ {0} /\ Distinct(OwnedBy(v))
BY StoragesOfValue, NoTupleOwnsNothing

LEMMA LiteralsAreFresh ==
  ASSUME NEW v \in Literals
  PROVE  /\ v \in ValueRecords /\ v.claimed /\ Clean(v) /\ v.tuple = NoTuple
         /\ Elements(OwnedBy(v)) = {v.vector.storage} \ {0}
         /\ Distinct(OwnedBy(v))
         /\ Elements(OwnedBy(v)) \cap live = {}
         /\ Elements(OwnedBy(v)) \subseteq Addresses
         /\ v.container = "scalar" \/ v.container = "vector"
         /\ v.container = "scalar" => v.vector = NoPayload
<1>0. NoPayload \in Payloads /\ NoPayload.storage = 0
  BY EmptyValuesAreTyped DEF NoPayload, Payload
<1>1. /\ v \in ValueRecords /\ v.claimed /\ Clean(v) /\ v.tuple = NoTuple
      /\ v.container = "scalar" \/ v.container = "vector"
      /\ v.container = "scalar" => v.vector = NoPayload
      /\ v.vector.storage # 0 =>
           (v.vector.storage \in Addresses /\ v.vector.storage \notin live)
  <2>1. CASE \E k \in Scalars : v = ScalarValue(k)
    <3>1. PICK k \in Nat : v = ScalarValue(k)
      BY <2>1, ConstructionAssumption
    <3> QED BY <1>0, <3>1, ScalarIsTyped
  <2>2. CASE v = VectorValue(NoPayload)
    BY <1>0, <2>2, VectorIsTyped
  <2>3. CASE \E s \in Free : v = VectorValue(Payload(s, 1))
    <3>1. PICK s \in Free : v = VectorValue(Payload(s, 1))
      BY <2>3
    <3> DEFINE p == Payload(s, 1)
    <3>2. p \in Payloads /\ p.storage \in Addresses /\ p.storage \notin live
      BY FreshIsFree
    <3>3. v = VectorValue(p)
      BY <3>1
    <3> HIDE DEF p
    <3> QED BY <3>2, <3>3, VectorIsTyped
  <2> QED BY <2>1, <2>2, <2>3 DEF Literals
<1>2. Elements(OwnedBy(v)) = {v.vector.storage} \ {0} /\ Distinct(OwnedBy(v))
  BY <1>1, PlainValueOwns
<1> QED BY <1>1, <1>2

\* A vector that a callback broke is no value, but still owns its storage.
LEMMA BrokenIsRefused ==
  ASSUME NEW v \in Broken
  PROVE  /\ v \in ValueRecords /\ v.claimed /\ Clean(v)
         /\ Distinct(OwnedBy(v))
         /\ Elements(OwnedBy(v)) \cap live = {}
         /\ Elements(OwnedBy(v)) \subseteq Addresses
         /\ ~WellFormed(v)
<1>1. PICK w \in Literals : w.vector.storage # 0 /\ v = [w EXCEPT !.vector.length = 0]
  BY DEF Broken
<1>2. /\ w \in ValueRecords /\ w.claimed /\ w.tuple = NoTuple
      /\ w.container = "vector" /\ w.vector \in Payloads
      /\ {w.vector.storage} \ {0} \subseteq Addresses
      /\ ({w.vector.storage} \ {0}) \cap live = {}
  BY <1>1, LiteralsAreFresh DEF NoPayload, Payload, ValueRecords
<1>3. [w.vector EXCEPT !.length = 0] \in Payloads
      /\ [w.vector EXCEPT !.length = 0].storage = w.vector.storage
      /\ [w.vector EXCEPT !.length = 0].length = 0
  BY <1>2 DEF Payloads
<1>4. /\ v \in ValueRecords /\ v.claimed /\ v.tuple = NoTuple /\ v.container = "vector"
      /\ v.vector.storage = w.vector.storage /\ v.vector.length = 0
  <2> DEFINE p == [w.vector EXCEPT !.length = 0]
  <2>1. v = [w EXCEPT !.vector = p]
    BY <1>1
  <2>2. p \in Payloads /\ p.storage = w.vector.storage /\ p.length = 0
    BY <1>3
  <2> HIDE DEF p
  <2> QED BY <1>2, <2>1, <2>2 DEF ValueRecords
<1>5. Clean(v)
  BY <1>4 DEF Clean
<1>6. ~WellFormed(v)
  BY <1>1, <1>4 DEF WellFormed, SoundPayload
<1> QED BY <1>2, <1>4, <1>5, <1>6, PlainValueOwns

(***************************************************************************)
(* Every action keeps the invariant.                                       *)
(***************************************************************************)

LEMMA OwnershipIsOneOwner == OwnershipInv => OneOwner
<1> SUFFICES ASSUME OwnershipInv PROVE OneOwner
  OBVIOUS
<1> USE DEF OwnershipInv
<1>1. /\ Elements(Owned(<<"call", 0>>)) = CallHas
      /\ Distinct(Owned(<<"call", 0>>))
  <2>1. Owned(<<"call", 0>>) = Storages(draft.tuple) \o <<table.storage>>
    BY DEF Owned
  <2> QED BY <2>1, CallOwns DEF Typed, CallHolds, Holdings, HeldOnce, CallHas
<1>2. \A o \in pool : Owned(<<"pool", o>>) = OwnedBy(o.value)
  BY DEF Owned
<1>3. \A i \in Positions : Owned(<<"scratch", i>>) = OwnedBy(scratch[i].value)
  BY DEF Owned
<1>4. live = UNION {Elements(Owned(x)) : x \in Owners}
  <2>1. ASSUME NEW s \in live PROVE \E x \in Owners : s \in Elements(Owned(x))
    <3>1. CASE \E o \in pool : s \in Has(o)
      BY <1>2, <3>1 DEF Owners, Has
    <3>2. CASE \E i \in Positions : s \in Has(scratch[i])
      BY <1>3, <3>2 DEF Owners, Has
    <3>3. CASE s \in CallHas
      BY <1>1, <3>3 DEF Owners
    <3> QED BY <3>1, <3>2, <3>3 DEF Holdings, LiveIsHeld, HeldBySomeone
  <2>2. ASSUME NEW x \in Owners, NEW s \in Elements(Owned(x)) PROVE s \in live
    <3>1. HeldBySomeone(s)
      BY <1>1, <1>2, <1>3, <2>2 DEF Owners, Has, HeldBySomeone
    <3> QED BY <3>1 DEF Holdings, LiveIsHeld
  <2> QED BY <2>1, <2>2
<1>5. \A x \in Owners : Distinct(Owned(x))
  BY <1>1, <1>2, <1>3 DEF Owners, Holdings, HeldOnce
<1>6. ASSUME NEW x \in Owners, NEW y \in Owners, x # y
      PROVE  Elements(Owned(x)) \cap Elements(Owned(y)) = {}
  <2>1. \/ \E o \in pool : x = <<"pool", o>> /\ Elements(Owned(x)) = Has(o)
        \/ \E i \in Positions : x = <<"scratch", i>> /\ Elements(Owned(x)) = Has(scratch[i])
        \/ x = <<"call", 0>> /\ Elements(Owned(x)) = CallHas
    BY <1>1, <1>2, <1>3 DEF Owners, Has
  <2>2. \/ \E o \in pool : y = <<"pool", o>> /\ Elements(Owned(y)) = Has(o)
        \/ \E i \in Positions : y = <<"scratch", i>> /\ Elements(Owned(y)) = Has(scratch[i])
        \/ y = <<"call", 0>> /\ Elements(Owned(y)) = CallHas
    BY <1>1, <1>2, <1>3 DEF Owners, Has
  <2> QED BY <1>6, <2>1, <2>2 DEF Holdings, HeldApart
<1>7. ScratchIsEmpty
  BY ConstructionAssumption DEF ScratchIsEmpty, SlotsOf, LeftBehind, Idle, Held, Positions
<1> QED BY <1>4, <1>5, <1>6, <1>7 DEF OneOwner

LEMMA OwnershipAtFirst == Init => OwnershipInv
<1> SUFFICES ASSUME Init PROVE OwnershipInv
  OBVIOUS
<1> USE DEF Init
<1>1. \A i \in Positions : scratch[i] = NoOwner /\ Proper(scratch[i]) /\ ~scratch[i].value.claimed
  BY EmptyValuesAreTyped
<1>2. NoCounts \in CountRecords
  BY DEF NoCounts, Counts, CountRecords
<1>3. call \in Calls /\ call = Idle
  BY ConstructionAssumption DEF Idle, Calls, Stages
<1>4. Typed
  BY <1>1, <1>2, <1>3, EmptyValuesAreTyped DEF Typed, Idle
<1>5. CallHolds /\ SlotsOf
  BY <1>1, <1>3, EmptyValuesAreTyped DEF CallHolds, SlotsOf, LeftBehind, Idle, NoTuple
<1>6. CallHas = {} /\ KeptOnce(draft.tuple) /\ table.storage \notin Kept(draft.tuple)
  BY EmptyValuesAreTyped, NoTupleOwnsNothing DEF CallHas, NoPayload, Payload
<1>7. \A i \in Positions : Has(scratch[i]) = {} /\ Distinct(OwnedBy(scratch[i].value))
  <2>1. \A i \in Positions : OwnedBy(scratch[i].value) = <<>>
    BY <1>1 DEF OwnedBy
  <2>2. Elements(<<>>) = {} /\ Distinct(<<>>)
    BY DEF Elements, Distinct
  <2> QED BY <2>1, <2>2 DEF Has
<1>8. Holdings
  BY <1>6, <1>7 DEF Holdings, LiveIsHeld, HeldBySomeone, HeldOnce, HeldApart
<1> QED BY <1>4, <1>5, <1>8 DEF OwnershipInv

(***************************************************************************)
(* The steps, one action at a time.                                        *)
(***************************************************************************)

\* A value nobody owned before joins those of the caller.
LEMMA NewValueKeepsOwnership ==
  ASSUME OwnershipInv, NEW o, Proper(o), Distinct(OwnedBy(o.value)),
         Has(o) \cap live = {}, Has(o) \subseteq Addresses,
         pool' = pool \cup {o}, live' = live \cup Has(o),
         UNCHANGED <<scratch, call, table, draft, capacity, moved>>
  PROVE  OwnershipInv'
<1>1. Typed'
  BY DEF OwnershipInv, Typed
<1>2. CallHolds' /\ SlotsOf'
  BY DEF OwnershipInv, CallHolds, SlotsOf
<1>3. CallHas' = CallHas
  BY DEF CallHas
<1>4. LiveIsHeld'
  BY <1>3 DEF OwnershipInv, Holdings, LiveIsHeld, HeldBySomeone
<1>5. HeldOnce'
  BY DEF OwnershipInv, Holdings, HeldOnce
<1>6. /\ \A p \in pool : Has(o) \cap Has(p) = {}
      /\ \A i \in Positions : Has(o) \cap Has(scratch[i]) = {}
      /\ Has(o) \cap CallHas = {}
  BY DEF OwnershipInv, Holdings, LiveIsHeld, HeldBySomeone
<1>7. HeldApart'
  BY <1>3, <1>6 DEF OwnershipInv, Holdings, HeldApart
<1> QED BY <1>1, <1>2, <1>4, <1>5, <1>7 DEF OwnershipInv, Holdings

LEMMA UnclaimedOwnsNothing ==
  /\ \A o : ~o.value.claimed => Has(o) = {} /\ Distinct(OwnedBy(o.value))
  /\ Proper(NoOwner) /\ ~NoOwner.value.claimed
<1>1. Elements(<<>>) = {} /\ Distinct(<<>>)
  BY DEF Elements, Distinct
<1> QED BY <1>1, EmptyValuesAreTyped DEF Has, OwnedBy

LEMMA WhatIsDestroyed ==
  /\ \A v : Destroyed({v}) = Elements(OwnedBy(v))
  /\ \A n \in 0 .. Width : \A s :
       s \in Destroyed(Held(n)) <=> \E i \in Positions : i <= n /\ s \in Has(scratch[i])
<1>1. \A v : Destroyed({v}) = Elements(OwnedBy(v))
  BY DEF Destroyed
<1>2. ASSUME NEW n \in 0 .. Width PROVE 1 .. n = {i \in Positions : i <= n}
  BY ConstructionAssumption DEF Positions
<1> QED BY <1>1, <1>2 DEF Destroyed, Held, Has

LEMMA HoldingIsProper ==
  ASSUME NEW v \in ValueRecords, Clean(v)
  PROVE  LET o == Holding(v) IN Proper(o) /\ o.value = v
BY DEF Holding, Owner, Proper

LEMMA LiteralKeepsOwnership ==
  ASSUME OwnershipInv, Literal PROVE OwnershipInv'
<1>1. PICK v \in Literals : pool' = pool \cup {Holding(v)} /\ live' = live \cup Elements(OwnedBy(v))
  BY DEF Literal
<1> QED BY <1>1, LiteralsAreFresh, HoldingIsProper, NewValueKeepsOwnership DEF Literal, Has

LEMMA BranchKeepsOwnership ==
  ASSUME OwnershipInv, Branch PROVE OwnershipInv'
<1>1. PICK v \in Literals : pool' = pool \cup {Holding(v)} /\ live' = live \cup Elements(OwnedBy(v))
  BY DEF Branch
<1> QED BY <1>1, LiteralsAreFresh, HoldingIsProper, NewValueKeepsOwnership DEF Branch, Has

LEMMA DestroyKeepsOwnership ==
  ASSUME OwnershipInv, Destroy PROVE OwnershipInv'
<1>1. PICK o \in pool : pool' = pool \ {o} /\ live' = live \ Has(o)
  BY WhatIsDestroyed DEF Destroy, Has
<1> USE DEF Destroy
<1>2. Typed'
  BY <1>1 DEF OwnershipInv, Typed
<1>3. CallHolds' /\ SlotsOf'
  BY DEF OwnershipInv, CallHolds, SlotsOf, LeftBehind
<1>4. CallHas' = CallHas
  BY DEF CallHas
<1>5. /\ \A p \in pool : p # o => Has(o) \cap Has(p) = {}
      /\ \A i \in Positions : Has(o) \cap Has(scratch[i]) = {}
      /\ Has(o) \cap CallHas = {}
  BY DEF OwnershipInv, Holdings, HeldApart
<1>6. LiveIsHeld'
  BY <1>1, <1>4, <1>5 DEF OwnershipInv, Holdings, LiveIsHeld, HeldBySomeone
<1>7. HeldOnce'
  BY <1>1 DEF OwnershipInv, Holdings, HeldOnce
<1>8. HeldApart'
  BY <1>1, <1>4 DEF OwnershipInv, Holdings, HeldApart
<1> QED BY <1>2, <1>3, <1>6, <1>7, <1>8 DEF OwnershipInv, Holdings

LEMMA BeginExecuteKeepsOwnership ==
  ASSUME OwnershipInv, BeginExecute PROVE OwnershipInv'
<1>1. PICK n \in 0 .. Width :
        /\ live' = live \ Destroyed(Held(n))
        /\ scratch' = Emptied(n)
        /\ call' = [stage |-> "producing", by |-> "execute", width |-> n, done |-> 0]
  BY DEF BeginExecute
<1> USE DEF BeginExecute
<1>2. /\ DOMAIN scratch' = Positions /\ scratch' = [i \in Positions |-> scratch'[i]]
      /\ \A i \in Positions : scratch'[i] = IF i <= n THEN NoOwner ELSE scratch[i]
  BY <1>1 DEF Emptied
<1>3. \A i \in Positions : Proper(scratch'[i])
  BY <1>2, UnclaimedOwnsNothing DEF OwnershipInv, Typed
<1>4. call' \in Calls /\ call'.done <= call'.width /\ call'.stage # "idle"
  BY <1>1, ConstructionAssumption DEF Calls, Stages
<1>5. Typed'
  BY <1>1, <1>2, <1>3, <1>4 DEF OwnershipInv, Typed
<1>6. CallHolds'
  BY <1>1 DEF OwnershipInv, CallHolds, Idle
<1>7. SlotsOf'
  BY <1>1, <1>2, UnclaimedOwnsNothing, ConstructionAssumption DEF OwnershipInv, SlotsOf, Idle, Positions
<1>8. CallHas' = CallHas
  BY DEF CallHas
<1>9. \A i \in Positions : Has(scratch'[i]) = IF i <= n THEN {} ELSE Has(scratch[i])
  BY <1>2, UnclaimedOwnsNothing
<1>10. LiveIsHeld'
  <2>1. \A s : s \in live' <=> s \in live /\ ~\E i \in Positions : i <= n /\ s \in Has(scratch[i])
    BY <1>1, WhatIsDestroyed
  <2> QED BY <2>1, <1>8, <1>9 DEF OwnershipInv, Holdings, LiveIsHeld, HeldBySomeone, HeldApart
<1>11. HeldOnce'
  BY <1>2, UnclaimedOwnsNothing DEF OwnershipInv, Holdings, HeldOnce
<1>12. HeldApart'
  BY <1>8, <1>9 DEF OwnershipInv, Holdings, HeldApart
<1> QED BY <1>5, <1>6, <1>7, <1>10, <1>11, <1>12 DEF OwnershipInv, Holdings

LEMMA ProduceKeepsOwnership ==
  ASSUME OwnershipInv, Produce PROVE OwnershipInv'
<1> DEFINE k == call.done + 1
<1>1. k \in Positions /\ k <= call.width
  BY ConstructionAssumption DEF Produce, OwnershipInv, Typed, Calls, Positions
<1>2. PICK o \in pool \cup {Holding(v) : v \in Literals} :
        /\ scratch' = [scratch EXCEPT ![k] = o]
        /\ pool' = pool \ {o}
        /\ live' = live \cup Has(o)
  BY DEF Produce, Has
<1>3. call' = [call EXCEPT !.done = k] /\ UNCHANGED <<table, draft, capacity, moved>>
  BY DEF Produce
<1>4. /\ Proper(o) /\ Distinct(OwnedBy(o.value))
      /\ Has(o) \subseteq Addresses
      /\ \A p \in pool : p # o => Has(o) \cap Has(p) = {}
      /\ \A i \in Positions : Has(o) \cap Has(scratch[i]) = {}
      /\ Has(o) \cap CallHas = {}
  <2>1. CASE o \in pool
    BY <2>1 DEF OwnershipInv, Typed, Holdings, HeldOnce, HeldApart, LiveIsHeld, HeldBySomeone
  <2>2. CASE o \notin pool
    <3>1. PICK v \in Literals : o = Holding(v)
      BY <2>2
    <3>2. Proper(o) /\ o.value = v
      BY <3>1, LiteralsAreFresh, HoldingIsProper
    <3>3. Has(o) \cap live = {} /\ Has(o) \subseteq Addresses /\ Distinct(OwnedBy(o.value))
      BY <3>2, LiteralsAreFresh DEF Has
    <3> QED BY <3>2, <3>3 DEF OwnershipInv, Holdings, LiveIsHeld, HeldBySomeone
  <2> QED BY <2>1, <2>2
<1>5. ~scratch[k].value.claimed /\ Has(scratch[k]) = {}
  <2>1. ~scratch[k].value.claimed
    BY <1>1 DEF Produce, OwnershipInv, SlotsOf, Typed, Calls
  <2> QED BY <2>1, UnclaimedOwnsNothing
<1> HIDE DEF k
<1>6. /\ DOMAIN scratch' = Positions /\ scratch' = [i \in Positions |-> scratch'[i]]
      /\ \A i \in Positions : scratch'[i] = IF i = k THEN o ELSE scratch[i]
  BY <1>1, <1>2 DEF OwnershipInv, Typed
<1>7. Typed'
  <2>1. \A i \in Positions : Proper(scratch'[i])
    BY <1>4, <1>6 DEF OwnershipInv, Typed
  <2>2. call' \in Calls /\ call'.done <= call'.width /\ call'.stage # "idle"
    BY <1>1, <1>3 DEF Produce, OwnershipInv, Typed, Calls, Positions, k
  <2> QED BY <1>2, <1>3, <1>4, <1>6, <2>1, <2>2 DEF OwnershipInv, Typed
<1>8. call'.stage = "producing" /\ call'.done = k /\ call'.width = call.width
  BY <1>3 DEF Produce, OwnershipInv, Typed, Calls
<1>9. CallHolds'
  BY <1>3, <1>8 DEF Produce, OwnershipInv, CallHolds
<1>10. SlotsOf'
  BY <1>1, <1>6, <1>8 DEF Produce, OwnershipInv, SlotsOf, Typed, Calls, Positions, k
<1>11. CallHas' = CallHas
  BY <1>3 DEF CallHas
<1>12. \A i \in Positions : Has(scratch'[i]) = IF i = k THEN Has(o) ELSE Has(scratch[i])
  BY <1>6
<1>13. LiveIsHeld'
  BY <1>1, <1>2, <1>5, <1>11, <1>12 DEF OwnershipInv, Holdings, LiveIsHeld, HeldBySomeone
<1>14. HeldOnce'
  BY <1>2, <1>3, <1>4, <1>6 DEF OwnershipInv, Holdings, HeldOnce
<1>15. HeldApart'
  BY <1>1, <1>2, <1>4, <1>5, <1>11, <1>12 DEF OwnershipInv, Holdings, HeldApart
<1> QED BY <1>7, <1>9, <1>10, <1>13, <1>14, <1>15 DEF OwnershipInv, Holdings

\* After release_completed: the slot at hand holds what is kept, the earlier ones
\* nothing, and of the caller's values that are gone only what is kept still lives.
LEMMA ReleasedKeepsOwnership ==
  ASSUME OwnershipInv, call.stage = "producing", call.done < call.width,
         NEW kept, Proper(kept), Distinct(OwnedBy(kept.value)), Has(kept) \subseteq Addresses,
         LeftBehind(kept.value),
         NEW gone \in SUBSET pool, pool' = pool \ gone,
         \A p \in pool' : Has(kept) \cap Has(p) = {},
         \A i \in Positions : Has(kept) \cap Has(scratch[i]) = {},
         Has(kept) \cap CallHas = {},
         scratch' = [Emptied(call.done) EXCEPT ![call.done + 1] = kept],
         \A s : s \in live' <=>
           s \in Has(kept) \/ (s \in live /\ s \notin Destroyed(Held(call.done))
                                         /\ ~\E o \in gone : s \in Has(o)),
         call' = Idle, UNCHANGED <<table, draft, capacity, moved>>
  PROVE  OwnershipInv'
<1> DEFINE k == call.done + 1
<1>1. k \in Positions /\ k <= call.width /\ call.done \in 0 .. Width
  BY ConstructionAssumption DEF OwnershipInv, Typed, Calls, Positions
<1>5. /\ DOMAIN scratch' = Positions /\ scratch' = [i \in Positions |-> scratch'[i]]
      /\ \A i \in Positions : scratch'[i] = IF i = k THEN kept
                                            ELSE IF i <= call.done THEN NoOwner ELSE scratch[i]
  BY <1>1 DEF Emptied
<1>6. /\ \A i \in Positions : i >= k /\ i <= call.width => ~scratch[i].value.claimed
      /\ Has(scratch[k]) = {}
  <2>1. \A i \in Positions : i >= k /\ i <= call.width => ~scratch[i].value.claimed
    BY <1>1 DEF OwnershipInv, SlotsOf, Typed, Calls, Positions
  <2> QED BY <1>1, <2>1, UnclaimedOwnsNothing DEF Positions
<1>7. \A i \in Positions : i < k <=> i <= call.done
  BY <1>1 DEF Positions
<1> HIDE DEF k
<1>8. Typed'
  <2>1. \A i \in Positions : Proper(scratch'[i])
    BY <1>5, UnclaimedOwnsNothing DEF OwnershipInv, Typed
  <2>2. call' \in Calls /\ call'.done <= call'.width
    BY ConstructionAssumption DEF Idle, Calls, Stages
  <2>3. live' \subseteq Addresses
    BY DEF OwnershipInv, Typed
  <2> QED BY <1>5, <2>1, <2>2, <2>3 DEF OwnershipInv, Typed
<1>9. CallHolds'
  BY DEF OwnershipInv, CallHolds, Idle
<1>10. SlotsOf'
  <2>1. \A i \in Positions : LeftBehind(scratch'[i].value)
    BY <1>1, <1>5, <1>6, <1>7, UnclaimedOwnsNothing
       DEF OwnershipInv, SlotsOf, LeftBehind, Typed, Calls, Positions
  <2> QED BY <2>1 DEF SlotsOf, Idle
<1>11. CallHas' = CallHas
  BY DEF CallHas
<1>12. \A i \in Positions : Has(scratch'[i]) = IF i = k THEN Has(kept)
                                               ELSE IF i <= call.done THEN {} ELSE Has(scratch[i])
  BY <1>5, UnclaimedOwnsNothing
<1>13. \A s : s \in live' <=>
         \/ s \in Has(kept)
         \/ /\ s \in live /\ ~\E i \in Positions : i <= call.done /\ s \in Has(scratch[i])
            /\ ~\E o \in gone : s \in Has(o)
  BY <1>1, WhatIsDestroyed
<1>15. LiveIsHeld'
  <2>1. ASSUME NEW s, s \in live' PROVE HeldBySomeone(s)'
    <3>1. CASE s \in Has(kept)
      BY <1>1, <1>12, <3>1 DEF HeldBySomeone
    <3>2. CASE s \notin Has(kept)
      <4>1. /\ s \in live /\ ~\E i \in Positions : i <= call.done /\ s \in Has(scratch[i])
            /\ ~\E o \in gone : s \in Has(o)
        BY <1>13, <2>1, <3>2
      <4>2. CASE \E o \in pool : s \in Has(o)
        BY <3>2, <4>1, <4>2 DEF HeldBySomeone
      <4>3. CASE \E i \in Positions : s \in Has(scratch[i])
        BY <1>6, <1>12, <4>1, <4>3 DEF HeldBySomeone
      <4>4. CASE s \in CallHas
        BY <1>11, <4>4 DEF HeldBySomeone
      <4> QED BY <4>1, <4>2, <4>3, <4>4 DEF OwnershipInv, Holdings, LiveIsHeld, HeldBySomeone
    <3> QED BY <3>1, <3>2
  <2>2. ASSUME NEW s, HeldBySomeone(s)', s \notin Has(kept) PROVE s \in live'
    <3>1. CASE \E o \in pool' : s \in Has(o)
      BY <1>13, <2>2, <3>1 DEF OwnershipInv, Holdings, LiveIsHeld, HeldBySomeone, HeldApart
    <3>2. CASE \E i \in Positions : s \in Has(scratch'[i])
      <4>1. PICK i \in Positions : s \in Has(scratch[i]) /\ ~(i <= call.done)
        BY <1>12, <2>2, <3>2
      <4> QED BY <1>13, <4>1 DEF OwnershipInv, Holdings, LiveIsHeld, HeldBySomeone, HeldApart
    <3>3. CASE s \in CallHas
      BY <1>13, <3>3 DEF OwnershipInv, Holdings, LiveIsHeld, HeldBySomeone, HeldApart
    <3> QED BY <1>11, <2>2, <3>1, <3>2, <3>3 DEF HeldBySomeone
  <2> QED BY <1>13, <2>1, <2>2 DEF LiveIsHeld
<1>16. HeldOnce'
  BY <1>5, UnclaimedOwnsNothing DEF OwnershipInv, Holdings, HeldOnce
<1>17. HeldApart'
  BY <1>11, <1>12 DEF OwnershipInv, Holdings, HeldApart
<1> QED BY <1>8, <1>9, <1>10, <1>15, <1>16, <1>17 DEF OwnershipInv, Holdings

LEMMA CallbackFailsKeepsOwnership ==
  ASSUME OwnershipInv, CallbackFails PROVE OwnershipInv'
<1>1. PICK gone \in {{}} \cup {{o} : o \in {p \in pool : WellFormed(p.value)}} :
        /\ pool' = pool \ gone
        /\ live' = live \ (Destroyed(Held(call.done)) \cup Destroyed({o.value : o \in gone}))
  BY DEF CallbackFails
<1>2. /\ call.stage = "producing" /\ call.done < call.width
      /\ scratch' = Emptied(call.done + 1) /\ call' = Idle
      /\ UNCHANGED <<table, draft, capacity, moved>>
  BY DEF CallbackFails
<1>3. gone \in SUBSET pool /\ \A o \in gone : WellFormed(o.value)
  BY <1>1
<1>4. Has(NoOwner) = {} /\ Distinct(OwnedBy(NoOwner.value)) /\ Proper(NoOwner)
      /\ LeftBehind(NoOwner.value) /\ ~WellFormed(NoOwner.value)
  BY UnclaimedOwnsNothing DEF LeftBehind, WellFormed
<1>5. \A s : s \in Destroyed({o.value : o \in gone}) <=> \E o \in gone : s \in Has(o)
  BY DEF Destroyed, Has
<1>6. scratch' = [Emptied(call.done) EXCEPT ![call.done + 1] = NoOwner]
  <2>1. call.done + 1 \in Positions /\ call.done + 1 <= call.width
    BY <1>2, ConstructionAssumption DEF OwnershipInv, Typed, Calls, Positions
  <2>2. scratch' = [i \in Positions |-> IF i <= call.done + 1 THEN NoOwner ELSE scratch[i]]
    BY <1>2 DEF Emptied
  <2>3. \A i \in Positions : i <= call.done + 1 <=> i = call.done + 1 \/ i <= call.done
    BY <2>1 DEF OwnershipInv, Typed, Calls, Positions
  <2> QED BY <2>1, <2>2, <2>3 DEF Emptied
<1> QED BY <1>1, <1>2, <1>3, <1>4, <1>5, <1>6, ReleasedKeepsOwnership

LEMMA OwnerKeptKeepsOwnership ==
  ASSUME OwnershipInv, OwnerKept PROVE OwnershipInv'
<1>1. PICK kept \in Refusable :
        /\ pool' = pool \ {kept}
        /\ scratch' = [Emptied(call.done) EXCEPT ![call.done + 1] = kept]
        /\ live' = (live \ Destroyed(Held(call.done))) \cup Has(kept)
  BY DEF OwnerKept, Has
<1>2. /\ call.stage = "producing" /\ call.done < call.width /\ call' = Idle
      /\ UNCHANGED <<table, draft, capacity, moved>>
  BY DEF OwnerKept
<1> DEFINE gone == pool \cap {kept}
<1>3. gone \in SUBSET pool /\ pool' = pool \ gone
  BY <1>1
<1>4. /\ Proper(kept) /\ Distinct(OwnedBy(kept.value)) /\ Has(kept) \subseteq Addresses
      /\ LeftBehind(kept.value)
      /\ \A p \in pool' : Has(kept) \cap Has(p) = {}
      /\ \A i \in Positions : Has(kept) \cap Has(scratch[i]) = {}
      /\ Has(kept) \cap CallHas = {}
  <2>1. CASE kept \in pool
    <3>1. kept.value.container = "tuple" \/ ~WellFormed(kept.value)
      <4>1. CASE \E v \in Broken : kept = Holding(v)
        BY <4>1, BrokenIsRefused, HoldingIsProper
      <4> QED BY <4>1 DEF Refusable
    <3> QED BY <1>1, <2>1, <3>1
            DEF OwnershipInv, Typed, Holdings, HeldOnce, HeldApart, LiveIsHeld, HeldBySomeone,
                LeftBehind
  <2>2. CASE kept \notin pool
    <3>1. PICK v \in Broken : kept = Holding(v)
      BY <2>2 DEF Refusable
    <3>2. Proper(kept) /\ kept.value = v
      BY <3>1, BrokenIsRefused, HoldingIsProper
    <3>3. /\ Has(kept) \cap live = {} /\ Has(kept) \subseteq Addresses
          /\ Distinct(OwnedBy(kept.value)) /\ LeftBehind(kept.value)
      BY <3>2, BrokenIsRefused DEF Has, LeftBehind
    <3> QED BY <1>1, <3>2, <3>3 DEF OwnershipInv, Holdings, LiveIsHeld, HeldBySomeone
  <2> QED BY <2>1, <2>2
<1>5. \A s : s \in live' <=>
        s \in Has(kept) \/ (s \in live /\ s \notin Destroyed(Held(call.done))
                                      /\ ~\E o \in gone : s \in Has(o))
  BY <1>1
<1> HIDE DEF gone
<1> QED BY <1>1, <1>2, <1>3, <1>4, <1>5, ReleasedKeepsOwnership

LEMMA BeginMakeKeepsOwnership ==
  ASSUME OwnershipInv, BeginMake PROVE OwnershipInv'
<1> USE DEF BeginMake
<1>1. call' = [stage |-> "making", by |-> call.by, width |-> call.width, done |-> 0]
  BY DEF OwnershipInv, Typed, Calls
<1>2. Typed'
  BY <1>1, ConstructionAssumption DEF OwnershipInv, Typed, Calls, Stages
<1>3. CallHolds'
  BY <1>1 DEF OwnershipInv, CallHolds
<1>4. SlotsOf'
  BY <1>1 DEF OwnershipInv, SlotsOf
<1>5. CallHas' = CallHas
  BY DEF CallHas
<1>6. Holdings'
  BY <1>5 DEF OwnershipInv, Holdings, LiveIsHeld, HeldBySomeone, HeldOnce, HeldApart
<1> QED BY <1>2, <1>3, <1>4, <1>6 DEF OwnershipInv

LEMMA CallMakeKeepsOwnership ==
  ASSUME OwnershipInv, CallMake PROVE OwnershipInv'
<1> PICK n \in 0 .. Width :
      \E taken \in {f \in [1 .. n -> pool] : \A i, j \in 1 .. n : i # j => f[i] # f[j]} :
        /\ scratch' = [i \in Positions |-> IF i <= n THEN taken[i] ELSE NoOwner]
        /\ pool' = pool \ {taken[i] : i \in 1 .. n}
        /\ call' = [stage |-> "making", by |-> "caller", width |-> n, done |-> 0]
  BY DEF CallMake
<1>1. PICK taken \in [1 .. n -> pool] :
        /\ \A i, j \in 1 .. n : i # j => taken[i] # taken[j]
        /\ scratch' = [i \in Positions |-> IF i <= n THEN taken[i] ELSE NoOwner]
        /\ pool' = pool \ {taken[i] : i \in 1 .. n}
        /\ call' = [stage |-> "making", by |-> "caller", width |-> n, done |-> 0]
  OBVIOUS
<1>2. UNCHANGED <<live, table, draft, capacity, moved>>
  BY DEF CallMake
<1>3. \A i \in Positions : i <= n <=> i \in 1 .. n
  BY ConstructionAssumption DEF Positions
<1>4. \A i \in 1 .. n : i \in Positions /\ taken[i] \in pool
  BY ConstructionAssumption DEF Positions
<1>5. /\ DOMAIN scratch' = Positions /\ scratch' = [i \in Positions |-> scratch'[i]]
      /\ \A i \in Positions : scratch'[i] = IF i \in 1 .. n THEN taken[i] ELSE NoOwner
  BY <1>1, <1>3
<1>6. \A i \in Positions : Has(scratch[i]) = {}
  <2>1. \A i \in Positions : ~scratch[i].value.claimed
    BY ConstructionAssumption DEF CallMake, Held, Positions
  <2> QED BY <2>1, UnclaimedOwnsNothing
<1>7. Typed'
  <2>1. \A i \in Positions : Proper(scratch'[i])
    BY <1>4, <1>5, UnclaimedOwnsNothing DEF OwnershipInv, Typed
  <2>2. call' \in Calls /\ call'.done <= call'.width /\ call'.stage # "idle"
    BY <1>1, ConstructionAssumption DEF Calls, Stages
  <2>3. \A o \in pool' : Proper(o)
    BY <1>1 DEF OwnershipInv, Typed
  <2> QED BY <1>2, <1>5, <2>1, <2>2, <2>3 DEF OwnershipInv, Typed
<1>8. CallHolds'
  BY <1>1, <1>2 DEF CallMake, OwnershipInv, CallHolds, Idle
<1>9. SlotsOf'
  BY <1>1, <1>3, <1>5, UnclaimedOwnsNothing DEF SlotsOf, LeftBehind
<1>10. CallHas' = CallHas
  BY <1>2 DEF CallHas
<1>11. \A i \in Positions : Has(scratch'[i]) = IF i \in 1 .. n THEN Has(taken[i]) ELSE {}
  BY <1>5, UnclaimedOwnsNothing
<1>12. \A o : o \in pool <=> o \in pool' \/ \E i \in 1 .. n : o = taken[i]
  BY <1>1
<1>13. LiveIsHeld'
  <2>1. \A s : (\E o \in pool : s \in Has(o)) <=>
                 (\E o \in pool' : s \in Has(o)) \/ (\E i \in Positions : s \in Has(scratch'[i]))
    BY <1>4, <1>11, <1>12
  <2> QED BY <1>2, <1>6, <1>10, <2>1 DEF OwnershipInv, Holdings, LiveIsHeld, HeldBySomeone
<1>14. HeldOnce'
  BY <1>2, <1>4, <1>5, <1>12, UnclaimedOwnsNothing DEF OwnershipInv, Holdings, HeldOnce
<1>15. HeldApart'
  <2>1. \A o \in pool' : \A i \in 1 .. n : Has(o) \cap Has(taken[i]) = {}
    BY <1>1, <1>4 DEF OwnershipInv, Holdings, HeldApart
  <2>2. \A i, j \in 1 .. n : i # j => Has(taken[i]) \cap Has(taken[j]) = {}
    BY <1>1, <1>4 DEF OwnershipInv, Holdings, HeldApart
  <2>3. \A i \in 1 .. n : Has(taken[i]) \cap CallHas = {}
    BY <1>4 DEF OwnershipInv, Holdings, HeldApart
  <2> QED BY <1>10, <1>11, <1>12, <2>1, <2>2, <2>3 DEF OwnershipInv, Holdings, HeldApart
<1> QED BY <1>7, <1>8, <1>9, <1>13, <1>14, <1>15 DEF OwnershipInv, Holdings

\* A make that fails: what it had of its own is freed, and the elements are
\* destroyed by execute_tuple_construction or are the caller's again.
LEMMA MakeFailsKeepsOwnership ==
  ASSUME OwnershipInv, call.stage \in {"making", "reserved"}, NEW freed,
         freed \ {0} = {table.storage} \ {0}, MakeFails(freed)
  PROVE  OwnershipInv'
<1> DEFINE n == call.width
<1>1. n \in 0 .. Width /\ n \in Nat
  BY ConstructionAssumption DEF OwnershipInv, Typed, Calls
<1>2. /\ scratch' = Emptied(n) /\ call' = Idle /\ table' = NoPayload
      /\ UNCHANGED <<draft, capacity, moved>>
  BY DEF MakeFails
<1>3. draft = NoDraft /\ CallHas = {table.storage} \ {0} /\ CallHas' = {}
  <2>1. draft = NoDraft
    BY DEF OwnershipInv, CallHolds
  <2>2. Kept(draft.tuple) = {} /\ Kept(draft'.tuple) = {}
    BY <1>2, <2>1, EmptyValuesAreTyped, NoTupleOwnsNothing
  <2> QED BY <1>2, <2>1, <2>2 DEF CallHas, NoPayload, Payload
<1>4. 0 \notin live
  BY ConstructionAssumption DEF OwnershipInv, Typed
<1> HIDE DEF n
<1>5. /\ DOMAIN scratch' = Positions /\ scratch' = [i \in Positions |-> scratch'[i]]
      /\ \A i \in Positions : scratch'[i] = IF i <= n THEN NoOwner ELSE scratch[i]
  BY <1>2 DEF Emptied
<1>6. \A i \in Positions : Proper(scratch'[i])
  BY <1>5, UnclaimedOwnsNothing DEF OwnershipInv, Typed
<1>7. call' \in Calls /\ call'.done <= call'.width
  BY <1>2, ConstructionAssumption DEF Idle, Calls, Stages
<1>8. CallHolds'
  BY <1>2 DEF OwnershipInv, CallHolds, Idle
<1>9. SlotsOf'
  <2>1. \A i \in Positions : LeftBehind(scratch'[i].value)
    BY <1>1, <1>5, UnclaimedOwnsNothing DEF OwnershipInv, SlotsOf, LeftBehind, Positions, n
  <2> QED BY <1>2, <2>1 DEF SlotsOf, Idle
<1>10. \A i \in Positions : Has(scratch'[i]) = IF i <= n THEN {} ELSE Has(scratch[i])
  BY <1>5, UnclaimedOwnsNothing
<1>11. /\ \A s : s \in live' => s \in live
       /\ \A o \in pool' : o \in pool \/ \E i \in Positions : i <= n /\ o = scratch[i]
  BY <1>1, ConstructionAssumption DEF MakeFails, Positions, n
<1>12. Typed'
  <2>1. live' \subseteq Addresses
    BY <1>11 DEF OwnershipInv, Typed
  <2>2. \A o \in pool' : Proper(o)
    BY <1>11 DEF OwnershipInv, Typed
  <2> QED BY <1>2, <1>5, <1>6, <1>7, <2>1, <2>2, EmptyValuesAreTyped DEF OwnershipInv, Typed
<1>13. LiveIsHeld'
  <2>1. CASE call.by = "execute"
    <3>1. /\ pool' = pool
          /\ \A s : s \in live' <=>
               /\ s \in live /\ s \notin CallHas
               /\ ~\E i \in Positions : i <= n /\ s \in Has(scratch[i])
      BY <1>1, <1>3, <1>4, <2>1, WhatIsDestroyed DEF MakeFails, n
    <3> QED BY <1>3, <1>10, <3>1
            DEF OwnershipInv, Holdings, LiveIsHeld, HeldBySomeone, HeldApart
  <2>2. CASE call.by # "execute"
    <3>1. /\ \A s : s \in live' <=> s \in live /\ s \notin CallHas
          /\ \A o : o \in pool' <=> o \in pool \/ \E i \in Positions : i <= n /\ o = scratch[i]
      BY <1>1, <1>3, <1>4, <2>2, ConstructionAssumption DEF MakeFails, Positions, n
    <3>2. \A s : (\E o \in pool' : s \in Has(o)) <=>
                   \/ \E o \in pool : s \in Has(o)
                   \/ \E i \in Positions : i <= n /\ s \in Has(scratch[i])
      BY <3>1
    <3> QED BY <1>3, <1>10, <3>1, <3>2
            DEF OwnershipInv, Holdings, LiveIsHeld, HeldBySomeone, HeldApart
  <2> QED BY <2>1, <2>2
<1>14. HeldOnce'
  BY <1>2, <1>3, <1>5, <1>11, UnclaimedOwnsNothing, NoTupleOwnsNothing, EmptyValuesAreTyped
     DEF OwnershipInv, Holdings, HeldOnce
<1>15. HeldApart'
  BY <1>3, <1>10, <1>11 DEF OwnershipInv, Holdings, HeldApart
<1> QED BY <1>8, <1>9, <1>12, <1>13, <1>14, <1>15 DEF OwnershipInv, Holdings

LEMMA FailedMakesKeepOwnership ==
  ASSUME OwnershipInv, TableRefused \/ ArraysRefused PROVE OwnershipInv'
<1>1. CASE TableRefused
  <2>1. table.storage = 0
    BY <1>1 DEF TableRefused, OwnershipInv, CallHolds, NoPayload, Payload
  <2> QED BY <1>1, <2>1, MakeFailsKeepsOwnership DEF TableRefused
<1>2. CASE ArraysRefused
  BY <1>2, MakeFailsKeepsOwnership DEF ArraysRefused
<1> QED BY <1>1, <1>2

\* The root's table, admitted: a storage nobody owns, or none for no elements.
LEMMA TableIsFresh ==
  ASSUME NEW n \in 0 .. Width, NEW p \in NewTables(n)
  PROVE  /\ p \in Payloads
         /\ ({p.storage} \ {0}) \subseteq Addresses
         /\ ({p.storage} \ {0}) \cap live = {}
<1>1. CASE n = 0
  BY <1>1, EmptyValuesAreTyped DEF NewTables, NoPayload, Payload
<1>2. CASE n # 0
  <2>1. PICK s \in Free : p = Payload(s, n)
    BY <1>2 DEF NewTables
  <2>2. n \in Nat
    BY ConstructionAssumption
  <2> QED BY <2>1, <2>2, FreshIsFree
<1> QED BY <1>1, <1>2

\* A table is reserved while nothing else is the call's own.
LEMMA AdmittedKeepsOwnership ==
  ASSUME OwnershipInv, NEW n \in 0 .. Width, Admitted(n), call.stage \in {"idle", "making"},
         UNCHANGED <<pool, scratch, draft>>,
         call' \in Calls, call'.done <= call'.width, call'.stage \in {"reserved", "assembling"},
         call'.stage = "reserved" => call'.done = 0,
         {capacity', moved'} \subseteq CountRecords, SlotsOf'
  PROVE  OwnershipInv'
<1>1. /\ table' \in Payloads
      /\ live' = live \cup ({table'.storage} \ {0})
      /\ ({table'.storage} \ {0}) \subseteq Addresses
      /\ ({table'.storage} \ {0}) \cap live = {}
  BY TableIsFresh DEF Admitted
<1>2. Typed'
  BY <1>1 DEF OwnershipInv, Typed
<1>3. draft = NoDraft /\ table = NoPayload
  BY DEF OwnershipInv, CallHolds
<1>4. CallHolds'
  BY <1>3 DEF OwnershipInv, CallHolds
<1>5. Kept(draft.tuple) = {} /\ Kept(draft'.tuple) = {}
  BY <1>3, NoTupleOwnsNothing, EmptyValuesAreTyped
<1>6. CallHas = {} /\ CallHas' = {table'.storage} \ {0}
  BY <1>3, <1>5 DEF CallHas, NoPayload, Payload
<1>7. LiveIsHeld'
  BY <1>1, <1>6 DEF OwnershipInv, Holdings, LiveIsHeld, HeldBySomeone
<1>8. HeldOnce'
  BY <1>5 DEF OwnershipInv, Holdings, HeldOnce
<1>9. \A s \in CallHas' : ~HeldBySomeone(s)
  BY <1>1, <1>6 DEF OwnershipInv, Holdings, LiveIsHeld
<1>10. HeldApart'
  BY <1>9 DEF OwnershipInv, Holdings, HeldApart, HeldBySomeone
<1> QED BY <1>2, <1>4, <1>7, <1>8, <1>10 DEF OwnershipInv, Holdings

LEMMA ReserveTableKeepsOwnership ==
  ASSUME OwnershipInv, ReserveTable PROVE OwnershipInv'
<1>1. call' = [stage |-> "reserved", by |-> call.by, width |-> call.width, done |-> call.done]
  BY DEF ReserveTable, OwnershipInv, Typed, Calls
<1>2. call' \in Calls /\ call'.done <= call'.width
  BY <1>1 DEF OwnershipInv, Typed, Calls, Stages
<1>3. SlotsOf'
  BY <1>1 DEF ReserveTable, OwnershipInv, SlotsOf
<1>4. {capacity', moved'} \subseteq CountRecords /\ call.width \in 0 .. Width
  BY DEF ReserveTable, OwnershipInv, Typed, Calls
<1>5. call'.done = 0
  BY <1>1 DEF ReserveTable, OwnershipInv, CallHolds
<1> QED BY <1>1, <1>2, <1>3, <1>5, <1>4, AdmittedKeepsOwnership DEF ReserveTable

LEMMA PreadmitKeepsOwnership ==
  ASSUME OwnershipInv, Preadmit PROVE OwnershipInv'
<1>0. PICK n \in 0 .. Width :
        \E plan \in [1 .. n -> Planned] :
          /\ Admitted(n)
          /\ capacity' = Total(plan, n)
          /\ call' = [stage |-> "assembling", by |-> "caller", width |-> n, done |-> 0]
  BY DEF Preadmit
<1>1. PICK plan \in [1 .. n -> Planned] :
        /\ Admitted(n)
        /\ capacity' = Total(plan, n)
        /\ call' = [stage |-> "assembling", by |-> "caller", width |-> n, done |-> 0]
  BY <1>0
<1>2. call' \in Calls /\ call'.done <= call'.width
  BY <1>1, ConstructionAssumption DEF Calls, Stages
<1>3. Planned \subseteq CountRecords /\ moved' \in CountRecords
  BY DEF Preadmit, Planned, Counts, CountRecords, NoCounts
<1>4. capacity' \in CountRecords
  BY <1>1, <1>3, TotalIsTyped
<1>5. SlotsOf'
  BY <1>1, ConstructionAssumption DEF Preadmit, SlotsOf, LeftBehind, Held, Positions
<1>6. call.stage = "idle"
  BY DEF Preadmit, Idle
<1> QED BY <1>1, <1>2, <1>3, <1>4, <1>5, <1>6, AdmittedKeepsOwnership DEF Preadmit

\* A step that only moves the call on.
LEMMA CallMovesOn ==
  ASSUME OwnershipInv, UNCHANGED <<pool, scratch, live, table, draft, capacity, moved>>,
         call' \in Calls, call'.done <= call'.width, call'.stage # "idle",
         CallHolds', SlotsOf'
  PROVE  OwnershipInv'
<1>1. Typed'
  BY DEF OwnershipInv, Typed
<1>2. CallHas' = CallHas
  BY DEF CallHas
<1>3. Holdings'
  BY <1>2 DEF OwnershipInv, Holdings, LiveIsHeld, HeldBySomeone, HeldOnce, HeldApart
<1> QED BY <1>1, <1>3 DEF OwnershipInv

LEMMA ArraysAllocatedKeepsOwnership ==
  ASSUME OwnershipInv, ArraysAllocated PROVE OwnershipInv'
<1>1. /\ call' = [stage |-> "moving", by |-> call.by, width |-> call.width, done |-> call.done]
      /\ call.done = 0 /\ draft = NoDraft
  BY DEF ArraysAllocated, OwnershipInv, Typed, Calls, CallHolds
<1>2. call' \in Calls /\ call'.done <= call'.width
  BY <1>1 DEF OwnershipInv, Typed, Calls, Stages
<1>3. CallHolds'
  BY <1>1 DEF ArraysAllocated, OwnershipInv, CallHolds
<1>4. SlotsOf'
  BY <1>1 DEF ArraysAllocated, OwnershipInv, SlotsOf, Positions
<1> QED BY <1>1, <1>2, <1>3, <1>4, CallMovesOn DEF ArraysAllocated

LEMMA BeginPublishKeepsOwnership ==
  ASSUME OwnershipInv, BeginPublish PROVE OwnershipInv'
<1>1. call' = [stage |-> "publishing", by |-> call.by, width |-> call.width, done |-> 0]
  BY DEF BeginPublish, OwnershipInv, Typed, Calls
<1>2. call' \in Calls /\ call'.done <= call'.width
  BY <1>1, ConstructionAssumption DEF OwnershipInv, Typed, Calls, Stages
<1>3. CallHolds'
  BY <1>1 DEF BeginPublish, OwnershipInv, CallHolds
<1>4. SlotsOf'
  BY <1>1 DEF BeginPublish, OwnershipInv, SlotsOf, Positions
<1> QED BY <1>1, <1>2, <1>3, <1>4, CallMovesOn DEF BeginPublish

LEMMA CountsAreTyped ==
  ASSUME NEW v \in ValueRecords
  PROVE  CountsOf(v) \in CountRecords
<1>1. v.tuple \in Arenas
  BY DEF ValueRecords
<1> DEFINE a == Len(v.tuple.nodes)
           b == Len(v.tuple.child_indexes)
           c == Len(v.tuple.vector_payloads)
           d == Len(v.tuple.reservations)
<1>2. a \in Nat /\ b \in Nat /\ c \in Nat /\ d \in Nat
  <2>1. /\ v.tuple.nodes \in Seq(NodeRecords) /\ v.tuple.child_indexes \in Seq(Nat)
        /\ v.tuple.vector_payloads \in Seq(Payloads) /\ v.tuple.reservations \in Seq(Payloads)
    BY <1>1 DEF Arenas
  <2> QED BY <2>1, LenProperties
<1>3. CountsOf(v) = IF v.container # "tuple"
                    THEN Counts(1, 0, IF v.container = "vector" THEN 1 ELSE 0, 0)
                    ELSE Counts(a + 1, b, c, d + 1)
  BY DEF CountsOf
<1> HIDE DEF a, b, c, d
<1> QED BY <1>2, <1>3 DEF Counts, CountRecords

LEMMA TransferKeepsOwnership ==
  ASSUME OwnershipInv, Transfer PROVE OwnershipInv'
<1> DEFINE k == call.done + 1
<1>1. k \in Positions /\ k <= call.width
  BY ConstructionAssumption DEF Transfer, OwnershipInv, Typed, Calls, Positions
<1>2. PICK o \in pool :
        /\ scratch' = [scratch EXCEPT ![k] = o]
        /\ pool' = pool \ {o}
        /\ moved' = Plus(moved, CountsOf(o.value))
  BY DEF Transfer
<1>3. call' = [call EXCEPT !.done = k] /\ UNCHANGED <<live, table, draft, capacity>>
  BY DEF Transfer
<1>4. ~scratch[k].value.claimed /\ Has(scratch[k]) = {}
  <2>1. ~scratch[k].value.claimed
    BY <1>1 DEF Transfer, OwnershipInv, SlotsOf, Typed, Calls
  <2> QED BY <2>1, UnclaimedOwnsNothing
<1> HIDE DEF k
<1>5. /\ DOMAIN scratch' = Positions /\ scratch' = [i \in Positions |-> scratch'[i]]
      /\ \A i \in Positions : scratch'[i] = IF i = k THEN o ELSE scratch[i]
  BY <1>1, <1>2 DEF OwnershipInv, Typed
<1>6. call'.stage = "assembling" /\ call'.done = k /\ call'.width = call.width
  BY <1>3 DEF Transfer, OwnershipInv, Typed, Calls
<1>7. Typed'
  <2>1. \A i \in Positions : Proper(scratch'[i])
    BY <1>5 DEF OwnershipInv, Typed
  <2>2. call' \in Calls /\ call'.done <= call'.width /\ call'.stage # "idle"
    BY <1>1, <1>3 DEF Transfer, OwnershipInv, Typed, Calls, Positions, k
  <2>3. moved' \in CountRecords
    <3>1. CountsOf(o.value) \in CountRecords
      BY CountsAreTyped DEF OwnershipInv, Typed, Proper
    <3> QED BY <1>2, <3>1, PlusIsTyped DEF OwnershipInv, Typed
  <2> QED BY <1>2, <1>3, <1>5, <2>1, <2>2, <2>3 DEF OwnershipInv, Typed
<1>8. CallHolds'
  BY <1>3, <1>6 DEF Transfer, OwnershipInv, CallHolds
<1>9. SlotsOf'
  BY <1>1, <1>5, <1>6 DEF Transfer, OwnershipInv, SlotsOf, Typed, Calls, Positions, k
<1>10. CallHas' = CallHas
  BY <1>3 DEF CallHas
<1>11. \A i \in Positions : Has(scratch'[i]) = IF i = k THEN Has(o) ELSE Has(scratch[i])
  BY <1>5
<1>12. LiveIsHeld'
  BY <1>1, <1>2, <1>3, <1>4, <1>10, <1>11 DEF OwnershipInv, Holdings, LiveIsHeld, HeldBySomeone
<1>13. HeldOnce'
  BY <1>2, <1>3, <1>5 DEF OwnershipInv, Holdings, HeldOnce
<1>14. HeldApart'
  BY <1>1, <1>2, <1>4, <1>10, <1>11 DEF OwnershipInv, Holdings, HeldApart
<1> QED BY <1>7, <1>8, <1>9, <1>12, <1>13, <1>14 DEF OwnershipInv, Holdings

LEMMA MoveInKeepsOwnership ==
  ASSUME OwnershipInv, MoveIn PROVE OwnershipInv'
<1> DEFINE k == call.done + 1
           v == scratch[k].value
<1>1. k \in Positions /\ k <= call.width
  BY ConstructionAssumption DEF MoveIn, OwnershipInv, Typed, Calls, Positions
<1>2. /\ scratch' = [scratch EXCEPT ![k].value = Unclaimed]
      /\ draft' = MoveElement(draft, v, IdlePayload)
      /\ call' = [call EXCEPT !.done = k]
      /\ UNCHANGED <<pool, live, table, capacity, moved>>
  BY DEF MoveIn
<1>3. Proper(scratch[k]) /\ Distinct(OwnedBy(v)) /\ Has(scratch[k]) = Elements(OwnedBy(v))
  BY <1>1 DEF OwnershipInv, Typed, Holdings, HeldOnce, Has
<1>4. /\ draft' \in Drafts /\ draft'.tuple.root_reservation = NoPayload
      /\ Kept(draft'.tuple) = Kept(draft.tuple) \cup Has(scratch[k])
      /\ KeptOnce(draft'.tuple)
  <2>1. draft \in Drafts /\ draft.tuple.root_reservation = NoPayload /\ KeptOnce(draft.tuple)
    BY DEF OwnershipInv, Typed, CallHolds, Holdings, HeldOnce
  <2>2. Kept(draft.tuple) \cap Elements(OwnedBy(v)) = {}
    BY <1>1, <1>3 DEF OwnershipInv, Holdings, HeldApart, CallHas
  <2>3. v \in ValueRecords /\ Clean(v)
    BY <1>3 DEF Proper
  <2>4. IdlePayload \in Nat
    BY <2>1 DEF IdlePayload, Drafts, Arenas
  <2> HIDE DEF v
  <2> QED BY <1>2, <1>3, <2>1, <2>2, <2>3, <2>4, ElementMoves
<1>5. 0 \notin Has(scratch[k])
  BY <1>3 DEF Elements
<1> HIDE DEF k, v
<1>6. /\ DOMAIN scratch' = Positions /\ scratch' = [i \in Positions |-> scratch'[i]]
      /\ \A i \in Positions : i # k => scratch'[i] = scratch[i]
      /\ Proper(scratch'[k]) /\ ~scratch'[k].value.claimed
  <2>1. /\ DOMAIN scratch' = Positions /\ scratch' = [i \in Positions |-> scratch'[i]]
        /\ \A i \in Positions : i # k => scratch'[i] = scratch[i]
        /\ scratch'[k] = [scratch[k] EXCEPT !.value = Unclaimed]
    BY <1>1, <1>2 DEF OwnershipInv, Typed
  <2>2. scratch[k] = Owner(scratch[k].value, scratch[k].tree)
    BY <1>3 DEF Proper
  <2>3. scratch'[k] = Owner(Unclaimed, scratch[k].tree)
    BY <2>1, <2>2 DEF Owner
  <2>4. Proper(Owner(Unclaimed, scratch[k].tree))
    BY EmptyValuesAreTyped DEF Proper, Owner
  <2> QED BY <2>1, <2>3, <2>4, EmptyValuesAreTyped DEF Owner
<1>7. call'.stage = call.stage /\ call'.done = k /\ call'.width = call.width
  BY <1>2 DEF OwnershipInv, Typed, Calls
<1>8. Typed'
  <2>1. \A i \in Positions : Proper(scratch'[i])
    BY <1>6 DEF OwnershipInv, Typed
  <2>2. call' \in Calls /\ call'.done <= call'.width /\ call'.stage # "idle"
    BY <1>1, <1>2 DEF MoveIn, OwnershipInv, Typed, Calls, Positions, k
  <2> QED BY <1>2, <1>4, <1>6, <2>1, <2>2 DEF OwnershipInv, Typed
<1>9. CallHolds'
  BY <1>2, <1>4, <1>7 DEF MoveIn, OwnershipInv, CallHolds
<1>10. SlotsOf'
  BY <1>1, <1>6, <1>7 DEF MoveIn, OwnershipInv, SlotsOf, Typed, Calls, Positions, k
<1>11. CallHas' = CallHas \cup Has(scratch[k])
  BY <1>2, <1>4 DEF CallHas
<1>12. \A i \in Positions : Has(scratch'[i]) = IF i = k THEN {} ELSE Has(scratch[i])
  BY <1>6, UnclaimedOwnsNothing
<1>13. LiveIsHeld'
  BY <1>1, <1>2, <1>11, <1>12 DEF OwnershipInv, Holdings, LiveIsHeld, HeldBySomeone
<1>14. HeldOnce'
  <2>1. \A i \in Positions : Distinct(OwnedBy(scratch'[i].value))
    BY <1>6, UnclaimedOwnsNothing DEF OwnershipInv, Holdings, HeldOnce
  <2>2. table.storage \notin Kept(draft'.tuple)
    BY <1>1, <1>4, <1>5 DEF OwnershipInv, Holdings, HeldOnce, HeldApart, CallHas
  <2> QED BY <1>2, <1>4, <2>1, <2>2 DEF OwnershipInv, Holdings, HeldOnce
<1>15. HeldApart'
  BY <1>1, <1>2, <1>11, <1>12 DEF OwnershipInv, Holdings, HeldApart
<1> QED BY <1>8, <1>9, <1>10, <1>13, <1>14, <1>15 DEF OwnershipInv, Holdings

\* The tuple takes over the table and everything its arena keeps.
LEMMA DeliverKeepsOwnership ==
  ASSUME OwnershipInv, call.stage \in {"moving", "publishing"}, call.done = call.width,
         NEW t \in Arenas, t.root_reservation = table,
         Kept(t) = Kept(draft.tuple), KeptOnce(t),
         Deliver(t), UNCHANGED live, {capacity', moved'} \subseteq CountRecords
  PROVE  OwnershipInv'
<1> DEFINE n == call.width
           tree == TupleTree(table, [i \in 1 .. call.width |-> scratch[i].tree])
           o == Owner(TupleValue(t), tree)
<1>1. /\ pool' = pool \cup {o}
      /\ scratch' = Emptied(n) /\ draft' = NoDraft /\ table' = NoPayload /\ call' = Idle
  BY DEF Deliver
<1>2. Proper(o) /\ o.value = TupleValue(t)
  BY TupleValueOwns DEF Proper, Owner
<1>3. Distinct(OwnedBy(o.value)) /\ Has(o) = CallHas
  <2>1. table.storage \notin Kept(draft.tuple)
    BY DEF OwnershipInv, Holdings, HeldOnce
  <2> HIDE DEF o
  <2> QED BY <1>2, <2>1, TupleValueOwns DEF Has, CallHas
<1>4. CallHas' = {}
  BY <1>1, EmptyValuesAreTyped, NoTupleOwnsNothing DEF CallHas, NoPayload, Payload
<1>5. n \in Nat
  BY DEF OwnershipInv, Typed, Calls
<1> HIDE DEF o, tree, n
<1>6. /\ DOMAIN scratch' = Positions /\ scratch' = [i \in Positions |-> scratch'[i]]
      /\ \A i \in Positions : scratch'[i] = IF i <= n THEN NoOwner ELSE scratch[i]
  BY <1>1 DEF Emptied
<1>7. \A i \in Positions : i <= n => Has(scratch[i]) = {}
  BY UnclaimedOwnsNothing DEF OwnershipInv, SlotsOf, n
<1>8. \A i \in Positions : Has(scratch'[i]) = Has(scratch[i])
  BY <1>6, <1>7, UnclaimedOwnsNothing
<1>9. Typed'
  <2>1. \A i \in Positions : Proper(scratch'[i])
    BY <1>6, UnclaimedOwnsNothing DEF OwnershipInv, Typed
  <2>2. call' \in Calls /\ call'.done <= call'.width
    BY <1>1, ConstructionAssumption DEF Idle, Calls, Stages
  <2> QED BY <1>1, <1>2, <1>6, <2>1, <2>2, EmptyValuesAreTyped DEF OwnershipInv, Typed
<1>10. CallHolds'
  BY <1>1, EmptyValuesAreTyped DEF CallHolds, Idle, NoTuple
<1>11. SlotsOf'
  <2>1. \A i \in Positions : LeftBehind(scratch'[i].value)
    BY <1>5, <1>6, UnclaimedOwnsNothing DEF OwnershipInv, SlotsOf, LeftBehind, Positions, n
  <2> QED BY <1>1, <2>1 DEF SlotsOf, Idle
<1>12. LiveIsHeld'
  BY <1>1, <1>3, <1>4, <1>8 DEF OwnershipInv, Holdings, LiveIsHeld, HeldBySomeone
<1>13. HeldOnce'
  <2>1. KeptOnce(draft'.tuple) /\ table'.storage \notin Kept(draft'.tuple)
    BY <1>1, EmptyValuesAreTyped, NoTupleOwnsNothing
  <2>2. \A i \in Positions : Distinct(OwnedBy(scratch'[i].value))
    BY <1>6, UnclaimedOwnsNothing DEF OwnershipInv, Holdings, HeldOnce
  <2> QED BY <1>1, <1>3, <2>1, <2>2 DEF OwnershipInv, Holdings, HeldOnce
<1>14. HeldApart'
  BY <1>1, <1>3, <1>4, <1>8 DEF OwnershipInv, Holdings, HeldApart
<1> QED BY <1>9, <1>10, <1>11, <1>12, <1>13, <1>14 DEF OwnershipInv, Holdings

LEMMA MadeKeepsOwnership ==
  ASSUME OwnershipInv, Made PROVE OwnershipInv'
<1> DEFINE t == CloseTuple(draft, table)
<1>1. draft \in Drafts /\ table \in Payloads /\ KeptOnce(draft.tuple)
      /\ {capacity, moved} \subseteq CountRecords
  BY DEF OwnershipInv, Typed, Holdings, HeldOnce
<1>2. /\ t \in Arenas /\ t.root_reservation = table
      /\ Kept(t) = Kept(draft.tuple) /\ KeptOnce(t)
  BY <1>1, ClosedArena DEF Kept, KeptOnce
<1>3. /\ call.stage = "moving" /\ call.done = call.width /\ Deliver(t)
      /\ UNCHANGED <<live, capacity, moved>>
  BY DEF Made
<1> HIDE DEF t
<1> QED BY <1>1, <1>2, <1>3, DeliverKeepsOwnership

LEMMA PublishKeepsOwnership ==
  ASSUME OwnershipInv, Publish PROVE OwnershipInv'
<1> DEFINE c == CloseTuple(draft, table)
           t == Published(c)
           p == draft.tuple.vector_payloads
           r == draft.tuple.reservations
           f == Filler(capacity.payloads, Len(p), NoPayload)
           g == Filler(capacity.tables, Len(r), NoPayload)
<1>1. draft \in Drafts /\ table \in Payloads /\ KeptOnce(draft.tuple)
      /\ capacity \in CountRecords
  BY DEF OwnershipInv, Typed, Holdings, HeldOnce
<1>2. c \in Arenas /\ c.root_reservation = table
  BY <1>1, ClosedArena
<1> HIDE DEF c
<1>3. /\ t \in Arenas /\ t.root_reservation = table
      /\ t.vector_payloads = p \o f /\ t.reservations = r \o g
  BY <1>1, <1>2, PublishedArena
<1>4. p \in Seq(Payloads) /\ r \in Seq(Payloads)
  BY <1>1 DEF Drafts, Arenas
<1>5. /\ f \in Seq(Payloads) /\ Elements(Pointers(f)) = {} /\ Distinct(Pointers(f))
      /\ g \in Seq(Payloads) /\ Elements(Pointers(g)) = {} /\ Distinct(Pointers(g))
  <2>1. capacity.payloads \in Nat /\ capacity.tables \in Nat /\ Len(p) \in Nat /\ Len(r) \in Nat
    BY <1>1, <1>4, LenProperties DEF CountRecords
  <2> QED BY <2>1, FillerOwnsNothing
<1>6. Publish => Deliver(t)
  BY DEF Publish, c
<1>7. /\ Kept(draft.tuple) = Elements(Pointers(p)) \cup Elements(Pointers(r))
      /\ KeptOnce(draft.tuple) <=> Distinct(Pointers(p)) /\ Distinct(Pointers(r))
                                     /\ Elements(Pointers(p)) \cap Elements(Pointers(r)) = {}
  BY DEF Kept, KeptOnce
<1> HIDE DEF t, p, r, f, g
<1>8. Kept(t) = Kept(draft.tuple) /\ KeptOnce(t)
  <2>1. Elements(Pointers(p \o f)) = Elements(Pointers(p)) /\ Elements(Pointers(r \o g)) = Elements(Pointers(r))
    <3>1. Elements(Pointers(p \o f)) = Elements(Pointers(p)) \cup Elements(Pointers(f))
      BY <1>4, <1>5, MorePayloads, Zenon
    <3>2. Elements(Pointers(r \o g)) = Elements(Pointers(r)) \cup Elements(Pointers(g))
      BY <1>4, <1>5, MorePayloads, Zenon
    <3> QED BY <1>5, <3>1, <3>2
  <2>2. (Distinct(Pointers(p)) => Distinct(Pointers(p \o f)))
          /\ (Distinct(Pointers(r)) => Distinct(Pointers(r \o g)))
    <3>1. Elements(Pointers(p)) \cap Elements(Pointers(f)) = {}
      BY <1>5
    <3>2. Elements(Pointers(r)) \cap Elements(Pointers(g)) = {}
      BY <1>5
    <3>3. Distinct(Pointers(p)) => Distinct(Pointers(p \o f))
      BY <1>4, <1>5, <3>1, MorePayloads, Zenon
    <3>4. Distinct(Pointers(r)) => Distinct(Pointers(r \o g))
      BY <1>4, <1>5, <3>2, MorePayloads, Zenon
    <3> QED BY <3>3, <3>4
  <2> QED BY <1>1, <1>3, <1>7, <2>1, <2>2 DEF Kept, KeptOnce
<1>9. {capacity', moved'} \subseteq CountRecords
  BY DEF Publish, NoCounts, Counts, CountRecords
<1> QED BY <1>3, <1>6, <1>8, <1>9, DeliverKeepsOwnership DEF Publish

LEMMA AbandonKeepsOwnership ==
  ASSUME OwnershipInv, Abandon PROVE OwnershipInv'
<1> DEFINE n == call.width
           d == call.done
<1>1. n \in Nat /\ n <= Width /\ d \in 0 .. Width /\ d <= n
  BY ConstructionAssumption DEF OwnershipInv, Typed, Calls
<1>2. /\ live' = live \ ({table.storage} \cup Destroyed(Held(d)))
      /\ scratch' = Emptied(n) /\ table' = NoPayload /\ call' = Idle
      /\ capacity' = NoCounts /\ moved' = NoCounts
      /\ UNCHANGED <<pool, draft>>
  BY DEF Abandon
<1>3. draft = NoDraft /\ CallHas = {table.storage} \ {0} /\ CallHas' = {}
  <2>1. draft = NoDraft
    BY DEF Abandon, OwnershipInv, CallHolds
  <2>2. Kept(draft.tuple) = {} /\ Kept(draft'.tuple) = {}
    BY <1>2, <2>1, EmptyValuesAreTyped, NoTupleOwnsNothing
  <2> QED BY <1>2, <2>1, <2>2 DEF CallHas, NoPayload, Payload
<1>4. 0 \notin live
  BY ConstructionAssumption DEF OwnershipInv, Typed
<1>5. \A i \in Positions : d < i /\ i <= n => Has(scratch[i]) = {}
  BY UnclaimedOwnsNothing DEF Abandon, OwnershipInv, SlotsOf
<1> HIDE DEF n, d
<1>6. /\ DOMAIN scratch' = Positions /\ scratch' = [i \in Positions |-> scratch'[i]]
      /\ \A i \in Positions : scratch'[i] = IF i <= n THEN NoOwner ELSE scratch[i]
  BY <1>2 DEF Emptied
<1>7. Typed'
  <2>1. \A i \in Positions : Proper(scratch'[i])
    BY <1>6, UnclaimedOwnsNothing DEF OwnershipInv, Typed
  <2>2. call' \in Calls /\ call'.done <= call'.width
    BY <1>2, ConstructionAssumption DEF Idle, Calls, Stages
  <2>3. NoCounts \in CountRecords
    BY DEF NoCounts, Counts, CountRecords
  <2> QED BY <1>2, <1>6, <2>1, <2>2, <2>3, EmptyValuesAreTyped DEF OwnershipInv, Typed
<1>8. CallHolds'
  BY <1>2, <1>3, EmptyValuesAreTyped DEF CallHolds, Idle, NoTuple
<1>9. SlotsOf'
  <2>1. \A i \in Positions : LeftBehind(scratch'[i].value)
    BY <1>1, <1>6, UnclaimedOwnsNothing DEF OwnershipInv, SlotsOf, LeftBehind, Positions, n
  <2> QED BY <1>2, <2>1 DEF SlotsOf, Idle
<1>10. \A i \in Positions : Has(scratch'[i]) = IF i <= n THEN {} ELSE Has(scratch[i])
  BY <1>6, UnclaimedOwnsNothing
<1>11. \A s : s \in live' <=>
         /\ s \in live /\ s \notin CallHas
         /\ ~\E i \in Positions : i <= n /\ s \in Has(scratch[i])
  <2>1. \A s : s \in Destroyed(Held(d)) <=> \E i \in Positions : i <= d /\ s \in Has(scratch[i])
    BY <1>1, WhatIsDestroyed
  <2>2. \A s : (\E i \in Positions : i <= d /\ s \in Has(scratch[i]))
                 <=> (\E i \in Positions : i <= n /\ s \in Has(scratch[i]))
    BY <1>1, <1>5 DEF Positions
  <2> QED BY <1>2, <1>3, <1>4, <2>1, <2>2
<1>12. LiveIsHeld'
  BY <1>2, <1>3, <1>10, <1>11 DEF OwnershipInv, Holdings, LiveIsHeld, HeldBySomeone, HeldApart
<1>13. HeldOnce'
  BY <1>2, <1>3, <1>6, UnclaimedOwnsNothing, NoTupleOwnsNothing, EmptyValuesAreTyped
     DEF OwnershipInv, Holdings, HeldOnce
<1>14. HeldApart'
  BY <1>2, <1>3, <1>10 DEF OwnershipInv, Holdings, HeldApart
<1> QED BY <1>7, <1>8, <1>9, <1>12, <1>13, <1>14 DEF OwnershipInv, Holdings

(***************************************************************************)
(* The theorems.                                                           *)
(***************************************************************************)

LEMMA StepsKeepOwnership == OwnershipInv /\ [Next]_vars => OwnershipInv'
<1> SUFFICES ASSUME OwnershipInv, [Next]_vars PROVE OwnershipInv'
  OBVIOUS
<1>1. CASE UNCHANGED vars
  <2>1. CallHas' = CallHas
    BY <1>1 DEF vars, CallHas
  <2>2. Holdings'
    BY <1>1, <2>1 DEF vars, OwnershipInv, Holdings, LiveIsHeld, HeldBySomeone, HeldOnce, HeldApart
  <2>3. Typed' /\ CallHolds' /\ SlotsOf'
    BY <1>1 DEF vars, OwnershipInv, Typed, CallHolds, SlotsOf
  <2> QED BY <2>2, <2>3 DEF OwnershipInv
<1> QED BY <1>1, LiteralKeepsOwnership, DestroyKeepsOwnership, BeginExecuteKeepsOwnership,
           ProduceKeepsOwnership, CallbackFailsKeepsOwnership, OwnerKeptKeepsOwnership, BeginMakeKeepsOwnership,
           CallMakeKeepsOwnership, ReserveTableKeepsOwnership, FailedMakesKeepOwnership,
           ArraysAllocatedKeepsOwnership, MoveInKeepsOwnership, MadeKeepsOwnership,
           PreadmitKeepsOwnership, TransferKeepsOwnership, BranchKeepsOwnership,
           BeginPublishKeepsOwnership, PublishKeepsOwnership, AbandonKeepsOwnership
        DEF Next

\* The inductive invariant: the call's own storage, the slots it has not filled
\* or has emptied again, and every owner apart from every other.
THEOREM OwnershipInvariant == Spec => []OwnershipInv
<1> QED BY OwnershipAtFirst, StepsKeepOwnership, PTL DEF Spec

\* make_tuple_value, execute_tuple_construction and the preadmitted assembly
\* never lose a storage, free one twice or let two owners have it: whatever is
\* refused, fails or is abandoned, and half-way through a move too.
THEOREM EveryStorageHasOneOwner == Spec => []OneOwner
<1> QED BY OwnershipInvariant, OwnershipIsOneOwner, PTL

=============================================================================
