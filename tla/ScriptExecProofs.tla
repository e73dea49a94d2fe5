-------------------------- MODULE ScriptExecProofs --------------------------
(***************************************************************************)
(* What a script is answered, for every script and any number of faults:   *)
(* results, requests at hand and the pending group are at all times the    *)
(* operations passed so far, in script order and without repetition.  What *)
(* reaches the server keeps the contract of ScriptContract, and leaves the *)
(* points as the statements one by one would.                              *)
(***************************************************************************)
EXTENDS ScriptExec, SequenceTheorems, WellFoundedInduction, TLAPS

-----------------------------------------------------------------------------
(* Members of sequences and lists. *)

\* What is in a list is in one of its entries.
LEMMA HeldMember ==
  ASSUME NEW list, NEW x
  PROVE  x \in Held(list) <=> \E k \in DOMAIN list : x \in ToSet(list[k].ops)
  BY DEF Held

\* What is in a sequence is one of its elements.
LEMMA InSequence ==
  ASSUME NEW s, NEW x
  PROVE  x \in ToSet(s) <=> \E i \in DOMAIN s : x = s[i]
  BY DEF ToSet

\* The elements of a sequence over a set are in it.
LEMMA InBase ==
  ASSUME NEW S, NEW s \in Seq(S)
  PROVE  ToSet(s) \subseteq S
<1>1. \A i \in DOMAIN s : s[i] \in S
  BY LenProperties, ElementOfSeq
<1> QED
  BY <1>1 DEF ToSet

\* The elements of two sequences put together.
LEMMA ConcatSet ==
  ASSUME NEW S, NEW s \in Seq(S), NEW t \in Seq(S)
  PROVE  ToSet(s \o t) = ToSet(s) \cup ToSet(t)
<1> DEFINE st == s \o t
<1>1. /\ DOMAIN s = 1..Len(s) /\ DOMAIN t = 1..Len(t) /\ DOMAIN st = 1..(Len(s) + Len(t))
      /\ Len(s) \in Nat /\ Len(t) \in Nat
      /\ \A i \in 1..(Len(s) + Len(t)) : st[i] = IF i <= Len(s) THEN s[i] ELSE t[i - Len(s)]
  BY ConcatProperties, LenProperties
<1> HIDE DEF st
<1>2. ASSUME NEW x \in ToSet(st) PROVE x \in ToSet(s) \cup ToSet(t)
  <2>1. PICK i \in DOMAIN st : x = st[i]
    BY InSequence
  <2>2. CASE i <= Len(s)
    <3>1. i \in DOMAIN s /\ x = s[i]
      BY <1>1, <2>1, <2>2
    <3> QED
      BY <3>1, InSequence
  <2>3. CASE ~(i <= Len(s))
    <3>1. i - Len(s) \in DOMAIN t /\ x = t[i - Len(s)]
      BY <1>1, <2>1, <2>3
    <3> QED
      BY <3>1, InSequence
  <2> QED
    BY <2>2, <2>3
<1>3. ASSUME NEW x \in ToSet(s) PROVE x \in ToSet(st)
  <2>1. PICK i \in DOMAIN s : x = s[i]
    BY <1>3, InSequence
  <2>2. i \in DOMAIN st /\ x = st[i]
    BY <1>1, <2>1
  <2> QED
    BY <2>2, InSequence
<1>4. ASSUME NEW x \in ToSet(t) PROVE x \in ToSet(st)
  <2>1. PICK i \in DOMAIN t : x = t[i]
    BY <1>4, InSequence
  <2>2. i + Len(s) \in DOMAIN st /\ ~(i + Len(s) <= Len(s)) /\ (i + Len(s)) - Len(s) = i
    BY <1>1, <2>1
  <2>3. x = st[i + Len(s)]
    BY <1>1, <2>1, <2>2
  <2> QED
    BY <2>2, <2>3, InSequence
<1> QED
  BY <1>2, <1>3, <1>4 DEF st

-----------------------------------------------------------------------------
(* Lists of requests or responses. *)

\* A concatenated list holds what its parts hold.
LEMMA ConcatHeld ==
  ASSUME NEW S, NEW u \in Seq(S), NEW v \in Seq(S)
  PROVE  Held(u \o v) = Held(u) \cup Held(v)
<1> DEFINE uv == u \o v
<1>1. /\ DOMAIN u = 1..Len(u) /\ DOMAIN v = 1..Len(v) /\ DOMAIN uv = 1..(Len(u) + Len(v))
      /\ Len(u) \in Nat /\ Len(v) \in Nat
      /\ \A i \in 1..(Len(u) + Len(v)) : uv[i] = IF i <= Len(u) THEN u[i] ELSE v[i - Len(u)]
  BY ConcatProperties, LenProperties
<1> HIDE DEF uv
<1>2. ASSUME NEW x \in Held(uv) PROVE x \in Held(u) \cup Held(v)
  <2>1. PICK k \in DOMAIN uv : x \in ToSet(uv[k].ops)
    BY HeldMember
  <2>2. CASE k <= Len(u)
    <3>1. k \in DOMAIN u /\ uv[k] = u[k]
      BY <1>1, <2>1, <2>2
    <3> QED
      BY <3>1, <2>1, HeldMember
  <2>3. CASE ~(k <= Len(u))
    <3>1. k - Len(u) \in DOMAIN v /\ uv[k] = v[k - Len(u)]
      BY <1>1, <2>1, <2>3
    <3> QED
      BY <3>1, <2>1, HeldMember
  <2> QED
    BY <2>2, <2>3
<1>3. ASSUME NEW x \in Held(u) PROVE x \in Held(uv)
  <2>1. PICK k \in DOMAIN u : x \in ToSet(u[k].ops)
    BY <1>3, HeldMember
  <2>2. k \in DOMAIN uv /\ uv[k] = u[k]
    BY <1>1, <2>1
  <2> QED
    BY <2>1, <2>2, HeldMember
<1>4. ASSUME NEW x \in Held(v) PROVE x \in Held(uv)
  <2>1. PICK k \in DOMAIN v : x \in ToSet(v[k].ops)
    BY <1>4, HeldMember
  <2>2. k + Len(u) \in DOMAIN uv /\ ~(k + Len(u) <= Len(u)) /\ (k + Len(u)) - Len(u) = k
    BY <1>1, <2>1
  <2>3. uv[k + Len(u)] = v[k]
    BY <1>1, <2>1, <2>2
  <2> QED
    BY <2>1, <2>2, <2>3, HeldMember
<1> QED
  BY <1>2, <1>3, <1>4 DEF uv

\* It is in order when its parts are and the first comes before the second.
LEMMA ConcatOrdered ==
  ASSUME NEW S, NEW u \in Seq(S), NEW v \in Seq(S),
         Ordered(u), Ordered(v), AllBefore(Held(u), Held(v))
  PROVE  Ordered(u \o v)
<1> DEFINE uv == u \o v
<1>1. /\ DOMAIN u = 1..Len(u) /\ DOMAIN v = 1..Len(v) /\ DOMAIN uv = 1..(Len(u) + Len(v))
      /\ Len(u) \in Nat /\ Len(v) \in Nat
      /\ \A i \in 1..(Len(u) + Len(v)) : uv[i] = IF i <= Len(u) THEN u[i] ELSE v[i - Len(u)]
  BY ConcatProperties, LenProperties
<1> HIDE DEF uv
<1>2. ASSUME NEW k \in DOMAIN uv
      PROVE  \/ k <= Len(u) /\ k \in DOMAIN u /\ uv[k] = u[k]
             \/ k > Len(u) /\ k - Len(u) \in DOMAIN v /\ uv[k] = v[k - Len(u)]
  <2>1. CASE k <= Len(u)
    BY <1>1, <2>1
  <2>2. CASE ~(k <= Len(u))
    BY <1>1, <2>2
  <2> QED
    BY <2>1, <2>2
<1>3. ASSUME NEW k \in DOMAIN uv PROVE InOrder(uv[k].ops)
  BY <1>2 DEF Ordered
<1>4. ASSUME NEW k \in DOMAIN uv, NEW l \in DOMAIN uv, k < l
      PROVE  AllBefore(ToSet(uv[k].ops), ToSet(uv[l].ops))
  <2>1. CASE l <= Len(u)
    <3>1. k \in DOMAIN u /\ l \in DOMAIN u /\ uv[k] = u[k] /\ uv[l] = u[l]
      BY <1>1, <1>4, <2>1
    <3> QED
      BY <3>1, <1>4 DEF Ordered
  <2>2. CASE k > Len(u)
    <3>1. /\ k - Len(u) \in DOMAIN v /\ l - Len(u) \in DOMAIN v
          /\ uv[k] = v[k - Len(u)] /\ uv[l] = v[l - Len(u)]
          /\ k - Len(u) < l - Len(u)
      BY <1>1, <1>4, <2>2
    <3> QED
      BY <3>1 DEF Ordered
  <2>3. CASE k <= Len(u) /\ l > Len(u)
    <3>1. k \in DOMAIN u /\ uv[k] = u[k] /\ l - Len(u) \in DOMAIN v /\ uv[l] = v[l - Len(u)]
      BY <1>1, <1>4, <2>3
    <3>2. ToSet(uv[k].ops) \subseteq Held(u) /\ ToSet(uv[l].ops) \subseteq Held(v)
      BY <3>1, HeldMember
    <3> QED
      BY <3>2 DEF AllBefore
  <2> QED
    BY <2>1, <2>2, <2>3, <1>1, <1>4
<1> QED
  BY <1>3, <1>4 DEF Ordered, uv

\* The list without its first entry, and what that entry has over it.
LEMMA TailOrdered ==
  ASSUME NEW S, NEW w \in Seq(S), w # <<>>
  PROVE  /\ Head(w) \in S /\ Tail(w) \in Seq(S)
         /\ Held(w) = ToSet(Head(w).ops) \cup Held(Tail(w))
         /\ Ordered(w) => /\ InOrder(Head(w).ops) /\ Ordered(Tail(w))
                          /\ AllBefore(ToSet(Head(w).ops), Held(Tail(w)))
<1>1. /\ DOMAIN w = 1..Len(w) /\ Len(w) \in Nat \ {0}
      /\ Tail(w) \in Seq(S) /\ Head(w) \in S
      /\ DOMAIN Tail(w) = 1..(Len(w) - 1)
      /\ \A i \in 1..(Len(w) - 1) : Tail(w)[i] = w[i + 1]
  BY HeadTailProperties, LenProperties, EmptySeq
<1>2. Head(w) = w[1]
  BY <1>1
<1>3. \A i \in DOMAIN Tail(w) : i + 1 \in DOMAIN w /\ 1 < i + 1 /\ Tail(w)[i] = w[i + 1]
  BY <1>1
<1>4. 1 \in DOMAIN w
  BY <1>1
<1>5. \A k \in DOMAIN w : k = 1 \/ (k - 1 \in DOMAIN Tail(w) /\ w[k] = Tail(w)[k - 1])
  BY <1>1
<1>6. Held(w) = ToSet(Head(w).ops) \cup Held(Tail(w))
  <2>1. ASSUME NEW x \in Held(w) PROVE x \in ToSet(Head(w).ops) \cup Held(Tail(w))
    <3>1. PICK k \in DOMAIN w : x \in ToSet(w[k].ops)
      BY HeldMember
    <3> QED
      BY <3>1, <1>2, <1>5, HeldMember
  <2>2. ASSUME NEW x \in Held(Tail(w)) PROVE x \in Held(w)
    <3>1. PICK i \in DOMAIN Tail(w) : x \in ToSet(Tail(w)[i].ops)
      BY <2>2, HeldMember
    <3> QED
      BY <3>1, <1>3, HeldMember
  <2>3. ToSet(Head(w).ops) \subseteq Held(w)
    BY <1>2, <1>4, HeldMember
  <2> QED
    BY <2>1, <2>2, <2>3
<1>7. ASSUME Ordered(w) PROVE Ordered(Tail(w))
  <2>1. ASSUME NEW i \in DOMAIN Tail(w), NEW j \in DOMAIN Tail(w), i < j PROVE i + 1 < j + 1
    BY <2>1, <1>1
  <2> QED
    BY <2>1, <1>3, <1>7 DEF Ordered
<1>8. ASSUME Ordered(w) PROVE AllBefore(ToSet(Head(w).ops), Held(Tail(w)))
  <2> SUFFICES ASSUME NEW x \in ToSet(w[1].ops), NEW y \in Held(Tail(w)) PROVE Precedes(x, y)
    BY <1>2 DEF AllBefore
  <2>1. PICK i \in DOMAIN Tail(w) : y \in ToSet(Tail(w)[i].ops)
    BY HeldMember
  <2>2. AllBefore(ToSet(w[1].ops), ToSet(w[i + 1].ops))
    BY <1>3, <1>4, <1>8, <2>1 DEF Ordered
  <2> QED
    BY <2>1, <2>2, <1>3 DEF AllBefore
<1>9. Ordered(w) => InOrder(Head(w).ops)
  BY <1>2, <1>4 DEF Ordered
<1> QED
  BY <1>1, <1>6, <1>7, <1>8, <1>9

\* A list of one entry.
LEMMA OneEntry ==
  ASSUME NEW S, NEW r \in S
  PROVE  /\ <<r>> \in Seq(S) /\ Held(<<r>>) = ToSet(r.ops)
         /\ InOrder(r.ops) => Ordered(<<r>>)
<1> DEFINE one == <<r>>
<1>1. one \in Seq(S) /\ DOMAIN one = {1} /\ one[1] = r
  OBVIOUS
<1> HIDE DEF one
<1>2. \A x : x \in Held(one) <=> x \in ToSet(r.ops)
  <2> TAKE x
  <2>1. x \in Held(one) <=> \E k \in DOMAIN one : x \in ToSet(one[k].ops)
    BY HeldMember
  <2> QED
    BY <2>1, <1>1
<1>3. \A k, l \in {1} : ~(k < l)
  OBVIOUS
<1>4. InOrder(r.ops) => Ordered(one)
  BY <1>1, <1>3 DEF Ordered
<1>5. Held(one) = ToSet(r.ops)
  BY <1>2
<1> QED
  BY <1>1, <1>4, <1>5 DEF one

\* The members of a sequence in order, one by one.
LEMMA OneByOne ==
  ASSUME NEW S, NEW xs, NEW n \in Nat, NEW w \in Seq(S),
         DOMAIN xs = 1..n, DOMAIN w = 1..n, InOrder(xs),
         \A j \in 1..n : w[j].ops = <<xs[j]>>
  PROVE  Ordered(w) /\ Held(w) = ToSet(xs)
<1>1. \A x : DOMAIN <<x>> = {1} /\ <<x>>[1] = x
  OBVIOUS
<1>2. \A x : ToSet(<<x>>) = {x} /\ InOrder(<<x>>)
  <2> TAKE x
  <2>1. ToSet(<<x>>) = {x}
    BY <1>1, InSequence
  <2>2. \A i, j \in {1} : ~(i < j)
    OBVIOUS
  <2> QED
    BY <1>1, <2>1, <2>2 DEF InOrder
<1>3. Ordered(w)
  <2>1. ASSUME NEW k \in DOMAIN w PROVE InOrder(w[k].ops)
    BY <1>2
  <2>2. ASSUME NEW k \in DOMAIN w, NEW l \in DOMAIN w, k < l
        PROVE  AllBefore(ToSet(w[k].ops), ToSet(w[l].ops))
    <3>1. ToSet(w[k].ops) = {xs[k]} /\ ToSet(w[l].ops) = {xs[l]}
      BY <1>2
    <3>2. Precedes(xs[k], xs[l])
      BY <2>2 DEF InOrder
    <3> QED
      BY <3>1, <3>2 DEF AllBefore
  <2> QED
    BY <2>1, <2>2 DEF Ordered
<1>4. \A x : x \in Held(w) <=> x \in ToSet(xs)
  <2> TAKE x
  <2>1. \A j \in 1..n : x \in ToSet(w[j].ops) <=> x = xs[j]
    BY <1>2
  <2> QED
    BY <2>1, HeldMember, InSequence
<1>5. Held(w) = ToSet(xs)
  BY <1>4
<1> QED
  BY <1>3, <1>5

-----------------------------------------------------------------------------
(* The operations of a script. *)

\* Two sequences in order, the second behind the first.
LEMMA ConcatInOrder ==
  ASSUME NEW S, NEW s \in Seq(S), NEW t \in Seq(S),
         InOrder(s), InOrder(t), AllBefore(ToSet(s), ToSet(t))
  PROVE  InOrder(s \o t)
<1> DEFINE st == s \o t
<1>1. /\ DOMAIN s = 1..Len(s) /\ DOMAIN t = 1..Len(t) /\ DOMAIN st = 1..(Len(s) + Len(t))
      /\ Len(s) \in Nat /\ Len(t) \in Nat
      /\ \A i \in 1..(Len(s) + Len(t)) : st[i] = IF i <= Len(s) THEN s[i] ELSE t[i - Len(s)]
  BY ConcatProperties, LenProperties
<1> HIDE DEF st
<1>2. ASSUME NEW i \in DOMAIN st, NEW j \in DOMAIN st, i < j PROVE Precedes(st[i], st[j])
  <2>1. CASE j <= Len(s)
    <3>1. i \in DOMAIN s /\ j \in DOMAIN s /\ st[i] = s[i] /\ st[j] = s[j]
      BY <1>1, <1>2, <2>1
    <3> QED
      BY <3>1, <1>2 DEF InOrder
  <2>2. CASE i > Len(s)
    <3>1. /\ i - Len(s) \in DOMAIN t /\ j - Len(s) \in DOMAIN t
          /\ st[i] = t[i - Len(s)] /\ st[j] = t[j - Len(s)] /\ i - Len(s) < j - Len(s)
      BY <1>1, <1>2, <2>2
    <3> QED
      BY <3>1 DEF InOrder
  <2>3. CASE i <= Len(s) /\ j > Len(s)
    <3>1. i \in DOMAIN s /\ st[i] = s[i] /\ j - Len(s) \in DOMAIN t /\ st[j] = t[j - Len(s)]
      BY <1>1, <1>2, <2>3
    <3>2. st[i] \in ToSet(s) /\ st[j] \in ToSet(t)
      BY <3>1, InSequence
    <3> QED
      BY <3>2 DEF AllBefore
  <2> QED
    BY <2>1, <2>2, <2>3, <1>1, <1>2
<1> QED
  BY <1>2 DEF InOrder, st

\* The members of a statement, in order; one unless it is a block.
LEMMA Members ==
  ASSUME script \in Scripts, NEW i \in DOMAIN script
  PROVE  /\ OpsOf(i) \in Seq(Ops) /\ OpsOf(i) # <<>> /\ InOrder(OpsOf(i))
         /\ ToSet(OpsOf(i)) = {x \in Ops : x[1] = i}
         /\ <<i, 1>> \in Ops
         /\ script[i].class # "block" => DOMAIN OpsOf(i) = {1}
         /\ script[i] \in Statements
         /\ i \in Nat \ {0} /\ Len(script) \in Nat /\ DOMAIN script = 1..Len(script)
<1>1. script \in Seq(Statements)
  BY ScriptAssumption
<1>2. DOMAIN script = 1..Len(script) /\ Len(script) \in Nat
  BY <1>1, LenProperties
<1>3. \A k \in DOMAIN script : script[k] \in Statements
  BY <1>1, <1>2, ElementOfSeq
<1>4. script[i].ops # <<>> /\ (script[i].class # "block" => Len(script[i].ops) = 1)
  BY ScriptAssumption
<1>5. \A k \in DOMAIN script : script[k].ops \in Seq(Effects)
  BY <1>3 DEF Statements
<1>6. /\ DOMAIN script[i].ops = 1..Len(script[i].ops) /\ Len(script[i].ops) \in Nat \ {0}
  BY <1>4, <1>5, LenProperties, EmptySeq
<1>7. \A x : x \in Ops <=> \E k \in DOMAIN script : x \in ToSet(OpsOf(k))
  BY DEF Ops
<1>8. \A k \in DOMAIN script : \A x :
        x \in ToSet(OpsOf(k)) <=> \E j \in DOMAIN script[k].ops : x = <<k, j>>
  BY DEF ToSet, OpsOf
<1>9. OpsOf(i) \in Seq(Ops)
  <2>1. \A j \in 1..Len(script[i].ops) : <<i, j>> \in Ops
    BY <1>6, <1>7, <1>8
  <2> QED
    BY <2>1, <1>6 DEF OpsOf
<1>10. InOrder(OpsOf(i))
  BY <1>6 DEF InOrder, OpsOf, Precedes
<1>11. ToSet(OpsOf(i)) = {x \in Ops : x[1] = i}
  <2>1. \A x : x \in ToSet(OpsOf(i)) => x \in Ops /\ x[1] = i
    BY <1>7, <1>8
  <2>2. \A x \in Ops : x[1] = i => x \in ToSet(OpsOf(i))
    BY <1>7, <1>8
  <2> QED
    BY <2>1, <2>2
<1>12. DOMAIN OpsOf(i) = 1..Len(script[i].ops)
  BY <1>6 DEF OpsOf
<1>13. OpsOf(i) # <<>>
  <2>1. 1 \in DOMAIN OpsOf(i)
    BY <1>6, <1>12
  <2> QED
    BY <2>1
<1>14. <<i, 1>> \in Ops
  BY <1>6, <1>7, <1>8
<1>15. script[i].class # "block" => DOMAIN OpsOf(i) = {1}
  <2>1. Len(script[i].ops) = 1 => 1..Len(script[i].ops) = {1}
    OBVIOUS
  <2> QED
    BY <2>1, <1>4, <1>12
<1>16. i \in Nat \ {0}
  BY <1>2
<1> HIDE DEF OpsOf
<1> QED
  BY <1>2, <1>3, <1>9, <1>10, <1>11, <1>13, <1>14, <1>15, <1>16

\* An operation belongs to a statement of the script.
LEMMA OpStatement ==
  ASSUME script \in Scripts, NEW x \in Ops
  PROVE  x[1] \in DOMAIN script /\ x[1] \in Nat \ {0}
<1>1. PICK i \in DOMAIN script : x \in ToSet(OpsOf(i))
  BY DEF Ops
<1> QED
  BY <1>1, Members

-----------------------------------------------------------------------------
(* The invariant. *)

Responses == [ops : Seq(Ops), ok : BOOLEAN]

Passed(n) == {x \in Ops : x[1] <= n}

\* The last statement that was pushed or rejected.
Upto == IF pc = "prepare" THEN pos - 1 ELSE pos

\* Responses, requests at hand and pending operations follow one another.
Chain(res, w, p) ==
  /\ Ordered(res) /\ Ordered(w) /\ InOrder(p)
  /\ AllBefore(Held(res), Held(w)) /\ AllBefore(Held(res), ToSet(p))
  /\ AllBefore(Held(w), ToSet(p))

Nonempty(w) == \A k \in DOMAIN w : w[k].ops # <<>>

WireInv ==
  /\ wire.sent => work # <<>> /\ Head(work).kind \in {"single", "batch"}
  /\ ~wire.sent => wire.left = <<>>

StageInv ==
  /\ pc = "prepare" => pos \in DOMAIN script
  /\ pc \in {"done", "error"} => work = <<>> /\ pending = <<>>
  /\ pc = "done" => pos = Len(script)

GroupInv ==
  /\ \A x \in ToSet(pending) : PlannedKey(script[x[1]]) = pendingKey
  /\ pc = "prepare" => pendingKey \in {NoKey, StatementKey(script[pos])}

CompleteInv ==
  pc # "error" => Held(results) \cup Held(work) \cup ToSet(pending) = Passed(Upto)

IInv ==
  /\ TypeOK
  /\ <<>> \notin late
  /\ WireInv
  /\ Nonempty(work)
  /\ StageInv
  /\ GroupInv
  /\ Chain(results, work, pending)
  /\ CompleteInv

-----------------------------------------------------------------------------
(* Building work. *)

\* Nothing is in order.
LEMMA Nothing ==
  /\ \A S : <<>> \in Seq(S)
  /\ Held(<<>>) = {} /\ ToSet(<<>>) = {} /\ Ordered(<<>>) /\ InOrder(<<>>) /\ Nonempty(<<>>)
<1> DEFINE none == <<>>
<1>1. DOMAIN none = {}
  OBVIOUS
<1>2. \A S : none \in Seq(S)
  OBVIOUS
<1> HIDE DEF none
<1>3. Held(none) = {}
  BY <1>1 DEF Held
<1>4. ToSet(none) = {}
  BY <1>1 DEF ToSet
<1>5. Ordered(none) /\ InOrder(none) /\ Nonempty(none)
  BY <1>1 DEF Ordered, InOrder, Nonempty
<1> QED
  BY <1>2, <1>3, <1>4, <1>5 DEF none

\* Two lists of requests, none of them empty, put together.
LEMMA ConcatNonempty ==
  ASSUME NEW S, NEW u \in Seq(S), NEW v \in Seq(S), Nonempty(u), Nonempty(v)
  PROVE  Nonempty(u \o v)
<1> DEFINE uv == u \o v
<1>1. /\ DOMAIN u = 1..Len(u) /\ DOMAIN v = 1..Len(v) /\ DOMAIN uv = 1..(Len(u) + Len(v))
      /\ Len(u) \in Nat /\ Len(v) \in Nat
      /\ \A i \in 1..(Len(u) + Len(v)) : uv[i] = IF i <= Len(u) THEN u[i] ELSE v[i - Len(u)]
  BY ConcatProperties, LenProperties
<1> HIDE DEF uv
<1>2. ASSUME NEW k \in DOMAIN uv PROVE uv[k].ops # <<>>
  <2>1. CASE k <= Len(u)
    <3>1. k \in DOMAIN u /\ uv[k] = u[k]
      BY <1>1, <2>1
    <3> QED
      BY <3>1 DEF Nonempty
  <2>2. CASE ~(k <= Len(u))
    <3>1. k - Len(u) \in DOMAIN v /\ uv[k] = v[k - Len(u)]
      BY <1>1, <2>2
    <3> QED
      BY <3>1 DEF Nonempty
  <2> QED
    BY <2>1, <2>2
<1> QED
  BY <1>2 DEF Nonempty, uv

\* A request is one of the jobs.
LEMMA JobTypes ==
  ASSUME NEW xs \in Seq(Ops)
  PROVE  /\ Batch(xs) \in Jobs /\ Batch(xs).ops = xs
         /\ Failure(xs) \in Jobs /\ Failure(xs).ops = xs
  BY DEF Batch, Failure, Jobs

\* The same of a request for one operation.
LEMMA SingleType ==
  ASSUME NEW x \in Ops
  PROVE  /\ Single(x) \in Jobs /\ Single(x).ops = <<x>> /\ Single(x).ops # <<>>
         /\ ToSet(Single(x).ops) = {x} /\ InOrder(Single(x).ops)
<1>1. <<x>> \in Seq(Ops) /\ <<x>> # <<>>
  OBVIOUS
<1>2. Single(x) \in Jobs /\ Single(x).ops = <<x>>
  BY <1>1 DEF Single, Jobs
<1> DEFINE one == <<x>>
<1>3. DOMAIN one = {1} /\ one[1] = x
  OBVIOUS
<1> HIDE DEF one
<1>4. ToSet(one) = {x}
  BY <1>3, InSequence
<1>5. \A i, j \in {1} : ~(i < j)
  OBVIOUS
<1>6. InOrder(one)
  BY <1>3, <1>5 DEF InOrder
<1> QED
  BY <1>1, <1>2, <1>4, <1>6 DEF one

\* What a flush sends is the pending group, in order.
LEMMA FlushSends ==
  ASSUME pending \in Seq(Ops), InOrder(pending)
  PROVE  /\ Flush \in Seq(Jobs) /\ Held(Flush) = ToSet(pending)
         /\ Ordered(Flush) /\ Nonempty(Flush)
         /\ pending = <<>> => Flush = <<>>
<1>1. CASE pending = <<>>
  <2>1. Flush = <<>>
    BY <1>1 DEF Flush
  <2> QED
    BY <1>1, <2>1, Nothing
<1>2. ASSUME pending # <<>>, NEW job \in Jobs, Flush = <<job>>, job.ops # <<>>,
             ToSet(job.ops) = ToSet(pending), InOrder(job.ops)
      PROVE  /\ Flush \in Seq(Jobs) /\ Held(Flush) = ToSet(pending)
             /\ Ordered(Flush) /\ Nonempty(Flush)
  <2> DEFINE one == <<job>>
  <2>1. DOMAIN one = {1} /\ one[1] = job
    OBVIOUS
  <2>2. one \in Seq(Jobs) /\ Held(one) = ToSet(job.ops) /\ Ordered(one)
    BY <1>2, OneEntry
  <2> HIDE DEF one
  <2>3. Nonempty(one)
    BY <1>2, <2>1 DEF Nonempty
  <2> QED
    BY <1>2, <2>2, <2>3 DEF one
<1>3. CASE pending # <<>> /\ Len(pending) = 1
  <2>1. DOMAIN pending = {1} /\ pending[1] \in Ops
    BY <1>3, LenProperties
  <2>2. ToSet(pending) = {pending[1]}
    BY <2>1, InSequence
  <2>3. Flush = <<Single(pending[1])>>
    BY <1>3 DEF Flush
  <2> QED
    BY <1>2, <1>3, <2>1, <2>2, <2>3, SingleType
<1>4. CASE pending # <<>> /\ Len(pending) # 1
  <2>1. Flush = <<Batch(pending)>>
    BY <1>4 DEF Flush
  <2> QED
    BY <1>2, <1>4, <2>1, JobTypes
<1> QED
  BY <1>1, <1>3, <1>4

\* The operations passed grow by those of the next statement, which follow them.
LEMMA PassedGrows ==
  ASSUME script \in Scripts, NEW i \in DOMAIN script
  PROVE  /\ Passed(i) = Passed(i - 1) \cup ToSet(OpsOf(i))
         /\ AllBefore(Passed(i - 1), ToSet(OpsOf(i)))
<1>1. i \in Nat /\ ToSet(OpsOf(i)) = {x \in Ops : x[1] = i}
  BY Members
<1>2. \A x \in Ops : x[1] \in Nat
  BY OpStatement
<1>3. \A x \in Ops : x[1] <= i <=> x[1] <= i - 1 \/ x[1] = i
  BY <1>1, <1>2
<1>4. \A x, y \in Ops : x[1] <= i - 1 /\ y[1] = i => x[1] < y[1]
  BY <1>1, <1>2
<1> QED
  BY <1>1, <1>3, <1>4 DEF Passed, AllBefore, Precedes

\* The pending group, sent, takes its place in the chain.
LEMMA Flushed ==
  ASSUME IInv, work = <<>>
  PROVE  /\ Flush \in Seq(Jobs) /\ Nonempty(Flush) /\ Chain(results, Flush, <<>>)
         /\ Held(Flush) = ToSet(pending) /\ (pending = <<>> => Flush = <<>>)
<1>1. pending \in Seq(Ops) /\ InOrder(pending) /\ Ordered(results)
      /\ AllBefore(Held(results), ToSet(pending))
  BY DEF IInv, TypeOK, Chain
<1>2. /\ Flush \in Seq(Jobs) /\ Held(Flush) = ToSet(pending)
      /\ Ordered(Flush) /\ Nonempty(Flush)
      /\ pending = <<>> => Flush = <<>>
  BY <1>1, FlushSends
<1>3. Chain(results, Flush, <<>>)
  BY <1>1, <1>2, Nothing DEF Chain, AllBefore
<1> QED
  BY <1>2, <1>3

\* The next statement, sent or reported behind the pending group.
LEMMA FlushedThen ==
  ASSUME IInv, work = <<>>, pc # "error", NEW i \in DOMAIN script, Upto = i - 1,
         NEW job \in Jobs, job.ops # <<>>, ToSet(job.ops) = ToSet(OpsOf(i)), InOrder(job.ops)
  PROVE  /\ Flush \o <<job>> \in Seq(Jobs) /\ Nonempty(Flush \o <<job>>)
         /\ Chain(results, Flush \o <<job>>, <<>>)
         /\ Held(results) \cup Held(Flush \o <<job>>) = Passed(i)
<1> DEFINE one == <<job>>
<1>1. /\ Flush \in Seq(Jobs) /\ Nonempty(Flush) /\ Chain(results, Flush, <<>>)
      /\ Held(Flush) = ToSet(pending)
  BY Flushed
<1>2. one \in Seq(Jobs) /\ Held(one) = ToSet(OpsOf(i)) /\ Ordered(one)
  BY OneEntry
<1>3. Nonempty(one)
  <2>1. DOMAIN one = {1} /\ one[1] = job
    OBVIOUS
  <2> QED
    BY <2>1 DEF Nonempty
<1> HIDE DEF one
<1>4. Held(results) \cup Held(Flush) = Passed(i - 1)
  BY <1>1, Nothing DEF IInv, CompleteInv
<1>5. script \in Scripts
  BY DEF IInv, TypeOK
<1>6. /\ Passed(i) = Passed(i - 1) \cup Held(one)
      /\ AllBefore(Passed(i - 1), Held(one))
  BY <1>2, <1>5, PassedGrows
<1>7. AllBefore(Held(results), Held(one)) /\ AllBefore(Held(Flush), Held(one))
  BY <1>4, <1>6 DEF AllBefore
<1>8. Flush \o one \in Seq(Jobs) /\ Nonempty(Flush \o one)
  BY <1>1, <1>2, <1>3, ConcatNonempty, ConcatProperties
<1>9. Held(Flush \o one) = Held(Flush) \cup Held(one)
  BY <1>1, <1>2, ConcatHeld
<1>10. Ordered(Flush) /\ Ordered(results) /\ AllBefore(Held(results), Held(Flush))
  BY <1>1 DEF Chain
<1>11. Ordered(Flush \o one)
  BY <1>1, <1>2, <1>7, <1>10, ConcatOrdered
<1>12. Chain(results, Flush \o one, <<>>)
  BY <1>7, <1>9, <1>10, <1>11, Nothing DEF Chain, AllBefore
<1>13. Held(results) \cup Held(Flush \o one) = Passed(i)
  BY <1>4, <1>6, <1>9
<1> QED
  BY <1>8, <1>12, <1>13 DEF one

\* The answer to the request at hand moves its operations to the results.
LEMMA HeadAnswered ==
  ASSUME IInv, work # <<>>,
         NEW r \in Seq(Responses), Ordered(r), Held(r) = ToSet(Head(work).ops)
  PROVE  /\ results \o r \in Seq(Responses)
         /\ Tail(work) \in Seq(Jobs) /\ Nonempty(Tail(work))
         /\ Chain(results \o r, Tail(work), pending)
         /\ Held(results \o r) \cup Held(Tail(work)) = Held(results) \cup Held(work)
<1>1. /\ work \in Seq(Jobs) /\ results \in Seq(Responses) /\ Nonempty(work)
      /\ Chain(results, work, pending)
  BY DEF IInv, TypeOK, Responses
<1>2. /\ Tail(work) \in Seq(Jobs) /\ Held(work) = Held(r) \cup Held(Tail(work))
      /\ Ordered(Tail(work)) /\ AllBefore(Held(r), Held(Tail(work)))
  BY <1>1, TailOrdered DEF Chain
<1>3. /\ Ordered(results) /\ AllBefore(Held(results), Held(r))
      /\ AllBefore(Held(results), Held(Tail(work))) /\ AllBefore(Held(results), ToSet(pending))
      /\ AllBefore(Held(r), ToSet(pending)) /\ AllBefore(Held(Tail(work)), ToSet(pending))
      /\ InOrder(pending)
  BY <1>1, <1>2 DEF Chain, AllBefore
<1>4. results \o r \in Seq(Responses)
  BY <1>1, ConcatProperties
<1>5. Held(results \o r) = Held(results) \cup Held(r)
  BY <1>1, ConcatHeld
<1>6. Ordered(results \o r)
  BY <1>1, <1>3, ConcatOrdered
<1>7. Chain(results \o r, Tail(work), pending)
  BY <1>2, <1>3, <1>5, <1>6 DEF Chain, AllBefore
<1>8. Nonempty(Tail(work))
  <2>1. /\ DOMAIN work = 1..Len(work) /\ DOMAIN Tail(work) = 1..(Len(work) - 1)
        /\ Len(work) \in Nat /\ \A k \in 1..(Len(work) - 1) : Tail(work)[k] = work[k + 1]
    BY <1>1, HeadTailProperties, LenProperties
  <2>2. \A k \in DOMAIN Tail(work) : k + 1 \in DOMAIN work /\ Tail(work)[k] = work[k + 1]
    BY <2>1
  <2> QED
    BY <1>1, <2>2 DEF Nonempty
<1> QED
  BY <1>2, <1>4, <1>5, <1>7, <1>8

\* The requests a lost one is replaced by take its place.
LEMMA HeadReplaced ==
  ASSUME IInv, work # <<>>,
         NEW u \in Seq(Jobs), Ordered(u), Nonempty(u), Held(u) = ToSet(Head(work).ops)
  PROVE  /\ u \o Tail(work) \in Seq(Jobs) /\ Nonempty(u \o Tail(work))
         /\ Chain(results, u \o Tail(work), pending)
         /\ Held(u \o Tail(work)) = Held(work)
<1>1. work \in Seq(Jobs) /\ Nonempty(work) /\ Chain(results, work, pending)
  BY DEF IInv, TypeOK
<1>2. /\ Tail(work) \in Seq(Jobs) /\ Held(work) = Held(u) \cup Held(Tail(work))
      /\ Ordered(Tail(work)) /\ AllBefore(Held(u), Held(Tail(work)))
  BY <1>1, TailOrdered DEF Chain
<1>3. Nonempty(Tail(work))
  <2>1. /\ DOMAIN work = 1..Len(work) /\ DOMAIN Tail(work) = 1..(Len(work) - 1)
        /\ Len(work) \in Nat /\ \A k \in 1..(Len(work) - 1) : Tail(work)[k] = work[k + 1]
    BY <1>1, HeadTailProperties, LenProperties
  <2>2. \A k \in DOMAIN Tail(work) : k + 1 \in DOMAIN work /\ Tail(work)[k] = work[k + 1]
    BY <2>1
  <2> QED
    BY <1>1, <2>2 DEF Nonempty
<1>4. Held(u \o Tail(work)) = Held(work)
  <2>1. \A v \in Seq(Jobs) : Held(u \o v) = Held(u) \cup Held(v)
    BY ConcatHeld
  <2> QED
    BY <1>2, <2>1
<1>5. u \o Tail(work) \in Seq(Jobs) /\ Nonempty(u \o Tail(work))
  BY <1>2, <1>3, ConcatProperties, ConcatNonempty
<1>6. Ordered(u \o Tail(work))
  BY <1>2, ConcatOrdered
<1> QED
  BY <1>1, <1>4, <1>5, <1>6 DEF Chain

\* An answer for each operation of a request is in order.
LEMMA AloneAnswers ==
  ASSUME NEW xs \in Seq(Ops), InOrder(xs), NEW ok \in BOOLEAN
  PROVE  /\ EachAlone(xs, ok) \in Seq(Responses)
         /\ Ordered(EachAlone(xs, ok)) /\ Held(EachAlone(xs, ok)) = ToSet(xs)
<1> DEFINE w == EachAlone(xs, ok)
<1>1. DOMAIN xs = 1..Len(xs) /\ Len(xs) \in Nat /\ \A j \in 1..Len(xs) : xs[j] \in Ops
  BY LenProperties, ElementOfSeq
<1>2. \A j \in 1..Len(xs) : <<xs[j]>> \in Seq(Ops)
  BY <1>1
<1>3. DOMAIN w = 1..Len(xs) /\ \A j \in 1..Len(xs) : w[j] = Response(<<xs[j]>>, ok)
  BY <1>1 DEF EachAlone
<1>4. w = [j \in 1..Len(xs) |-> Response(<<xs[j]>>, ok)]
  BY <1>1 DEF EachAlone
<1> HIDE DEF w
<1>5. ASSUME NEW j \in 1..Len(xs) PROVE w[j] \in Responses /\ w[j].ops = <<xs[j]>>
  <2> DEFINE one == <<xs[j]>>
  <2>1. one \in Seq(Ops) /\ w[j] = Response(one, ok)
    BY <1>2, <1>3
  <2> HIDE DEF one
  <2>2. w[j] \in Responses /\ w[j].ops = one
    BY <2>1 DEF Response, Responses
  <2> QED
    BY <2>2 DEF one
<1>6. w \in Seq(Responses)
  <2>1. \A j \in 1..Len(xs) : Response(<<xs[j]>>, ok) \in Responses
    BY <1>3, <1>5
  <2> QED
    BY <1>1, <1>4, <2>1
<1>7. Ordered(w) /\ Held(w) = ToSet(xs)
  BY <1>1, <1>3, <1>5, <1>6, OneByOne
<1> QED
  BY <1>6, <1>7 DEF w

\* So are the requests a lost batch is replaced by.
LEMMA RetriesInOrder ==
  ASSUME NEW xs \in Seq(Ops), InOrder(xs)
  PROVE  /\ Retries(xs) \in Seq(Jobs) /\ Nonempty(Retries(xs))
         /\ Ordered(Retries(xs)) /\ Held(Retries(xs)) = ToSet(xs)
<1> DEFINE w == Retries(xs)
<1>1. DOMAIN xs = 1..Len(xs) /\ Len(xs) \in Nat /\ \A j \in 1..Len(xs) : xs[j] \in Ops
  BY LenProperties, ElementOfSeq
<1>2. \A j \in 1..Len(xs) : <<xs[j]>> \in Seq(Ops) /\ <<xs[j]>> # <<>>
  BY <1>1
<1>3. DOMAIN w = 1..Len(xs)
      /\ \A j \in 1..Len(xs) : w[j] = Failure(<<xs[j]>>) \/ w[j] = Single(xs[j])
  BY <1>1 DEF Retries
<1>4. w = [j \in 1..Len(xs) |-> w[j]]
  BY <1>1 DEF Retries
<1> HIDE DEF w
<1>5. ASSUME NEW j \in 1..Len(xs) PROVE w[j] \in Jobs /\ w[j].ops = <<xs[j]>>
  <2> DEFINE one == <<xs[j]>>
  <2>1. one \in Seq(Ops) /\ (w[j] = Failure(one) \/ w[j] = Single(xs[j]))
    BY <1>2, <1>3
  <2>2. Single(xs[j]) \in Jobs /\ Single(xs[j]).ops = one
    BY <1>1, SingleType
  <2> HIDE DEF one
  <2>3. Failure(one) \in Jobs /\ Failure(one).ops = one
    BY <2>1, JobTypes
  <2>4. w[j] \in Jobs /\ w[j].ops = one
    BY <2>1, <2>2, <2>3
  <2> QED
    BY <2>4 DEF one
<1>6. w \in Seq(Jobs)
  BY <1>1, <1>4, <1>5
<1>7. Ordered(w) /\ Held(w) = ToSet(xs)
  BY <1>1, <1>3, <1>5, <1>6, OneByOne
<1>8. Nonempty(w)
  BY <1>2, <1>3, <1>5 DEF Nonempty
<1> QED
  BY <1>6, <1>7, <1>8 DEF w

-----------------------------------------------------------------------------
(* Every step keeps the invariant. *)

\* The script does not change, nor what is said about its operations.
LEMMA ScriptKept ==
  ASSUME script' = script
  PROVE  /\ Ops' = Ops /\ Jobs' = Jobs /\ Responses' = Responses
         /\ \A i : OpsOf(i)' = OpsOf(i)
<1>1. Ops' = Ops
  BY DEF Ops, OpsOf
<1> QED
  BY <1>1 DEF Jobs, Responses, OpsOf

\* With no request under way the wire is quiet.
LEMMA WireQuiet ==
  ASSUME IInv, work = <<>> \/ Head(work).kind = "failure"
  PROVE  wire = Quiet
<1>1. ~wire.sent /\ wire.left = <<>>
  BY DEF IInv, WireInv
<1>2. wire \in [sent : BOOLEAN, left : Seq(Ops)]
  BY DEF IInv, TypeOK
<1> QED
  BY <1>1, <1>2 DEF Quiet

\* The keys statements have.
LEMMA KeyTypes ==
  ASSUME NEW s \in Statements
  PROVE  PlannedKey(s) \in Keys /\ StatementKey(s) \in Keys
  BY DEF Statements, PlannedKey, StatementKey, Keys, NoKey

\* What is left of a request that is given up joins the stragglers.
LEMMA GivenUp ==
  ASSUME IInv, GiveUp
  PROVE  late' \subseteq Seq(Ops) /\ <<>> \notin late' /\ wire' = Quiet
<1>1. late \subseteq Seq(Ops) /\ wire.left \in Seq(Ops) /\ <<>> \notin late
  BY DEF IInv, TypeOK
<1> QED
  BY <1>1 DEF GiveUp

\* A fault stays within the bound.
LEMMA FaultCounts ==
  ASSUME IInv
  PROVE  /\ faults \in 0..MaxFaults
         /\ Fault => faults' \in 0..MaxFaults
<1>1. faults \in 0..MaxFaults /\ MaxFaults \in Nat
  BY ScriptAssumption DEF IInv, TypeOK
<1> QED
  BY <1>1 DEF Fault

\* The call ends with an error.
LEMMA Ends ==
  ASSUME IInv, EndWithError,
         UNCHANGED <<script, mode, pos, results, log, straggled>>,
         wire' = Quiet, faults' \in 0..MaxFaults,
         late' \subseteq Seq(Ops), <<>> \notin late'
  PROVE  IInv'
<1>1. Ops' = Ops /\ Jobs' = Jobs
  BY ScriptKept
<1>2. work' = <<>> /\ pending' = <<>> /\ pendingKey' = NoKey /\ pc' = "error"
  BY DEF EndWithError, ClearGrouper
<1>3. TypeOK'
  BY <1>1, <1>2, Nothing DEF IInv, TypeOK, Keys, Quiet
<1>4. WireInv' /\ StageInv' /\ GroupInv' /\ CompleteInv' /\ Nonempty(work)'
  BY <1>2, Nothing DEF WireInv, Quiet, StageInv, GroupInv, CompleteInv
<1>5. Chain(results, work, pending)'
  BY <1>2, Nothing DEF IInv, Chain, AllBefore
<1> QED
  BY <1>3, <1>4, <1>5 DEF IInv

\* The request at hand is answered, or reported as failed.
LEMMA Settles ==
  ASSUME IInv, work # <<>>,
         NEW r \in Seq(Responses), Ordered(r), Held(r) = ToSet(Head(work).ops),
         results' = results \o r, work' = Tail(work),
         UNCHANGED <<script, mode, pc, pos, pending, pendingKey, log, straggled>>,
         wire' = Quiet, faults' \in 0..MaxFaults,
         late' \subseteq Seq(Ops), <<>> \notin late'
  PROVE  IInv'
<1>1. Ops' = Ops /\ Jobs' = Jobs /\ Responses' = Responses
  BY ScriptKept
<1>2. /\ results' \in Seq(Responses) /\ work' \in Seq(Jobs) /\ Nonempty(work)'
      /\ Chain(results, work, pending)'
      /\ Held(results') \cup Held(work') = Held(results) \cup Held(work)
  BY HeadAnswered
<1>3. TypeOK'
  BY <1>1, <1>2, Nothing DEF IInv, TypeOK, Responses, Quiet
<1>4. WireInv' /\ StageInv' /\ GroupInv'
  BY DEF IInv, WireInv, Quiet, StageInv, GroupInv
<1>5. CompleteInv'
  BY <1>1, <1>2 DEF IInv, CompleteInv, Passed, Upto
<1> QED
  BY <1>2, <1>3, <1>4, <1>5 DEF IInv

\* A statement is rejected behind the pending group.
LEMMA Rejects ==
  ASSUME IInv, work = <<>>, pc \in {"next", "prepare"},
         NEW i \in DOMAIN script, Upto = i - 1, Reject(i), pos' = i,
         UNCHANGED <<script, mode, wire, results, server>>, faults' \in 0..MaxFaults
  PROVE  IInv'
<1>1. Ops' = Ops /\ Jobs' = Jobs
  BY ScriptKept
<1>2. script \in Scripts
  BY DEF IInv, TypeOK
<1>3. OpsOf(i) \in Seq(Ops) /\ OpsOf(i) # <<>> /\ InOrder(OpsOf(i)) /\ i \in 0..Len(script)
  <2>1. OpsOf(i) \in Seq(Ops) /\ OpsOf(i) # <<>> /\ InOrder(OpsOf(i))
    BY <1>2, Members
  <2>2. DOMAIN script = 1..Len(script) /\ Len(script) \in Nat
    BY <1>2, Members
  <2> QED
    BY <2>1, <2>2
<1>4. /\ Failure(OpsOf(i)) \in Jobs /\ Failure(OpsOf(i)).ops = OpsOf(i)
  BY <1>3, JobTypes
<1>5. /\ work' \in Seq(Jobs) /\ Nonempty(work') /\ Chain(results, work', <<>>)
      /\ Held(results) \cup Held(work') = Passed(i)
  BY <1>3, <1>4, FlushedThen DEF Reject
<1>6. pending' = <<>> /\ pendingKey' = NoKey /\ pc' = "next"
  BY DEF Reject, ClearGrouper
<1>7. wire' = Quiet
  BY WireQuiet
<1>8. TypeOK'
  BY <1>1, <1>3, <1>5, <1>6, Nothing DEF IInv, TypeOK, Keys, server
<1>9. WireInv' /\ StageInv' /\ GroupInv'
  BY <1>6, <1>7, Nothing DEF WireInv, Quiet, StageInv, GroupInv
<1>10. CompleteInv'
  BY <1>1, <1>5, <1>6, Nothing DEF CompleteInv, Passed, Upto
<1>11. Chain(results, work, pending)' /\ Nonempty(work)'
  BY <1>5, <1>6
<1>12. <<>> \notin late'
  BY DEF IInv, server
<1> QED
  BY <1>8, <1>9, <1>10, <1>11, <1>12 DEF IInv

\* The next statement of a script that has not been passed.
LEMMA NextStatement ==
  ASSUME IInv
  PROVE  /\ script \in Scripts /\ Len(script) \in Nat /\ pos \in 0..Len(script)
         /\ pos < Len(script) => pos + 1 \in DOMAIN script
<1>1. script \in Scripts /\ pos \in 0..Len(script)
  BY DEF IInv, TypeOK
<1>2. script \in Seq(Statements)
  BY <1>1, ScriptAssumption
<1>3. DOMAIN script = 1..Len(script) /\ Len(script) \in Nat
  BY <1>2, LenProperties
<1> QED
  BY <1>1, <1>3

\* A statement that was never bound or parsed is reported behind the pending group.
LEMMA RejectUnboundStep == ASSUME IInv, RejectUnbound PROVE IInv'
<1>1. pos \in Nat /\ pos + 1 \in DOMAIN script
  BY NextStatement DEF RejectUnbound
<1>2. pc = "next" /\ work = <<>> /\ Upto = (pos + 1) - 1
  BY <1>1 DEF RejectUnbound, Ready, Upto
<1>3. faults' \in 0..MaxFaults
  BY FaultCounts DEF RejectUnbound
<1> QED
  BY <1>1, <1>2, <1>3, Rejects DEF RejectUnbound

\* So is one whose preparation failed,
LEMMA FailPrepareStep == ASSUME IInv, FailPrepare PROVE IInv'
<1>1. pc = "prepare" /\ work = <<>> /\ Upto = pos - 1 /\ pos \in DOMAIN script
  BY DEF FailPrepare, Ready, Upto, IInv, StageInv
<1>2. faults' \in 0..MaxFaults
  BY FaultCounts DEF FailPrepare
<1> QED
  BY <1>1, <1>2, Rejects DEF FailPrepare

\* and one that could not be planned.
LEMMA FailPlanStep == ASSUME IInv, FailPlan PROVE IInv'
<1>1. pc = "prepare" /\ work = <<>> /\ Upto = pos - 1 /\ pos \in DOMAIN script
  BY DEF FailPlan, Ready, Upto, IInv, StageInv
<1>2. faults' \in 0..MaxFaults
  BY FaultCounts DEF FailPlan
<1> QED
  BY <1>1, <1>2, Rejects DEF FailPlan

\* The barrier sends a group of another key before the statement is prepared.
LEMMA PassBarrierStep == ASSUME IInv, PassBarrier PROVE IInv'
<1>1. Ops' = Ops /\ Jobs' = Jobs
  BY ScriptKept DEF PassBarrier
<1>2. /\ pos \in Nat /\ pos + 1 \in DOMAIN script /\ Len(script) \in Nat
      /\ pos' \in 0..Len(script) /\ pos' = pos + 1 /\ pc = "next" /\ pc' = "prepare"
      /\ work = <<>> /\ script' = script
  BY NextStatement DEF PassBarrier, Ready
<1>3. Upto = pos /\ Upto' = pos
  BY <1>2 DEF Upto
<1>4. wire' = Quiet
  BY <1>2, WireQuiet DEF PassBarrier
<1>5. CASE StatementKey(script[pos + 1]) = pendingKey
  <2>1. pending' = pending /\ pendingKey' = pendingKey /\ work' = <<>>
    BY <1>2, <1>5 DEF PassBarrier, grouper
  <2>2. TypeOK'
    BY <1>1, <1>2, <1>4, <2>1, Nothing DEF IInv, TypeOK, PassBarrier, server
  <2>3. WireInv' /\ StageInv' /\ Nonempty(work)'
    BY <1>2, <1>4, <2>1, Nothing DEF WireInv, Quiet, StageInv
  <2>4. GroupInv'
    BY <1>2, <1>5, <2>1 DEF IInv, GroupInv
  <2>5. Chain(results, work, pending)' /\ <<>> \notin late'
    BY <1>2, <2>1 DEF IInv, PassBarrier, server
  <2>6. CompleteInv'
    BY <1>1, <1>2, <1>3, <2>1 DEF IInv, CompleteInv, Passed, PassBarrier
  <2> QED
    BY <2>2, <2>3, <2>4, <2>5, <2>6 DEF IInv
<1>6. CASE StatementKey(script[pos + 1]) # pendingKey
  <2>1. pending' = <<>> /\ pendingKey' = NoKey /\ work' = Flush
    BY <1>6 DEF PassBarrier, ClearGrouper
  <2>2. /\ Flush \in Seq(Jobs) /\ Nonempty(Flush) /\ Chain(results, Flush, <<>>)
        /\ Held(Flush) = ToSet(pending)
    BY <1>2, Flushed
  <2>3. TypeOK'
    BY <1>1, <1>2, <1>4, <2>1, <2>2, Nothing DEF IInv, TypeOK, PassBarrier, server, Keys
  <2>4. WireInv' /\ StageInv' /\ GroupInv'
    BY <1>2, <1>4, <2>1, Nothing DEF WireInv, Quiet, StageInv, GroupInv
  <2>5. Chain(results, work, pending)' /\ Nonempty(work)' /\ <<>> \notin late'
    BY <2>1, <2>2 DEF IInv, PassBarrier, server
  <2>6. CompleteInv'
    BY <1>1, <1>2, <1>3, <2>1, <2>2, Nothing DEF IInv, CompleteInv, Passed, PassBarrier
  <2> QED
    BY <2>3, <2>4, <2>5, <2>6 DEF IInv
<1> QED
  BY <1>5, <1>6

\* The end of the script sends the last group, or finds nothing pending.
LEMMA FinishStep == ASSUME IInv, Finish PROVE IInv'
<1>1. Ops' = Ops /\ Jobs' = Jobs
  BY ScriptKept DEF Finish
<1>2. /\ pending' = <<>> /\ pendingKey' = NoKey /\ work' = Flush /\ pos' = pos
      /\ pc = "next" /\ pos = Len(script) /\ script' = script /\ work = <<>>
      /\ pc' \in {"next", "done"} /\ (pc' = "done" => pending = <<>>)
  BY DEF Finish, Ready, ClearGrouper
<1>3. /\ Flush \in Seq(Jobs) /\ Nonempty(Flush) /\ Chain(results, Flush, <<>>)
      /\ Held(Flush) = ToSet(pending) /\ (pending = <<>> => Flush = <<>>)
  BY <1>2, Flushed
<1>4. wire' = Quiet
  BY <1>2, WireQuiet DEF Finish
<1>5. TypeOK'
  BY <1>1, <1>2, <1>3, <1>4, Nothing DEF IInv, TypeOK, Finish, server, Keys
<1>6. WireInv' /\ StageInv' /\ GroupInv'
  BY <1>2, <1>3, <1>4, Nothing DEF WireInv, Quiet, StageInv, GroupInv
<1>7. Chain(results, work, pending)' /\ Nonempty(work)' /\ <<>> \notin late'
  BY <1>2, <1>3 DEF IInv, Finish, server
<1>8. CompleteInv'
  BY <1>1, <1>2, <1>3, Nothing DEF IInv, CompleteInv, Passed, Upto, Finish
<1> QED
  BY <1>5, <1>6, <1>7, <1>8 DEF IInv

\* A planned statement goes alone, starts a group or joins the pending one.
LEMMA PushStep == ASSUME IInv, Push PROVE IInv'
<1> DEFINE key == PlannedKey(script[pos])
           ops == OpsOf(pos)
<1>1. Ops' = Ops /\ Jobs' = Jobs
  BY ScriptKept DEF Push
<1>2. /\ pos' = pos /\ script' = script /\ pos \in DOMAIN script /\ pc = "prepare"
      /\ pc' = "next" /\ work = <<>> /\ script \in Scripts
  BY DEF Push, Ready, IInv, StageInv, TypeOK
<1>3. Upto = pos - 1 /\ Upto' = pos
  BY <1>2 DEF Upto
<1>4. wire' = Quiet
  BY <1>2, WireQuiet DEF Push
<1>5. /\ ops \in Seq(Ops) /\ ops # <<>> /\ InOrder(ops) /\ ToSet(ops) = {x \in Ops : x[1] = pos}
      /\ <<pos, 1>> \in Ops /\ (script[pos].class # "block" => DOMAIN ops = {1})
      /\ script[pos] \in Statements
  BY <1>2, Members
<1>6. key \in Keys
  BY <1>5, KeyTypes
<1>7. /\ Flush \in Seq(Jobs) /\ Nonempty(Flush) /\ Chain(results, Flush, <<>>)
      /\ Held(Flush) = ToSet(pending)
  BY <1>2, Flushed
<1>8. /\ pending \in Seq(Ops) /\ Chain(results, work, pending)
      /\ Held(results) \cup ToSet(pending) = Passed(pos - 1)
  BY <1>2, <1>3, Nothing DEF IInv, TypeOK, CompleteInv
<1>9. Passed(pos) = Passed(pos - 1) \cup ToSet(ops) /\ AllBefore(Passed(pos - 1), ToSet(ops))
  BY <1>2, PassedGrows
<1>10. AllBefore(Held(results), ToSet(ops)) /\ AllBefore(ToSet(pending), ToSet(ops))
  BY <1>8, <1>9 DEF AllBefore
<1>11. ASSUME work' \in Seq(Jobs), Nonempty(work'), pending' \in Seq(Ops), pendingKey' \in Keys,
              pending' = <<>> <=> pendingKey' = NoKey, Chain(results, work', pending'),
              Held(results) \cup Held(work') \cup ToSet(pending') = Passed(pos),
              \A x \in ToSet(pending') : PlannedKey(script[x[1]]) = pendingKey'
       PROVE  IInv'
  <2>1. TypeOK'
    BY <1>1, <1>2, <1>4, <1>11, Nothing DEF IInv, TypeOK, Push, server
  <2>2. WireInv' /\ StageInv'
    BY <1>2, <1>4 DEF WireInv, Quiet, StageInv
  <2>3. GroupInv'
    BY <1>2, <1>11 DEF GroupInv
  <2>4. CompleteInv'
    BY <1>1, <1>2, <1>3, <1>11 DEF CompleteInv, Passed, Push
  <2>5. Chain(results, work, pending)' /\ Nonempty(work)' /\ <<>> \notin late'
    BY <1>11 DEF IInv, Push, server
  <2> QED
    BY <2>1, <2>2, <2>3, <2>4, <2>5 DEF IInv
<1> HIDE DEF key, ops
<1>12. CASE key = NoKey
  <2> DEFINE job == IF script[pos].class = "block" THEN Batch(ops) ELSE Single(<<pos, 1>>)
  <2>1. work' = Append(Flush, job) /\ pending' = <<>> /\ pendingKey' = NoKey
    BY <1>12 DEF Push, ClearGrouper, key, ops
  <2>2. /\ job \in Jobs /\ job.ops # <<>> /\ ToSet(job.ops) = ToSet(ops) /\ InOrder(job.ops)
    <3>1. CASE script[pos].class = "block"
      <4>1. job = Batch(ops)
        BY <3>1
      <4> QED
        BY <1>5, <4>1, JobTypes
    <3>2. CASE script[pos].class # "block"
      <4>1. job = Single(<<pos, 1>>)
        BY <3>2
      <4>2. ops[1] = <<pos, 1>> /\ DOMAIN ops = {1}
        BY <1>5, <3>2 DEF ops, OpsOf
      <4>3. ToSet(ops) = {<<pos, 1>>}
        BY <4>2, InSequence
      <4> QED
        BY <1>5, <4>1, <4>3, SingleType
    <3> QED
      BY <3>1, <3>2
  <2> HIDE DEF job
  <2>3. work' = Flush \o <<job>>
    BY <1>7, <2>1, <2>2, AppendIsConcat
  <2>4. /\ work' \in Seq(Jobs) /\ Nonempty(work') /\ Chain(results, work', <<>>)
        /\ Held(results) \cup Held(work') = Passed(pos)
    BY <1>2, <1>3, <2>2, <2>3, FlushedThen DEF ops
  <2> QED
    BY <1>11, <2>1, <2>4, Nothing DEF Keys
<1>13. CASE key # NoKey /\ pending # <<>> /\ key # pendingKey
  <2>1. work' = Flush /\ pending' = ops /\ pendingKey' = key
    BY <1>13 DEF Push, key, ops
  <2>2. Chain(results, Flush, ops)
    BY <1>5, <1>7, <1>10 DEF Chain
  <2>3. Held(results) \cup Held(Flush) \cup ToSet(ops) = Passed(pos)
    BY <1>7, <1>8, <1>9
  <2>4. \A x \in ToSet(ops) : PlannedKey(script[x[1]]) = key
    BY <1>5 DEF key
  <2> QED
    BY <1>5, <1>6, <1>7, <1>11, <1>13, <2>1, <2>2, <2>3, <2>4
<1>14. CASE key # NoKey /\ (pending = <<>> \/ key = pendingKey)
  <2>1. work' = <<>> /\ pending' = pending \o ops /\ pendingKey' = key
    BY <1>2, <1>14 DEF Push, key, ops
  <2>2. ToSet(pending \o ops) = ToSet(pending) \cup ToSet(ops)
    BY <1>5, <1>8, ConcatSet
  <2>3. InOrder(pending \o ops)
    BY <1>5, <1>8, <1>10, ConcatInOrder DEF Chain
  <2>4. Chain(results, <<>>, pending \o ops)
    BY <1>8, <1>10, <2>2, <2>3, Nothing DEF Chain, AllBefore
  <2>5. Held(results) \cup Held(<<>>) \cup ToSet(pending \o ops) = Passed(pos)
    BY <1>8, <1>9, <2>2, Nothing
  <2>6. pending \o ops \in Seq(Ops) /\ pending \o ops # <<>>
    BY <1>5, <1>8, ConcatProperties, ConcatEqualIffEmpty
  <2>7. \A x \in ToSet(pending \o ops) : PlannedKey(script[x[1]]) = key
    <3>1. \A x \in ToSet(ops) : PlannedKey(script[x[1]]) = key
      BY <1>5 DEF key
    <3>2. \A x \in ToSet(pending) : PlannedKey(script[x[1]]) = key
      BY <1>14, Nothing DEF IInv, GroupInv
    <3> QED
      BY <2>2, <3>1, <3>2
  <2> QED
    BY <1>6, <1>11, <1>14, <2>1, <2>4, <2>5, <2>6, <2>7, Nothing
<1> QED
  BY <1>12, <1>13, <1>14

\* What is at the head of the work.
LEMMA HeadJob ==
  ASSUME IInv, work # <<>>
  PROVE  /\ Head(work) \in Jobs /\ Head(work).ops \in Seq(Ops) /\ InOrder(Head(work).ops)
<1>1. work \in Seq(Jobs) /\ Ordered(work)
  BY DEF IInv, TypeOK, Chain
<1>2. Head(work) \in Jobs /\ InOrder(Head(work).ops)
  BY <1>1, TailOrdered
<1> QED
  BY <1>2 DEF Jobs

\* A request that failed as a whole is answered with one failed response.
LEMMA FailedResponse ==
  ASSUME IInv, work # <<>>, results' = Append(results, Response(Head(work).ops, FALSE))
  PROVE  LET r == <<Response(Head(work).ops, FALSE)>>
         IN  /\ r \in Seq(Responses) /\ Ordered(r) /\ Held(r) = ToSet(Head(work).ops)
             /\ results' = results \o r
<1> DEFINE one == Response(Head(work).ops, FALSE)
<1>1. one \in Responses /\ one.ops = Head(work).ops
  BY HeadJob DEF Response, Responses
<1> HIDE DEF one
<1>2. <<one>> \in Seq(Responses) /\ Ordered(<<one>>) /\ Held(<<one>>) = ToSet(Head(work).ops)
  BY <1>1, HeadJob, OneEntry
<1>3. results \in Seq(Responses)
  BY DEF IInv, TypeOK, Responses
<1>4. results' = results \o <<one>>
  BY <1>1, <1>3, AppendIsConcat DEF one
<1> QED
  BY <1>2, <1>4 DEF one

\* A failure is reported: with an error, or with a failed response.
LEMMA ReportStep == ASSUME IInv, Report PROVE IInv'
<1>1. /\ work # <<>> /\ Head(work).kind = "failure" /\ faults' \in 0..MaxFaults
      /\ late' \subseteq Seq(Ops) /\ <<>> \notin late'
  BY FaultCounts DEF Report, NextIs, IInv, TypeOK, server
<1>2. wire' = Quiet
  BY <1>1, WireQuiet DEF Report
<1>3. CASE mode = "stop" /\ EndWithError /\ UNCHANGED results
  BY <1>1, <1>2, <1>3, Ends DEF Report, server
<1>4. CASE /\ results' = Append(results, Response(Head(work).ops, FALSE))
           /\ work' = Tail(work) /\ UNCHANGED <<grouper, pc>>
  BY <1>1, <1>2, <1>4, FailedResponse, Settles DEF Report, server, grouper
<1> QED
  BY <1>3, <1>4 DEF Report

\* A request leaves.
LEMMA SendStep == ASSUME IInv, Send PROVE IInv'
<1>1. Ops' = Ops /\ Jobs' = Jobs
  BY ScriptKept DEF Send
<1>2. work # <<>> /\ Head(work).kind \in {"single", "batch"}
  BY DEF Send, NextIs
<1>3. wire' \in [sent : BOOLEAN, left : Seq(Ops)] /\ wire'.sent
  BY <1>2, HeadJob DEF Send
<1>4. TypeOK'
  BY <1>1, <1>3 DEF IInv, TypeOK, Send, server, grouper
<1>5. WireInv'
  BY <1>2, <1>3 DEF WireInv, Send
<1>6. StageInv' /\ GroupInv' /\ Chain(results, work, pending)' /\ Nonempty(work)'
      /\ <<>> \notin late'
  BY DEF IInv, StageInv, GroupInv, Send, server, grouper
<1>7. CompleteInv'
  BY <1>1 DEF IInv, CompleteInv, Passed, Upto, Send, grouper
<1> QED
  BY <1>4, <1>5, <1>6, <1>7 DEF IInv

\* The server applies the next operation of the request under way.
LEMMA ServerAppliesStep == ASSUME IInv, ServerApplies PROVE IInv'
<1>1. Ops' = Ops /\ Jobs' = Jobs
  BY ScriptKept DEF ServerApplies
<1>2. /\ wire \in [sent : BOOLEAN, left : Seq(Ops)] /\ wire.left # <<>> /\ log \in Seq(Ops)
      /\ wire.sent
  BY DEF IInv, TypeOK, WireInv, ServerApplies
<1>3. Head(wire.left) \in Ops /\ Tail(wire.left) \in Seq(Ops)
  BY <1>2, HeadTailProperties
<1>4. wire' \in [sent : BOOLEAN, left : Seq(Ops)] /\ wire'.sent
  BY <1>2, <1>3 DEF ServerApplies
<1>5. log' \in Seq(Ops)
  BY <1>2, <1>3, AppendProperties DEF ServerApplies
<1>6. TypeOK'
  BY <1>1, <1>4, <1>5 DEF IInv, TypeOK, ServerApplies, grouper
<1>7. WireInv'
  BY <1>2, <1>4 DEF IInv, WireInv, ServerApplies
<1>8. StageInv' /\ GroupInv' /\ Chain(results, work, pending)' /\ Nonempty(work)'
      /\ <<>> \notin late'
  BY DEF IInv, StageInv, GroupInv, ServerApplies, grouper
<1>9. CompleteInv'
  BY <1>1 DEF IInv, CompleteInv, Passed, Upto, ServerApplies, grouper
<1> QED
  BY <1>6, <1>7, <1>8, <1>9 DEF IInv

\* A request is answered, operation by operation.
LEMMA AnsweredStep == ASSUME IInv, Answered PROVE IInv'
<1>1. /\ work # <<>> /\ faults' \in 0..MaxFaults
      /\ late' \subseteq Seq(Ops) /\ <<>> \notin late'
  BY FaultCounts DEF Answered, IInv, WireInv, TypeOK, server
<1>2. /\ EachAlone(Head(work).ops, TRUE) \in Seq(Responses)
      /\ Ordered(EachAlone(Head(work).ops, TRUE))
      /\ Held(EachAlone(Head(work).ops, TRUE)) = ToSet(Head(work).ops)
  BY <1>1, HeadJob, AloneAnswers
<1> QED
  BY <1>1, <1>2, Settles DEF Answered, server, grouper

\* An answer with another number of items fails every operation of the batch.
LEMMA MiscountedStep == ASSUME IInv, Miscounted PROVE IInv'
<1>1. /\ work # <<>> /\ faults' \in 0..MaxFaults /\ wire' = Quiet
      /\ late' \subseteq Seq(Ops) /\ <<>> \notin late'
  BY FaultCounts DEF Miscounted, NextIs, IInv, TypeOK, server
<1>2. CASE mode = "stop" /\ EndWithError /\ UNCHANGED results
  BY <1>1, <1>2, Ends DEF Miscounted, server
<1>3. CASE /\ results' = results \o EachAlone(Head(work).ops, FALSE)
           /\ work' = Tail(work) /\ UNCHANGED <<grouper, pc>>
  <2>1. /\ EachAlone(Head(work).ops, FALSE) \in Seq(Responses)
        /\ Ordered(EachAlone(Head(work).ops, FALSE))
        /\ Held(EachAlone(Head(work).ops, FALSE)) = ToSet(Head(work).ops)
    BY <1>1, HeadJob, AloneAnswers
  <2> QED
    BY <1>1, <1>3, <2>1, Settles DEF Miscounted, server, grouper
<1> QED
  BY <1>2, <1>3 DEF Miscounted

\* A lost request fails, or is taken apart when it is a batch.
LEMMA LostStep == ASSUME IInv, Lost PROVE IInv'
<1>1. /\ work # <<>> /\ faults' \in 0..MaxFaults
      /\ wire' = Quiet /\ late' \subseteq Seq(Ops) /\ <<>> \notin late'
  BY FaultCounts, GivenUp DEF Lost, IInv, WireInv
<1>2. CASE mode = "stop" /\ EndWithError /\ UNCHANGED results
  BY <1>1, <1>2, Ends DEF Lost
<1>3. CASE /\ results' = Append(results, Response(Head(work).ops, FALSE))
           /\ work' = Tail(work) /\ UNCHANGED <<grouper, pc>>
  BY <1>1, <1>3, FailedResponse, Settles DEF Lost, grouper
<1>4. CASE /\ work' = Retries(Head(work).ops) \o Tail(work)
           /\ UNCHANGED <<grouper, pc, results>>
  <2> DEFINE u == Retries(Head(work).ops)
  <2>1. u \in Seq(Jobs) /\ Ordered(u) /\ Nonempty(u) /\ Held(u) = ToSet(Head(work).ops)
    BY <1>1, HeadJob, RetriesInOrder
  <2> HIDE DEF u
  <2>2. /\ u \o Tail(work) \in Seq(Jobs) /\ Nonempty(u \o Tail(work))
        /\ Chain(results, u \o Tail(work), pending) /\ Held(u \o Tail(work)) = Held(work)
    BY <1>1, <2>1, HeadReplaced
  <2>3. work' = u \o Tail(work)
    BY <1>4 DEF u
  <2>4. Ops' = Ops /\ Jobs' = Jobs
    BY ScriptKept DEF Lost
  <2>5. TypeOK'
    BY <1>1, <1>4, <2>2, <2>3, <2>4, Nothing DEF IInv, TypeOK, Lost, Quiet, grouper
  <2>6. pc \notin {"done", "error"}
    BY <1>1 DEF IInv, StageInv
  <2>7. WireInv' /\ StageInv' /\ GroupInv'
    BY <1>1, <1>4, <2>6 DEF IInv, WireInv, Quiet, StageInv, GroupInv, Lost, grouper
  <2>8. Chain(results, work, pending)' /\ Nonempty(work)'
    BY <1>4, <2>2, <2>3 DEF grouper
  <2>9. CompleteInv'
    BY <1>4, <2>2, <2>3, <2>4 DEF IInv, CompleteInv, Passed, Upto, Lost, grouper
  <2> QED
    BY <1>1, <2>5, <2>7, <2>8, <2>9 DEF IInv
<1> QED
  BY <1>2, <1>3, <1>4 DEF Lost

\* The call is dropped wherever it is.
LEMMA TimeoutStep == ASSUME IInv, Timeout PROVE IInv'
<1>1. /\ faults' \in 0..MaxFaults
      /\ wire' = Quiet /\ late' \subseteq Seq(Ops) /\ <<>> \notin late'
  BY FaultCounts, GivenUp DEF Timeout
<1> QED
  BY <1>1, Ends DEF Timeout

\* An operation of a request that was given up arrives.
LEMMA StraggleStep == ASSUME IInv, Straggle PROVE IInv'
<1>1. Ops' = Ops /\ Jobs' = Jobs
  BY ScriptKept DEF Straggle
<1>2. PICK xs \in late :
        /\ log' = Append(log, Head(xs))
        /\ late' = (late \ {xs}) \cup ({Tail(xs)} \ {<<>>})
  BY DEF Straggle
<1>3. late \subseteq Seq(Ops) /\ <<>> \notin late /\ log \in Seq(Ops)
  BY DEF IInv, TypeOK
<1>4. Head(xs) \in Ops /\ Tail(xs) \in Seq(Ops)
  BY <1>3, HeadTailProperties
<1>5. late' \subseteq Seq(Ops) /\ <<>> \notin late'
  BY <1>2, <1>3, <1>4
<1>6. log' \in Seq(Ops)
  BY <1>2, <1>3, <1>4, AppendProperties
<1>7. TypeOK'
  BY <1>1, <1>5, <1>6 DEF IInv, TypeOK, Straggle, grouper
<1>8. WireInv' /\ StageInv' /\ GroupInv' /\ Chain(results, work, pending)' /\ Nonempty(work)'
  BY DEF IInv, WireInv, StageInv, GroupInv, Straggle, grouper
<1>9. CompleteInv'
  BY <1>1 DEF IInv, CompleteInv, Passed, Upto, Straggle, grouper
<1> QED
  BY <1>5, <1>7, <1>8, <1>9 DEF IInv

\* Nothing changes once the call has returned, nor in a step of something else.
LEMMA StutterStep == ASSUME IInv, UNCHANGED vars PROVE IInv'
<1>1. Ops' = Ops /\ Jobs' = Jobs
  BY ScriptKept DEF vars
<1>2. TypeOK'
  BY <1>1 DEF IInv, TypeOK, vars
<1>3. WireInv' /\ StageInv' /\ GroupInv' /\ Chain(results, work, pending)' /\ Nonempty(work)'
      /\ <<>> \notin late'
  BY DEF IInv, WireInv, StageInv, GroupInv, vars
<1>4. CompleteInv'
  BY <1>1 DEF IInv, CompleteInv, Passed, Upto, vars
<1> QED
  BY <1>2, <1>3, <1>4 DEF IInv

\* Before the first statement nothing is held and nothing has been passed.
LEMMA InitHolds == ASSUME Init PROVE IInv
<1>1. script \in Scripts /\ pos = 0 /\ pc = "next"
  BY DEF Init
<1>2. script \in Seq(Statements) /\ MaxFaults \in Nat
  BY <1>1, ScriptAssumption
<1>3. pos \in 0..Len(script) /\ faults \in 0..MaxFaults
  BY <1>1, <1>2, LenProperties DEF Init
<1>4. TypeOK
  BY <1>3, Nothing DEF Init, TypeOK, Keys, Quiet
<1>5. WireInv /\ StageInv /\ GroupInv /\ Nonempty(work) /\ <<>> \notin late
  BY Nothing DEF Init, WireInv, Quiet, StageInv, GroupInv
<1>6. Chain(results, work, pending)
  BY Nothing DEF Init, Chain, AllBefore
<1>7. CompleteInv
  <2>1. \A x \in Ops : ~(x[1] <= 0)
    BY <1>1, OpStatement
  <2>2. Passed(Upto) = {}
    BY <1>1, <2>1 DEF Passed, Upto
  <2> QED
    BY <2>2, Nothing DEF CompleteInv, Init
<1> QED
  BY <1>4, <1>5, <1>6, <1>7 DEF IInv

\* Every step keeps the invariant.
LEMMA StepHolds == ASSUME IInv, [Next]_vars PROVE IInv'
<1>1. CASE Next
  <2>1. CASE RejectUnbound
    BY <2>1, RejectUnboundStep
  <2>2. CASE PassBarrier
    BY <2>2, PassBarrierStep
  <2>3. CASE FailPrepare
    BY <2>3, FailPrepareStep
  <2>4. CASE FailPlan
    BY <2>4, FailPlanStep
  <2>5. CASE Push
    BY <2>5, PushStep
  <2>6. CASE Finish
    BY <2>6, FinishStep
  <2>7. CASE Report
    BY <2>7, ReportStep
  <2>8. CASE Send
    BY <2>8, SendStep
  <2>9. CASE ServerApplies
    BY <2>9, ServerAppliesStep
  <2>10. CASE Answered
    BY <2>10, AnsweredStep
  <2>11. CASE Miscounted
    BY <2>11, MiscountedStep
  <2>12. CASE Lost
    BY <2>12, LostStep
  <2>13. CASE Timeout
    BY <2>13, TimeoutStep
  <2>14. CASE Straggle
    BY <2>14, StraggleStep
  <2>15. CASE Returned
    BY <2>15, StutterStep DEF Returned
  <2> QED
    BY <1>1, <2>1, <2>2, <2>3, <2>4, <2>5, <2>6, <2>7, <2>8, <2>9, <2>10, <2>11, <2>12,
       <2>13, <2>14, <2>15 DEF Next
<1>2. CASE UNCHANGED vars
  BY <1>2, StutterStep
<1> QED
  BY <1>1, <1>2

\* The invariant holds at all times.
LEMMA Invariant == Spec => []IInv
<1>1. Init => IInv
  BY InitHolds
<1>2. IInv /\ [Next]_vars => IInv'
  BY StepHolds
<1> QED
  BY <1>1, <1>2, PTL DEF Spec

-----------------------------------------------------------------------------
(* What follows. *)

\* The state of the executor and of the grouper is of the right type, and the
\* group has a key exactly when it is not empty.
THEOREM ScriptTypeCorrect == Spec => []TypeOK
<1>1. IInv => TypeOK
  BY DEF IInv
<1> QED
  BY <1>1, Invariant, PTL

\* A call that returns has answered everything.
LEMMA AllAnswered ==
  ASSUME IInv, pc = "done"
  PROVE  Ordered(results) /\ Held(results) = Ops
<1>1. work = <<>> /\ pending = <<>> /\ pos = Len(script) /\ script \in Scripts
  BY DEF IInv, StageInv, TypeOK
<1>2. Held(results) = Passed(pos)
  BY <1>1, Nothing DEF IInv, CompleteInv, Upto
<1>3. DOMAIN script = 1..Len(script) /\ Len(script) \in Nat
  <2>1. script \in Seq(Statements)
    BY <1>1, ScriptAssumption
  <2> QED
    BY <2>1, LenProperties
<1>4. \A x \in Ops : x[1] <= pos
  BY <1>1, <1>3, OpStatement
<1>5. Passed(pos) = Ops
  BY <1>4 DEF Passed
<1> QED
  BY <1>2, <1>5 DEF IInv, Chain

\* A script of any length, with any number of lost or miscounted answers and
\* failed preparations, is answered operation by operation and in its order
\* (execute_batch_nodes_inner).
THEOREM AnsweredInOrder == Spec => []OneAnswerEach
<1>1. IInv => OneAnswerEach
  BY AllAnswered DEF OneAnswerEach, Answers
<1> QED
  BY <1>1, Invariant, PTL

\* No statement is prepared before everything outside its own batch has been
\* answered (check_statement_barrier).
THEOREM BarrierHolds == Spec => []PreparedBehindBarrier
<1>1. ASSUME IInv, Ready("prepare"), NEW y \in Ops, y[1] < pos
      PROVE  \/ y \in Answers
             \/ y \in ToSet(pending) /\ PlannedKey(script[y[1]]) = StatementKey(script[pos])
  <2>1. work = <<>> /\ pc = "prepare" /\ script \in Scripts /\ pos \in DOMAIN script
    BY <1>1 DEF Ready, IInv, StageInv, TypeOK
  <2>2. y[1] \in Nat /\ pos \in Nat
    BY <2>1, OpStatement, Members
  <2>3. y[1] <= pos - 1
    BY <1>1, <2>2
  <2>4. y \in Passed(pos - 1)
    BY <2>3 DEF Passed
  <2>5. y \in Held(results) \/ y \in ToSet(pending)
    BY <1>1, <2>1, <2>4, Nothing DEF IInv, CompleteInv, Upto
  <2>6. CASE y \in ToSet(pending)
    <3>1. pending # <<>>
      BY <2>6, Nothing
    <3>2. pendingKey # NoKey
      BY <1>1, <3>1 DEF IInv, TypeOK
    <3> QED
      BY <1>1, <2>1, <2>6, <3>2 DEF IInv, GroupInv
  <2> QED
    BY <2>5, <2>6 DEF Answers
<1>2. IInv => PreparedBehindBarrier
  <2> DEFINE first == <<pos, 1>>
  <2>1. first[1] = pos
    OBVIOUS
  <2> HIDE DEF first
  <2>2. \A y \in Before(first) : y \in Ops /\ y[1] < pos
    BY <2>1 DEF Before
  <2>3. ASSUME IInv, Ready("prepare")
        PROVE  \A y \in Before(first) :
                 \/ y \in Answers
                 \/ y \in ToSet(pending) /\ PlannedKey(script[y[1]]) = StatementKey(script[pos])
    BY <2>2, <2>3, <1>1
  <2> QED
    BY <2>3 DEF PreparedBehindBarrier, first
<1> QED
  BY <1>2, Invariant, PTL

\* A rejected statement is reported behind the answers to all before it
\* (flush_on_error).
THEOREM RejectedBehindAnswers == Spec => []RejectedLast
<1>1. ASSUME IInv, NextIs({"failure"}), NEW y \in Ops, y[1] < Head(work).ops[1][1]
      PROVE  y \in Answers
  <2> DEFINE x == Head(work).ops[1]
  <2>1. /\ work # <<>> /\ work \in Seq(Jobs) /\ Nonempty(work) /\ Chain(results, work, pending)
        /\ script \in Scripts /\ pc # "error"
    BY <1>1 DEF NextIs, IInv, TypeOK, StageInv
  <2>2. /\ Head(work).ops \in Seq(Ops) /\ InOrder(Head(work).ops)
    BY <1>1, <2>1, HeadJob
  <2>3. Head(work).ops # <<>>
    <3>1. 1 \in DOMAIN work /\ Head(work) = work[1]
      BY <2>1, LenProperties, EmptySeq
    <3> QED
      BY <2>1, <3>1 DEF Nonempty
  <2>4. 1 \in DOMAIN Head(work).ops /\ DOMAIN Head(work).ops = 1..Len(Head(work).ops)
        /\ Len(Head(work).ops) \in Nat
    BY <2>2, <2>3, LenProperties, EmptySeq
  <2>5. x \in ToSet(Head(work).ops)
    BY <2>4, InSequence
  <2>6. x \in Ops
    BY <2>2, <2>5, InBase
  <2>7. x[1] \in Nat /\ y[1] \in Nat
    BY <2>1, <2>6, OpStatement
  <2>8. ~Precedes(x, y) /\ x # y
    BY <1>1, <2>7 DEF Precedes
  <2>9. Held(work) = ToSet(Head(work).ops) \cup Held(Tail(work))
        /\ AllBefore(ToSet(Head(work).ops), Held(Tail(work)))
    BY <2>1, TailOrdered DEF Chain
  <2>10. y \notin ToSet(Head(work).ops)
    <3>1. ASSUME NEW j \in DOMAIN Head(work).ops PROVE y # Head(work).ops[j]
      <4>1. CASE j = 1
        BY <2>8, <4>1
      <4>2. CASE j # 1
        <5>1. 1 < j
          BY <2>4, <4>2
        <5>2. Precedes(x, Head(work).ops[j])
          BY <2>2, <2>4, <5>1 DEF InOrder
        <5> QED
          BY <2>8, <5>2
      <4> QED
        BY <4>1, <4>2
    <3> QED
      BY <3>1, InSequence
  <2>11. y \notin Held(Tail(work))
    BY <2>5, <2>8, <2>9 DEF AllBefore
  <2>12. x \in Held(work)
    BY <2>5, <2>9
  <2>13. y \notin ToSet(pending)
    BY <2>1, <2>8, <2>12 DEF Chain, AllBefore
  <2>14. Held(results) \cup Held(work) \cup ToSet(pending) = Passed(Upto)
    BY <1>1, <2>1 DEF IInv, CompleteInv
  <2>15. Upto \in Int
    BY <1>1, NextStatement DEF Upto
  <2>16. x[1] <= Upto
    BY <2>12, <2>14 DEF Passed
  <2>17. y \in Passed(Upto)
    BY <1>1, <2>7, <2>15, <2>16 DEF Passed
  <2> QED
    BY <2>9, <2>10, <2>11, <2>13, <2>14, <2>17 DEF Answers
<1>2. IInv => RejectedLast
  BY <1>1 DEF RejectedLast, Before
<1> QED
  BY <1>2, Invariant, PTL

-----------------------------------------------------------------------------
(* What reaches the server: the rest of a request, now or later. *)

FailedOps(w) == UNION {ToSet(w[k].ops) : k \in {l \in DOMAIN w : w[l].kind = "failure"}}

\* The server has applied the operation, or a request with it was given up.
Touched(x) == x \in ToSet(log) \/ \E xs \in late : x \in ToSet(xs)

\* Nothing that is still to be sent holds the operation.
Settled(x) ==
  \/ pc = "error" \/ x \in Held(results) \/ x \in FailedOps(work)
  \/ wire.sent /\ x \in ToSet(Head(work).ops)

\* What the server has of the request under way is what is not left of it.
SentInv ==
  wire.sent => /\ ToSet(wire.left) \subseteq ToSet(Head(work).ops)
               /\ ToSet(Head(work).ops) \subseteq ToSet(log) \cup ToSet(wire.left)

\* Nothing undecided and unapplied precedes what is left of a request.
Covered(xs) ==
  /\ InOrder(xs)
  /\ \A x \in ToSet(xs), y \in Ops :
       Precedes(y, x) => y \in Held(results) \cup ToSet(log) \cup ToSet(xs)

\* A conditional operation is in one request, and sent only when untouched.
OnceInv ==
  \A x \in Ops : Conditional(x) =>
    /\ Touched(x) => Settled(x)
    /\ x \in ToSet(wire.left) => ~Touched(x)
    /\ x \in ToSet(log) => \A xs \in late : x \notin ToSet(xs)
    /\ \A xs, ys \in late : x \in ToSet(xs) /\ x \in ToSet(ys) => xs = ys

DeliveryInv ==
  /\ SentInv
  /\ Covered(wire.left)
  /\ \A xs \in late : Covered(xs)
  /\ OnceInv

-----------------------------------------------------------------------------
(* The order of the script, and lists again. *)

\* Script order is strict.
LEMMA ScriptOrder ==
  ASSUME script \in Scripts, NEW x \in Ops, NEW y \in Ops
  PROVE  /\ x = <<x[1], x[2]>> /\ x[1] \in Nat /\ x[2] \in Nat
         /\ ~Precedes(x, x)
         /\ Precedes(x, y) => ~Precedes(y, x) /\ x # y
         /\ x = y \/ Precedes(x, y) \/ Precedes(y, x)
<1>1. ASSUME NEW z \in Ops PROVE z = <<z[1], z[2]>> /\ z[1] \in Nat /\ z[2] \in Nat
  <2>1. PICK i \in DOMAIN script : z \in ToSet(OpsOf(i))
    BY DEF Ops
  <2>2. PICK j \in DOMAIN OpsOf(i) : z = OpsOf(i)[j]
    BY <2>1, InSequence
  <2>3. script \in Seq(Statements)
    BY ScriptAssumption
  <2>4. i \in Nat /\ script[i] \in Statements
    BY <2>3, LenProperties, ElementOfSeq
  <2>5. script[i].ops \in Seq(Effects)
    BY <2>4 DEF Statements
  <2>6. DOMAIN script[i].ops = 1..Len(script[i].ops) /\ Len(script[i].ops) \in Nat
    BY <2>5, LenProperties
  <2>7. z = <<i, j>> /\ j \in DOMAIN script[i].ops
    BY <2>2 DEF OpsOf
  <2> QED
    BY <2>4, <2>6, <2>7
<1>2. /\ x[1] \in Nat /\ x[2] \in Nat /\ y[1] \in Nat /\ y[2] \in Nat
      /\ x = <<x[1], x[2]>> /\ y = <<y[1], y[2]>>
  BY <1>1
<1>3. x[1] = y[1] /\ x[2] = y[2] => x = y
  BY <1>2
<1> QED
  BY <1>2, <1>3 DEF Precedes

\* The first of a sequence in order, and the rest.
LEMMA FirstAndRest ==
  ASSUME script \in Scripts, NEW xs \in Seq(Ops), xs # <<>>, InOrder(xs)
  PROVE  /\ Head(xs) \in Ops /\ Tail(xs) \in Seq(Ops) /\ InOrder(Tail(xs))
         /\ ToSet(xs) = {Head(xs)} \cup ToSet(Tail(xs))
         /\ \A y \in ToSet(Tail(xs)) : Precedes(Head(xs), y) /\ y # Head(xs)
<1>1. /\ DOMAIN xs = 1..Len(xs) /\ Len(xs) \in Nat \ {0}
      /\ Tail(xs) \in Seq(Ops) /\ Head(xs) \in Ops
      /\ DOMAIN Tail(xs) = 1..(Len(xs) - 1)
      /\ \A i \in 1..(Len(xs) - 1) : Tail(xs)[i] = xs[i + 1]
  BY HeadTailProperties, LenProperties, EmptySeq
<1>2. Head(xs) = xs[1] /\ 1 \in DOMAIN xs
  BY <1>1
<1>3. \A i \in DOMAIN Tail(xs) : i + 1 \in DOMAIN xs /\ 1 < i + 1 /\ Tail(xs)[i] = xs[i + 1]
  BY <1>1
<1>4. \A k \in DOMAIN xs : k = 1 \/ (k - 1 \in DOMAIN Tail(xs) /\ xs[k] = Tail(xs)[k - 1])
  BY <1>1
<1>5. ToSet(xs) = {Head(xs)} \cup ToSet(Tail(xs))
  <2>1. ASSUME NEW x \in ToSet(xs) PROVE x = Head(xs) \/ x \in ToSet(Tail(xs))
    <3>1. PICK k \in DOMAIN xs : x = xs[k]
      BY InSequence
    <3>2. x = Head(xs) \/ (k - 1 \in DOMAIN Tail(xs) /\ x = Tail(xs)[k - 1])
      BY <1>2, <1>4, <3>1
    <3> QED
      BY <3>2, InSequence
  <2>2. Head(xs) \in ToSet(xs)
    BY <1>2, InSequence
  <2>3. ASSUME NEW x \in ToSet(Tail(xs)) PROVE x \in ToSet(xs)
    <3>1. PICK i \in DOMAIN Tail(xs) : x = Tail(xs)[i]
      BY InSequence
    <3>2. i + 1 \in DOMAIN xs /\ x = xs[i + 1]
      BY <1>3, <3>1
    <3> QED
      BY <3>2, InSequence
  <2> QED
    BY <2>1, <2>2, <2>3
<1>6. InOrder(Tail(xs))
  <2>1. \A i, j \in DOMAIN Tail(xs) : i < j => i + 1 < j + 1
    BY <1>1
  <2> QED
    BY <2>1, <1>3 DEF InOrder
<1>7. ASSUME NEW y \in ToSet(Tail(xs)) PROVE Precedes(Head(xs), y) /\ y # Head(xs)
  <2>1. PICK i \in DOMAIN Tail(xs) : y = Tail(xs)[i]
    BY InSequence
  <2>2. Precedes(Head(xs), y)
    BY <1>2, <1>3, <2>1 DEF InOrder
  <2>3. y \in Ops
    BY <1>1, InBase
  <2> QED
    BY <1>1, <2>2, <2>3, ScriptOrder
<1> QED
  BY <1>1, <1>5, <1>6, <1>7

\* What is in a log with one more operation.
LEMMA LogGrows ==
  ASSUME log \in Seq(Ops), NEW x \in Ops, log' = Append(log, x)
  PROVE  ToSet(log') = ToSet(log) \cup {x}
<1> DEFINE one == <<x>>
<1>1. one \in Seq(Ops) /\ DOMAIN one = {1} /\ one[1] = x
  OBVIOUS
<1>2. log' = log \o one
  BY AppendIsConcat
<1> HIDE DEF one
<1>3. ToSet(one) = {x}
  BY <1>1, InSequence
<1> QED
  BY <1>1, <1>2, <1>3, ConcatSet

\* What is in a list of reports is in one of them.
LEMMA FailedMember ==
  ASSUME NEW w, NEW x
  PROVE  x \in FailedOps(w) <=>
           \E k \in DOMAIN w : w[k].kind = "failure" /\ x \in ToSet(w[k].ops)
  BY DEF FailedOps

\* The reports of a list and of what remains of it.
LEMMA FailedTail ==
  ASSUME NEW S, NEW w \in Seq(S), w # <<>>
  PROVE  /\ FailedOps(Tail(w)) \subseteq Held(Tail(w))
         /\ \A x \in FailedOps(w) :
              x \in FailedOps(Tail(w)) \/ (Head(w).kind = "failure" /\ x \in ToSet(Head(w).ops))
<1>1. /\ DOMAIN w = 1..Len(w) /\ Len(w) \in Nat \ {0}
      /\ DOMAIN Tail(w) = 1..(Len(w) - 1)
      /\ \A i \in 1..(Len(w) - 1) : Tail(w)[i] = w[i + 1]
  BY HeadTailProperties, LenProperties, EmptySeq
<1>2. Head(w) = w[1]
  BY <1>1
<1>3. \A k \in DOMAIN w : k = 1 \/ (k - 1 \in DOMAIN Tail(w) /\ w[k] = Tail(w)[k - 1])
  BY <1>1
<1>4. FailedOps(Tail(w)) \subseteq Held(Tail(w))
  BY FailedMember, HeldMember
<1>5. ASSUME NEW x \in FailedOps(w)
      PROVE  x \in FailedOps(Tail(w)) \/ (Head(w).kind = "failure" /\ x \in ToSet(Head(w).ops))
  <2>1. PICK k \in DOMAIN w : w[k].kind = "failure" /\ x \in ToSet(w[k].ops)
    BY <1>5, FailedMember
  <2> QED
    BY <1>2, <1>3, <2>1, FailedMember
<1> QED
  BY <1>4, <1>5

\* The reports of two lists put together.
LEMMA FailedConcat ==
  ASSUME NEW S, NEW u \in Seq(S), NEW v \in Seq(S)
  PROVE  FailedOps(u) \cup FailedOps(v) \subseteq FailedOps(u \o v)
<1> DEFINE uv == u \o v
<1>1. /\ DOMAIN u = 1..Len(u) /\ DOMAIN v = 1..Len(v) /\ DOMAIN uv = 1..(Len(u) + Len(v))
      /\ Len(u) \in Nat /\ Len(v) \in Nat
      /\ \A i \in 1..(Len(u) + Len(v)) : uv[i] = IF i <= Len(u) THEN u[i] ELSE v[i - Len(u)]
  BY ConcatProperties, LenProperties
<1> HIDE DEF uv
<1>2. \A k \in DOMAIN u : k \in DOMAIN uv /\ uv[k] = u[k]
  BY <1>1
<1>3. ASSUME NEW k \in DOMAIN v PROVE k + Len(u) \in DOMAIN uv /\ uv[k + Len(u)] = v[k]
  <2>1. k + Len(u) \in DOMAIN uv /\ ~(k + Len(u) <= Len(u)) /\ (k + Len(u)) - Len(u) = k
    BY <1>1
  <2> QED
    BY <1>1, <2>1
<1>4. \A x \in FailedOps(u) : x \in FailedOps(uv)
  BY <1>2, FailedMember
<1>5. \A x \in FailedOps(v) : x \in FailedOps(uv)
  BY <1>3, FailedMember
<1> QED
  BY <1>4, <1>5 DEF uv

-----------------------------------------------------------------------------
(* Every step keeps the delivery in order. *)

\* Which operations there are and which are conditional stays as it is.
LEMMA OpsKept ==
  ASSUME script' = script
  PROVE  Ops' = Ops /\ \A x : Conditional(x)' <=> Conditional(x)
<1>1. Ops' = Ops
  BY ScriptKept
<1>2. \A x : Conditional(x)' <=> Conditional(x)
  BY DEF Conditional, Effect
<1> QED
  BY <1>1, <1>2

\* What precedes an operation of the next request is answered or in it too.
LEMMA HeadNext ==
  ASSUME IInv, work # <<>>, NEW x \in ToSet(Head(work).ops)
  PROVE  /\ x \in Ops /\ pc # "error" /\ script \in Scripts
         /\ \A y \in Held(results) : y \in Ops /\ Precedes(y, x)
         /\ x \notin Held(results) /\ x \notin Held(Tail(work))
         /\ \A y \in Ops : Precedes(y, x) => y \in Held(results) \cup ToSet(Head(work).ops)
<1>1. /\ work \in Seq(Jobs) /\ Chain(results, work, pending) /\ script \in Scripts
      /\ pc # "error"
  BY DEF IInv, TypeOK, StageInv
<1>2. x \in Ops
  BY <1>1, HeadJob, InBase
<1>3. /\ Held(work) = ToSet(Head(work).ops) \cup Held(Tail(work))
      /\ AllBefore(ToSet(Head(work).ops), Held(Tail(work)))
  BY <1>1, TailOrdered DEF Chain
<1>4. Held(results) \cup Held(work) \cup ToSet(pending) = Passed(Upto)
  BY <1>1 DEF IInv, CompleteInv
<1>5. /\ AllBefore(Held(results), Held(work)) /\ AllBefore(Held(work), ToSet(pending))
  BY <1>1 DEF Chain
<1>6. \A y \in Held(results) : y \in Ops /\ Precedes(y, x)
  BY <1>3, <1>4, <1>5 DEF AllBefore, Passed
<1>7. x \notin Held(results) /\ x \notin Held(Tail(work))
  BY <1>1, <1>2, <1>3, <1>6, ScriptOrder DEF AllBefore
<1>8. ASSUME NEW y \in Ops, Precedes(y, x)
      PROVE  y \in Held(results) \cup ToSet(Head(work).ops)
  <2>1. y \in Passed(Upto)
    <3>1. x[1] <= Upto
      BY <1>3, <1>4 DEF Passed
    <3>2. x[1] \in Nat /\ y[1] \in Nat
      BY <1>1, <1>2, ScriptOrder
    <3>3. y[1] <= x[1]
      BY <1>8, <3>2 DEF Precedes
    <3>4. Upto \in Int
      BY NextStatement DEF Upto
    <3> QED
      BY <3>1, <3>2, <3>3, <3>4 DEF Passed
  <2>2. ~Precedes(x, y)
    BY <1>1, <1>2, <1>8, ScriptOrder
  <2>3. y \notin Held(Tail(work)) /\ y \notin ToSet(pending)
    BY <1>3, <1>5, <2>2 DEF AllBefore
  <2> QED
    BY <1>3, <1>4, <2>1, <2>3
<1> QED
  BY <1>1, <1>2, <1>6, <1>7, <1>8

\* Nothing is left of a quiet wire.
LEMMA QuietCovered == Covered(Quiet.left) /\ ToSet(Quiet.left) = {} /\ ~Quiet.sent
  BY Nothing DEF Covered, Quiet

\* A request is answered, reported or given up: what held an operation back
\* still does.
LEMMA SettledDelivery ==
  ASSUME IInv, DeliveryInv, UNCHANGED <<script, log>>, wire' = Quiet,
         late' \in {late, late \cup ({wire.left} \ {<<>>})},
         Held(results) \subseteq Held(results'),
         \A x \in Ops : Conditional(x) /\ Settled(x) => Settled(x)'
  PROVE  DeliveryInv'
<1>1. Ops' = Ops /\ \A x : Conditional(x)' <=> Conditional(x)
  BY OpsKept
<1>2. SentInv' /\ Covered(wire.left)'
  BY QuietCovered, Nothing DEF SentInv, Covered, Quiet
<1>3. ASSUME NEW xs, Covered(xs) PROVE Covered(xs)'
  BY <1>1, <1>3 DEF Covered
<1>4. \A xs \in late' : Covered(xs)'
  BY <1>3 DEF DeliveryInv
<1>5. ASSUME NEW x \in Ops, Conditional(x)
      PROVE  /\ Touched(x)' => Settled(x)'
             /\ x \in ToSet(wire.left)' => ~Touched(x)'
             /\ x \in ToSet(log)' => \A xs \in late' : x \notin ToSet(xs)
             /\ \A xs, ys \in late' : x \in ToSet(xs) /\ x \in ToSet(ys) => xs = ys
  <2>1. /\ Touched(x) => Settled(x)
        /\ x \in ToSet(wire.left) => ~Touched(x)
        /\ x \in ToSet(log) => \A xs \in late : x \notin ToSet(xs)
        /\ \A xs, ys \in late : x \in ToSet(xs) /\ x \in ToSet(ys) => xs = ys
    BY <1>5 DEF DeliveryInv, OnceInv
  <2>2. x \in ToSet(wire.left) => Settled(x)
    BY Nothing DEF IInv, WireInv, DeliveryInv, SentInv, Settled
  <2>3. Touched(x)' => Touched(x) \/ x \in ToSet(wire.left)
    BY DEF Touched
  <2>4. Touched(x)' => Settled(x)'
    BY <1>5, <2>1, <2>2, <2>3
  <2>5. x \notin ToSet(wire.left)'
    BY QuietCovered
  <2>6. x \in ToSet(log)' => \A xs \in late' : x \notin ToSet(xs)
    BY <2>1 DEF Touched
  <2>7. \A xs, ys \in late' : x \in ToSet(xs) /\ x \in ToSet(ys) => xs = ys
    BY <2>1 DEF Touched
  <2> QED
    BY <2>4, <2>5, <2>6, <2>7
<1>6. OnceInv'
  BY <1>1, <1>5 DEF OnceInv
<1> QED
  BY <1>2, <1>4, <1>6 DEF DeliveryInv

\* The call ends with an error: nothing is sent any more.
LEMMA EndsDelivery ==
  ASSUME IInv, DeliveryInv, EndWithError, UNCHANGED <<script, log, results>>, wire' = Quiet,
         late' \in {late, late \cup ({wire.left} \ {<<>>})}
  PROVE  DeliveryInv'
<1>1. \A x \in Ops : Settled(x)'
  BY DEF EndWithError, Settled
<1> QED
  BY <1>1, SettledDelivery

\* The request at hand is settled by its answer or its report.
LEMMA SettlesDelivery ==
  ASSUME IInv, DeliveryInv, work # <<>>,
         NEW r \in Seq(Responses), Held(r) = ToSet(Head(work).ops),
         results' = results \o r, work' = Tail(work), wire' = Quiet,
         UNCHANGED <<script, log, pc>>,
         late' \in {late, late \cup ({wire.left} \ {<<>>})}
  PROVE  DeliveryInv'
<1>1. work \in Seq(Jobs) /\ results \in Seq(Responses) /\ pc # "error"
  BY DEF IInv, TypeOK, StageInv, Responses
<1>2. Held(results') = Held(results) \cup ToSet(Head(work).ops)
  BY <1>1, ConcatHeld
<1>3. ASSUME NEW x \in Ops, Settled(x) PROVE Settled(x)'
  <2>1. CASE x \in FailedOps(work)
    <3>1. x \in FailedOps(Tail(work)) \/ x \in ToSet(Head(work).ops)
      BY <1>1, <2>1, FailedTail
    <3> QED
      BY <1>2, <3>1 DEF Settled
  <2>2. CASE x \in Held(results) \/ x \in ToSet(Head(work).ops)
    BY <1>2, <2>2 DEF Settled
  <2> QED
    BY <1>1, <1>3, <2>1, <2>2 DEF Settled
<1> QED
  BY <1>2, <1>3, SettledDelivery

\* A lost batch is taken apart: its conditional members are reported.
LEMMA RetriesDelivery ==
  ASSUME IInv, DeliveryInv, work # <<>>, Head(work).kind = "batch",
         work' = Retries(Head(work).ops) \o Tail(work), wire' = Quiet,
         UNCHANGED <<script, log, pc, results>>,
         late' \in {late, late \cup ({wire.left} \ {<<>>})}
  PROVE  DeliveryInv'
<1> DEFINE u == Retries(Head(work).ops)
           xs == Head(work).ops
<1>1. work \in Seq(Jobs) /\ pc # "error" /\ xs \in Seq(Ops) /\ InOrder(xs)
  BY HeadJob DEF IInv, TypeOK, StageInv
<1>2. u \in Seq(Jobs) /\ Tail(work) \in Seq(Jobs)
  BY <1>1, RetriesInOrder, TailOrdered
<1>3. FailedOps(u) \cup FailedOps(Tail(work)) \subseteq FailedOps(work')
  BY <1>2, FailedConcat
<1>4. ASSUME NEW x \in ToSet(xs), Conditional(x) PROVE x \in FailedOps(u)
  <2>1. PICK j \in DOMAIN xs : x = xs[j]
    BY InSequence
  <2>2. j \in DOMAIN u /\ u[j] = Failure(<<x>>)
    BY <1>4, <2>1 DEF Retries
  <2> DEFINE one == <<x>>
  <2>3. DOMAIN one = {1} /\ one[1] = x
    OBVIOUS
  <2> HIDE DEF one
  <2>4. x \in ToSet(one)
    BY <2>3, InSequence
  <2>5. u[j].kind = "failure" /\ u[j].ops = one
    BY <2>2 DEF Failure, one
  <2> HIDE DEF u
  <2> QED
    BY <2>2, <2>4, <2>5, FailedMember
<1>5. ASSUME NEW x \in Ops, Conditional(x), Settled(x) PROVE Settled(x)'
  <2>1. CASE x \in FailedOps(work)
    <3>1. x \in FailedOps(Tail(work))
      BY <1>1, <2>1, FailedTail
    <3> QED
      BY <1>3, <3>1 DEF Settled
  <2>2. CASE x \in ToSet(xs)
    BY <1>3, <1>4, <1>5, <2>2 DEF Settled
  <2>3. CASE x \in Held(results)
    BY <2>3 DEF Settled
  <2> QED
    BY <1>1, <1>5, <2>1, <2>2, <2>3 DEF Settled
<1> QED
  BY <1>5, SettledDelivery

\* The executor goes on while no request is under way.
LEMMA BuildDelivery ==
  ASSUME IInv, DeliveryInv, work = <<>>, pc # "error",
         UNCHANGED <<script, wire, results, server>>
  PROVE  DeliveryInv'
<1>1. Ops' = Ops /\ \A x : Conditional(x)' <=> Conditional(x)
  BY OpsKept
<1>2. wire = Quiet /\ wire' = Quiet
  BY WireQuiet
<1>3. log' = log /\ late' = late
  BY DEF server
<1>4. SentInv' /\ Covered(wire.left)'
  BY <1>2, QuietCovered, Nothing DEF SentInv, Covered, Quiet
<1>5. \A xs \in late' : Covered(xs)'
  BY <1>1, <1>3 DEF DeliveryInv, Covered
<1>6. FailedOps(work) = {}
  <2>1. DOMAIN work = {}
    OBVIOUS
  <2> QED
    BY <2>1 DEF FailedOps
<1>7. \A x : Settled(x) => Settled(x)'
  BY <1>2, <1>6, QuietCovered DEF Settled
<1>8. OnceInv'
  BY <1>1, <1>2, <1>3, <1>7, QuietCovered DEF DeliveryInv, OnceInv, Touched
<1> QED
  BY <1>4, <1>5, <1>8 DEF DeliveryInv

\* A request leaves only with operations that are untouched or repeatable.
LEMMA SendDelivery == ASSUME IInv, DeliveryInv, Send PROVE DeliveryInv'
<1> DEFINE xs == Head(work).ops
<1>1. Ops' = Ops /\ \A x : Conditional(x)' <=> Conditional(x)
  BY OpsKept DEF Send
<1>2. /\ work # <<>> /\ Head(work).kind \in {"single", "batch"} /\ work' = work
      /\ wire'.sent /\ wire'.left = xs /\ log' = log /\ late' = late /\ results' = results
      /\ wire = Quiet /\ pc' = pc /\ xs \in Seq(Ops) /\ InOrder(xs) /\ work \in Seq(Jobs)
  <2>1. work # <<>> /\ Head(work).kind \in {"single", "batch"} /\ ~wire.sent
    BY DEF Send, NextIs
  <2>2. wire = Quiet
    BY <2>1 DEF IInv, TypeOK, WireInv, Quiet
  <2>3. xs \in Seq(Ops) /\ InOrder(xs)
    BY <2>1, HeadJob
  <2> QED
    BY <2>1, <2>2, <2>3 DEF Send, server, IInv, TypeOK
<1>3. SentInv'
  BY <1>2 DEF SentInv
<1>4. Covered(wire.left)'
  BY <1>1, <1>2, HeadNext DEF Covered
<1>5. \A ys \in late' : Covered(ys)'
  BY <1>1, <1>2 DEF DeliveryInv, Covered
<1>6. ASSUME NEW x \in Ops, Conditional(x)
      PROVE  /\ Touched(x)' => Settled(x)'
             /\ x \in ToSet(wire.left)' => ~Touched(x)'
             /\ x \in ToSet(log)' => \A ys \in late' : x \notin ToSet(ys)
             /\ \A ys, zs \in late' : x \in ToSet(ys) /\ x \in ToSet(zs) => ys = zs
  <2>1. /\ Touched(x) => Settled(x)
        /\ x \in ToSet(log) => \A ys \in late : x \notin ToSet(ys)
        /\ \A ys, zs \in late : x \in ToSet(ys) /\ x \in ToSet(zs) => ys = zs
    BY <1>6 DEF DeliveryInv, OnceInv
  <2>2. Touched(x)' <=> Touched(x)
    BY <1>2 DEF Touched
  <2>3. Settled(x) => Settled(x)'
    BY <1>2, QuietCovered DEF Settled
  <2>4. ASSUME x \in ToSet(xs) PROVE ~Settled(x)
    <3>1. /\ pc # "error" /\ x \notin Held(results) /\ x \notin Held(Tail(work))
      BY <1>2, <2>4, HeadNext
    <3>2. x \notin FailedOps(work)
      BY <1>2, <3>1, FailedTail
    <3> QED
      BY <1>2, <3>1, <3>2, QuietCovered DEF Settled
  <2> QED
    BY <1>2, <2>1, <2>2, <2>3, <2>4
<1>7. OnceInv'
  BY <1>1, <1>6 DEF OnceInv
<1> QED
  BY <1>3, <1>4, <1>5, <1>7 DEF DeliveryInv

\* The server goes on with the request under way.
LEMMA ServerAppliesDelivery ==
  ASSUME IInv, DeliveryInv, ServerApplies
  PROVE  /\ DeliveryInv'
         /\ Head(wire.left) \in Ops
         /\ Conditional(Head(wire.left)) => Head(wire.left) \notin ToSet(log)
         /\ \A y \in Ops : Precedes(y, Head(wire.left)) => y \in Held(results) \cup ToSet(log)
<1> DEFINE xs == wire.left
           h == Head(wire.left)
           t == Tail(wire.left)
<1>1. Ops' = Ops /\ \A x : Conditional(x)' <=> Conditional(x)
  BY OpsKept DEF ServerApplies
<1>2. /\ xs \in Seq(Ops) /\ xs # <<>> /\ log \in Seq(Ops) /\ script \in Scripts /\ Covered(xs)
      /\ wire \in [sent : BOOLEAN, left : Seq(Ops)] /\ wire.sent
  BY DEF IInv, TypeOK, WireInv, DeliveryInv, ServerApplies
<1>3. /\ h \in Ops /\ t \in Seq(Ops) /\ InOrder(t) /\ ToSet(xs) = {h} \cup ToSet(t)
      /\ \A y \in ToSet(t) : Precedes(h, y) /\ y # h
  BY <1>2, FirstAndRest DEF Covered
<1>4. /\ wire'.sent /\ wire'.left = t /\ late' = late /\ results' = results /\ work' = work
      /\ pc' = pc /\ log' = Append(log, h)
  BY <1>2 DEF ServerApplies
<1>5. ToSet(log') = ToSet(log) \cup {h}
  BY <1>2, <1>3, <1>4, LogGrows
<1> HIDE DEF xs, h, t
<1>6. SentInv'
  BY <1>2, <1>3, <1>4, <1>5 DEF SentInv, DeliveryInv, xs
<1>7. ASSUME NEW ys, Covered(ys) PROVE Covered(ys)'
  BY <1>1, <1>4, <1>5, <1>7 DEF Covered
<1>8. Covered(wire.left)'
  <2>1. /\ InOrder(t)
        /\ \A x \in ToSet(t), y \in Ops : Precedes(y, x) =>
             y \in Held(results) \/ y \in ToSet(log) \/ y \in ToSet(xs)
    BY <1>2, <1>3 DEF Covered
  <2>2. PICK u : u = t
    OBVIOUS
  <2>3. Covered(u)'
    BY <1>1, <1>3, <1>4, <1>5, <2>1, <2>2 DEF Covered
  <2> QED
    BY <1>4, <2>2, <2>3
<1>9. ASSUME NEW x \in Ops, Conditional(x)
      PROVE  /\ Touched(x)' => Settled(x)'
             /\ x \in ToSet(wire.left)' => ~Touched(x)'
             /\ x \in ToSet(log)' => \A ys \in late' : x \notin ToSet(ys)
             /\ \A ys, zs \in late' : x \in ToSet(ys) /\ x \in ToSet(zs) => ys = zs
  <2>1. /\ Touched(x) => Settled(x)
        /\ x \in ToSet(xs) => ~Touched(x)
        /\ x \in ToSet(log) => \A ys \in late : x \notin ToSet(ys)
        /\ \A ys, zs \in late : x \in ToSet(ys) /\ x \in ToSet(zs) => ys = zs
    BY <1>9 DEF DeliveryInv, OnceInv, xs
  <2>2. Touched(x)' <=> Touched(x) \/ x = h
    BY <1>4, <1>5 DEF Touched
  <2>3. Settled(x)' <=> Settled(x)
    BY <1>2, <1>4 DEF Settled
  <2>4. x \in ToSet(xs) => Settled(x)
    BY <1>2 DEF DeliveryInv, SentInv, Settled, xs
  <2>5. x \in ToSet(xs) => \A ys \in late : x \notin ToSet(ys)
    BY <2>1 DEF Touched
  <2> QED
    BY <1>3, <1>4, <1>5, <2>1, <2>2, <2>3, <2>4, <2>5
<1>10. OnceInv'
  BY <1>1, <1>9 DEF OnceInv
<1>11. DeliveryInv'
  BY <1>4, <1>6, <1>7, <1>8, <1>10 DEF DeliveryInv
<1>12. Conditional(h) => h \notin ToSet(log)
  BY <1>3 DEF DeliveryInv, OnceInv, Touched, xs
<1>13. ASSUME NEW y \in Ops, Precedes(y, h) PROVE y \in Held(results) \cup ToSet(log)
  <2>1. y \in Held(results) \cup ToSet(log) \cup ToSet(xs)
    BY <1>2, <1>3, <1>13 DEF Covered
  <2>2. y \notin ToSet(xs)
    BY <1>2, <1>3, <1>13, ScriptOrder
  <2> QED
    BY <2>1, <2>2
<1> QED
  BY <1>3, <1>11, <1>12, <1>13 DEF h

\* The server goes on with a request that was given up.
LEMMA StraggleDelivery ==
  ASSUME IInv, DeliveryInv, NEW xs \in late,
         log' = Append(log, Head(xs)), late' = (late \ {xs}) \cup ({Tail(xs)} \ {<<>>}),
         UNCHANGED <<script, pc, work, wire, results>>
  PROVE  /\ DeliveryInv'
         /\ Head(xs) \in Ops
         /\ Conditional(Head(xs)) => Head(xs) \notin ToSet(log)
         /\ \A y \in Ops : Precedes(y, Head(xs)) => y \in Held(results) \cup ToSet(log)
<1> DEFINE h == Head(xs)
           t == Tail(xs)
<1>1. Ops' = Ops /\ \A x : Conditional(x)' <=> Conditional(x)
  BY OpsKept
<1>2. /\ xs \in Seq(Ops) /\ xs # <<>> /\ log \in Seq(Ops) /\ script \in Scripts /\ Covered(xs)
  BY DEF IInv, TypeOK, DeliveryInv
<1>3. /\ h \in Ops /\ t \in Seq(Ops) /\ InOrder(t) /\ ToSet(xs) = {h} \cup ToSet(t)
      /\ \A y \in ToSet(t) : Precedes(h, y) /\ y # h
  BY <1>2, FirstAndRest DEF Covered
<1>4. log' = Append(log, h) /\ late' \subseteq (late \ {xs}) \cup {t}
  OBVIOUS
<1>5. ToSet(log') = ToSet(log) \cup {h}
  BY <1>2, <1>3, <1>4, LogGrows
<1> HIDE DEF h, t
<1>6. SentInv'
  BY <1>5 DEF SentInv, DeliveryInv
<1>7. ASSUME NEW ys, Covered(ys) PROVE Covered(ys)'
  BY <1>1, <1>5, <1>7 DEF Covered
<1>8. Covered(t)'
  BY <1>1, <1>2, <1>3, <1>5 DEF Covered
<1>9. ASSUME NEW x \in Ops, Conditional(x)
      PROVE  /\ Touched(x)' => Settled(x)'
             /\ x \in ToSet(wire.left)' => ~Touched(x)'
             /\ x \in ToSet(log)' => \A ys \in late' : x \notin ToSet(ys)
             /\ \A ys, zs \in late' : x \in ToSet(ys) /\ x \in ToSet(zs) => ys = zs
  <2>1. /\ Touched(x) => Settled(x)
        /\ x \in ToSet(wire.left) => ~Touched(x)
        /\ x \in ToSet(log) => \A ys \in late : x \notin ToSet(ys)
        /\ \A ys, zs \in late : x \in ToSet(ys) /\ x \in ToSet(zs) => ys = zs
    BY <1>9 DEF DeliveryInv, OnceInv
  <2>2. Touched(x)' => Touched(x)
    BY <1>3, <1>4, <1>5 DEF Touched
  <2>3. Settled(x)' <=> Settled(x)
    BY DEF Settled
  <2>4. x \in ToSet(xs) => \A ys \in late \ {xs} : x \notin ToSet(ys)
    BY <2>1
  <2>5. x \in ToSet(log)' => \A ys \in late' : x \notin ToSet(ys)
    BY <1>3, <1>4, <1>5, <2>1, <2>4
  <2>6. \A ys, zs \in late' : x \in ToSet(ys) /\ x \in ToSet(zs) => ys = zs
    BY <1>3, <1>4, <2>1, <2>4
  <2> QED
    BY <2>1, <2>2, <2>3, <2>5, <2>6
<1>10. OnceInv'
  BY <1>1, <1>9 DEF OnceInv
<1>11. Covered(wire.left)' /\ \A ys \in late' : Covered(ys)'
  BY <1>4, <1>7, <1>8 DEF DeliveryInv
<1>12. DeliveryInv'
  BY <1>6, <1>10, <1>11 DEF DeliveryInv
<1>13. Conditional(h) => h \notin ToSet(log)
  BY <1>3 DEF DeliveryInv, OnceInv
<1>14. ASSUME NEW y \in Ops, Precedes(y, h) PROVE y \in Held(results) \cup ToSet(log)
  <2>1. y \in Held(results) \cup ToSet(log) \cup ToSet(xs)
    BY <1>2, <1>3, <1>14 DEF Covered
  <2>2. y \notin ToSet(xs)
    BY <1>2, <1>3, <1>14, ScriptOrder
  <2> QED
    BY <2>1, <2>2
<1> QED
  BY <1>3, <1>12, <1>13, <1>14 DEF h

-----------------------------------------------------------------------------
(* Every step is one of the contract. *)

\* What the caller is told, by the responses.
LEMMA ToldOf ==
  ASSUME NEW x \in Ops
  PROVE  /\ Told[x] \in {"open", "ok", "failed"}
         /\ Told[x] = "open" <=> x \notin Held(results)
         /\ Told[x] = "failed" <=> \E r \in ToSet(results) : ~r.ok /\ x \in ToSet(r.ops)
<1>1. ASSUME NEW r \in ToSet(results), x \in ToSet(r.ops) PROVE x \in Held(results)
  <2>1. PICK k \in DOMAIN results : r = results[k]
    BY InSequence
  <2> QED
    BY <1>1, <2>1, HeldMember
<1> QED
  BY <1>1 DEF Told, Answers

\* A step that settles nothing and that the server has no part in.
LEMMA ContractIdle ==
  ASSUME UNCHANGED <<script, results, log>>
  PROVE  UNCHANGED Contract!vars
<1>1. Ops' = Ops /\ \A x : Conditional(x)' <=> Conditional(x)
  BY OpsKept
<1>2. Told' = Told
  BY <1>1 DEF Told, Answers, Held
<1>3. Earlier' = Earlier
  BY <1>1 DEF Earlier
<1> QED
  BY <1>1, <1>2, <1>3 DEF Contract!vars

\* The server applies an operation, in time or late.
LEMMA ContractApply ==
  ASSUME NEW h \in Ops, log' = Append(log, h), UNCHANGED <<script, results>>,
         Conditional(h) => h \notin ToSet(log),
         \A y \in Ops : Precedes(y, h) => y \in Held(results) \cup ToSet(log)
  PROVE  Contract!Next
<1>1. Ops' = Ops /\ \A x : Conditional(x)' <=> Conditional(x)
  BY OpsKept
<1>2. Told' = Told
  BY <1>1 DEF Told, Answers, Held
<1>3. Earlier' = Earlier
  BY <1>1 DEF Earlier
<1>4. \A y \in Earlier[h] : Told[y] # "open" \/ y \in ToSet(log)
  BY ToldOf DEF Earlier
<1>5. h \in Contract!Operations
  BY DEF Contract!Operations, Earlier
<1> QED
  BY <1>1, <1>2, <1>3, <1>4, <1>5 DEF Contract!Next, Contract!Apply, Contract!Applied,
                                              Contract!ToSet, ToSet

\* The operations of the request at hand are answered, and none of them ok
\* unless the server has applied them all.
LEMMA ContractAnswer ==
  ASSUME IInv, work # <<>>,
         NEW r \in Seq(Responses), Held(r) = ToSet(Head(work).ops),
         results' = results \o r, UNCHANGED <<script, log>>,
         \/ \A k \in DOMAIN r : ~r[k].ok
         \/ ToSet(Head(work).ops) \subseteq ToSet(log)
  PROVE  Contract!Next
<1> DEFINE xs == Head(work).ops
           last == xs[Len(xs)]
<1>1. Ops' = Ops /\ \A x : Conditional(x)' <=> Conditional(x)
  BY OpsKept
<1>2. /\ work \in Seq(Jobs) /\ results \in Seq(Responses) /\ script \in Scripts
      /\ xs \in Seq(Ops) /\ InOrder(xs) /\ xs # <<>>
  <2>1. work \in Seq(Jobs) /\ results \in Seq(Responses) /\ script \in Scripts
    BY DEF IInv, TypeOK, Responses
  <2>2. xs # <<>>
    BY <2>1 DEF IInv, Nonempty
  <2> QED
    BY <2>1, <2>2, HeadJob
<1>3. DOMAIN xs = 1..Len(xs) /\ Len(xs) \in Nat \ {0}
  BY <1>2, LenProperties, EmptySeq
<1>4. Len(xs) \in DOMAIN xs /\ last \in ToSet(xs)
  BY <1>3, InSequence
<1>5. Held(results') = Held(results) \cup ToSet(xs) /\ ToSet(results') = ToSet(results) \cup ToSet(r)
  BY <1>2, ConcatHeld, ConcatSet
<1>6. ToSet(xs) \subseteq Ops /\ last \in Ops
  BY <1>2, <1>4, InBase
<1>7. \A x \in ToSet(xs) : x \notin Held(results)
  BY HeadNext
<1>8. \A x \in ToSet(xs) : x = last \/ Precedes(x, last)
  <2> TAKE x \in ToSet(xs)
  <2>1. PICK j \in DOMAIN xs : x = xs[j]
    BY InSequence
  <2>2. j = Len(xs) \/ j < Len(xs)
    BY <1>3, <2>1
  <2> QED
    BY <1>2, <1>4, <2>1, <2>2 DEF InOrder
<1>9. ASSUME NEW x \in Ops
      PROVE  x \in Held(results') <=> Precedes(x, last) \/ x = last
  BY <1>4, <1>5, <1>8, HeadNext
<1> HIDE DEF xs, last
<1>10. ASSUME NEW x \in Ops
       PROVE  /\ Told'[x] \in {"open", "ok", "failed"}
              /\ Told'[x] = "open" <=> x \notin Held(results')
              /\ Told'[x] = "failed" <=> \E q \in ToSet(results') : ~q.ok /\ x \in ToSet(q.ops)
  <2>1. ASSUME NEW q \in ToSet(results'), x \in ToSet(q.ops) PROVE x \in Held(results')
    <3>1. PICK k \in DOMAIN results' : q = results'[k]
      BY InSequence
    <3> QED
      BY <2>1, <3>1, HeldMember
  <2>2. Answers' = Held(results')
    BY DEF Answers, Held
  <2> QED
    BY <1>1, <2>1, <2>2 DEF Told
<1>11. ASSUME NEW q \in ToSet(r), NEW x \in ToSet(q.ops) PROVE x \in ToSet(xs)
  <2>1. PICK k \in DOMAIN r : q = r[k]
    BY InSequence
  <2> QED
    BY <1>11, <2>1, HeldMember DEF xs
<1>12. ASSUME NEW x \in Ops, Told[x] # "open" PROVE Told'[x] = Told[x]
  <2>1. x \in Held(results) /\ x \notin ToSet(xs)
    BY <1>7, <1>12, ToldOf
  <2>2. Told'[x] = "failed" <=> Told[x] = "failed"
    BY <1>5, <1>10, <1>11, <2>1, ToldOf
  <2> QED
    BY <1>5, <1>10, <1>12, <2>1, <2>2, ToldOf
<1>13. ASSUME NEW x \in Ops, Told[x] = "open", Told'[x] = "ok" PROVE x \in ToSet(log)
  <2>1. x \in ToSet(xs)
    BY <1>5, <1>10, <1>13, ToldOf
  <2>2. CASE \A k \in DOMAIN r : ~r[k].ok
    <3>1. PICK k \in DOMAIN r : x \in ToSet(r[k].ops)
      BY <2>1, HeldMember DEF xs
    <3>2. r[k] \in ToSet(results') /\ ~r[k].ok
      BY <1>5, <2>2, <3>1, InSequence
    <3> QED
      BY <1>10, <1>13, <3>1, <3>2
  <2> QED
    BY <2>1, <2>2 DEF xs
<1>14. Earlier' = Earlier /\ Contract!Operations = Ops /\ last \in Contract!Operations
  BY <1>1, <1>6 DEF Earlier, Contract!Operations
<1>15. Told[last] = "open"
  BY <1>4, <1>6, <1>7, ToldOf
<1>16. Told' \in [Ops -> {"open", "ok", "failed"}]
  BY <1>1, <1>10 DEF Told
<1>17. \A x \in Ops : Told'[x] # "open" <=> x \in Earlier[last] \cup {last}
  BY <1>6, <1>9, <1>10 DEF Earlier
<1>18. Contract!Answer(last)
  BY <1>1, <1>12, <1>13, <1>14, <1>15, <1>16, <1>17 DEF Contract!Answer, Contract!Applied,
                                                                 Contract!ToSet, ToSet
<1> QED
  BY <1>14, <1>18 DEF Contract!Next

Promised == [Contract!Next]_(Contract!vars)

\* Before the first statement nothing has been sent or answered.
LEMMA DeliveryInit == ASSUME Init PROVE DeliveryInv /\ Contract!Init
<1>1. /\ wire = Quiet /\ late = {} /\ log = <<>> /\ results = <<>>
      /\ ToSet(log) = {} /\ Held(results) = {}
  BY Nothing DEF Init
<1>2. DeliveryInv
  BY <1>1, QuietCovered DEF DeliveryInv, SentInv, OnceInv, Touched
<1>3. \A x \in Ops : Told[x] = "open"
  BY <1>1, ToldOf
<1>4. Told = [x \in Ops |-> "open"] /\ Contract!Operations = Ops
  BY <1>3 DEF Told, Contract!Operations, Earlier
<1> QED
  BY <1>1, <1>2, <1>4 DEF Contract!Init

\* Taking a statement, and the end of the script.
LEMMA TakesPromised ==
  ASSUME IInv, DeliveryInv,
         RejectUnbound \/ PassBarrier \/ FailPrepare \/ FailPlan \/ Push \/ Finish
  PROVE  DeliveryInv' /\ Promised
<1>1. work = <<>> /\ pc # "error" /\ UNCHANGED <<script, wire, results, server>>
  BY DEF RejectUnbound, PassBarrier, FailPrepare, FailPlan, Push, Finish, Ready
<1>2. UNCHANGED <<script, results, log>>
  BY <1>1 DEF server
<1> QED
  BY <1>1, <1>2, BuildDelivery, ContractIdle DEF Promised

\* A call that ends with an error.
LEMMA EndsPromised ==
  ASSUME IInv, DeliveryInv, EndWithError, UNCHANGED <<script, log, results>>, wire' = Quiet,
         late' \in {late, late \cup ({wire.left} \ {<<>>})}
  PROVE  DeliveryInv' /\ Promised
  BY EndsDelivery, ContractIdle DEF Promised

\* A request that is answered, or reported as failed.
LEMMA SettlesPromised ==
  ASSUME IInv, DeliveryInv, work # <<>>,
         NEW r \in Seq(Responses), Held(r) = ToSet(Head(work).ops),
         results' = results \o r, work' = Tail(work), wire' = Quiet,
         UNCHANGED <<script, log, pc>>,
         late' \in {late, late \cup ({wire.left} \ {<<>>})},
         \/ \A k \in DOMAIN r : ~r[k].ok
         \/ ToSet(Head(work).ops) \subseteq ToSet(log)
  PROVE  DeliveryInv' /\ Promised
<1>1. DeliveryInv'
  BY SettlesDelivery
<1>2. Contract!Next
  BY ContractAnswer
<1> QED
  BY <1>1, <1>2 DEF Promised

\* A request that failed as a whole.
LEMMA FailsPromised ==
  ASSUME IInv, DeliveryInv, work # <<>>,
         results' = Append(results, Response(Head(work).ops, FALSE)),
         work' = Tail(work), wire' = Quiet, UNCHANGED <<script, log, pc>>,
         late' \in {late, late \cup ({wire.left} \ {<<>>})}
  PROVE  DeliveryInv' /\ Promised
<1> DEFINE one == Response(Head(work).ops, FALSE)
           r == <<one>>
<1>1. r \in Seq(Responses) /\ Held(r) = ToSet(Head(work).ops) /\ results' = results \o r
  BY FailedResponse
<1>2. DOMAIN r = {1} /\ r[1] = one
  OBVIOUS
<1>3. one.ok = FALSE
  BY DEF Response
<1> HIDE DEF r, one
<1>4. \A k \in DOMAIN r : ~r[k].ok
  BY <1>2, <1>3
<1> QED
  BY <1>1, <1>4, SettlesPromised

\* A failure is reported.
LEMMA ReportPromised == ASSUME IInv, DeliveryInv, Report PROVE DeliveryInv' /\ Promised
<1>1. work # <<>> /\ UNCHANGED <<script, log, late>> /\ wire' = Quiet
  <2>1. work # <<>> /\ Head(work).kind = "failure"
    BY DEF Report, NextIs
  <2>2. wire' = Quiet
    BY <2>1, WireQuiet DEF Report
  <2> QED
    BY <2>1, <2>2 DEF Report, server
<1>2. CASE mode = "stop" /\ EndWithError /\ UNCHANGED results
  BY <1>1, <1>2, EndsPromised
<1>3. CASE /\ results' = Append(results, Response(Head(work).ops, FALSE))
           /\ work' = Tail(work) /\ UNCHANGED <<grouper, pc>>
  BY <1>1, <1>3, FailsPromised
<1> QED
  BY <1>2, <1>3 DEF Report

\* A request is answered when the server has applied all of it.
LEMMA AnsweredPromised == ASSUME IInv, DeliveryInv, Answered PROVE DeliveryInv' /\ Promised
<1> DEFINE r == EachAlone(Head(work).ops, TRUE)
<1>1. /\ work # <<>> /\ wire.sent /\ wire.left = <<>> /\ wire' = Quiet
      /\ UNCHANGED <<script, log, pc, late>>
  BY DEF Answered, IInv, WireInv, server
<1>2. r \in Seq(Responses) /\ Held(r) = ToSet(Head(work).ops)
  BY <1>1, HeadJob, AloneAnswers
<1>3. ToSet(Head(work).ops) \subseteq ToSet(log)
  BY <1>1, Nothing DEF DeliveryInv, SentInv
<1>4. results' = results \o r /\ work' = Tail(work)
  BY DEF Answered
<1> HIDE DEF r
<1> QED
  BY <1>1, <1>2, <1>3, <1>4, SettlesPromised

\* An answer with another number of items.
LEMMA MiscountedPromised == ASSUME IInv, DeliveryInv, Miscounted PROVE DeliveryInv' /\ Promised
<1> DEFINE r == EachAlone(Head(work).ops, FALSE)
<1>1. work # <<>> /\ UNCHANGED <<script, log, late>> /\ wire' = Quiet
  BY DEF Miscounted, NextIs, server
<1>2. CASE mode = "stop" /\ EndWithError /\ UNCHANGED results
  BY <1>1, <1>2, EndsPromised
<1>3. CASE results' = results \o r /\ work' = Tail(work) /\ UNCHANGED <<grouper, pc>>
  <2>1. r \in Seq(Responses) /\ Held(r) = ToSet(Head(work).ops)
    BY <1>1, HeadJob, AloneAnswers
  <2>2. \A k \in DOMAIN r : ~r[k].ok
    BY DEF EachAlone, Response
  <2> HIDE DEF r
  <2> QED
    BY <1>1, <1>3, <2>1, <2>2, SettlesPromised
<1> QED
  BY <1>2, <1>3 DEF Miscounted

\* An error instead of an answer.
LEMMA LostPromised == ASSUME IInv, DeliveryInv, Lost PROVE DeliveryInv' /\ Promised
<1>1. /\ work # <<>> /\ UNCHANGED <<script, log>> /\ wire' = Quiet
      /\ late' \in {late, late \cup ({wire.left} \ {<<>>})}
  BY DEF Lost, GiveUp, IInv, WireInv
<1>2. CASE mode = "stop" /\ EndWithError /\ UNCHANGED results
  BY <1>1, <1>2, EndsPromised
<1>3. CASE /\ results' = Append(results, Response(Head(work).ops, FALSE))
           /\ work' = Tail(work) /\ UNCHANGED <<grouper, pc>>
  BY <1>1, <1>3, FailsPromised
<1>4. CASE /\ NextIs({"batch"}) /\ work' = Retries(Head(work).ops) \o Tail(work)
           /\ UNCHANGED <<grouper, pc, results>>
  <2>1. Head(work).kind = "batch"
    BY <1>4 DEF NextIs
  <2> QED
    BY <1>1, <1>4, <2>1, RetriesDelivery, ContractIdle DEF Promised
<1> QED
  BY <1>2, <1>3, <1>4 DEF Lost

\* The call is dropped.
LEMMA TimeoutPromised == ASSUME IInv, DeliveryInv, Timeout PROVE DeliveryInv' /\ Promised
  BY EndsPromised DEF Timeout, GiveUp

\* A request leaves; the server goes on with one, in time or late.
LEMMA ServesPromised ==
  ASSUME IInv, DeliveryInv, Send \/ ServerApplies \/ Straggle
  PROVE  DeliveryInv' /\ Promised
<1>1. CASE Send
  <2>1. UNCHANGED <<script, results, log>>
    BY <1>1 DEF Send, server
  <2> QED
    BY <1>1, <2>1, SendDelivery, ContractIdle DEF Promised
<1>2. CASE ServerApplies
  <2>1. log' = Append(log, Head(wire.left)) /\ UNCHANGED <<script, results>>
    BY <1>2 DEF ServerApplies
  <2> QED
    BY <1>2, <2>1, ServerAppliesDelivery, ContractApply DEF Promised
<1>3. CASE Straggle
  <2>1. UNCHANGED <<script, pc, work, wire, results>>
    BY <1>3 DEF Straggle
  <2>2. PICK xs \in late :
          log' = Append(log, Head(xs)) /\ late' = (late \ {xs}) \cup ({Tail(xs)} \ {<<>>})
    BY <1>3 DEF Straggle
  <2>3. /\ DeliveryInv' /\ Head(xs) \in Ops
        /\ Conditional(Head(xs)) => Head(xs) \notin ToSet(log)
        /\ \A y \in Ops : Precedes(y, Head(xs)) => y \in Held(results) \cup ToSet(log)
    BY <2>1, <2>2, StraggleDelivery
  <2> QED
    BY <2>1, <2>2, <2>3, ContractApply DEF Promised
<1> QED
  BY <1>1, <1>2, <1>3

\* Nothing changes.
LEMMA StutterPromised == ASSUME DeliveryInv, UNCHANGED vars PROVE DeliveryInv' /\ Promised
<1>1. UNCHANGED <<script, pc, work, wire, results, log, late>>
  BY DEF vars
<1>2. Ops' = Ops /\ \A x : Conditional(x)' <=> Conditional(x)
  BY <1>1, OpsKept
<1>3. SentInv' /\ Covered(wire.left)' /\ \A xs \in late' : Covered(xs)'
  BY <1>1, <1>2 DEF DeliveryInv, SentInv, Covered
<1>4. OnceInv'
  BY <1>1, <1>2 DEF DeliveryInv, OnceInv, Touched, Settled
<1> QED
  BY <1>1, <1>3, <1>4, ContractIdle DEF DeliveryInv, Promised

\* The executor implements ScriptContract: whatever is grouped, lost, sent
\* again or late, operations are answered in script order, none overtakes an
\* undecided earlier one at the server, only applied ones are answered ok and
\* a conditional one is applied at most once (execute_batch_nodes).
THEOREM ImplementsContract == Spec => KeepsContract
<1>1. Init => DeliveryInv /\ Contract!Init
  BY DeliveryInit
<1>2. IInv /\ DeliveryInv /\ [Next]_vars => DeliveryInv' /\ Promised
  BY TakesPromised, ReportPromised, AnsweredPromised, MiscountedPromised, LostPromised,
     TimeoutPromised, ServesPromised, StutterPromised DEF Next, Returned
<1>3. DeliveryInv /\ Promised => [Contract!Next]_(Contract!vars)
  BY DEF Promised
<1> QED
  BY <1>1, <1>2, Invariant, PTL DEF Spec, Promised, KeepsContract, Contract!Spec

-----------------------------------------------------------------------------
(* The data: what runs of effects do to a store. *)

\* A non-empty set of natural numbers has a least element.
LEMMA LeastElement ==
  ASSUME NEW S \in SUBSET Nat, S # {}
  PROVE  \E x \in S : \A y \in S : x <= y
<1> DEFINE R == OpToRel(<, Nat)
<1>1. IsWellFoundedOn(R, Nat)
  BY NatLessThanWellFounded
<1>2. \A x, y \in Nat : y < x => <<y, x>> \in R
  BY DEF OpToRel
<1> HIDE DEF R
<1>3. PICK x \in S : \A y \in S : ~ (<<y, x>> \in R)
  BY <1>1, WFMin
<1>4. ASSUME NEW y \in S PROVE x <= y
  <2>1. x \in Nat /\ y \in Nat /\ ~ (<<y, x>> \in R)
    BY <1>3
  <2> QED
    BY <1>2, <2>1
<1> QED
  BY <1>4

Stores == [Points -> Values \cup {Absent}]

\* An effect leaves a store.
LEMMA ApplyType ==
  ASSUME NEW s \in Stores, NEW e \in Effects
  PROVE  Apply(s, e) \in Stores
  BY DEF Apply, Stores, Effects

\* A run from a store exists.
LEMMA RunExists ==
  ASSUME NEW s \in Stores, NEW E \in Seq(Effects)
  PROVE  \E g \in [0..Len(E) -> Stores] :
           g = [n \in 0..Len(E) |-> IF n = 0 THEN s ELSE Apply(g[n - 1], E[n])]
<1> DEFINE Reaches(m) == \E g \in [0..m -> Stores] :
              g[0] = s /\ \A n \in 1..m : g[n] = Apply(g[n - 1], E[n])
           Bad == {m \in 0..Len(E) : ~Reaches(m)}
<1>1. Len(E) \in Nat /\ \A n \in 1..Len(E) : E[n] \in Effects
  BY LenProperties, ElementOfSeq
<1>2. Bad = {}
  <2> SUFFICES ASSUME Bad # {} PROVE FALSE
    OBVIOUS
  <2>1. Bad \in SUBSET Nat
    BY <1>1
  <2>2. PICK m \in Bad : \A k \in Bad : m <= k
    BY <2>1, LeastElement
  <2>3. m # 0
    <3> DEFINE g == [n \in 0..0 |-> s]
    <3>1. g \in [0..0 -> Stores] /\ g[0] = s /\ \A n \in 1..0 : g[n] = Apply(g[n - 1], E[n])
      OBVIOUS
    <3>2. Reaches(0)
      BY <3>1
    <3> QED
      BY <3>2
  <2>4. m \in 1..Len(E) /\ m - 1 \in 0..Len(E) /\ m - 1 \notin Bad
    <3> HIDE DEF Reaches
    <3> QED
      BY <1>1, <2>2, <2>3
  <2>5. PICK g \in [0..(m - 1) -> Stores] :
          g[0] = s /\ \A n \in 1..(m - 1) : g[n] = Apply(g[n - 1], E[n])
    BY <2>4
  <2> DEFINE h == [n \in 0..m |-> IF n = m THEN Apply(g[m - 1], E[m]) ELSE g[n]]
  <2>6. Apply(g[m - 1], E[m]) \in Stores
    BY <1>1, <2>4, ApplyType
  <2>7. h \in [0..m -> Stores] /\ h[0] = s
    BY <2>3, <2>4, <2>5, <2>6
  <2>8. ASSUME NEW n \in 1..m PROVE h[n] = Apply(h[n - 1], E[n])
    <3>1. CASE n = m
      BY <2>4, <3>1
    <3>2. CASE n # m
      <4>1. n \in 1..(m - 1) /\ n - 1 \in 0..(m - 1) /\ n - 1 # m /\ n \in 0..m /\ n - 1 \in 0..m
        BY <2>4, <3>2
      <4>2. h[n] = g[n] /\ h[n - 1] = g[n - 1]
        BY <3>2, <4>1
      <4> QED
        BY <2>5, <4>1, <4>2
    <3> QED
      BY <3>1, <3>2
  <2> HIDE DEF h
  <2>9. Reaches(m)
    BY <2>7, <2>8
  <2> QED
    BY <2>2, <2>9
<1>3. Reaches(Len(E))
  BY <1>1, <1>2
<1>4. PICK g \in [0..Len(E) -> Stores] :
        g[0] = s /\ \A n \in 1..Len(E) : g[n] = Apply(g[n - 1], E[n])
  BY <1>3
<1>5. g = [n \in 0..Len(E) |-> IF n = 0 THEN s ELSE Apply(g[n - 1], E[n])]
  BY <1>1, <1>4
<1> QED
  BY <1>5

\* It is the only one: a function that starts and goes on like the run is the run.
LEMMA RunUnique ==
  ASSUME NEW E \in Seq(Effects), NEW f, NEW g,
         f[0] = g[0],
         \A n \in 1..Len(E) : f[n] = Apply(f[n - 1], E[n]),
         \A n \in 1..Len(E) : g[n] = Apply(g[n - 1], E[n])
  PROVE  \A n \in 0..Len(E) : f[n] = g[n]
<1> DEFINE Bad == {n \in 0..Len(E) : f[n] # g[n]}
<1>1. Len(E) \in Nat
  BY LenProperties
<1> SUFFICES ASSUME Bad # {} PROVE FALSE
  OBVIOUS
<1>2. Bad \in SUBSET Nat
  BY <1>1
<1>3. PICK m \in Bad : \A k \in Bad : m <= k
  BY <1>2, LeastElement
<1>4. m \in 1..Len(E) /\ m - 1 \in 0..Len(E) /\ m - 1 \notin Bad
  BY <1>1, <1>3
<1> QED
  BY <1>3, <1>4

\* What Run is: it starts with the store and goes on effect by effect.
LEMMA RunSteps ==
  ASSUME NEW s \in Stores, NEW E \in Seq(Effects)
  PROVE  /\ Run(s, E)[0] = s
         /\ \A n \in 1..Len(E) : Run(s, E)[n] = Apply(Run(s, E)[n - 1], E[n])
         /\ \A n \in 0..Len(E) : Run(s, E)[n] \in Stores
         /\ After(s, E) \in Stores
<1> DEFINE F(f) == [n \in 0..Len(E) |-> IF n = 0 THEN s ELSE Apply(f[n - 1], E[n])]
           r == Run(s, E)
<1>1. PICK g \in [0..Len(E) -> Stores] : g = F(g)
  BY RunExists
<1>2. r = CHOOSE f : f = F(f)
  BY DEF Run
<1>3. r = F(r)
  <2> HIDE DEF F, r
  <2> QED
    BY <1>1, <1>2
<1>4. Len(E) \in Nat
  BY LenProperties
<1>5. r[0] = s /\ \A n \in 1..Len(E) : r[n] = Apply(r[n - 1], E[n])
  <2> HIDE DEF r
  <2> QED
    BY <1>3, <1>4
<1>6. g[0] = s /\ \A n \in 1..Len(E) : g[n] = Apply(g[n - 1], E[n])
  BY <1>1, <1>4
<1> HIDE DEF r, F
<1>7. \A n \in 0..Len(E) : r[n] = g[n]
  BY <1>5, <1>6, RunUnique
<1>8. \A n \in 0..Len(E) : r[n] \in Stores
  BY <1>7
<1>9. r[Len(E)] \in Stores
  BY <1>4, <1>8
<1> QED
  BY <1>5, <1>8, <1>9 DEF r, After

\* One run behind another is the run of both.
LEMMA RunConcat ==
  ASSUME NEW s \in Stores, NEW E \in Seq(Effects), NEW F \in Seq(Effects)
  PROVE  After(s, E \o F) = After(After(s, E), F)
<1> DEFINE EF == E \o F
           t == After(s, E)
           f == Run(s, EF)
           g == Run(s, E)
           h == Run(t, F)
           k == [n \in 0..Len(F) |-> f[Len(E) + n]]
<1>1. /\ EF \in Seq(Effects) /\ Len(EF) = Len(E) + Len(F)
      /\ Len(E) \in Nat /\ Len(F) \in Nat
      /\ \A i \in 1..(Len(E) + Len(F)) : EF[i] = IF i <= Len(E) THEN E[i] ELSE F[i - Len(E)]
  BY ConcatProperties, LenProperties
<1>2. t \in Stores /\ g[0] = s /\ g[Len(E)] = t /\ \A n \in 1..Len(E) : g[n] = Apply(g[n - 1], E[n])
  BY RunSteps DEF After
<1>3. f[0] = s /\ \A n \in 1..Len(EF) : f[n] = Apply(f[n - 1], EF[n])
  <2> HIDE DEF EF
  <2> QED
    BY <1>1, RunSteps
<1>4. h[0] = t /\ \A n \in 1..Len(F) : h[n] = Apply(h[n - 1], F[n])
  <2> HIDE DEF t
  <2> QED
    BY <1>2, RunSteps
<1> HIDE DEF EF, t, f, g, h
<1>5. \A n \in 1..Len(E) : f[n] = Apply(f[n - 1], E[n])
  BY <1>1, <1>3
<1>6. \A n \in 0..Len(E) : f[n] = g[n]
  BY <1>2, <1>3, <1>5, RunUnique
<1>7. k[0] = t
  BY <1>1, <1>2, <1>6
<1>8. ASSUME NEW n \in 1..Len(F) PROVE k[n] = Apply(k[n - 1], F[n])
  <2>1. /\ Len(E) + n \in 1..(Len(E) + Len(F)) /\ ~(Len(E) + n <= Len(E))
        /\ (Len(E) + n) - Len(E) = n /\ (Len(E) + n) - 1 = Len(E) + (n - 1)
        /\ n \in 0..Len(F) /\ n - 1 \in 0..Len(F)
    BY <1>1
  <2>2. EF[Len(E) + n] = F[n]
    BY <1>1, <2>1
  <2>3. f[Len(E) + n] = Apply(f[Len(E) + (n - 1)], F[n])
    BY <1>1, <1>3, <2>1, <2>2
  <2> QED
    BY <2>1, <2>3
<1>9. Len(F) \in 0..Len(F)
  BY <1>1
<1>10. k[Len(F)] = f[Len(EF)]
  BY <1>1, <1>9
<1> HIDE DEF k
<1>11. k[Len(F)] = h[Len(F)]
  BY <1>4, <1>7, <1>8, <1>9, RunUnique
<1> QED
  BY <1>10, <1>11 DEF EF, f, h, t, After

\* A run of nothing, and of one effect more.
LEMMA RunEnds ==
  ASSUME NEW s \in Stores
  PROVE  /\ After(s, <<>>) = s
         /\ \A e \in Effects : After(s, <<e>>) = Apply(s, e)
<1>1. <<>> \in Seq(Effects) /\ Len(<<>>) = 0
  OBVIOUS
<1>2. After(s, <<>>) = s
  BY <1>1, RunSteps DEF After
<1>3. ASSUME NEW e \in Effects PROVE After(s, <<e>>) = Apply(s, e)
  <2> DEFINE one == <<e>>
  <2>1. one \in Seq(Effects) /\ Len(one) = 1 /\ one[1] = e
    OBVIOUS
  <2> HIDE DEF one
  <2>2. Run(s, one)[1] = Apply(Run(s, one)[1 - 1], one[1]) /\ Run(s, one)[0] = s
    BY <2>1, RunSteps
  <2> QED
    BY <2>1, <2>2 DEF After, one
<1> QED
  BY <1>2, <1>3

\* Effects that can be sent again: they name their point and have no condition.
Repeatable == {e \in Effects : e.kind \notin {"insert", "purge"}}

\* What such a run does to a point: nothing, or it leaves a value, or it leaves
\* a value where there was one.
Keeps(p, r, n) == \A s \in Stores : r[s][n][p] = s[p]
Sets(p, r, n, v) == \A s \in Stores : r[s][n][p] = v
Replaces(p, r, n, v) == \A s \in Stores : r[s][n][p] = IF s[p] = Absent THEN Absent ELSE v

LEMMA RunShape ==
  ASSUME NEW E \in Seq(Repeatable), NEW p \in Points
  PROVE  LET r == [s \in Stores |-> Run(s, E)]
         IN  \A n \in 0..Len(E) :
               \/ Keeps(p, r, n)
               \/ \E v \in Values \cup {Absent} : Sets(p, r, n, v)
               \/ \E v \in Values : Replaces(p, r, n, v)
<1> DEFINE r == [s \in Stores |-> Run(s, E)]
           Shaped(n) == \/ Keeps(p, r, n)
                        \/ \E v \in Values \cup {Absent} : Sets(p, r, n, v)
                        \/ \E v \in Values : Replaces(p, r, n, v)
           Bad == {n \in 0..Len(E) : ~Shaped(n)}
<1>1. E \in Seq(Effects) /\ Len(E) \in Nat /\ \A n \in 1..Len(E) : E[n] \in Repeatable
  <2>1. Len(E) \in Nat /\ \A n \in 1..Len(E) : E[n] \in Repeatable
    BY LenProperties, ElementOfSeq
  <2>2. E \in Seq(Effects)
    BY SeqMonotonic DEF Repeatable
  <2> QED
    BY <2>1, <2>2
<1>2. \A s \in Stores : /\ r[s][0] = s
                        /\ \A n \in 1..Len(E) : r[s][n] = Apply(r[s][n - 1], E[n])
                        /\ \A n \in 0..Len(E) : r[s][n] \in Stores
  BY <1>1, RunSteps
<1> HIDE DEF r
<1>3. Shaped(0)
  BY <1>2 DEF Keeps
<1>4. ASSUME NEW n \in 1..Len(E), Shaped(n - 1) PROVE Shaped(n)
  <2> DEFINE e == E[n]
  <2>1. e \in Effects /\ e.kind \in {"read", "put", "assign", "delete"}
        /\ e.val \in Values /\ Absent \notin Values
    BY <1>1, ScriptAssumption DEF Repeatable, Effects
  <2>2. n - 1 \in 0..Len(E) /\ n \in 0..Len(E)
    BY <1>1
  <2>3. ASSUME NEW s \in Stores
        PROVE  r[s][n][p] = CASE e.kind = "put" /\ e.id = p -> e.val
                              [] e.kind = "delete" /\ e.id = p -> Absent
                              [] e.kind = "assign" /\ e.id = p ->
                                   IF r[s][n - 1][p] = Absent THEN Absent ELSE e.val
                              [] OTHER -> r[s][n - 1][p]
    <3> DEFINE old == r[s][n - 1]
    <3>1. r[s][n] = Apply(old, e) /\ old \in Stores
      BY <1>2, <2>2
    <3> HIDE DEF old, e
    <3>2. Apply(old, e)[p] = CASE e.kind = "put" /\ e.id = p -> e.val
                              [] e.kind = "delete" /\ e.id = p -> Absent
                              [] e.kind = "assign" /\ e.id = p ->
                                   IF old[p] = Absent THEN Absent ELSE e.val
                              [] OTHER -> old[p]
      BY <2>1, <3>1 DEF Apply, Stores
    <3> QED
      BY <3>1, <3>2 DEF old
  <2> HIDE DEF e
  <2>4. CASE e.kind = "put" /\ e.id = p
    BY <2>1, <2>3, <2>4 DEF Sets
  <2>5. CASE e.kind = "delete" /\ e.id = p
    BY <2>1, <2>3, <2>5 DEF Sets
  <2>6. CASE e.kind = "assign" /\ e.id = p
    <3>1. \A s \in Stores : r[s][n][p] = IF r[s][n - 1][p] = Absent THEN Absent ELSE e.val
      BY <2>1, <2>3, <2>6
    <3>2. CASE Keeps(p, r, n - 1)
      BY <2>1, <3>1, <3>2 DEF Keeps, Replaces
    <3>3. CASE \E v \in Values \cup {Absent} : Sets(p, r, n - 1, v)
      BY <2>1, <3>1, <3>3 DEF Sets
    <3>4. CASE \E v \in Values : Replaces(p, r, n - 1, v)
      BY <2>1, <3>1, <3>4 DEF Replaces
    <3> QED
      BY <1>4, <3>2, <3>3, <3>4
  <2>7. CASE e.id # p \/ e.kind = "read"
    <3>1. \A s \in Stores : r[s][n][p] = r[s][n - 1][p]
      BY <2>1, <2>3, <2>7
    <3> QED
      BY <1>4, <3>1 DEF Keeps, Sets, Replaces
  <2> QED
    BY <2>1, <2>4, <2>5, <2>6, <2>7
<1> HIDE DEF Shaped
<1>5. Bad = {}
  <2> SUFFICES ASSUME Bad # {} PROVE FALSE
    OBVIOUS
  <2>1. Bad \in SUBSET Nat
    BY <1>1
  <2>2. PICK m \in Bad : \A k \in Bad : m <= k
    BY <2>1, LeastElement
  <2>3. m \in 1..Len(E) /\ m - 1 \in 0..Len(E) /\ m - 1 \notin Bad
    BY <1>1, <1>3, <2>2
  <2> QED
    BY <1>4, <2>2, <2>3
<1>6. \A n \in 0..Len(E) : Shaped(n)
  BY <1>5
<1> QED
  BY <1>6 DEF Shaped, r

\* Such a run leaves a store that it has been through as it is.
LEMMA RunTwice ==
  ASSUME NEW s \in Stores, NEW E \in Seq(Repeatable)
  PROVE  After(After(s, E), E) = After(s, E)
<1> DEFINE r == [t \in Stores |-> Run(t, E)]
           n == Len(E)
           a == After(s, E)
           b == After(a, E)
<1>1. E \in Seq(Effects) /\ n \in Nat
  BY LenProperties, SeqMonotonic DEF Repeatable
<1>2. a \in Stores /\ b \in Stores /\ \A t \in Stores : r[t] = Run(t, E)
  BY <1>1, RunSteps
<1>3. a = r[s][n] /\ b = r[a][n]
  BY <1>2 DEF After
<1>4. n \in 0..n
  BY <1>1
<1>5. ASSUME NEW p \in Points
      PROVE  \/ Keeps(p, r, n)
             \/ \E v \in Values \cup {Absent} : Sets(p, r, n, v)
             \/ \E v \in Values : Replaces(p, r, n, v)
  BY <1>4, RunShape
<1> HIDE DEF r, n, a, b
<1>6. ASSUME NEW p \in Points PROVE b[p] = a[p]
  <2>1. Absent \notin Values
    BY ScriptAssumption
  <2>2. CASE Keeps(p, r, n)
    BY <1>2, <1>3, <2>2 DEF Keeps
  <2>3. CASE \E v \in Values \cup {Absent} : Sets(p, r, n, v)
    BY <1>2, <1>3, <2>3 DEF Sets
  <2>4. CASE \E v \in Values : Replaces(p, r, n, v)
    BY <1>2, <1>3, <2>1, <2>4 DEF Replaces
  <2> QED
    BY <1>5, <2>2, <2>3, <2>4
<1>7. a = b
  BY <1>2, <1>6 DEF Stores
<1> QED
  BY <1>7 DEF a, b

\* The effects of operations, one by one and put together.
LEMMA EffectTypes ==
  ASSUME script \in Scripts, NEW xs \in Seq(Ops), NEW ys \in Seq(Ops)
  PROVE  /\ EffectsOf(xs) \in Seq(Effects) /\ Len(EffectsOf(xs)) = Len(xs)
         /\ DOMAIN EffectsOf(xs) = DOMAIN xs
         /\ EffectsOf(xs \o ys) = EffectsOf(xs) \o EffectsOf(ys)
<1>1. ASSUME NEW x \in Ops PROVE Effect(x) \in Effects
  <2>1. PICK i \in DOMAIN script : x \in ToSet(OpsOf(i))
    BY DEF Ops
  <2>2. PICK j \in DOMAIN script[i].ops : x = <<i, j>>
    BY <2>1 DEF ToSet, OpsOf
  <2>3. script[i].ops \in Seq(Effects)
    BY <2>1, Members DEF Statements
  <2>4. script[i].ops[j] \in Effects
    BY <2>2, <2>3, LenProperties, ElementOfSeq
  <2> QED
    BY <2>2, <2>4 DEF Effect
<1>2. ASSUME NEW zs \in Seq(Ops)
      PROVE  /\ EffectsOf(zs) \in Seq(Effects) /\ Len(EffectsOf(zs)) = Len(zs)
             /\ DOMAIN EffectsOf(zs) = 1..Len(zs) /\ DOMAIN zs = 1..Len(zs) /\ Len(zs) \in Nat
             /\ \A i \in 1..Len(zs) : EffectsOf(zs)[i] = Effect(zs[i])
  <2>1. DOMAIN zs = 1..Len(zs) /\ Len(zs) \in Nat /\ \A i \in 1..Len(zs) : zs[i] \in Ops
    BY LenProperties, ElementOfSeq
  <2>2. EffectsOf(zs) = [i \in 1..Len(zs) |-> Effect(zs[i])]
    BY <2>1 DEF EffectsOf
  <2> QED
    BY <1>1, <2>1, <2>2
<1> DEFINE xy == xs \o ys
           E == EffectsOf(xs) \o EffectsOf(ys)
<1>3. /\ xy \in Seq(Ops) /\ Len(xy) = Len(xs) + Len(ys)
      /\ \A i \in 1..(Len(xs) + Len(ys)) : xy[i] = IF i <= Len(xs) THEN xs[i] ELSE ys[i - Len(xs)]
  BY ConcatProperties
<1>4. /\ E \in Seq(Effects) /\ Len(E) = Len(xs) + Len(ys)
      /\ \A i \in 1..(Len(xs) + Len(ys)) :
           E[i] = IF i <= Len(xs) THEN EffectsOf(xs)[i] ELSE EffectsOf(ys)[i - Len(xs)]
  <2> DEFINE ex == EffectsOf(xs)
             ey == EffectsOf(ys)
  <2>1. ex \in Seq(Effects) /\ ey \in Seq(Effects) /\ Len(ex) = Len(xs) /\ Len(ey) = Len(ys)
    BY <1>2
  <2> HIDE DEF ex, ey
  <2>2. /\ ex \o ey \in Seq(Effects) /\ Len(ex \o ey) = Len(ex) + Len(ey)
        /\ \A i \in 1..(Len(ex) + Len(ey)) :
             (ex \o ey)[i] = IF i <= Len(ex) THEN ex[i] ELSE ey[i - Len(ex)]
    BY <2>1, ConcatProperties
  <2> QED
    BY <2>1, <2>2 DEF ex, ey
<1> HIDE DEF xy, E
<1>5. ASSUME NEW i \in 1..(Len(xs) + Len(ys)) PROVE EffectsOf(xy)[i] = E[i]
  <2>1. EffectsOf(xy)[i] = Effect(xy[i])
    BY <1>2, <1>3
  <2>2. CASE i <= Len(xs)
    <3>1. i \in 1..Len(xs)
      BY <1>2, <2>2
    <3> QED
      BY <1>2, <1>3, <1>4, <2>1, <2>2, <3>1
  <2>3. CASE ~(i <= Len(xs))
    <3>1. i - Len(xs) \in 1..Len(ys)
      BY <1>2, <2>3
    <3>2. EffectsOf(ys)[i - Len(xs)] = Effect(ys[i - Len(xs)])
      BY <1>2, <3>1
    <3> QED
      BY <1>3, <1>4, <2>1, <2>3, <3>2
  <2> QED
    BY <2>2, <2>3
<1>6. EffectsOf(xy) = E
  BY <1>2, <1>3, <1>4, <1>5, SeqEqual
<1> QED
  BY <1>2, <1>6 DEF xy, E

\* The effects of no operation, and of one.
LEMMA EffectEnds ==
  ASSUME script \in Scripts
  PROVE  /\ EffectsOf(<<>>) = <<>>
         /\ \A x \in Ops : EffectsOf(<<x>>) = <<Effect(x)>> /\ Effect(x) \in Effects
<1> DEFINE none == <<>>
<1>1. none \in Seq(Ops) /\ Len(none) = 0
  OBVIOUS
<1>2. EffectsOf(none) \in Seq(Effects) /\ Len(EffectsOf(none)) = 0
  BY <1>1, EffectTypes
<1>3. EffectsOf(none) = <<>>
  BY <1>2, EmptySeq
<1>4. ASSUME NEW x \in Ops PROVE EffectsOf(<<x>>) = <<Effect(x)>> /\ Effect(x) \in Effects
  <2> DEFINE one == <<x>>
             E == EffectsOf(one)
  <2>1. one \in Seq(Ops) /\ Len(one) = 1 /\ one[1] = x /\ DOMAIN one = {1}
    OBVIOUS
  <2> HIDE DEF one
  <2>2. E \in Seq(Effects) /\ Len(E) = 1
    BY <2>1, EffectTypes
  <2>3. E[1] = Effect(x)
    BY <2>1 DEF EffectsOf
  <2> HIDE DEF E
  <2>4. E[1] \in Effects /\ E = <<E[1]>>
    BY <2>2
  <2> QED
    BY <2>3, <2>4 DEF E, one
<1> QED
  BY <1>3, <1>4

\* The store after operations put together.
LEMMA StoreConcat ==
  ASSUME script \in Scripts, NEW xs \in Seq(Ops), NEW ys \in Seq(Ops)
  PROVE  /\ Store(xs) \in Stores
         /\ Store(xs \o ys) = After(Store(xs), EffectsOf(ys))
         /\ \A s \in Stores : /\ After(s, EffectsOf(xs)) \in Stores
                              /\ After(s, EffectsOf(xs \o ys))
                                   = After(After(s, EffectsOf(xs)), EffectsOf(ys))
<1>1. Empty \in Stores
  BY DEF Empty, Stores
<1>2. /\ EffectsOf(xs) \in Seq(Effects) /\ EffectsOf(ys) \in Seq(Effects)
      /\ EffectsOf(xs \o ys) = EffectsOf(xs) \o EffectsOf(ys)
  BY EffectTypes
<1>3. \A s \in Stores : After(s, EffectsOf(xs)) \in Stores
  BY <1>2, RunSteps
<1>4. \A s \in Stores :
        After(s, EffectsOf(xs) \o EffectsOf(ys)) = After(After(s, EffectsOf(xs)), EffectsOf(ys))
  BY <1>2, RunConcat
<1> QED
  BY <1>1, <1>2, <1>3, <1>4 DEF Store

\* One more operation, and none.
LEMMA StoreEnds ==
  ASSUME script \in Scripts
  PROVE  \A s \in Stores : /\ After(s, EffectsOf(<<>>)) = s
                           /\ \A x \in Ops : After(s, EffectsOf(<<x>>)) = Apply(s, Effect(x))
  BY EffectEnds, RunEnds

\* Operations without a condition that name their points can be sent again.
LEMMA RunAgain ==
  ASSUME script \in Scripts, ById, NEW xs \in Seq(Ops), \A x \in ToSet(xs) : ~Conditional(x),
         NEW s \in Stores
  PROVE  After(After(s, EffectsOf(xs)), EffectsOf(xs)) = After(s, EffectsOf(xs))
<1> DEFINE E == EffectsOf(xs)
<1>1. E \in Seq(Effects) /\ DOMAIN E = DOMAIN xs /\ DOMAIN xs = 1..Len(xs) /\ Len(E) = Len(xs)
  BY EffectTypes, LenProperties
<1>2. ASSUME NEW i \in DOMAIN xs PROVE E[i] \in Repeatable
  <2>1. xs[i] \in Ops /\ xs[i] \in ToSet(xs) /\ E[i] = Effect(xs[i])
    BY <1>1, ElementOfSeq, InSequence DEF EffectsOf
  <2>2. Effect(xs[i]) \in Effects
    BY <2>1, EffectEnds
  <2> QED
    BY <2>1, <2>2 DEF Repeatable, Conditional, ById
<1> HIDE DEF E
<1>3. E \in Seq(Repeatable)
  <2>1. E = [i \in 1..Len(xs) |-> E[i]]
    BY <1>1
  <2> QED
    BY <1>1, <1>2, <2>1, IsASeq
<1> QED
  BY <1>3, RunTwice DEF E

\* There is one way to put operations in order.
LEMMA OneOrder ==
  ASSUME script \in Scripts, NEW s \in Seq(Ops), NEW t \in Seq(Ops),
         InOrder(s), InOrder(t), ToSet(s) = ToSet(t)
  PROVE  s = t
<1> DEFINE Here(u, n) == n \in DOMAIN u
           Bad == {n \in Nat : ~(Here(s, n) /\ Here(t, n) /\ s[n] = t[n])
                               /\ (Here(s, n) \/ Here(t, n))}
<1>1. ASSUME NEW u \in Seq(Ops)
      PROVE  DOMAIN u = 1..Len(u) /\ Len(u) \in Nat /\ \A i \in DOMAIN u : u[i] \in Ops
  BY LenProperties, ElementOfSeq
<1>2. ASSUME NEW u \in Seq(Ops), NEW v \in Seq(Ops), InOrder(u), InOrder(v), ToSet(u) = ToSet(v),
             NEW m \in DOMAIN u,
             \A n \in 1..(m - 1) : n \in DOMAIN u /\ n \in DOMAIN v /\ u[n] = v[n]
      PROVE  m \in DOMAIN v /\ (u[m] = v[m] \/ Precedes(v[m], u[m]))
  <2>1. u[m] \in ToSet(v)
    BY <1>2, InSequence
  <2>2. PICK j \in DOMAIN v : u[m] = v[j]
    BY <2>1, InSequence
  <2>3. m \in Nat \ {0} /\ j \in Nat \ {0} /\ u[m] \in Ops
    BY <1>1
  <2>4. ~(j < m)
    <3> SUFFICES ASSUME j < m PROVE FALSE
      OBVIOUS
    <3>1. j \in 1..(m - 1)
      BY <2>3
    <3>2. j \in DOMAIN u /\ u[j] = u[m]
      BY <1>2, <2>2, <3>1
    <3>3. Precedes(u[j], u[m])
      BY <1>2, <3>2 DEF InOrder
    <3> QED
      BY <2>3, <3>2, <3>3, ScriptOrder
  <2>5. m \in DOMAIN v
    BY <1>1, <2>3, <2>4
  <2>6. j = m \/ m < j
    BY <2>3, <2>4
  <2> QED
    BY <1>2, <2>2, <2>5, <2>6 DEF InOrder
<1>3. Bad = {}
  <2> SUFFICES ASSUME Bad # {} PROVE FALSE
    OBVIOUS
  <2>1. PICK m \in Bad : \A k \in Bad : m <= k
    BY LeastElement
  <2>2. m \in Nat \ {0} /\ (m \in DOMAIN s \/ m \in DOMAIN t)
    BY <1>1, <2>1
  <2>3. ASSUME NEW n \in 1..(m - 1) PROVE n \in DOMAIN s /\ n \in DOMAIN t /\ s[n] = t[n]
    <3>1. n \in Nat /\ n \notin Bad
      BY <2>1, <2>2
    <3>2. n \in DOMAIN s \/ n \in DOMAIN t
      BY <1>1, <2>2
    <3> QED
      BY <3>1, <3>2
  <2>4. m \in DOMAIN s /\ m \in DOMAIN t
    BY <1>2, <2>2, <2>3
  <2>5. s[m] = t[m] \/ (Precedes(s[m], t[m]) /\ Precedes(t[m], s[m]))
    BY <1>2, <2>3, <2>4
  <2>6. s[m] \in Ops /\ t[m] \in Ops
    BY <1>1, <2>4
  <2>7. s[m] = t[m]
    BY <2>5, <2>6, ScriptOrder
  <2> QED
    BY <2>1, <2>4, <2>7
<1>4. \A n \in Nat : (n \in DOMAIN s <=> n \in DOMAIN t) /\ (n \in DOMAIN s => s[n] = t[n])
  BY <1>3
<1>5. Len(s) = Len(t)
  <2>1. /\ Len(s) \in DOMAIN s \/ Len(s) = 0
        /\ Len(t) \in DOMAIN t \/ Len(t) = 0
    BY <1>1
  <2>2. Len(s) <= Len(t) /\ Len(t) <= Len(s)
    BY <1>1, <1>4, <2>1
  <2> QED
    BY <1>1, <2>2
<1>6. \A n \in 1..Len(s) : s[n] = t[n]
  BY <1>1, <1>4
<1> QED
  BY <1>5, <1>6, SeqEqual

\* The order of the script holds every operation, in order.
LEMMA WholeOrder ==
  ASSUME script \in Scripts
  PROVE  Order \in Seq(Ops) /\ InOrder(Order) /\ ToSet(Order) = Ops
<1> DEFINE S == [i \in DOMAIN script |-> OpsOf(i)]
           L == Len(script)
           F(f) == [i \in 1..L |-> IF i = 1 THEN S[i] ELSE f[i - 1] \o S[i]]
           r == CHOOSE f : f = F(f)
           Until(i) == {x \in Ops : x[1] <= i}
           Good(s, i) == s \in Seq(Ops) /\ InOrder(s) /\ ToSet(s) = Until(i)
<1>1. script \in Seq(Statements) /\ DOMAIN script = 1..L /\ L \in Nat
  BY ScriptAssumption, LenProperties
<1>2. \A x \in Ops : x[1] \in 1..L /\ x[1] \in Nat
  BY <1>1, OpStatement
<1>3. Len(S) = L
  BY <1>1
<1>4. CASE L = 0
  <2>1. Order = <<>>
    <3>1. S = <<>>
      BY <1>1, <1>4
    <3> QED
      BY <1>3, <1>4, <3>1 DEF Order, FlattenSeq
  <2>2. Ops = {}
    BY <1>2, <1>4
  <2> QED
    BY <2>1, <2>2, Nothing
<1>5. CASE L # 0
  <2>1. Order = r[L]
    <3> HIDE DEF S
    <3> QED
      BY <1>3, <1>5 DEF Order, FlattenSeq, S
  <2>2. \A i \in 1..L : S[i] = OpsOf(i)
    BY <1>1
  <2> HIDE DEF S
  <2>3. Good(S[1], 1)
    <3>1. 1 \in 1..L
      BY <1>1, <1>5
    <3>2. Until(1) = {x \in Ops : x[1] = 1}
      BY <1>2
    <3> QED
      BY <1>1, <2>2, <3>1, <3>2, Members
  <2>4. ASSUME NEW i \in 2..L, NEW s, Good(s, i - 1) PROVE Good(s \o S[i], i)
    <3>1. i \in 1..L /\ S[i] = OpsOf(i) /\ i \in DOMAIN script
      BY <1>1, <2>2
    <3>2. S[i] \in Seq(Ops) /\ InOrder(S[i]) /\ ToSet(S[i]) = {x \in Ops : x[1] = i}
      BY <3>1, Members
    <3>3. AllBefore(ToSet(s), ToSet(S[i]))
      BY <1>2, <2>4, <3>2 DEF AllBefore, Precedes
    <3>4. Until(i) = Until(i - 1) \cup {x \in Ops : x[1] = i}
      BY <1>2
    <3>5. s \o S[i] \in Seq(Ops) /\ InOrder(s \o S[i])
          /\ ToSet(s \o S[i]) = ToSet(s) \cup ToSet(S[i])
      <4> DEFINE t == S[i]
      <4>1. s \in Seq(Ops) /\ t \in Seq(Ops) /\ InOrder(s) /\ InOrder(t)
        BY <2>4, <3>2
      <4> HIDE DEF t
      <4>2. s \o t \in Seq(Ops) /\ ToSet(s \o t) = ToSet(s) \cup ToSet(t)
        BY <4>1, ConcatSet, ConcatProperties
      <4>3. AllBefore(ToSet(s), ToSet(t))
        BY <3>3 DEF t
      <4>4. InOrder(s \o t)
        BY <4>1, <4>3, ConcatInOrder
      <4> QED
        BY <4>2, <4>4 DEF t
    <3> QED
      BY <2>4, <3>2, <3>4, <3>5
  <2> DEFINE Parts == {s \in Seq(Ops) : InOrder(s)}
             Reaches(m) == \E g \in [1..m -> Parts] :
               /\ g[1] = S[1]
               /\ \A i \in 2..m : g[i] = g[i - 1] \o S[i]
               /\ \A i \in 1..m : Good(g[i], i)
             Bad == {m \in 1..L : ~Reaches(m)}
  <2> HIDE DEF Good
  <2>5. ASSUME NEW s, NEW i, Good(s, i) PROVE s \in Parts
    BY <2>5 DEF Good
  <2>6. Reaches(1)
    <3> DEFINE g == [i \in 1..1 |-> S[1]]
    <3>1. g \in [1..1 -> Parts] /\ g[1] = S[1] /\ \A i \in 1..1 : Good(g[i], i)
      BY <2>3, <2>5
    <3>2. \A i \in 2..1 : g[i] = g[i - 1] \o S[i]
      OBVIOUS
    <3> QED
      BY <3>1, <3>2
  <2>7. ASSUME NEW m \in 2..L, Reaches(m - 1) PROVE Reaches(m)
    <3>1. PICK g \in [1..(m - 1) -> Parts] :
            /\ g[1] = S[1]
            /\ \A i \in 2..(m - 1) : g[i] = g[i - 1] \o S[i]
            /\ \A i \in 1..(m - 1) : Good(g[i], i)
      BY <2>7
    <3> DEFINE new == g[m - 1] \o S[m]
               h == [i \in 1..m |-> IF i = m THEN new ELSE g[i]]
    <3>2. m \in Nat /\ m - 1 \in 1..(m - 1) /\ m \in 1..m /\ 1 \in 1..m /\ m # 1
      OBVIOUS
    <3>3. Good(new, m)
      BY <2>4, <3>1, <3>2
    <3>4. new \in Parts
      BY <2>5, <3>3
    <3> HIDE DEF new, Parts
    <3>5. h \in [1..m -> Parts]
      BY <3>1, <3>4
    <3>6. h[1] = S[1]
      BY <3>1, <3>2
    <3>7. ASSUME NEW i \in 2..m PROVE h[i] = h[i - 1] \o S[i]
      <4>1. i - 1 \in 1..m /\ i \in 1..m /\ i - 1 # m
        OBVIOUS
      <4>2. CASE i = m
        BY <4>1, <4>2 DEF new
      <4>3. CASE i # m
        <5>1. i \in 2..(m - 1)
          BY <4>3
        <5> QED
          BY <3>1, <4>1, <4>3, <5>1
      <4> QED
        BY <4>2, <4>3
    <3>8. ASSUME NEW i \in 1..m PROVE Good(h[i], i)
      <4>1. CASE i = m
        BY <3>3, <4>1
      <4>2. CASE i # m
        <5>1. i \in 1..(m - 1)
          BY <4>2
        <5> QED
          BY <3>1, <4>2, <5>1
      <4> QED
        BY <4>1, <4>2
    <3> HIDE DEF h
    <3> QED
      BY <3>5, <3>6, <3>7, <3>8
  <2> HIDE DEF Reaches
  <2>8. Bad = {}
    <3> SUFFICES ASSUME Bad # {} PROVE FALSE
      OBVIOUS
    <3>0. Bad \in SUBSET Nat
      BY <1>1
    <3>1. PICK m \in Bad : \A k \in Bad : m <= k
      BY <3>0, LeastElement
    <3>2. m \in 2..L /\ m - 1 \in 1..L /\ m - 1 \notin Bad
      BY <1>1, <2>6, <3>1
    <3> QED
      BY <2>7, <3>1, <3>2
  <2>9. L \in 1..L /\ Reaches(L)
    BY <1>1, <1>5, <2>8
  <2>10. PICK g \in [1..L -> Parts] :
           /\ g[1] = S[1]
           /\ \A i \in 2..L : g[i] = g[i - 1] \o S[i]
           /\ \A i \in 1..L : Good(g[i], i)
    BY <2>9 DEF Reaches
  <2>11. g = F(g)
    <3>1. \A i \in 1..L : i = 1 \/ i \in 2..L
      BY <1>1
    <3>2. \A i \in 1..L : g[i] = IF i = 1 THEN S[i] ELSE g[i - 1] \o S[i]
      BY <2>10, <3>1
    <3> HIDE DEF Parts
    <3> QED
      BY <2>10, <3>2
  <2>12. r = F(r)
    <3> HIDE DEF F
    <3> QED
      BY <2>11
  <2>13. \A i \in 1..L : r[i] = IF i = 1 THEN S[i] ELSE r[i - 1] \o S[i]
    <3> HIDE DEF r
    <3> QED
      BY <2>12
  <2> HIDE DEF r
  <2> DEFINE Off == {i \in 1..L : r[i] # g[i]}
  <2>14. Off = {}
    <3> SUFFICES ASSUME Off # {} PROVE FALSE
      OBVIOUS
    <3>0. Off \in SUBSET Nat
      BY <1>1
    <3>1. PICK m \in Off : \A k \in Off : m <= k
      BY <3>0, LeastElement
    <3>2. m # 1
      BY <2>10, <2>13, <3>1
    <3>3. m \in 2..L /\ m - 1 \in 1..L /\ m - 1 \notin Off
      BY <1>1, <3>1, <3>2
    <3> QED
      BY <2>10, <2>13, <3>1, <3>3
  <2>15. Good(Order, L)
    BY <2>1, <2>9, <2>10, <2>14
  <2>16. Until(L) = Ops
    BY <1>1, <1>2
  <2> QED
    BY <2>15, <2>16 DEF Good
<1> QED
  BY <1>4, <1>5

-----------------------------------------------------------------------------
(* The store follows the answers. *)

\* Nothing has failed or is about to be reported as failed.
Fine ==
  /\ ById /\ ~straggled /\ pc # "error"
  /\ \A k \in DOMAIN results : results[k].ok
  /\ \A k \in DOMAIN work : work[k].kind # "failure"

\* What the server has of the request under way.
Begun(w, sending, begun) ==
  IF sending.sent THEN begun \o sending.left = Head(w).ops ELSE begun = <<>>

\* The store is that of what has been answered and begun.
Exact(store, done, begun) == store = After(Store(done), EffectsOf(begun))

\* A batch had got through the operations first and rest when its answer was
\* lost; those in first have been sent again and answered, and those in rest
\* are next.
Again(w, store, done, begun, base, first, rest) ==
  /\ done = base \o first
  /\ rest # <<>> /\ Len(rest) <= Len(w) /\ \A j \in 1..Len(rest) : w[j] = Single(rest[j])
  /\ \A x \in ToSet(first \o rest) : ~Conditional(x)
  /\ store = After(After(Store(base), EffectsOf(first \o rest)), EffectsOf(first \o begun))

Repeating(w, store, done, begun) ==
  \E base, first, rest \in Seq(Ops) : Again(w, store, done, begun, base, first, rest)

Follows(res, w, sending, store) ==
  \E done, begun \in Seq(Ops) :
    /\ InOrder(done) /\ ToSet(done) = Held(res)
    /\ Begun(w, sending, begun)
    /\ Exact(store, done, begun) \/ Repeating(w, store, done, begun)

DataInv == Fine => Follows(results, work, wire, Store(log))

\* What is said of given operations depends on the script alone.
LEMMA DataKept ==
  ASSUME script' = script, NEW w, NEW x, NEW xs, NEW store, NEW done, NEW begun,
         NEW newLog, newLog = log'
  PROVE  /\ ById' <=> ById
         /\ Effect(x)' = Effect(x) /\ EffectsOf(xs)' = EffectsOf(xs) /\ Store(xs)' = Store(xs)
         /\ Store(log)' = Store(newLog)
<1>1. Ops' = Ops
  BY ScriptKept
<1>2. \A y : Effect(y)' = Effect(y)
  BY DEF Effect
<1>3. ById' <=> ById
  BY <1>1, <1>2 DEF ById
<1>4. EffectsOf(xs)' = EffectsOf(xs)
  BY <1>2 DEF EffectsOf
<1>5. EffectsOf(log)' = EffectsOf(newLog)
  BY <1>2 DEF EffectsOf
<1> QED
  BY <1>2, <1>3, <1>4, <1>5 DEF Store

\* DataInv in the next state, said in this one.
LEMMA DataNext ==
  ASSUME script' = script, NEW newRes, NEW newWork, NEW newWire, NEW newLog,
         newRes = results', newWork = work', newWire = wire', newLog = log',
         Fine' => Follows(newRes, newWork, newWire, Store(newLog))
  PROVE  DataInv'
<1>1. Ops' = Ops /\ \A x : Conditional(x)' <=> Conditional(x)
  BY OpsKept
<1>2. \A xs : EffectsOf(xs)' = EffectsOf(xs) /\ Store(xs)' = Store(xs)
  BY DataKept
<1>3. Store(log)' = Store(newLog)
  BY DataKept
<1>4. \A w, store, done, begun :
        Repeating(w, store, done, begun)' <=> Repeating(w, store, done, begun)
  <2>1. \A w, store, done, begun, base, first, rest :
          Again(w, store, done, begun, base, first, rest)'
            <=> Again(w, store, done, begun, base, first, rest)
    <3> TAKE w, store, done, begun, base, first, rest
    <3>1. (\A x \in ToSet(first \o rest) : ~Conditional(x))'
            <=> \A x \in ToSet(first \o rest) : ~Conditional(x)
      BY <1>1
    <3>2. After(After(Store(base), EffectsOf(first \o rest)), EffectsOf(first \o begun))'
            = After(After(Store(base), EffectsOf(first \o rest)), EffectsOf(first \o begun))
      BY <1>2
    <3> QED
      BY <3>1, <3>2, Zenon DEF Again
  <2> QED
    BY <1>1, <2>1 DEF Repeating
<1>5. \A store, done, begun : Exact(store, done, begun)' <=> Exact(store, done, begun)
  BY <1>2 DEF Exact
<1>6. \A w, sending, begun : Begun(w, sending, begun)' <=> Begun(w, sending, begun)
  BY DEF Begun
<1>7. \A res, w, sending, store :
        Follows(res, w, sending, store)' <=> Follows(res, w, sending, store)
  BY <1>1, <1>4, <1>5, <1>6 DEF Follows
<1>8. Follows(results, work, wire, Store(log))' <=> Follows(newRes, newWork, newWire, Store(newLog))
  BY <1>3, <1>7
<1> QED
  BY <1>8 DEF DataInv

\* Operations put together.
LEMMA Regroup ==
  \A s, t, u \in Seq(Ops) : (s \o t) \o u = s \o (t \o u)
  BY ConcatAssociative

\* The server applies the next operation of the request under way.
LEMMA AppliesMore ==
  ASSUME script \in Scripts, NEW res, NEW w, NEW sending, NEW store,
         Follows(res, w, sending, store),
         sending.sent, sending.left \in Seq(Ops), sending.left # <<>>
  PROVE  Follows(res, w, [sending EXCEPT !.left = Tail(@)],
                 Apply(store, Effect(Head(sending.left))))
<1> DEFINE h == Head(sending.left)
           one == <<h>>
           next == [sending EXCEPT !.left = Tail(@)]
<1>1. /\ h \in Ops /\ one \in Seq(Ops) /\ Tail(sending.left) \in Seq(Ops)
      /\ sending.left = one \o Tail(sending.left)
  BY HeadTailProperties
<1>2. next.sent /\ next.left = Tail(sending.left)
  OBVIOUS
<1> HIDE DEF one, h, next
<1>3. /\ \A t, u \in Seq(Ops) : (t \o u) \o one = t \o (u \o one) /\ u \o one \in Seq(Ops)
      /\ \A t \in Seq(Ops) : (t \o one) \o Tail(sending.left) = t \o (one \o Tail(sending.left))
      /\ \A s \in Stores, t \in Seq(Ops) :
           /\ After(s, EffectsOf(t)) \in Stores
           /\ After(s, EffectsOf(t \o one)) = After(After(s, EffectsOf(t)), EffectsOf(one))
  <2> DEFINE left == Tail(sending.left)
  <2>0. one \in Seq(Ops) /\ left \in Seq(Ops)
    BY <1>1
  <2> HIDE DEF left
  <2>1. \A t, u \in Seq(Ops) : (t \o u) \o one = t \o (u \o one)
    BY ONLY <2>0, Regroup, Zenon
  <2>4. \A u \in Seq(Ops) : u \o one \in Seq(Ops)
    BY <2>0, ConcatProperties
  <2>3. \A t \in Seq(Ops) : (t \o one) \o left = t \o (one \o left)
    BY ONLY <2>0, Regroup, Zenon
  <2>2. ASSUME NEW s \in Stores, NEW t \in Seq(Ops)
        PROVE  /\ After(s, EffectsOf(t)) \in Stores
               /\ After(s, EffectsOf(t \o one)) = After(After(s, EffectsOf(t)), EffectsOf(one))
    BY <1>1, StoreConcat
  <2> QED
    BY <2>1, <2>2, <2>3, <2>4 DEF left
<1>4. PICK done \in Seq(Ops), begun \in Seq(Ops) :
        /\ InOrder(done) /\ ToSet(done) = Held(res)
        /\ Begun(w, sending, begun)
        /\ Exact(store, done, begun) \/ Repeating(w, store, done, begun)
  BY DEF Follows
<1> DEFINE more == begun \o one
<1>5. more \in Seq(Ops)
  BY <1>3
<1>6. Begun(w, next, more)
  <2>1. more \o Tail(sending.left) = begun \o (one \o Tail(sending.left))
    BY <1>3
  <2> QED
    BY <1>1, <1>2, <1>4, <2>1 DEF Begun
<1>7. \A t \in Seq(Ops) : t \o more = (t \o begun) \o one
  BY <1>3
<1> HIDE DEF more
<1>8. ASSUME NEW s \in Stores, NEW t \in Seq(Ops), store = After(s, EffectsOf(t \o begun))
      PROVE  Apply(store, Effect(h)) = After(s, EffectsOf(t \o more))
  <2> DEFINE again == t \o begun
  <2>1. again \in Seq(Ops) /\ t \o more = again \o one
    BY <1>7, ConcatProperties
  <2> HIDE DEF again
  <2>2. After(s, EffectsOf(again \o one)) = After(After(s, EffectsOf(again)), EffectsOf(one))
        /\ After(s, EffectsOf(again)) \in Stores
    BY <1>3, <2>1
  <2>3. store \in Stores /\ After(s, EffectsOf(t \o more)) = After(store, EffectsOf(one))
    BY <1>8, <2>1, <2>2 DEF again
  <2> QED
    BY <1>1, <2>3, StoreEnds DEF one
<1>9. ASSUME Exact(store, done, begun)
      PROVE  Exact(Apply(store, Effect(h)), done, more)
  <2> DEFINE none == <<>>
  <2>1. none \in Seq(Ops) /\ none \o begun = begun /\ none \o more = more
    BY <1>5, ConcatEmptySeq
  <2> HIDE DEF none
  <2>2. Store(done) \in Stores
    BY StoreConcat
  <2> QED
    BY <1>8, <1>9, <2>1, <2>2 DEF Exact
<1>10. ASSUME Repeating(w, store, done, begun)
       PROVE  Repeating(w, Apply(store, Effect(h)), done, more)
  <2>1. PICK base \in Seq(Ops), first \in Seq(Ops), rest \in Seq(Ops) :
          Again(w, store, done, begun, base, first, rest)
    BY <1>10 DEF Repeating
  <2> DEFINE both == first \o rest
             lost == After(Store(base), EffectsOf(both))
  <2>2. both \in Seq(Ops)
    BY ConcatProperties
  <2> HIDE DEF both
  <2>3. lost \in Stores
    BY <2>2, StoreConcat
  <2>4. store = After(lost, EffectsOf(first \o begun))
    BY <2>1 DEF Again, both
  <2> HIDE DEF lost
  <2>5. Apply(store, Effect(h)) = After(lost, EffectsOf(first \o more))
    BY <1>8, <2>3, <2>4
  <2> QED
    BY <2>1, <2>5 DEF Repeating, Again, lost, both
<1> QED
  BY <1>4, <1>5, <1>6, <1>9, <1>10 DEF Follows, h, next

\* Nothing put before or after operations.
LEMMA Alone ==
  /\ <<>> \in Seq(Ops) /\ \A t \in Seq(Ops) : t \o <<>> = t /\ <<>> \o t = t
  BY ConcatEmptySeq

\* The request under way is answered when the server has got through it.
LEMMA AnswersMore ==
  ASSUME IInv, ById, work # <<>>, wire.sent, wire.left = <<>>,
         NEW store, Follows(results, work, wire, store)
  PROVE  Follows(results \o EachAlone(Head(work).ops, TRUE), Tail(work), Quiet, store)
<1> DEFINE ops == Head(work).ops
           new == results \o EachAlone(ops, TRUE)
           none == <<>>
<1>1. /\ script \in Scripts /\ work \in Seq(Jobs) /\ results \in Seq(Responses)
      /\ ops \in Seq(Ops) /\ InOrder(ops)
  BY HeadJob DEF IInv, TypeOK, Responses
<1>2. AllBefore(Held(results), ToSet(ops))
  BY HeadNext DEF AllBefore
<1>3. none \in Seq(Ops) /\ (\A t \in Seq(Ops) : t \o none = t /\ none \o t = t) /\ ~Quiet.sent
  BY Alone DEF Quiet
<1> HIDE DEF ops, none
<1>4. Held(new) = Held(results) \cup ToSet(ops)
  <2> DEFINE r == EachAlone(ops, TRUE)
  <2>1. r \in Seq(Responses) /\ Held(r) = ToSet(ops)
    BY <1>1, AloneAnswers
  <2> HIDE DEF r
  <2>2. Held(results \o r) = Held(results) \cup ToSet(ops)
    BY <1>1, <2>1, ConcatHeld
  <2> QED
    BY <2>2 DEF r
<1> HIDE DEF new
<1>5. PICK done \in Seq(Ops), begun \in Seq(Ops) :
        /\ InOrder(done) /\ ToSet(done) = Held(results)
        /\ Begun(work, wire, begun)
        /\ Exact(store, done, begun) \/ Repeating(work, store, done, begun)
  BY DEF Follows
<1>6. begun = ops
  BY <1>3, <1>5 DEF Begun, ops, none
<1> DEFINE all == done \o ops
<1>7. all \in Seq(Ops) /\ InOrder(all) /\ ToSet(all) = Held(new)
  BY <1>1, <1>2, <1>4, <1>5, ConcatInOrder, ConcatSet, ConcatProperties
<1>8. /\ Store(done) \in Stores /\ Store(all) \in Stores
      /\ Store(all) = After(Store(done), EffectsOf(ops))
  <2>1. Store(done) \in Stores /\ Store(all) = After(Store(done), EffectsOf(ops))
    BY <1>1, StoreConcat
  <2> HIDE DEF all
  <2> QED
    BY <1>1, <1>7, <2>1, StoreConcat
<1> HIDE DEF all
<1>9. ASSUME store = Store(all) PROVE Exact(store, all, none)
  BY <1>1, <1>8, <1>9, StoreEnds DEF Exact, none
<1>10. ASSUME Exact(store, done, begun) PROVE Exact(store, all, none)
  BY <1>6, <1>8, <1>9, <1>10 DEF Exact
<1>11. ASSUME Repeating(work, store, done, begun)
       PROVE  Exact(store, all, none) \/ Repeating(Tail(work), store, all, none)
  <2>1. PICK base \in Seq(Ops), first \in Seq(Ops), rest \in Seq(Ops) :
          Again(work, store, done, begun, base, first, rest)
    BY <1>11 DEF Repeating
  <2> DEFINE sent == first \o ops
             left == Tail(rest)
             both == first \o rest
  <2>2. /\ rest # <<>> /\ Len(rest) <= Len(work)
        /\ \A j \in 1..Len(rest) : work[j] = Single(rest[j])
        /\ \A x \in ToSet(both) : ~Conditional(x)
        /\ done = base \o first
        /\ store = After(After(Store(base), EffectsOf(both)), EffectsOf(sent))
    BY <1>6, <2>1 DEF Again
  <2>3. /\ Len(rest) \in Nat \ {0} /\ rest = <<rest[1]>> \o left /\ left \in Seq(Ops)
        /\ DOMAIN left = 1..(Len(rest) - 1) /\ Len(left) = Len(rest) - 1
        /\ \A j \in 1..(Len(rest) - 1) : left[j] = rest[j + 1]
    BY <2>2, EmptySeq, HeadTailProperties
  <2>4. /\ Len(Tail(work)) = Len(work) - 1 /\ Len(work) \in Nat \ {0}
        /\ \A j \in 1..(Len(work) - 1) : Tail(work)[j] = work[j + 1]
        /\ Head(work) = work[1]
    BY <1>1, EmptySeq, LenProperties, HeadTailProperties
  <2>5. ops = <<rest[1]>>
    <3>1. Head(work) = Single(rest[1])
      BY <2>2, <2>3, <2>4
    <3> QED
      BY <3>1 DEF ops, Single
  <2>6. rest = ops \o left
    BY <2>3, <2>5
  <2> HIDE DEF left
  <2>7. all = base \o sent /\ both = sent \o left
    <3>1. (first \o ops) \o left = first \o (ops \o left)
      BY ONLY <1>1, <2>3, Regroup, Zenon
    <3>2. (base \o first) \o ops = base \o (first \o ops)
      BY ONLY <1>1, Regroup, Zenon
    <3> QED
      BY <2>2, <2>6, <3>1, <3>2 DEF all
  <2>8. sent \in Seq(Ops) /\ both \in Seq(Ops)
    BY <1>1, ConcatProperties
  <2> HIDE DEF sent, both
  <2>9. Store(base) \in Stores /\ Store(all) = After(Store(base), EffectsOf(sent))
    BY <1>1, <2>7, <2>8, StoreConcat
  <2>10. CASE left = <<>>
    <3>1. both = sent
      BY <1>3, <2>7, <2>8, <2>10 DEF none
    <3>2. After(After(Store(base), EffectsOf(sent)), EffectsOf(sent))
            = After(Store(base), EffectsOf(sent))
      BY <1>1, <2>2, <2>8, <2>9, <3>1, RunAgain
    <3> QED
      BY <1>9, <2>2, <2>9, <3>1, <3>2
  <2>11. CASE left # <<>>
    <3>1. Len(left) <= Len(Tail(work)) /\ \A j \in 1..Len(left) : Tail(work)[j] = Single(left[j])
      BY <2>2, <2>3, <2>4
    <3>2. sent \o none = sent
      BY <1>3, <2>8
    <3>3. Again(Tail(work), store, all, none, base, sent, left)
      BY <2>2, <2>7, <2>11, <3>1, <3>2 DEF Again
    <3> QED
      BY <2>3, <2>8, <3>3 DEF Repeating
  <2> QED
    BY <2>10, <2>11
<1>12. Begun(Tail(work), Quiet, none)
  BY <1>3 DEF Begun, none
<1>13. Follows(new, Tail(work), Quiet, store)
  BY <1>3, <1>5, <1>7, <1>10, <1>11, <1>12 DEF Follows
<1> QED
  BY <1>13 DEF new, ops

\* A lost batch without conditional members is sent again from the first.
LEMMA LosesBatch ==
  ASSUME IInv, work # <<>>, wire.sent, Head(work).kind = "batch",
         \A x \in ToSet(Head(work).ops) : ~Conditional(x),
         NEW store, Follows(results, work, wire, store)
  PROVE  Follows(results, Retries(Head(work).ops) \o Tail(work), Quiet, store)
<1> DEFINE ops == Head(work).ops
           again == Retries(ops)
           new == again \o Tail(work)
           none == <<>>
<1>1. /\ script \in Scripts /\ work \in Seq(Jobs) /\ Tail(work) \in Seq(Jobs)
      /\ ops \in Seq(Ops) /\ InOrder(ops) /\ wire.left \in Seq(Ops)
      /\ Head(work) = work[1] /\ again \in Seq(Jobs)
  <2>1. script \in Scripts /\ work \in Seq(Jobs) /\ wire.left \in Seq(Ops)
    BY DEF IInv, TypeOK
  <2>2. Tail(work) \in Seq(Jobs) /\ Head(work) = work[1]
    BY <2>1, HeadTailProperties
  <2> QED
    BY <2>1, <2>2, HeadJob, RetriesInOrder
<1>2. none \in Seq(Ops) /\ (\A t \in Seq(Ops) : t \o none = t /\ none \o t = t) /\ ~Quiet.sent
  BY Alone DEF Quiet
<1>3. DOMAIN ops = 1..Len(ops) /\ Len(ops) \in Nat /\ DOMAIN again = 1..Len(ops)
      /\ \A j \in 1..Len(ops) : again[j] = Single(ops[j])
  <2>1. DOMAIN ops = 1..Len(ops) /\ Len(ops) \in Nat
    BY <1>1, LenProperties
  <2>2. \A j \in 1..Len(ops) : ~Conditional(ops[j])
    BY <2>1, InSequence
  <2> HIDE DEF ops
  <2> QED
    BY <2>1, <2>2 DEF Retries
<1>4. PICK done \in Seq(Ops), begun \in Seq(Ops) :
        /\ InOrder(done) /\ ToSet(done) = Held(results)
        /\ Begun(work, wire, begun)
        /\ Exact(store, done, begun) \/ Repeating(work, store, done, begun)
  BY DEF Follows
<1> HIDE DEF ops, none
<1>5. ~Repeating(work, store, done, begun)
  <2> SUFFICES ASSUME NEW base \in Seq(Ops), NEW first \in Seq(Ops), NEW rest \in Seq(Ops),
                      Again(work, store, done, begun, base, first, rest)
               PROVE  FALSE
    BY DEF Repeating
  <2>1. 1 \in 1..Len(rest)
    BY LenProperties, EmptySeq DEF Again
  <2>2. work[1] = Single(rest[1])
    BY <2>1 DEF Again
  <2> QED
    BY <1>1, <2>2 DEF Single
<1>6. Exact(store, done, begun) /\ begun \o wire.left = ops
  BY <1>4, <1>5 DEF Begun, ops
<1>7. Len(begun) <= Len(ops) /\ Len(begun) \in Nat /\ DOMAIN begun = 1..Len(begun)
      /\ \A j \in 1..Len(begun) : begun[j] = ops[j]
  <2>1. /\ Len(begun \o wire.left) = Len(begun) + Len(wire.left)
        /\ \A j \in 1..(Len(begun) + Len(wire.left)) :
             (begun \o wire.left)[j] = IF j <= Len(begun) THEN begun[j] ELSE wire.left[j - Len(begun)]
    BY <1>1, ConcatProperties
  <2>2. Len(begun) \in Nat /\ Len(wire.left) \in Nat /\ DOMAIN begun = 1..Len(begun)
    BY <1>1, LenProperties
  <2>3. Len(ops) = Len(begun) + Len(wire.left)
    BY <1>6, <2>1
  <2>4. \A j \in 1..Len(begun) : j \in 1..(Len(begun) + Len(wire.left)) /\ j <= Len(begun)
    BY <2>2
  <2> QED
    BY <1>6, <2>1, <2>2, <2>3, <2>4
<1>8. Len(begun) <= Len(new) /\ \A j \in 1..Len(begun) : new[j] = Single(begun[j])
  <2>1. /\ Len(again) = Len(ops) /\ Len(Tail(work)) \in Nat
        /\ Len(new) = Len(again) + Len(Tail(work))
        /\ \A j \in 1..(Len(again) + Len(Tail(work))) :
             new[j] = IF j <= Len(again) THEN again[j] ELSE Tail(work)[j - Len(again)]
    <3> HIDE DEF again
    <3>1. Len(again) = Len(ops)
      BY <1>1, <1>3, LenProperties
    <3> QED
      BY <1>1, <3>1, ConcatProperties, LenProperties
  <2> HIDE DEF again, new
  <2>2. ASSUME NEW j \in 1..Len(begun) PROVE new[j] = Single(begun[j])
    <3>1. j \in 1..Len(ops) /\ j <= Len(again) /\ j \in 1..(Len(again) + Len(Tail(work)))
      BY <1>3, <1>7, <2>1
    <3> QED
      BY <1>3, <1>7, <2>1, <3>1
  <2> QED
    BY <1>3, <1>7, <2>1, <2>2
<1>9. \A x \in ToSet(begun) : ~Conditional(x)
  <2>1. \A j \in 1..Len(begun) : ~Conditional(begun[j])
    <3>1. \A j \in 1..Len(begun) : j \in DOMAIN ops
      BY <1>3, <1>7
    <3> QED
      BY <1>7, <3>1, InSequence DEF ops
  <2> QED
    BY <1>7, <2>1, InSequence
<1> HIDE DEF new, again
<1>10. Begun(new, Quiet, none)
  BY <1>2 DEF Begun, none
<1>11. Store(done) \in Stores /\ store \in Stores
  BY <1>1, <1>6, StoreConcat DEF Exact
<1>12. store = After(store, EffectsOf(none))
  BY <1>1, <1>11, StoreEnds DEF none
<1>13. CASE begun = none
  <2>1. Exact(store, done, none)
    BY <1>6, <1>13
  <2> QED
    BY <1>2, <1>4, <1>10, <2>1 DEF Follows, new, again, ops
<1>14. CASE begun # none
  <2>1. Again(new, store, done, none, done, none, begun)
    BY <1>2, <1>6, <1>8, <1>9, <1>12, <1>14 DEF Again, Exact, none
  <2>2. Repeating(new, store, done, none)
    BY <1>2, <2>1 DEF Repeating
  <2> QED
    BY <1>2, <1>4, <1>10, <2>2 DEF Follows, new, again, ops
<1> QED
  BY <1>13, <1>14

\* A call that ends with an error, and a step that leaves a failure to report
\* or reported, have nothing to show for the data.
LEMMA NotFine ==
  ASSUME script' = script,
         \/ pc' = "error"
         \/ straggled'
         \/ \E k \in DOMAIN results' : ~results'[k].ok
         \/ \E k \in DOMAIN work' : work'[k].kind = "failure"
  PROVE  DataInv'
  BY DEF DataInv, Fine

\* The entries of two lists put together.
LEMMA EntriesKept ==
  ASSUME NEW S, NEW r \in Seq(S), NEW u \in Seq(S)
  PROVE  /\ \A k \in DOMAIN u : k \in DOMAIN (u \o r) /\ (u \o r)[k] = u[k]
         /\ \A k \in DOMAIN r : \E l \in DOMAIN (u \o r) : (u \o r)[l] = r[k]
<1> DEFINE ur == u \o r
<1>1. /\ DOMAIN u = 1..Len(u) /\ DOMAIN r = 1..Len(r) /\ DOMAIN ur = 1..(Len(u) + Len(r))
      /\ Len(u) \in Nat /\ Len(r) \in Nat
      /\ \A i \in 1..(Len(u) + Len(r)) : ur[i] = IF i <= Len(u) THEN u[i] ELSE r[i - Len(u)]
  BY ConcatProperties, LenProperties
<1> HIDE DEF ur
<1>2. ASSUME NEW k \in DOMAIN r PROVE \E l \in DOMAIN ur : ur[l] = r[k]
  <2>1. k + Len(u) \in DOMAIN ur /\ ~(k + Len(u) <= Len(u)) /\ (k + Len(u)) - Len(u) = k
    BY <1>1
  <2> QED
    BY <1>1, <2>1
<1>3. \A k \in DOMAIN u : k \in DOMAIN ur /\ ur[k] = u[k]
  BY <1>1
<1> QED
  BY <1>2, <1>3 DEF ur

\* Something failed is answered.
LEMMA FailureAnswered ==
  ASSUME IInv, work # <<>>, script' = script,
         NEW r \in Seq(Responses), Held(r) = ToSet(Head(work).ops),
         \A k \in DOMAIN r : ~r[k].ok,
         results' = results \o r
  PROVE  DataInv'
<1>1. results \in Seq(Responses) /\ work \in Seq(Jobs) /\ Nonempty(work)
  BY DEF IInv, TypeOK, Responses
<1>2. Head(work).ops # <<>> /\ Head(work).ops \in Seq(Ops)
  <2>1. 1 \in DOMAIN work /\ Head(work) = work[1]
    BY <1>1, EmptySeq, LenProperties, HeadTailProperties
  <2> QED
    BY <1>1, <2>1, HeadJob DEF Nonempty
<1>3. Head(work).ops[1] \in ToSet(Head(work).ops)
  <2>1. 1 \in DOMAIN Head(work).ops
    BY <1>2, EmptySeq, LenProperties
  <2> QED
    BY <2>1, InSequence
<1>4. PICK k \in DOMAIN r : Head(work).ops[1] \in ToSet(r[k].ops)
  BY <1>3, HeldMember
<1>5. \E l \in DOMAIN (results \o r) : (results \o r)[l] = r[k]
  BY <1>1, EntriesKept
<1>6. \E l \in DOMAIN results' : ~results'[l].ok
  BY <1>5
<1> QED
  BY <1>6, NotFine

\* Failed as a whole.
LEMMA OneFailureAnswered ==
  ASSUME IInv, work # <<>>, script' = script,
         results' = Append(results, Response(Head(work).ops, FALSE))
  PROVE  DataInv'
<1> DEFINE one == Response(Head(work).ops, FALSE)
           r == <<one>>
<1>1. r \in Seq(Responses) /\ Held(r) = ToSet(Head(work).ops) /\ results' = results \o r
  BY FailedResponse
<1>2. DOMAIN r = {1} /\ r[1] = one
  OBVIOUS
<1>3. one.ok = FALSE
  BY DEF Response
<1> HIDE DEF r, one
<1>4. \A k \in DOMAIN r : ~r[k].ok
  BY <1>2, <1>3
<1> QED
  BY <1>1, <1>4, FailureAnswered

\* Taking a statement, and the end of the script.
LEMMA TakesData ==
  ASSUME IInv, DataInv,
         RejectUnbound \/ PassBarrier \/ FailPrepare \/ FailPlan \/ Push \/ Finish
  PROVE  DataInv'
<1>1. work = <<>> /\ pc # "error" /\ UNCHANGED <<script, wire, results, log, straggled>>
  BY DEF RejectUnbound, PassBarrier, FailPrepare, FailPlan, Push, Finish, Ready, server
<1> SUFFICES ASSUME Fine' PROVE Follows(results, work', wire, Store(log))
  BY <1>1, DataNext
<1>2. Fine
  <2>1. \A k \in DOMAIN work : FALSE
    BY <1>1
  <2>2. ById
    BY <1>1, DataKept DEF Fine
  <2> QED
    BY <1>1, <2>1, <2>2 DEF Fine
<1>3. PICK done \in Seq(Ops), begun \in Seq(Ops) :
        /\ InOrder(done) /\ ToSet(done) = Held(results)
        /\ Begun(work, wire, begun)
        /\ Exact(Store(log), done, begun) \/ Repeating(work, Store(log), done, begun)
  BY <1>2 DEF DataInv, Follows
<1>4. ~Repeating(work, Store(log), done, begun)
  <2> SUFFICES ASSUME NEW base \in Seq(Ops), NEW first \in Seq(Ops), NEW rest \in Seq(Ops),
                      Again(work, Store(log), done, begun, base, first, rest)
               PROVE  FALSE
    BY DEF Repeating
  <2>1. Len(work) = 0
    BY <1>1
  <2>2. Len(rest) \in Nat /\ Len(rest) <= 0 /\ rest # <<>>
    BY <2>1, LenProperties DEF Again
  <2> QED
    BY <2>2, EmptySeq
<1>5. ~wire.sent
  BY <1>1 DEF IInv, WireInv
<1>6. Begun(work', wire, begun)
  BY <1>3, <1>5 DEF Begun
<1> QED
  BY <1>3, <1>4, <1>6 DEF Follows

\* A failure is reported.
LEMMA ReportData == ASSUME IInv, Report PROVE DataInv'
<1>1. work # <<>> /\ script' = script
  BY DEF Report, NextIs
<1>2. pc' = "error" \/ results' = Append(results, Response(Head(work).ops, FALSE))
  BY DEF Report, EndWithError
<1> QED
  BY <1>1, <1>2, NotFine, OneFailureAnswered

\* A request leaves.
LEMMA SendData == ASSUME IInv, DataInv, Send PROVE DataInv'
<1>1. UNCHANGED <<script, pc, work, results, log, straggled>> /\ ~wire.sent /\ work # <<>>
      /\ wire' = [sent |-> TRUE, left |-> Head(work).ops]
  BY DEF Send, NextIs, server
<1> SUFFICES ASSUME Fine' PROVE Follows(results, work, wire', Store(log))
  BY <1>1, DataNext
<1>2. Fine
  <2>1. ById
    BY <1>1, DataKept DEF Fine
  <2> QED
    BY <1>1, <2>1 DEF Fine
<1>3. PICK done \in Seq(Ops), begun \in Seq(Ops) :
        /\ InOrder(done) /\ ToSet(done) = Held(results)
        /\ Begun(work, wire, begun)
        /\ Exact(Store(log), done, begun) \/ Repeating(work, Store(log), done, begun)
  BY <1>2 DEF DataInv, Follows
<1>4. begun = <<>> /\ Head(work).ops \in Seq(Ops)
  BY <1>1, <1>3, HeadJob DEF Begun
<1>5. begun \o Head(work).ops = Head(work).ops
  BY <1>4, Alone
<1>6. Begun(work, wire', begun)
  BY <1>1, <1>5 DEF Begun
<1> QED
  BY <1>3, <1>6 DEF Follows

\* The server goes on with it.
LEMMA ServerAppliesData == ASSUME IInv, DataInv, ServerApplies PROVE DataInv'
<1>1. /\ UNCHANGED <<script, pc, work, results, straggled>> /\ wire.left # <<>>
      /\ log' = Append(log, Head(wire.left))
      /\ wire' = [wire EXCEPT !.left = Tail(@)]
  BY DEF ServerApplies
<1>2. /\ script \in Scripts /\ log \in Seq(Ops) /\ wire.left \in Seq(Ops) /\ wire.sent
  BY <1>1 DEF IInv, TypeOK, WireInv
<1> DEFINE h == Head(wire.left)
           one == <<h>>
<1>3. h \in Ops /\ one \in Seq(Ops) /\ log' = log \o one
  <2>1. h \in Ops
    BY <1>1, <1>2, HeadTailProperties
  <2> HIDE DEF h
  <2> QED
    BY <1>1, <1>2, <2>1, AppendIsConcat DEF h
<1> HIDE DEF one, h
<1>4. Store(log \o one) = Apply(Store(log), Effect(h))
  <2>1. Store(log) \in Stores /\ Store(log \o one) = After(Store(log), EffectsOf(one))
    BY <1>2, <1>3, StoreConcat
  <2> QED
    BY <1>2, <1>3, <2>1, StoreEnds DEF one
<1> SUFFICES ASSUME Fine' PROVE Follows(results, work, wire', Store(log \o one))
  BY <1>1, <1>3, DataNext
<1>5. Fine
  <2>1. ById
    BY <1>1, DataKept DEF Fine
  <2> QED
    BY <1>1, <2>1 DEF Fine
<1> QED
  BY <1>1, <1>2, <1>4, <1>5, AppliesMore DEF DataInv, h

\* The request is answered.
LEMMA AnsweredData == ASSUME IInv, DataInv, Answered PROVE DataInv'
<1> DEFINE r == EachAlone(Head(work).ops, TRUE)
<1>1. /\ UNCHANGED <<script, pc, log, straggled>> /\ wire.sent /\ wire.left = <<>>
      /\ work # <<>> /\ Head(work).kind \in {"single", "batch"}
      /\ results' = results \o r /\ work' = Tail(work) /\ wire' = Quiet
  BY DEF Answered, IInv, WireInv, server
<1>2. work \in Seq(Jobs) /\ results \in Seq(Responses) /\ r \in Seq(Responses)
  BY <1>1, HeadJob, AloneAnswers DEF IInv, TypeOK, Responses
<1> HIDE DEF r
<1> SUFFICES ASSUME Fine' PROVE Follows(results \o r, Tail(work), Quiet, Store(log))
  BY <1>1, DataNext
<1>3. Fine
  <2>1. ById
    BY <1>1, DataKept DEF Fine
  <2>2. \A k \in DOMAIN results : results[k].ok
    BY <1>1, <1>2, EntriesKept DEF Fine
  <2>3. \A k \in DOMAIN work : work[k].kind # "failure"
    <3>1. \A k \in DOMAIN work : k = 1 \/ (k - 1 \in DOMAIN Tail(work) /\ work[k] = Tail(work)[k - 1])
      BY <1>1, <1>2, EmptySeq, LenProperties, HeadTailProperties
    <3>2. Head(work) = work[1]
      BY <1>1, <1>2
    <3> QED
      BY <1>1, <3>1, <3>2 DEF Fine
  <2> QED
    BY <1>1, <2>1, <2>2, <2>3 DEF Fine
<1>4. ById /\ Follows(results, work, wire, Store(log))
  BY <1>3 DEF DataInv, Fine
<1> QED
  BY <1>1, <1>4, AnswersMore DEF r

\* An answer with another number of items.
LEMMA MiscountedData == ASSUME IInv, Miscounted PROVE DataInv'
<1> DEFINE r == EachAlone(Head(work).ops, FALSE)
<1>1. work # <<>> /\ script' = script
  BY DEF Miscounted, NextIs
<1>2. pc' = "error" \/ results' = results \o r
  BY DEF Miscounted, EndWithError
<1>3. r \in Seq(Responses) /\ Held(r) = ToSet(Head(work).ops)
  BY <1>1, HeadJob, AloneAnswers
<1>4. \A k \in DOMAIN r : ~r[k].ok
  BY DEF EachAlone, Response
<1> HIDE DEF r
<1> QED
  BY <1>1, <1>2, <1>3, <1>4, NotFine, FailureAnswered

\* An error instead of an answer.
LEMMA LostData == ASSUME IInv, DataInv, Lost PROVE DataInv'
<1>1. /\ UNCHANGED <<script, log, straggled>> /\ wire' = Quiet /\ wire.sent /\ work # <<>>
      /\ Head(work).kind \in {"single", "batch"}
  BY DEF Lost, GiveUp, IInv, WireInv
<1>2. CASE pc' = "error"
  BY <1>1, <1>2, NotFine
<1>3. CASE results' = Append(results, Response(Head(work).ops, FALSE))
  BY <1>1, <1>3, OneFailureAnswered
<1>4. CASE /\ Head(work).kind = "batch" /\ work' = Retries(Head(work).ops) \o Tail(work)
           /\ UNCHANGED <<pc, results>>
  <2> DEFINE ops == Head(work).ops
             again == Retries(ops)
             rest == Tail(work)
  <2>1. /\ work \in Seq(Jobs) /\ ops \in Seq(Ops) /\ InOrder(ops)
        /\ rest \in Seq(Jobs) /\ again \in Seq(Jobs)
    <3>1. work \in Seq(Jobs)
      BY DEF IInv, TypeOK
    <3>2. rest \in Seq(Jobs)
      BY <1>1, <3>1, HeadTailProperties
    <3> QED
      BY <1>1, <3>1, <3>2, HeadJob, RetriesInOrder
  <2>2. DOMAIN ops = DOMAIN again
        /\ \A j \in DOMAIN ops : Conditional(ops[j]) => again[j].kind = "failure"
    BY DEF Retries, Failure
  <2> HIDE DEF again, rest, ops
  <2> SUFFICES ASSUME Fine' PROVE Follows(results, again \o rest, Quiet, Store(log))
    BY <1>1, <1>4, DataNext DEF again, rest, ops
  <2>3. work' = again \o rest
    BY <1>4 DEF again, rest, ops
  <2>4. /\ \A k \in DOMAIN again : again[k].kind # "failure"
        /\ \A k \in DOMAIN rest : rest[k].kind # "failure"
    <3>1. \A k \in DOMAIN work' : work'[k].kind # "failure"
      BY DEF Fine
    <3>2. /\ \A k \in DOMAIN again : k \in DOMAIN (again \o rest) /\ (again \o rest)[k] = again[k]
          /\ \A k \in DOMAIN rest : \E l \in DOMAIN (again \o rest) : (again \o rest)[l] = rest[k]
      BY <2>1, EntriesKept
    <3> QED
      BY <2>3, <3>1, <3>2
  <2>5. \A x \in ToSet(ops) : ~Conditional(x)
    BY <2>2, <2>4, InSequence
  <2>6. Fine
    <3>1. ById
      BY <1>1, DataKept DEF Fine
    <3>2. \A k \in DOMAIN work : k = 1 \/ (k - 1 \in DOMAIN rest /\ work[k] = rest[k - 1])
      BY <1>1, <2>1, EmptySeq, LenProperties, HeadTailProperties DEF rest
    <3>3. Head(work) = work[1]
      BY <1>1, <2>1
    <3> QED
      BY <1>1, <1>4, <2>4, <3>1, <3>2, <3>3 DEF Fine
  <2>7. Follows(results, work, wire, Store(log))
    BY <2>6 DEF DataInv
  <2> QED
    BY <1>1, <1>4, <2>5, <2>7, LosesBatch DEF again, rest, ops
<1> QED
  BY <1>2, <1>3, <1>4 DEF Lost, EndWithError, NextIs

\* The call is dropped, what was given up arrives, or nothing changes.
LEMMA OtherData ==
  ASSUME IInv, DataInv, Timeout \/ Straggle \/ UNCHANGED vars
  PROVE  DataInv'
<1>1. CASE Timeout
  BY <1>1, NotFine DEF Timeout, EndWithError
<1>2. CASE Straggle
  BY <1>2, NotFine DEF Straggle
<1>3. CASE UNCHANGED vars
  <2>1. UNCHANGED <<script, pc, work, wire, results, log, straggled>>
    BY <1>3 DEF vars
  <2>2. ById' <=> ById
    BY <2>1, DataKept
  <2>3. Fine' => Fine
    BY <2>1, <2>2 DEF Fine
  <2> QED
    BY <2>1, <2>3, DataNext DEF DataInv
<1> QED
  BY <1>1, <1>2, <1>3

\* Nothing has been asked of the server.
LEMMA DataInit == ASSUME Init PROVE DataInv
<1> DEFINE none == <<>>
<1>1. script \in Scripts /\ results = none /\ log = none /\ ~wire.sent
  BY DEF Init, Quiet
<1>2. none \in Seq(Ops) /\ InOrder(none) /\ ToSet(none) = Held(none)
  BY Nothing
<1>3. Store(none) = After(Store(none), EffectsOf(none))
  <2> HIDE DEF none
  <2>1. Store(none) \in Stores
    BY <1>1, <1>2, StoreConcat
  <2> QED
    BY <1>1, <2>1, StoreEnds DEF none
<1>4. Begun(work, wire, none)
  BY <1>1 DEF Begun
<1> HIDE DEF none
<1> QED
  BY <1>1, <1>2, <1>3, <1>4 DEF DataInv, Follows, Exact

\* When every operation names its points and is answered ok, the points are
\* what the statements one by one would leave, for every script and however
\* many batches were lost and sent again member by member (flush_update_run).
THEOREM RetriesLeaveNoTrace == Spec => []SameAsSequential
<1>1. Init => DataInv
  BY DataInit
<1>2. IInv /\ DataInv /\ [Next]_vars => DataInv'
  BY TakesData, ReportData, SendData, ServerAppliesData, AnsweredData, MiscountedData,
     LostData, OtherData DEF Next, Returned
<1>3. IInv /\ DataInv => SameAsSequential
  <2> SUFFICES ASSUME IInv, DataInv, AllOk, ById PROVE Store(log) = Store(Order)
    BY DEF SameAsSequential
  <2>1. /\ script \in Scripts /\ pc = "done" /\ ~straggled /\ work = <<>> /\ ~wire.sent
        /\ pending = <<>> /\ pos = Len(script)
    BY DEF AllOk, IInv, StageInv, WireInv, TypeOK
  <2>2. Fine
    <3>1. \A k \in DOMAIN results : results[k].ok
      BY InSequence DEF AllOk
    <3>2. \A k \in DOMAIN work : FALSE
      BY <2>1
    <3> QED
      BY <2>1, <3>1, <3>2 DEF Fine
  <2>3. PICK done \in Seq(Ops), begun \in Seq(Ops) :
          /\ InOrder(done) /\ ToSet(done) = Held(results)
          /\ Begun(work, wire, begun)
          /\ Exact(Store(log), done, begun) \/ Repeating(work, Store(log), done, begun)
    BY <2>2 DEF DataInv, Follows
  <2>4. ~Repeating(work, Store(log), done, begun)
    <3> SUFFICES ASSUME NEW base \in Seq(Ops), NEW first \in Seq(Ops), NEW rest \in Seq(Ops),
                        Again(work, Store(log), done, begun, base, first, rest)
                 PROVE  FALSE
      BY DEF Repeating
    <3>1. Len(work) = 0
      BY <2>1
    <3>2. Len(rest) \in Nat /\ Len(rest) <= 0 /\ rest # <<>>
      BY <3>1, LenProperties DEF Again
    <3> QED
      BY <3>2, EmptySeq
  <2>5. Store(done) \in Stores /\ begun = <<>>
    BY <2>1, <2>3, StoreConcat DEF Begun
  <2>6. Store(log) = Store(done)
    BY <2>1, <2>3, <2>4, <2>5, StoreEnds DEF Exact
  <2>7. Held(results) = Ops
    BY <2>1, AllAnswered
  <2>8. done = Order
    BY <2>1, <2>3, <2>7, OneOrder, WholeOrder
  <2> QED
    BY <2>6, <2>8
<1> QED
  BY <1>1, <1>2, <1>3, Invariant, PTL DEF Spec
=============================================================================
