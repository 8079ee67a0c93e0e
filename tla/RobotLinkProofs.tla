-------------------------- MODULE RobotLinkProofs --------------------------
(***************************************************************************)
(* Proofs about the page's link to the robot, for every set of sockets and *)
(* save requests: what LinkSafety says of every state, and that the queue  *)
(* matched by order implements the promise of SavePromise.                 *)
(***************************************************************************)
EXTENDS RobotLink, FiniteSetTheorems, SequenceTheorems, TLAPS

-----------------------------------------------------------------------------
(* Counting the answers of an inbox.                                         *)

\* The answers among the first n frames, as positions.
Places(box, n) == {m \in DOMAIN box : m <= n /\ IsAnswer(box[m])}

\* There are finitely many, so the count is a number.
LEMMA PlacesFinite ==
    ASSUME NEW F, NEW box \in Seq(F), NEW n
    PROVE  /\ IsFiniteSet(Places(box, n))
           /\ AnswersUpTo(box, n) = Cardinality(Places(box, n))
           /\ AnswersUpTo(box, n) \in Nat
<1>1. DOMAIN box = 1..Len(box) /\ Len(box) \in Nat
  BY LenProperties
<1>2. IsFiniteSet(1..Len(box))
  BY <1>1, FS_Interval
<1>3. Places(box, n) \in SUBSET (1..Len(box))
  BY <1>1 DEF Places
<1>4. IsFiniteSet(Places(box, n))
  BY <1>2, <1>3, FS_Subset
<1>5. AnswersUpTo(box, n) = Cardinality(Places(box, n))
  BY DEF AnswersUpTo, Places
<1> QED
  BY <1>4, <1>5, FS_CardinalityType

\* The n-th frame counts when it is an answer.
LEMMA CountStep ==
    ASSUME NEW F, NEW box \in Seq(F), NEW n \in 1..Len(box)
    PROVE  AnswersUpTo(box, n) =
             AnswersUpTo(box, n - 1) + (IF IsAnswer(box[n]) THEN 1 ELSE 0)
<1> DEFINE before == Places(box, n - 1)
<1>1. DOMAIN box = 1..Len(box) /\ Len(box) \in Nat
  BY LenProperties
<1>a. n \notin before
  BY <1>1 DEF Places
<1>b. /\ IsFiniteSet(before) /\ AnswersUpTo(box, n - 1) = Cardinality(before)
      /\ AnswersUpTo(box, n) = Cardinality(Places(box, n))
  BY PlacesFinite
<1>2. /\ IsFiniteSet(before) /\ n \notin before
      /\ AnswersUpTo(box, n - 1) = Cardinality(before)
      /\ AnswersUpTo(box, n) = Cardinality(Places(box, n))
      /\ Cardinality(before) \in Nat
  BY <1>a, <1>b, FS_CardinalityType
<1>3. CASE IsAnswer(box[n])
  <2>1. Places(box, n) = before \cup {n}
    BY <1>1, <1>3 DEF Places
  <2>2. Cardinality(before \cup {n}) = Cardinality(before) + 1
    BY <1>2, FS_AddElement
  <2> QED
    BY <1>2, <1>3, <2>1, <2>2
<1>4. CASE ~IsAnswer(box[n])
  <2>1. Places(box, n) = before
    BY <1>1, <1>4 DEF Places
  <2> QED
    BY <1>2, <1>4, <2>1
<1> QED
  BY <1>3, <1>4

\* The count never shrinks, starts at 0, and reaches 1 with the first answer.
LEMMA CountBounds ==
    ASSUME NEW F, NEW box \in Seq(F), NEW n \in 0..Len(box)
    PROVE  /\ AnswersUpTo(box, 0) = 0
           /\ AnswersUpTo(box, n) <= AnswersUpTo(box, Len(box))
           /\ n # 0 /\ IsAnswer(box[n]) => AnswersUpTo(box, n) >= 1
<1>1. DOMAIN box = 1..Len(box) /\ Len(box) \in Nat
  BY LenProperties
<1>2. Places(box, 0) = {}
  BY <1>1 DEF Places
<1>3. AnswersUpTo(box, 0) = 0
  BY <1>2, PlacesFinite, FS_EmptySet
<1>4. Places(box, n) \in SUBSET Places(box, Len(box))
  BY <1>1 DEF Places
<1>5. AnswersUpTo(box, n) <= AnswersUpTo(box, Len(box))
  BY <1>4, PlacesFinite, FS_Subset
<1>6. ASSUME n # 0, IsAnswer(box[n]) PROVE AnswersUpTo(box, n) >= 1
  <2>1. n \in 1..Len(box)
    BY <1>1, <1>6
  <2>2. AnswersUpTo(box, n) = AnswersUpTo(box, n - 1) + 1 /\ AnswersUpTo(box, n - 1) \in Nat
    BY <1>6, <2>1, CountStep, PlacesFinite
  <2> QED
    BY <2>2
<1> QED
  BY <1>3, <1>5, <1>6

\* A frame put at the end does not change the count before it.
LEMMA CountAppend ==
    ASSUME NEW F, NEW box \in Seq(F), NEW x \in F, NEW n \in 0..Len(box)
    PROVE  AnswersUpTo(Append(box, x), n) = AnswersUpTo(box, n)
<1>1. DOMAIN box = 1..Len(box) /\ Len(box) \in Nat
  BY LenProperties
<1>2. /\ Append(box, x) \in Seq(F) /\ Len(Append(box, x)) = Len(box) + 1
      /\ \A i \in 1..Len(box) : Append(box, x)[i] = box[i]
  BY AppendProperties
<1>3. DOMAIN Append(box, x) = 1..(Len(box) + 1)
  BY <1>2, LenProperties
<1>4. Places(Append(box, x), n) = Places(box, n)
  BY <1>1, <1>2, <1>3 DEF Places
<1> QED
  BY <1>2, <1>4, PlacesFinite

\* Taking the first frame away moves the others one place to the front.
LEMMA CountTail ==
    ASSUME NEW F, NEW box \in Seq(F), box # <<>>, NEW n \in 0..(Len(box) - 1)
    PROVE  AnswersUpTo(Tail(box), n) =
             AnswersUpTo(box, n + 1) - (IF IsAnswer(box[1]) THEN 1 ELSE 0)
<1>1. DOMAIN box = 1..Len(box) /\ Len(box) \in Nat \ {0}
  BY LenProperties, EmptySeq
<1>2. /\ Tail(box) \in Seq(F) /\ Len(Tail(box)) = Len(box) - 1
      /\ \A i \in 1..(Len(box) - 1) : Tail(box)[i] = box[i + 1]
  BY HeadTailProperties
<1>3. DOMAIN Tail(box) = 1..(Len(box) - 1)
  BY <1>2, LenProperties
<1> DEFINE front == Places(Tail(box), n)
           moved == Places(box, n + 1) \ {1}
           shift == [m \in front |-> m + 1]
<1>4. IsFiniteSet(front) /\ IsFiniteSet(Places(box, n + 1))
  BY <1>2, PlacesFinite
<1>5. shift \in Bijection(front, moved)
  <2>1. \A m \in front : m \in 1..(Len(box) - 1) /\ m <= n /\ IsAnswer(box[m + 1])
    BY <1>2, <1>3 DEF Places
  <2>2. \A m \in front : m + 1 \in moved
    BY <1>1, <2>1 DEF Places
  <2>3. \A k \in moved : k - 1 \in front /\ k = (k - 1) + 1
    BY <1>1, <1>2, <1>3 DEF Places
  <2>4. \A a, b \in front : a + 1 = b + 1 => a = b
    BY <2>1
  <2> HIDE DEF front, moved
  <2>5. shift \in [front -> moved]
    BY <2>2
  <2>6. \A a, b \in front : shift[a] = shift[b] => a = b
    BY <2>4
  <2>7. \A k \in moved : \E m \in front : shift[m] = k
    <3>1. SUFFICES ASSUME NEW k \in moved PROVE \E m \in front : shift[m] = k
      OBVIOUS
    <3>2. k - 1 \in front /\ shift[k - 1] = k
      BY <2>3
    <3> QED
      BY <3>2
  <2> HIDE DEF shift
  <2> QED
    BY <2>5, <2>6, <2>7 DEF Bijection, Injection, IsInjective, Surjection
<1>6. Cardinality(moved) = Cardinality(front)
  BY <1>4, <1>5, FS_Bijection DEF ExistsBijection
<1>7. Cardinality(moved) = IF 1 \in Places(box, n + 1) THEN Cardinality(Places(box, n + 1)) - 1
                           ELSE Cardinality(Places(box, n + 1))
  BY <1>4, FS_RemoveElement
<1>8. 1 \in Places(box, n + 1) <=> IsAnswer(box[1])
  BY <1>1 DEF Places
<1>9. /\ AnswersUpTo(Tail(box), n) = Cardinality(front)
      /\ AnswersUpTo(box, n + 1) = Cardinality(Places(box, n + 1))
      /\ AnswersUpTo(box, n + 1) \in Nat
  BY <1>2, PlacesFinite
<1> QED
  BY <1>6, <1>7, <1>8, <1>9

-----------------------------------------------------------------------------
(* What a step on the wire or in the queue does to the match between them.   *)

Entries == [id : Saves, timedOut : BOOLEAN]

\* A frame that is no answer may be added.
LEMMA FitOther ==
    ASSUME NEW F, NEW box \in Seq(F), NEW x \in F, ~IsAnswer(x), NEW out, NEW queue
    PROVE  /\ AnswersFit(box, queue) => AnswersFit(Append(box, x), queue)
           /\ RequestsFit(box, out, queue) => RequestsFit(Append(box, x), out, queue)
<1> DEFINE new == Append(box, x)
<1>1. DOMAIN box = 1..Len(box) /\ Len(box) \in Nat
  BY LenProperties
<1>2. /\ new \in Seq(F) /\ Len(new) = Len(box) + 1 /\ DOMAIN new = 1..(Len(box) + 1)
      /\ \A i \in 1..Len(box) : new[i] = box[i]
      /\ new[Len(box) + 1] = x
  BY AppendProperties, LenProperties
<1>3. \A n \in 0..Len(box) : AnswersUpTo(new, n) = AnswersUpTo(box, n)
  BY CountAppend
<1> HIDE DEF new
<1>4. AnswersUpTo(new, Len(new)) = AnswersUpTo(box, Len(box))
  <2>0. Len(new) \in 1..Len(new) /\ new[Len(new)] = x
    BY <1>1, <1>2
  <2>1. AnswersUpTo(new, Len(new)) = AnswersUpTo(new, Len(new) - 1) + 0
    BY <1>2, <2>0, CountStep
  <2>2. AnswersUpTo(new, Len(box)) = AnswersUpTo(box, Len(box)) /\ Len(new) - 1 = Len(box)
    BY <1>1, <1>2, <1>3
  <2> QED
    BY <2>1, <2>2, PlacesFinite
<1>5. ASSUME AnswersFit(box, queue) PROVE AnswersFit(new, queue)
  <2> SUFFICES ASSUME NEW n \in DOMAIN new, IsAnswer(new[n])
               PROVE  /\ AnswersUpTo(new, n) <= Len(queue)
                      /\ new[n].id = queue[AnswersUpTo(new, n)].id
    BY DEF AnswersFit
  <2>1. n \in 1..Len(box)
    BY <1>1, <1>2
  <2>2. new[n] = box[n] /\ AnswersUpTo(new, n) = AnswersUpTo(box, n)
    BY <1>1, <1>2, <1>3, <2>1
  <2> QED
    BY <1>1, <1>5, <2>1, <2>2 DEF AnswersFit
<1>6. ASSUME RequestsFit(box, out, queue) PROVE RequestsFit(new, out, queue)
  BY <1>4, <1>6 DEF RequestsFit
<1> QED
  BY <1>5, <1>6 DEF new

\* The answer to the oldest request may be added when the request is taken.
LEMMA FitAnswer ==
    ASSUME NEW F, NEW box \in Seq(F), NEW out \in Seq(Saves), out # <<>>,
           NEW queue \in Seq(Entries),
           NEW x \in F, IsAnswer(x), x.id = Head(out),
           AnswersFit(box, queue), RequestsFit(box, out, queue)
    PROVE  /\ AnswersFit(Append(box, x), queue)
           /\ RequestsFit(Append(box, x), Tail(out), queue)
<1> DEFINE new == Append(box, x)
           due == AnswersUpTo(box, Len(box))
<1>1. DOMAIN box = 1..Len(box) /\ Len(box) \in Nat /\ due \in Nat
  BY LenProperties, PlacesFinite
<1>2. /\ new \in Seq(F) /\ Len(new) = Len(box) + 1 /\ DOMAIN new = 1..(Len(box) + 1)
      /\ \A i \in 1..Len(box) : new[i] = box[i]
      /\ new[Len(box) + 1] = x
  BY AppendProperties, LenProperties
<1>3. \A n \in 0..Len(box) : AnswersUpTo(new, n) = AnswersUpTo(box, n)
  BY CountAppend
<1> HIDE DEF new
<1>4. AnswersUpTo(new, Len(new)) = due + 1
  <2>0. Len(new) \in 1..Len(new) /\ new[Len(new)] = x
    BY <1>1, <1>2
  <2>1. AnswersUpTo(new, Len(new)) = AnswersUpTo(new, Len(new) - 1) + 1
    BY <1>2, <2>0, CountStep
  <2>2. AnswersUpTo(new, Len(box)) = due /\ Len(new) - 1 = Len(box)
    BY <1>1, <1>2, <1>3
  <2> QED
    BY <2>1, <2>2
<1>5. /\ DOMAIN out = 1..Len(out) /\ Len(out) \in Nat \ {0} /\ Head(out) = out[1]
      /\ Tail(out) \in Seq(Saves) /\ Len(Tail(out)) = Len(out) - 1
      /\ \A i \in 1..(Len(out) - 1) : Tail(out)[i] = out[i + 1]
  BY LenProperties, EmptySeq, HeadTailProperties
<1>6. /\ Len(queue) = due + Len(out)
      /\ \A k \in DOMAIN out : out[k] = queue[due + k].id
  BY DEF RequestsFit
<1> HIDE DEF new, due
<1>7. AnswersFit(new, queue)
  <2> SUFFICES ASSUME NEW n \in DOMAIN new, IsAnswer(new[n])
               PROVE  /\ AnswersUpTo(new, n) <= Len(queue)
                      /\ new[n].id = queue[AnswersUpTo(new, n)].id
    BY DEF AnswersFit
  <2>1. CASE n \in 1..Len(box)
    <3>1. new[n] = box[n] /\ AnswersUpTo(new, n) = AnswersUpTo(box, n)
      BY <1>1, <1>2, <1>3, <2>1
    <3> QED
      BY <1>1, <2>1, <3>1 DEF AnswersFit
  <2>2. CASE n = Len(box) + 1
    <3>1. AnswersUpTo(new, n) = due + 1 /\ new[n] = x
      BY <1>2, <1>4, <2>2
    <3>2. due + 1 <= Len(queue) /\ out[1] = queue[due + 1].id
      BY <1>1, <1>5, <1>6
    <3> QED
      BY <1>5, <3>1, <3>2
  <2> QED
    BY <1>1, <1>2, <2>1, <2>2
<1>8. RequestsFit(new, Tail(out), queue)
  <2>1. Len(queue) = (due + 1) + Len(Tail(out))
    BY <1>1, <1>5, <1>6
  <2>2. ASSUME NEW k \in DOMAIN Tail(out) PROVE Tail(out)[k] = queue[(due + 1) + k].id
    <3>1. k \in 1..(Len(out) - 1)
      BY <1>5, LenProperties
    <3>2. Tail(out)[k] = out[k + 1] /\ out[k + 1] = queue[due + (k + 1)].id
      BY <1>5, <1>6, <3>1
    <3>3. due + (k + 1) = (due + 1) + k
      BY <1>1, <1>5, <3>1
    <3> QED
      BY <3>2, <3>3
  <2> QED
    BY <1>4, <2>1, <2>2 DEF RequestsFit
<1> QED
  BY <1>7, <1>8 DEF new

\* A first frame that is no answer is read without touching the queue.
LEMMA FitRead ==
    ASSUME NEW F, NEW box \in Seq(F), box # <<>>, ~IsAnswer(Head(box)), NEW out, NEW queue
    PROVE  /\ AnswersFit(box, queue) => AnswersFit(Tail(box), queue)
           /\ RequestsFit(box, out, queue) => RequestsFit(Tail(box), out, queue)
<1> DEFINE new == Tail(box)
<1>1. DOMAIN box = 1..Len(box) /\ Len(box) \in Nat \ {0} /\ Head(box) = box[1]
  BY LenProperties, EmptySeq
<1>2. /\ new \in Seq(F) /\ Len(new) = Len(box) - 1 /\ DOMAIN new = 1..(Len(box) - 1)
      /\ \A i \in 1..(Len(box) - 1) : new[i] = box[i + 1]
  BY HeadTailProperties, LenProperties
<1>3. \A n \in 0..(Len(box) - 1) : AnswersUpTo(new, n) = AnswersUpTo(box, n + 1)
  <2> SUFFICES ASSUME NEW n \in 0..(Len(box) - 1)
               PROVE  AnswersUpTo(new, n) = AnswersUpTo(box, n + 1)
    OBVIOUS
  <2>1. AnswersUpTo(new, n) = AnswersUpTo(box, n + 1) - 0
    BY <1>1, CountTail
  <2> QED
    BY <2>1, PlacesFinite
<1> HIDE DEF new
<1>4. ASSUME AnswersFit(box, queue) PROVE AnswersFit(new, queue)
  <2> SUFFICES ASSUME NEW n \in DOMAIN new, IsAnswer(new[n])
               PROVE  /\ AnswersUpTo(new, n) <= Len(queue)
                      /\ new[n].id = queue[AnswersUpTo(new, n)].id
    BY DEF AnswersFit
  <2>1. n \in 1..(Len(box) - 1) /\ n + 1 \in DOMAIN box
    BY <1>1, <1>2
  <2>2. new[n] = box[n + 1] /\ AnswersUpTo(new, n) = AnswersUpTo(box, n + 1)
    BY <1>1, <1>2, <1>3, <2>1
  <2> QED
    BY <1>4, <2>1, <2>2 DEF AnswersFit
<1>5. ASSUME RequestsFit(box, out, queue) PROVE RequestsFit(new, out, queue)
  <2>1. AnswersUpTo(new, Len(new)) = AnswersUpTo(box, Len(box))
    BY <1>1, <1>2, <1>3
  <2> QED
    BY <1>5, <2>1 DEF RequestsFit
<1> QED
  BY <1>4, <1>5 DEF new

\* A first frame that is an answer belongs to the first request, and both go.
LEMMA FitTake ==
    ASSUME NEW F, NEW box \in Seq(F), box # <<>>, IsAnswer(Head(box)),
           NEW out, NEW queue \in Seq(Entries), AnswersFit(box, queue)
    PROVE  /\ queue # <<>> /\ Head(box).id = queue[1].id
           /\ AnswersFit(Tail(box), Tail(queue))
           /\ out \in Seq(Saves) /\ RequestsFit(box, out, queue)
                 => RequestsFit(Tail(box), out, Tail(queue))
<1> DEFINE new == Tail(box)
           rest == Tail(queue)
<1>1. DOMAIN box = 1..Len(box) /\ Len(box) \in Nat \ {0} /\ Head(box) = box[1]
  BY LenProperties, EmptySeq
<1>2. /\ new \in Seq(F) /\ Len(new) = Len(box) - 1 /\ DOMAIN new = 1..(Len(box) - 1)
      /\ \A i \in 1..(Len(box) - 1) : new[i] = box[i + 1]
  BY HeadTailProperties, LenProperties
<1>3. \A n \in 0..(Len(box) - 1) :
         AnswersUpTo(new, n) = AnswersUpTo(box, n + 1) - 1 /\ AnswersUpTo(box, n + 1) \in Nat
  BY <1>1, CountTail, PlacesFinite
<1>4. AnswersUpTo(box, 1) = 1
  <2>1. AnswersUpTo(box, 1) = AnswersUpTo(box, 1 - 1) + 1 /\ AnswersUpTo(box, 0) = 0
    BY <1>1, CountStep, CountBounds
  <2> QED
    BY <2>1
<1>5. 1 <= Len(queue) /\ box[1].id = queue[1].id
  BY <1>1, <1>4 DEF AnswersFit
<1>6. queue # <<>>
  BY <1>5, EmptySeq
<1>7. /\ Len(queue) \in Nat \ {0} /\ Len(rest) = Len(queue) - 1
      /\ \A i \in 1..(Len(queue) - 1) : rest[i] = queue[i + 1]
  BY <1>6, LenProperties, EmptySeq, HeadTailProperties
<1> HIDE DEF new, rest
<1>8. AnswersFit(new, rest)
  <2> SUFFICES ASSUME NEW n \in DOMAIN new, IsAnswer(new[n])
               PROVE  /\ AnswersUpTo(new, n) <= Len(rest)
                      /\ new[n].id = rest[AnswersUpTo(new, n)].id
    BY DEF AnswersFit
  <2>1. n \in 1..(Len(box) - 1) /\ n \in 1..Len(new) /\ n + 1 \in DOMAIN box
    BY <1>1, <1>2
  <2>2. new[n] = box[n + 1] /\ AnswersUpTo(new, n) = AnswersUpTo(box, n + 1) - 1
    BY <1>1, <1>2, <1>3, <2>1
  <2>3. /\ AnswersUpTo(box, n + 1) <= Len(queue)
        /\ box[n + 1].id = queue[AnswersUpTo(box, n + 1)].id
    BY <2>1, <2>2 DEF AnswersFit
  <2>4. AnswersUpTo(new, n) >= 1
    BY <1>2, <2>1, CountBounds
  <2>5. AnswersUpTo(new, n) \in 1..(Len(queue) - 1)
    BY <1>2, <1>7, <2>2, <2>3, <2>4, PlacesFinite
  <2>6. rest[AnswersUpTo(new, n)] = queue[AnswersUpTo(new, n) + 1]
    BY <1>7, <2>5
  <2>7. AnswersUpTo(new, n) + 1 = AnswersUpTo(box, n + 1)
    BY <1>3, <2>1, <2>2
  <2> QED
    BY <1>7, <2>2, <2>3, <2>5, <2>6, <2>7
<1>9. ASSUME out \in Seq(Saves), RequestsFit(box, out, queue)
      PROVE  RequestsFit(new, out, rest)
  <2> DEFINE due == AnswersUpTo(box, Len(box))
             left == AnswersUpTo(new, Len(new))
  <2>1. left = due - 1 /\ due \in Nat /\ left \in Nat
    BY <1>1, <1>2, <1>3, PlacesFinite
  <2>2. /\ Len(queue) = due + Len(out)
        /\ \A k \in DOMAIN out : out[k] = queue[due + k].id
    BY <1>9 DEF RequestsFit
  <2>3. DOMAIN out = 1..Len(out) /\ Len(out) \in Nat
    BY <1>9, LenProperties
  <2> HIDE DEF due, left
  <2>4. Len(rest) = left + Len(out)
    BY <1>7, <2>1, <2>2, <2>3
  <2>5. ASSUME NEW k \in DOMAIN out PROVE out[k] = rest[left + k].id
    <3>1. left + k \in 1..(Len(queue) - 1) /\ left + k + 1 = due + k
      BY <2>1, <2>2, <2>3
    <3>2. rest[left + k] = queue[due + k]
      BY <1>7, <3>1
    <3> QED
      BY <2>2, <3>2
  <2> QED
    BY <2>4, <2>5 DEF RequestsFit, left
<1> QED
  BY <1>1, <1>5, <1>6, <1>8, <1>9 DEF new, rest

\* A new request goes to the end of the queue, and of the requests on their way
\* when the connection still takes it.
LEMMA FitAsk ==
    ASSUME NEW F, NEW box \in Seq(F), NEW out \in Seq(Saves),
           NEW queue \in Seq(Entries), NEW e \in Entries, AnswersFit(box, queue)
    PROVE  /\ AnswersFit(box, Append(queue, e))
           /\ RequestsFit(box, out, queue)
                 => RequestsFit(box, Append(out, e.id), Append(queue, e))
<1> DEFINE longer == Append(queue, e)
           more == Append(out, e.id)
<1>1. Len(queue) \in Nat /\ DOMAIN box = 1..Len(box) /\ Len(box) \in Nat
  BY LenProperties
<1>2. /\ Len(longer) = Len(queue) + 1 /\ longer[Len(queue) + 1] = e
      /\ \A i \in 1..Len(queue) : longer[i] = queue[i]
  BY AppendProperties
<1>3. /\ more \in Seq(Saves) /\ Len(more) = Len(out) + 1 /\ more[Len(out) + 1] = e.id
      /\ \A i \in 1..Len(out) : more[i] = out[i]
      /\ DOMAIN more = 1..(Len(out) + 1) /\ DOMAIN out = 1..Len(out) /\ Len(out) \in Nat
  <2>1. e.id \in Saves
    BY DEF Entries
  <2> QED
    BY <2>1, AppendProperties, LenProperties
<1> HIDE DEF longer, more
<1>4. AnswersFit(box, longer)
  <2> SUFFICES ASSUME NEW n \in DOMAIN box, IsAnswer(box[n])
               PROVE  /\ AnswersUpTo(box, n) <= Len(longer)
                      /\ box[n].id = longer[AnswersUpTo(box, n)].id
    BY DEF AnswersFit
  <2>1. /\ AnswersUpTo(box, n) <= Len(queue)
        /\ box[n].id = queue[AnswersUpTo(box, n)].id
    BY DEF AnswersFit
  <2>2. AnswersUpTo(box, n) \in 1..Len(queue)
    BY <1>1, <2>1, CountBounds, PlacesFinite
  <2> QED
    BY <1>1, <1>2, <2>1, <2>2
<1>5. ASSUME RequestsFit(box, out, queue) PROVE RequestsFit(box, more, longer)
  <2> DEFINE due == AnswersUpTo(box, Len(box))
  <2>1. /\ due \in Nat /\ Len(queue) = due + Len(out)
        /\ \A k \in DOMAIN out : out[k] = queue[due + k].id
    BY <1>5, PlacesFinite DEF RequestsFit
  <2> HIDE DEF due
  <2>2. Len(longer) = due + Len(more)
    BY <1>2, <1>3, <2>1
  <2>3. ASSUME NEW k \in DOMAIN more PROVE more[k] = longer[due + k].id
    <3>1. CASE k \in 1..Len(out)
      <4>1. due + k \in 1..Len(queue)
        BY <1>3, <2>1, <3>1
      <4> QED
        BY <1>2, <1>3, <2>1, <3>1, <4>1
    <3>2. CASE k = Len(out) + 1
      <4>1. due + k = Len(queue) + 1
        BY <1>3, <2>1, <3>2
      <4> QED
        BY <1>2, <1>3, <3>2, <4>1
    <3> QED
      BY <1>3, <3>1, <3>2
  <2> QED
    BY <2>2, <2>3 DEF RequestsFit, due
<1> QED
  BY <1>4, <1>5 DEF longer, more

\* Only the ids of the queue count.
LEMMA FitMark ==
    ASSUME NEW F, NEW box \in Seq(F), NEW out \in Seq(Saves),
           NEW queue \in Seq(Entries), NEW marked \in Seq(Entries),
           Len(marked) = Len(queue), \A n \in 1..Len(queue) : marked[n].id = queue[n].id
    PROVE  /\ AnswersFit(box, queue) => AnswersFit(box, marked)
           /\ RequestsFit(box, out, queue) => RequestsFit(box, out, marked)
<1>1. /\ DOMAIN box = 1..Len(box) /\ Len(box) \in Nat /\ Len(queue) \in Nat
      /\ DOMAIN out = 1..Len(out) /\ Len(out) \in Nat
  BY LenProperties
<1>2. ASSUME AnswersFit(box, queue) PROVE AnswersFit(box, marked)
  <2> SUFFICES ASSUME NEW n \in DOMAIN box, IsAnswer(box[n])
               PROVE  /\ AnswersUpTo(box, n) <= Len(marked)
                      /\ box[n].id = marked[AnswersUpTo(box, n)].id
    BY DEF AnswersFit
  <2>1. /\ AnswersUpTo(box, n) <= Len(queue)
        /\ box[n].id = queue[AnswersUpTo(box, n)].id
    BY <1>2 DEF AnswersFit
  <2>2. AnswersUpTo(box, n) \in 1..Len(queue)
    BY <1>1, <2>1, CountBounds, PlacesFinite
  <2> QED
    BY <2>1, <2>2
<1>3. ASSUME RequestsFit(box, out, queue) PROVE RequestsFit(box, out, marked)
  <2> DEFINE due == AnswersUpTo(box, Len(box))
  <2>1. /\ due \in Nat /\ Len(queue) = due + Len(out)
        /\ \A k \in DOMAIN out : out[k] = queue[due + k].id
    BY <1>3, PlacesFinite DEF RequestsFit
  <2> HIDE DEF due
  <2>2. \A k \in DOMAIN out : due + k \in 1..Len(queue)
    BY <1>1, <2>1
  <2>3. \A k \in DOMAIN out : out[k] = marked[due + k].id
    BY <2>1, <2>2
  <2> QED
    BY <2>1, <2>3 DEF RequestsFit, due
<1> QED
  BY <1>2, <1>3

\* An empty connection and an empty queue match.
LEMMA FitNothing ==
    ASSUME NEW F, NEW box \in Seq(F), \A n \in DOMAIN box : ~IsAnswer(box[n])
    PROVE  /\ \A queue : AnswersFit(box, queue)
           /\ RequestsFit(box, <<>>, <<>>)
<1>1. DOMAIN box = 1..Len(box) /\ Len(box) \in Nat
  BY LenProperties
<1>2. Places(box, Len(box)) = {}
  BY DEF Places
<1>3. AnswersUpTo(box, Len(box)) = 0
  BY <1>2, PlacesFinite, FS_EmptySet
<1>4. Len(<<>>) = 0 /\ DOMAIN <<>> = {}
  OBVIOUS
<1>5. RequestsFit(box, <<>>, <<>>)
  BY <1>3, <1>4 DEF RequestsFit
<1> QED
  BY <1>5 DEF AnswersFit

-----------------------------------------------------------------------------
(* The inductive invariant.                                                  *)

Stages == {"free", "opening", "up", "shut", "leaving"}
Conn == [stage : Stages, inbox : Seq(Frames), outbox : Seq(Saves)]
Outcomes == {"none", "pending", "kept", "failed"}

\* A session frame names its own connection, a good answer a recording on the disk.
TrueFrame(c, m, disk) ==
    /\ m.kind = "session" => m.conn = c
    /\ IsAnswer(m) /\ m.good => m.id \in disk

TrueFrames(c, box, disk) == \A n \in DOMAIN box : TrueFrame(c, box[n], disk)

\* A request on its way has been made.
Asked(out, told) == \A k \in DOMAIN out : told[out[k]] # "none"

\* Nothing is on its way on a connection that is not made yet.
ConnOK(c, stage, box, out, disk, told) ==
    /\ stage \in {"free", "opening"} => box = <<>> /\ out = <<>>
    /\ TrueFrames(c, box, disk)
    /\ Asked(out, told)

ConnsInv ==
    \A c \in Conns : ConnOK(c, net[c].stage, net[c].inbox, net[c].outbox, kept, outcome)

\* The socket in use, the phase, the queue and the retry timer go together.
SocketInv ==
    /\ socket # NoConn => /\ net[socket].stage \in {"opening", "up", "shut"}
                          /\ link.phase \in {"connecting", "open"}
                          /\ net[socket].stage = "opening" => link.phase = "connecting"
    /\ saves # <<>> => socket # NoConn /\ link.phase = "open"
    /\ "retry" \in timers => socket = NoConn
    /\ link.phase \in {"connecting", "open"} => wanted

\* Each request of the queue is there once, and pending until its time is up.
QueueInv(queue, told) ==
    /\ \A n \in DOMAIN queue :
         told[queue[n].id] = IF queue[n].timedOut THEN "failed" ELSE "pending"
    /\ \A m, n \in DOMAIN queue : queue[m].id = queue[n].id => m = n

SavesInv == QueueInv(saves, outcome)

LinkInv == LinkSafety /\ ConnsInv /\ SocketInv /\ SavesInv

-----------------------------------------------------------------------------
(* Frames and boxes.                                                         *)

LEMMA FrameFacts ==
    ASSUME NEW m \in Frames
    PROVE  /\ m.kind \in {"hello", "status", "close", "session", "answer"}
           /\ m.kind \in {"hello", "status", "close", "answer"} => m.good \in BOOLEAN
           /\ m.kind = "session" => m.conn \in Conns
           /\ m.kind = "answer" => m.id \in Saves
  BY DEF Frames

LEMMA FrameMakers ==
    ASSUME NEW c \in Conns, NEW i \in Saves, NEW g \in BOOLEAN, NEW disk
    PROVE  /\ Hello(g) \in Frames /\ ~IsAnswer(Hello(g)) /\ TrueFrame(c, Hello(g), disk)
           /\ Status(g) \in Frames /\ ~IsAnswer(Status(g)) /\ TrueFrame(c, Status(g), disk)
           /\ Close(g) \in Frames /\ ~IsAnswer(Close(g)) /\ TrueFrame(c, Close(g), disk)
           /\ Session(c) \in Frames /\ ~IsAnswer(Session(c)) /\ TrueFrame(c, Session(c), disk)
           /\ Answer(i, g) \in Frames /\ IsAnswer(Answer(i, g)) /\ Answer(i, g).id = i
           /\ (g => i \in disk) => TrueFrame(c, Answer(i, g), disk)
  BY DEF Hello, Status, Close, Session, Answer, Frames, IsAnswer, TrueFrame

LEMMA BoxFacts ==
    ASSUME NEW c, NEW disk, NEW box \in Seq(Frames), NEW x \in Frames, TrueFrames(c, box, disk)
    PROVE  /\ TrueFrame(c, x, disk) => TrueFrames(c, Append(box, x), disk)
           /\ box # <<>> => /\ Head(box) \in Frames /\ Tail(box) \in Seq(Frames)
                            /\ TrueFrame(c, Head(box), disk)
                            /\ TrueFrames(c, Tail(box), disk)
<1>1. DOMAIN box = 1..Len(box) /\ Len(box) \in Nat
  BY LenProperties
<1>2. ASSUME TrueFrame(c, x, disk) PROVE TrueFrames(c, Append(box, x), disk)
  <2>1. /\ DOMAIN Append(box, x) = 1..(Len(box) + 1)
        /\ \A n \in 1..Len(box) : Append(box, x)[n] = box[n]
        /\ Append(box, x)[Len(box) + 1] = x
    BY AppendProperties, LenProperties
  <2>2. \A n \in 1..(Len(box) + 1) : n \in 1..Len(box) \/ n = Len(box) + 1
    BY <1>1
  <2> QED
    BY <1>1, <1>2, <2>1, <2>2 DEF TrueFrames
<1>3. ASSUME box # <<>>
      PROVE  /\ Head(box) \in Frames /\ Tail(box) \in Seq(Frames)
             /\ TrueFrame(c, Head(box), disk)
             /\ TrueFrames(c, Tail(box), disk)
  <2>1. /\ Len(box) >= 1 /\ Head(box) = box[1] /\ Head(box) \in Frames
        /\ Tail(box) \in Seq(Frames) /\ DOMAIN Tail(box) = 1..(Len(box) - 1)
        /\ \A n \in 1..(Len(box) - 1) : Tail(box)[n] = box[n + 1]
    BY <1>1, <1>3, EmptySeq, HeadTailProperties, LenProperties
  <2>2. \A n \in 1..(Len(box) - 1) : n + 1 \in DOMAIN box
    BY <1>1
  <2>3. TrueFrames(c, Tail(box), disk)
    BY <2>1, <2>2 DEF TrueFrames
  <2>4. TrueFrame(c, Head(box), disk)
    BY <1>1, <2>1 DEF TrueFrames
  <2> QED
    BY <2>1, <2>3, <2>4
<1> QED
  BY <1>2, <1>3

LEMMA OutFacts ==
    ASSUME NEW told, NEW out \in Seq(Saves), NEW i \in Saves, Asked(out, told)
    PROVE  /\ told[i] # "none" => Asked(Append(out, i), told)
           /\ out # <<>> => /\ Head(out) \in Saves /\ Tail(out) \in Seq(Saves)
                            /\ told[Head(out)] # "none"
                            /\ Asked(Tail(out), told)
<1>1. DOMAIN out = 1..Len(out) /\ Len(out) \in Nat
  BY LenProperties
<1>2. ASSUME told[i] # "none" PROVE Asked(Append(out, i), told)
  <2>1. /\ DOMAIN Append(out, i) = 1..(Len(out) + 1)
        /\ \A n \in 1..Len(out) : Append(out, i)[n] = out[n]
        /\ Append(out, i)[Len(out) + 1] = i
    BY AppendProperties, LenProperties
  <2>2. \A n \in 1..(Len(out) + 1) : n \in 1..Len(out) \/ n = Len(out) + 1
    BY <1>1
  <2> QED
    BY <1>1, <1>2, <2>1, <2>2 DEF Asked
<1>3. ASSUME out # <<>>
      PROVE  /\ Head(out) \in Saves /\ Tail(out) \in Seq(Saves)
             /\ told[Head(out)] # "none"
             /\ Asked(Tail(out), told)
  <2>1. /\ Len(out) >= 1 /\ Head(out) = out[1] /\ Head(out) \in Saves
        /\ Tail(out) \in Seq(Saves) /\ DOMAIN Tail(out) = 1..(Len(out) - 1)
        /\ \A n \in 1..(Len(out) - 1) : Tail(out)[n] = out[n + 1]
    BY <1>1, <1>3, EmptySeq, HeadTailProperties, LenProperties
  <2>2. \A n \in 1..(Len(out) - 1) : n + 1 \in DOMAIN out
    BY <1>1
  <2>3. Asked(Tail(out), told)
    BY <2>1, <2>2 DEF Asked
  <2> QED
    BY <1>1, <2>1, <2>3 DEF Asked
<1> QED
  BY <1>2, <1>3

\* What a connection carries stays true as recordings are added and requests go on.
LEMMA ConnStays ==
    ASSUME NEW c, NEW stage, NEW box, NEW out \in Seq(Saves), NEW disk, NEW disk2,
           NEW told, NEW told2, ConnOK(c, stage, box, out, disk, told),
           disk \subseteq disk2,
           \A i \in Saves : told[i] # "none" => told2[i] # "none"
    PROVE  ConnOK(c, stage, box, out, disk2, told2)
<1>1. TrueFrames(c, box, disk2)
  BY DEF ConnOK, TrueFrames, TrueFrame
<1>2. \A k \in DOMAIN out : out[k] \in Saves
  BY ElementOfSeq, LenProperties
<1>3. Asked(out, told2)
  BY <1>2 DEF ConnOK, Asked
<1> QED
  BY <1>1, <1>3 DEF ConnOK

-----------------------------------------------------------------------------
(* Steps on one connection.                                                  *)

\* Only connection c changes, to this stage, inbox and outbox.
Changed(new, c, stage, box, out) ==
    /\ new \in [Conns -> Conn]
    /\ new[c].stage = stage /\ new[c].inbox = box /\ new[c].outbox = out
    /\ \A x \in Conns : x # c => new[x] = net[x]

LEMMA NetFacts ==
    ASSUME TypeOK, NEW c \in Conns
    PROVE  /\ net \in [Conns -> Conn]
           /\ net[c].stage \in Stages /\ net[c].inbox \in Seq(Frames)
           /\ net[c].outbox \in Seq(Saves)
           /\ Changed(net, c, net[c].stage, net[c].inbox, net[c].outbox)
  BY DEF TypeOK, Conn, Stages, Changed

LEMMA Replaced ==
    ASSUME TypeOK, NEW c \in Conns, NEW k \in Conn
    PROVE  Changed([net EXCEPT ![c] = k], c, k.stage, k.inbox, k.outbox)
<1>1. net \in [Conns -> Conn]
  BY NetFacts
<1> QED
  BY <1>1 DEF Changed

LEMMA StageSet ==
    ASSUME TypeOK, NEW c \in Conns, NEW stage \in Stages
    PROVE  Changed([net EXCEPT ![c].stage = stage], c, stage, net[c].inbox, net[c].outbox)
<1>1. net \in [Conns -> Conn]
  BY NetFacts
<1> QED
  BY <1>1 DEF Changed, Conn

LEMMA InboxSet ==
    ASSUME TypeOK, NEW c \in Conns, NEW box \in Seq(Frames)
    PROVE  Changed([net EXCEPT ![c].inbox = box], c, net[c].stage, box, net[c].outbox)
<1>1. net \in [Conns -> Conn]
  BY NetFacts
<1> QED
  BY <1>1 DEF Changed, Conn

LEMMA OutboxSet ==
    ASSUME TypeOK, NEW c \in Conns, NEW out \in Seq(Saves)
    PROVE  Changed([net EXCEPT ![c].outbox = out], c, net[c].stage, net[c].inbox, out)
<1>1. net \in [Conns -> Conn]
  BY NetFacts
<1> QED
  BY <1>1 DEF Changed, Conn

\* Nothing that the page holds changes, and what is new on the connection is true.
LEMMA ConnsStep ==
    ASSUME TypeOK, ConnsInv, NEW c \in Conns,
           NEW stage, NEW box, NEW out,
           Changed(net', c, stage, box, out),
           ConnOK(c, stage, box, out, kept', outcome'),
           kept \subseteq kept',
           \A i \in Saves : outcome[i] # "none" => outcome'[i] # "none"
    PROVE  ConnsInv'
<1> SUFFICES ASSUME NEW x \in Conns
             PROVE  ConnOK(x, net'[x].stage, net'[x].inbox, net'[x].outbox, kept', outcome')
  BY DEF ConnsInv
<1>1. CASE x = c
  BY <1>1 DEF Changed
<1>2. CASE x # c
  <2>1. net'[x] = net[x]
    BY <1>2 DEF Changed
  <2>2. ConnOK(x, net[x].stage, net[x].inbox, net[x].outbox, kept, outcome)
    BY DEF ConnsInv
  <2>3. net[x].outbox \in Seq(Saves)
    BY NetFacts
  <2>4. ConnOK(x, net[x].stage, net[x].inbox, net[x].outbox, kept', outcome')
    BY <2>2, <2>3, ConnStays
  <2> QED
    BY <2>1, <2>4
<1> QED
  BY <1>1, <1>2

\* What the other end does to a connection, the page standing still.
LEMMA RobotStep ==
    ASSUME LinkInv, UNCHANGED pageVars, bridge' \in Bridges,
           kept \subseteq kept', kept' \subseteq Saves,
           NEW c \in Conns, NEW stage, NEW box, NEW out,
           Changed(net', c, stage, box, out),
           ConnOK(c, stage, box, out, kept', outcome),
           c = socket =>
             /\ stage \in {"opening", "up", "shut"}
             /\ stage = "opening" => link.phase = "connecting"
             /\ AnswersFit(box, saves)
             /\ stage = "up" => RequestsFit(box, out, saves)
    PROVE  LinkInv'
<1>0. /\ TypeOK /\ ConnsInv /\ SocketInv /\ SavesInv /\ AnswersInOrder /\ AttemptIsDue
      /\ QuietWhenUnwanted /\ SessionIsCurrent
  BY DEF LinkInv, LinkSafety
<1>1. /\ link' = link /\ wanted' = wanted /\ timers' = timers /\ socket' = socket
      /\ saves' = saves /\ outcome' = outcome
  BY DEF pageVars
<1>2. TypeOK'
  <2>1. net' \in [Conns -> Conn]
    BY DEF Changed
  <2> QED
    BY <1>0, <1>1, <2>1 DEF TypeOK, Conn, Stages
<1>3. ConnsInv'
  BY <1>0, <1>1, ConnsStep
<1>4. socket # NoConn => socket \in Conns
  BY <1>0 DEF TypeOK
<1>5. AnswersInOrder'
  BY <1>0, <1>1, <1>4 DEF AnswersInOrder, Changed
<1>6. SocketInv'
  BY <1>0, <1>1, <1>4 DEF SocketInv, Changed
<1>7. SavesInv' /\ AttemptIsDue' /\ QuietWhenUnwanted' /\ SessionIsCurrent'
  BY <1>0, <1>1 DEF SavesInv, AttemptIsDue, QuietWhenUnwanted, SessionIsCurrent
<1> QED
  BY <1>2, <1>3, <1>5, <1>6, <1>7 DEF LinkInv, LinkSafety

LEMMA AcceptKeeps ==
    ASSUME LinkInv, NEW c \in Conns, Accept(c) \/ TurnAway(c)
    PROVE  LinkInv'
<1>0. TypeOK /\ ConnsInv /\ SocketInv
  BY DEF LinkInv, LinkSafety
<1>1. net[c].stage = "opening" /\ UNCHANGED pageVars /\ bridge' \in Bridges /\ kept' = kept
  BY <1>0 DEF Accept, TurnAway, pageVars, TypeOK
<1>2. c = socket => link.phase = "connecting" /\ saves = <<>>
  BY <1>0, <1>1, LinkAssumption DEF SocketInv
<1>3. PICK stage \in {"up", "shut"}, box \in Seq(Frames) :
         /\ net' = [net EXCEPT ![c] = [stage |-> stage, outbox |-> <<>>, inbox |-> box]]
         /\ \A n \in DOMAIN box : ~IsAnswer(box[n]) /\ TrueFrame(c, box[n], kept)
  <2>1. CASE Accept(c)
    <3> DEFINE g == (bridge = "up")
               box == <<Hello(g), Session(c)>>
    <3>1. /\ Hello(g) \in Frames /\ ~IsAnswer(Hello(g)) /\ TrueFrame(c, Hello(g), kept)
          /\ Session(c) \in Frames /\ ~IsAnswer(Session(c)) /\ TrueFrame(c, Session(c), kept)
      BY DEF Hello, Session, Frames, IsAnswer, TrueFrame
    <3>2. box \in Seq(Frames) /\ DOMAIN box = 1..2 /\ box[1] = Hello(g) /\ box[2] = Session(c)
      BY <3>1
    <3>3. net' = [net EXCEPT ![c] = [stage |-> "up", outbox |-> <<>>, inbox |-> box]]
      BY <2>1 DEF Accept
    <3> HIDE DEF g, box
    <3>4. \A n \in DOMAIN box : n = 1 \/ n = 2
      BY <3>2
    <3>5. \A n \in DOMAIN box : ~IsAnswer(box[n]) /\ TrueFrame(c, box[n], kept)
      BY <3>1, <3>2, <3>4
    <3> QED
      BY <3>2, <3>3, <3>5
  <2>2. CASE TurnAway(c)
    <3> DEFINE g == (bridge = "full")
               box == <<Close(g)>>
    <3>1. Close(g) \in Frames /\ ~IsAnswer(Close(g)) /\ TrueFrame(c, Close(g), kept)
      BY DEF Close, Frames, IsAnswer, TrueFrame
    <3>2. box \in Seq(Frames) /\ DOMAIN box = 1..1 /\ box[1] = Close(g)
      BY <3>1
    <3>3. net' = [net EXCEPT ![c] = [stage |-> "shut", outbox |-> <<>>, inbox |-> box]]
      BY <2>2 DEF TurnAway
    <3> HIDE DEF g, box
    <3>4. \A n \in DOMAIN box : n = 1
      BY <3>2
    <3>5. \A n \in DOMAIN box : ~IsAnswer(box[n]) /\ TrueFrame(c, box[n], kept)
      BY <3>1, <3>2, <3>4
    <3> QED
      BY <3>2, <3>3, <3>5
  <2> QED
    BY <2>1, <2>2
<1> DEFINE k == [stage |-> stage, outbox |-> <<>>, inbox |-> box]
<1>4. <<>> \in Seq(Saves)
  OBVIOUS
<1>5. k \in Conn /\ k.stage = stage /\ k.inbox = box /\ k.outbox = <<>>
  BY <1>4 DEF Conn, Stages
<1> HIDE DEF k
<1>6. Changed(net', c, stage, box, <<>>)
  <2>1. net' = [net EXCEPT ![c] = k]
    BY <1>3 DEF k
  <2> QED
    BY <1>0, <1>5, <2>1, Replaced
<1>7. ConnOK(c, stage, box, <<>>, kept', outcome)
  <2>1. TrueFrames(c, box, kept')
    BY <1>1, <1>3 DEF TrueFrames
  <2>2. Asked(<<>>, outcome)
    BY DEF Asked
  <2> QED
    BY <2>1, <2>2 DEF ConnOK
<1>8. AnswersFit(box, saves) /\ (c = socket => RequestsFit(box, <<>>, saves))
  BY <1>2, <1>3, FitNothing
<1>9. kept \subseteq kept' /\ kept' \subseteq Saves
  BY <1>0, <1>1 DEF TypeOK
<1> QED
  BY <1>1, <1>2, <1>6, <1>7, <1>8, <1>9, RobotStep

LEMMA StatusKeeps ==
    ASSUME LinkInv, NEW c \in Conns, NEW moving \in BOOLEAN, SendStatus(c, moving)
    PROVE  LinkInv'
<1>0. TypeOK /\ ConnsInv /\ SocketInv /\ AnswersInOrder
  BY DEF LinkInv, LinkSafety
<1>1. /\ net[c].stage = "up" /\ UNCHANGED pageVars /\ bridge' \in Bridges /\ kept' = kept
      /\ kept \subseteq Saves
  BY <1>0 DEF SendStatus, pageVars, TypeOK
<1> DEFINE x == Status(moving)
           box == net[c].inbox
           out == net[c].outbox
<1>2. x \in Frames /\ ~IsAnswer(x) /\ TrueFrame(c, x, kept)
  BY DEF Status, Frames, IsAnswer, TrueFrame
<1>3. box \in Seq(Frames) /\ out \in Seq(Saves)
  BY <1>0, NetFacts
<1>4. net' = [net EXCEPT ![c].inbox = Append(box, x)]
  BY DEF SendStatus, Send
<1> HIDE DEF x, box, out
<1>5. Append(box, x) \in Seq(Frames)
  BY <1>2, <1>3
<1>6. Changed(net', c, "up", Append(box, x), out)
  BY <1>0, <1>1, <1>4, <1>5, InboxSet DEF out
<1>7. ConnOK(c, "up", Append(box, x), out, kept', outcome)
  <2>1. ConnOK(c, "up", box, out, kept, outcome)
    BY <1>0, <1>1 DEF ConnsInv, box, out
  <2>2. TrueFrames(c, Append(box, x), kept)
    BY <1>2, <1>3, <2>1, BoxFacts DEF ConnOK
  <2> QED
    BY <1>1, <2>1, <2>2 DEF ConnOK
<1>8. ASSUME c = socket
      PROVE AnswersFit(Append(box, x), saves) /\ RequestsFit(Append(box, x), out, saves)
  <2>1. AnswersFit(box, saves) /\ RequestsFit(box, out, saves)
    BY <1>0, <1>1, <1>8, LinkAssumption DEF AnswersInOrder, box, out
  <2> QED
    BY <1>2, <1>3, <2>1, FitOther
<1> QED
  BY <1>1, <1>6, <1>7, <1>8, RobotStep

LEMMA BreakKeeps ==
    ASSUME LinkInv, NEW c \in Conns, Break(c)
    PROVE  LinkInv'
<1>0. TypeOK /\ ConnsInv /\ SocketInv /\ AnswersInOrder
  BY DEF LinkInv, LinkSafety
<1>1. /\ net[c].stage = "up" /\ UNCHANGED pageVars /\ bridge' \in Bridges /\ kept' = kept
      /\ kept \subseteq Saves
  BY <1>0 DEF Break, pageVars, TypeOK
<1> DEFINE x == Close(FALSE)
           box == net[c].inbox
           out == net[c].outbox
<1>2. x \in Frames /\ ~IsAnswer(x) /\ TrueFrame(c, x, kept)
  BY DEF Close, Frames, IsAnswer, TrueFrame
<1>3. box \in Seq(Frames) /\ out \in Seq(Saves) /\ net \in [Conns -> Conn]
  BY <1>0, NetFacts
<1>4. net' = [net EXCEPT ![c].stage = "shut", ![c].inbox = Append(net[c].inbox, x)]
  BY DEF Break
<1> HIDE DEF x
<1>5. Append(net[c].inbox, x) \in Seq(Frames)
  BY <1>2, <1>3
<1>6. Changed(net', c, "shut", Append(box, x), out)
  BY <1>3, <1>4, <1>5 DEF Changed, Conn, Stages
<1> HIDE DEF box, out
<1>7. ConnOK(c, "shut", Append(box, x), out, kept', outcome)
  <2>1. ConnOK(c, "up", box, out, kept, outcome)
    BY <1>0, <1>1 DEF ConnsInv, box, out
  <2>2. TrueFrames(c, Append(box, x), kept)
    BY <1>2, <1>3, <2>1, BoxFacts DEF ConnOK
  <2> QED
    BY <1>1, <2>1, <2>2 DEF ConnOK
<1>8. ASSUME c = socket PROVE AnswersFit(Append(box, x), saves)
  <2>1. AnswersFit(box, saves)
    BY <1>0, <1>8, LinkAssumption DEF AnswersInOrder, box
  <2> QED
    BY <1>2, <1>3, <2>1, FitOther
<1> QED
  BY <1>1, <1>6, <1>7, <1>8, RobotStep

\* What AnswerSave does: the oldest request leaves the wire, and its answer enters it
\* unless the page has left.
LEMMA AnswerFacts ==
    ASSUME LinkInv, NEW c \in Conns, NEW good \in BOOLEAN, AnswerSave(c, good)
    PROVE  LET i == Head(net[c].outbox)
           IN  /\ i \in Saves /\ outcome[i] # "none"
               /\ kept' = IF good THEN kept \cup {i} ELSE kept
               /\ UNCHANGED pageVars
               /\ net[c].stage \in {"up", "shut", "leaving"}
               /\ Changed(net', c, net[c].stage,
                          IF net[c].stage = "up" THEN Append(net[c].inbox, Answer(i, good))
                                                 ELSE net[c].inbox,
                          Tail(net[c].outbox))
<1>0. TypeOK /\ ConnsInv
  BY DEF LinkInv, LinkSafety
<1> DEFINE out == net[c].outbox
           box == net[c].inbox
           i == Head(out)
           x == Answer(i, good)
<1>1. /\ net[c].stage \in Stages /\ box \in Seq(Frames) /\ out \in Seq(Saves)
      /\ net \in [Conns -> Conn]
  BY <1>0, NetFacts
<1>2. out # <<>> /\ ConnOK(c, net[c].stage, box, out, kept, outcome)
  BY <1>0 DEF AnswerSave, ConnsInv
<1>3. net[c].stage \in {"up", "shut", "leaving"}
  BY <1>1, <1>2 DEF ConnOK, Stages
<1>4. i \in Saves /\ Tail(out) \in Seq(Saves) /\ outcome[i] # "none"
  <2>1. Asked(out, outcome)
    BY <1>2 DEF ConnOK
  <2>2. Len(out) >= 1 /\ Len(out) \in Nat
    BY <1>1, <1>2, EmptySeq, LenProperties
  <2>3. out[1] \in Saves
    BY <1>1, <2>2, ElementOfSeq
  <2> QED
    BY <1>1, <1>2, <2>1, <2>3, OutFacts
<1>5. x \in Frames
  BY <1>4 DEF Answer, Frames
<1>6. Append(box, x) \in Seq(Frames)
  BY <1>1, <1>5
<1>7. CASE net[c].stage = "up"
  <2>1. net' = [[net EXCEPT ![c].outbox = Tail(out)] EXCEPT
                   ![c].inbox = Append([net EXCEPT ![c].outbox = Tail(out)][c].inbox, x)]
    BY <1>7 DEF AnswerSave
  <2>2. [net EXCEPT ![c].outbox = Tail(out)][c].inbox = box
    BY <1>1
  <2> HIDE DEF x
  <2>3. net' = [[net EXCEPT ![c].outbox = Tail(out)] EXCEPT ![c].inbox = Append(box, x)]
    BY <2>1, <2>2
  <2>4. Changed(net', c, net[c].stage, Append(box, x), Tail(out))
    BY <1>1, <1>4, <1>6, <2>3 DEF Changed, Conn
  <2> QED
    BY <1>3, <1>4, <1>7, <2>4 DEF AnswerSave, pageVars, x
<1>8. CASE net[c].stage # "up"
  <2>1. net' = [net EXCEPT ![c].outbox = Tail(out)]
    BY <1>8 DEF AnswerSave
  <2>2. Changed(net', c, net[c].stage, box, Tail(out))
    BY <1>0, <1>4, <2>1, OutboxSet
  <2> QED
    BY <1>3, <1>4, <1>8, <2>2 DEF AnswerSave, pageVars
<1> QED
  BY <1>7, <1>8

LEMMA AnswerKeeps ==
    ASSUME LinkInv, NEW c \in Conns, NEW good \in BOOLEAN, AnswerSave(c, good)
    PROVE  LinkInv'
<1>0. TypeOK /\ ConnsInv /\ SocketInv /\ AnswersInOrder
  BY DEF LinkInv, LinkSafety
<1> DEFINE out == net[c].outbox
           box == net[c].inbox
           i == Head(out)
           x == Answer(i, good)
           stage == net[c].stage
           now == IF stage = "up" THEN Append(box, x) ELSE box
<1>1. /\ i \in Saves /\ outcome[i] # "none"
      /\ kept' = IF good THEN kept \cup {i} ELSE kept
      /\ UNCHANGED pageVars
      /\ stage \in {"up", "shut", "leaving"}
      /\ Changed(net', c, stage, now, Tail(out))
  BY AnswerFacts
<1>2. kept \subseteq kept' /\ kept' \subseteq Saves /\ bridge' \in Bridges
  <2>1. kept \subseteq Saves /\ bridge \in Bridges
    BY <1>0 DEF TypeOK
  <2> QED
    BY <1>1, <2>1 DEF AnswerSave
<1>3. box \in Seq(Frames) /\ out \in Seq(Saves) /\ out # <<>>
  BY <1>0, NetFacts DEF AnswerSave
<1>4. x \in Frames /\ IsAnswer(x) /\ x.id = i /\ TrueFrame(c, x, kept')
  BY <1>1 DEF Answer, Frames, IsAnswer, TrueFrame
<1>5. ConnOK(c, stage, box, out, kept', outcome)
  <2>1. ConnOK(c, stage, box, out, kept, outcome)
    BY <1>0 DEF ConnsInv
  <2> HIDE DEF stage, box, out
  <2> QED
    BY <1>2, <1>3, <2>1, ConnStays
<1>6. c = socket => /\ AnswersFit(box, saves)
                    /\ stage = "up" => RequestsFit(box, out, saves)
  BY <1>0, LinkAssumption DEF AnswersInOrder
<1>7. saves \in Seq(Entries)
  BY <1>0 DEF TypeOK, Entries
<1>8. c = socket => stage \in {"opening", "up", "shut"}
  BY <1>0, <1>1, LinkAssumption DEF SocketInv
<1> HIDE DEF x, box, out, stage
<1>9. ConnOK(c, stage, now, Tail(out), kept', outcome)
  <2>1. TrueFrames(c, Append(box, x), kept') /\ TrueFrames(c, box, kept')
    BY <1>3, <1>4, <1>5, BoxFacts DEF ConnOK
  <2>2. Asked(Tail(out), outcome)
    BY <1>1, <1>3, <1>5, OutFacts DEF ConnOK
  <2> QED
    BY <1>1, <2>1, <2>2 DEF ConnOK
<1>10. c = socket => /\ AnswersFit(now, saves)
                     /\ stage = "up" => RequestsFit(now, Tail(out), saves)
  <2>1. CASE stage = "up" /\ c = socket
    <3>1. /\ AnswersFit(Append(box, x), saves)
          /\ RequestsFit(Append(box, x), Tail(out), saves)
      BY <1>3, <1>4, <1>6, <1>7, <2>1, FitAnswer
    <3> QED
      BY <2>1, <3>1
  <2>2. CASE stage # "up"
    BY <1>6, <2>2
  <2> QED
    BY <2>1, <2>2
<1>11. stage # "opening"
  BY <1>1
<1> HIDE DEF now
<1> QED
  BY <1>1, <1>2, <1>8, <1>9, <1>10, <1>11, RobotStep

LEMMA ForgetKeeps ==
    ASSUME LinkInv, NEW c \in Conns, Forget(c)
    PROVE  LinkInv'
<1>0. TypeOK /\ ConnsInv /\ SocketInv
  BY DEF LinkInv, LinkSafety
<1>1. /\ net[c].stage = "leaving" /\ UNCHANGED pageVars /\ bridge' \in Bridges
      /\ kept' = kept /\ kept \subseteq Saves
  BY <1>0 DEF Forget, pageVars, TypeOK
<1>2. c # socket
  BY <1>0, <1>1, LinkAssumption DEF SocketInv
<1>3. Changed(net', c, "free", <<>>, <<>>)
  <2>1. Unused \in Conn
    BY DEF Unused, Conn, Stages
  <2>2. net' = [net EXCEPT ![c] = Unused]
    BY DEF Forget
  <2>3. Changed(net', c, Unused.stage, Unused.inbox, Unused.outbox)
    BY <1>0, <2>1, <2>2, Replaced
  <2> QED
    BY <2>3 DEF Unused
<1>4. ConnOK(c, "free", <<>>, <<>>, kept', outcome)
  BY DEF ConnOK, TrueFrames, Asked
<1> QED
  BY <1>1, <1>2, <1>3, <1>4, RobotStep

LEMMA RobotKeeps == LinkInv /\ Robot => LinkInv'
<1> SUFFICES ASSUME LinkInv, Robot PROVE LinkInv'
  OBVIOUS
<1>1. ASSUME NEW c \in Conns, Accept(c) \/ TurnAway(c) PROVE LinkInv'
  BY <1>1, AcceptKeeps
<1>2. ASSUME NEW c \in Conns, Break(c) PROVE LinkInv'
  BY <1>2, BreakKeeps
<1>3. ASSUME NEW c \in Conns, Forget(c) PROVE LinkInv'
  BY <1>3, ForgetKeeps
<1>4. ASSUME NEW c \in Conns, NEW good \in BOOLEAN, SendStatus(c, good) PROVE LinkInv'
  BY <1>4, StatusKeeps
<1>5. ASSUME NEW c \in Conns, NEW good \in BOOLEAN, AnswerSave(c, good) PROVE LinkInv'
  BY <1>5, AnswerKeeps
<1>6. CASE BridgeChanges
  BY <1>6 DEF BridgeChanges, LinkInv, LinkSafety, TypeOK, AnswersInOrder, AttemptIsDue,
     QuietWhenUnwanted, SessionIsCurrent, ConnsInv, SocketInv, SavesInv
<1> QED
  BY <1>1, <1>2, <1>3, <1>4, <1>5, <1>6 DEF Robot

-----------------------------------------------------------------------------
(* The queue of waiting requests.                                            *)

LEMMA QueueFacts ==
    ASSUME NEW queue \in Seq(Entries)
    PROVE  /\ DOMAIN queue = 1..Len(queue) /\ Len(queue) \in Nat
           /\ \A n \in DOMAIN queue : queue[n] \in Entries /\ queue[n].id \in Saves
                                      /\ queue[n].timedOut \in BOOLEAN
<1>1. DOMAIN queue = 1..Len(queue) /\ Len(queue) \in Nat
  BY LenProperties
<1>2. \A n \in 1..Len(queue) : queue[n] \in Entries
  BY ElementOfSeq
<1> QED
  BY <1>1, <1>2 DEF Entries

\* A request that nobody has made is in no queue.
LEMMA QueueOther ==
    ASSUME NEW queue \in Seq(Entries), NEW told, NEW told2, QueueInv(queue, told),
           NEW i \in Saves, told[i] \notin {"pending", "failed"},
           \A j \in Saves : j # i => told2[j] = told[j]
    PROVE  /\ QueueInv(queue, told2)
           /\ \A n \in DOMAIN queue : queue[n].id # i
<1>1. \A n \in DOMAIN queue : queue[n].id \in Saves /\ queue[n].timedOut \in BOOLEAN
  BY QueueFacts
<1>2. \A n \in DOMAIN queue : queue[n].id # i
  BY <1>1 DEF QueueInv
<1> QED
  BY <1>1, <1>2 DEF QueueInv

LEMMA QueueAppend ==
    ASSUME NEW queue \in Seq(Entries), NEW told \in [Saves -> Outcomes],
           QueueInv(queue, told), NEW i \in Saves, told[i] = "none"
    PROVE  QueueInv(Append(queue, [id |-> i, timedOut |-> FALSE]),
                    [told EXCEPT ![i] = "pending"])
<1> DEFINE e == [id |-> i, timedOut |-> FALSE]
           longer == Append(queue, e)
           told2 == [told EXCEPT ![i] = "pending"]
<1>1. QueueInv(queue, told2) /\ \A n \in DOMAIN queue : queue[n].id # i
  BY QueueOther
<1>2. DOMAIN queue = 1..Len(queue) /\ Len(queue) \in Nat
  BY QueueFacts
<1>3. e \in Entries /\ e.id = i /\ e.timedOut = FALSE /\ told2[i] = "pending"
  BY DEF Entries
<1> HIDE DEF e
<1>4. /\ DOMAIN longer = 1..(Len(queue) + 1) /\ longer[Len(queue) + 1] = e
      /\ \A n \in 1..Len(queue) : longer[n] = queue[n]
  BY <1>3, AppendProperties, LenProperties
<1> HIDE DEF longer, told2
<1>5. \A n \in DOMAIN longer : n \in DOMAIN queue \/ n = Len(queue) + 1
  BY <1>2, <1>4
<1>6. ASSUME NEW n \in DOMAIN longer
      PROVE  told2[longer[n].id] = IF longer[n].timedOut THEN "failed" ELSE "pending"
  <2>1. CASE n \in DOMAIN queue
    BY <1>1, <1>2, <1>4, <2>1 DEF QueueInv
  <2>2. CASE n = Len(queue) + 1
    BY <1>3, <1>4, <2>2
  <2> QED
    BY <1>5, <2>1, <2>2
<1>7. ASSUME NEW m \in DOMAIN longer, NEW n \in DOMAIN longer, longer[m].id = longer[n].id
      PROVE  m = n
  BY <1>1, <1>2, <1>3, <1>4, <1>5, <1>7 DEF QueueInv
<1> QED
  BY <1>6, <1>7 DEF QueueInv, longer, told2, e

LEMMA QueueTail ==
    ASSUME NEW queue \in Seq(Entries), queue # <<>>, NEW told, NEW told2,
           QueueInv(queue, told),
           \A j \in Saves : j # queue[1].id => told2[j] = told[j]
    PROVE  Tail(queue) \in Seq(Entries) /\ QueueInv(Tail(queue), told2)
<1> DEFINE rest == Tail(queue)
<1>1. /\ DOMAIN queue = 1..Len(queue) /\ Len(queue) \in Nat
      /\ \A n \in DOMAIN queue : queue[n].id \in Saves /\ queue[n].timedOut \in BOOLEAN
  BY QueueFacts
<1>2. /\ Len(queue) >= 1 /\ rest \in Seq(Entries) /\ DOMAIN rest = 1..(Len(queue) - 1)
      /\ \A n \in 1..(Len(queue) - 1) : rest[n] = queue[n + 1]
  BY <1>1, EmptySeq, HeadTailProperties, LenProperties
<1> HIDE DEF rest
<1>3. \A n \in DOMAIN rest : n + 1 \in DOMAIN queue /\ n + 1 # 1 /\ rest[n] = queue[n + 1]
                             /\ n \in Nat
  BY <1>1, <1>2
<1>4. 1 \in DOMAIN queue
  BY <1>1, <1>2
<1>5. \A n \in DOMAIN rest : rest[n].id # queue[1].id /\ rest[n].id \in Saves
  BY <1>1, <1>3, <1>4 DEF QueueInv
<1>6. ASSUME NEW n \in DOMAIN rest
      PROVE  told2[rest[n].id] = IF rest[n].timedOut THEN "failed" ELSE "pending"
  <2>1. told2[rest[n].id] = told[queue[n + 1].id]
    BY <1>3, <1>5
  <2> QED
    BY <1>3, <2>1 DEF QueueInv
<1>7. ASSUME NEW m \in DOMAIN rest, NEW n \in DOMAIN rest, rest[m].id = rest[n].id
      PROVE  m = n
  <2>1. m + 1 = n + 1
    BY <1>3, <1>7 DEF QueueInv
  <2> QED
    BY <1>3, <2>1
<1> QED
  BY <1>2, <1>6, <1>7 DEF QueueInv, rest

LEMMA QueueMark ==
    ASSUME NEW queue \in Seq(Entries), NEW told \in [Saves -> Outcomes],
           QueueInv(queue, told), NEW n \in DOMAIN queue
    PROVE  LET marked == [queue EXCEPT ![n].timedOut = TRUE]
           IN  /\ marked \in Seq(Entries) /\ Len(marked) = Len(queue)
               /\ \A m \in 1..Len(queue) : marked[m].id = queue[m].id
               /\ QueueInv(marked, [told EXCEPT ![queue[n].id] = "failed"])
<1> DEFINE e == [queue[n] EXCEPT !.timedOut = TRUE]
           marked == [queue EXCEPT ![n].timedOut = TRUE]
           told2 == [told EXCEPT ![queue[n].id] = "failed"]
<1>1. /\ DOMAIN queue = 1..Len(queue) /\ Len(queue) \in Nat
      /\ \A m \in DOMAIN queue : queue[m] \in Entries /\ queue[m].id \in Saves
                                 /\ queue[m].timedOut \in BOOLEAN
  BY QueueFacts
<1>2. e \in Entries /\ e.id = queue[n].id /\ e.timedOut = TRUE
  BY <1>1 DEF Entries
<1>3. marked = [queue EXCEPT ![n] = e]
  OBVIOUS
<1> HIDE DEF e
<1>4. marked \in Seq(Entries) /\ Len(marked) = Len(queue)
  <2>1. n \in 1..Len(queue)
    BY <1>1
  <2>2. [queue EXCEPT ![n] = e] \in Seq(Entries) /\ Len([queue EXCEPT ![n] = e]) = Len(queue)
    BY <1>2, <2>1, ExceptSeq
  <2> QED
    BY <1>3, <2>2
<1>5. /\ DOMAIN marked = DOMAIN queue /\ marked[n] = e
      /\ \A m \in DOMAIN queue : m # n => marked[m] = queue[m]
  BY <1>3
<1>6. \A m \in DOMAIN queue : marked[m].id = queue[m].id
  BY <1>2, <1>5
<1>7. told2[queue[n].id] = "failed" /\ \A j \in Saves : j # queue[n].id => told2[j] = told[j]
  BY <1>1
<1> HIDE DEF marked, told2
<1>8. ASSUME NEW m \in DOMAIN queue
      PROVE  told2[marked[m].id] = IF marked[m].timedOut THEN "failed" ELSE "pending"
  <2>1. CASE m = n
    BY <1>2, <1>5, <1>7, <2>1
  <2>2. CASE m # n
    <3>1. queue[m].id # queue[n].id
      BY <2>2 DEF QueueInv
    <3>2. told2[queue[m].id] = told[queue[m].id] /\ marked[m] = queue[m]
      BY <1>1, <1>5, <1>7, <2>2, <3>1
    <3> QED
      BY <3>2 DEF QueueInv
  <2> QED
    BY <2>1, <2>2
<1>9. QueueInv(marked, told2)
  BY <1>5, <1>6, <1>8 DEF QueueInv
<1> QED
  BY <1>1, <1>4, <1>6, <1>9 DEF marked, told2

-----------------------------------------------------------------------------
(* The page opens, loses and gives up connections.                           *)

\* Every connection is well typed, and what it carries is true.
NetOK(n, disk, told) ==
    /\ n \in [Conns -> Conn]
    /\ \A x \in Conns : ConnOK(x, n[x].stage, n[x].inbox, n[x].outbox, disk, told)

LEMMA NetStays ==
    ASSUME NEW n, NEW disk, NEW told, NEW told2, NetOK(n, disk, told),
           \A i \in Saves : told[i] # "none" => told2[i] # "none"
    PROVE  NetOK(n, disk, told2)
<1>1. \A x \in Conns : n[x].outbox \in Seq(Saves)
  BY DEF NetOK, Conn
<1>2. ASSUME NEW x \in Conns
      PROVE  ConnOK(x, n[x].stage, n[x].inbox, n[x].outbox, disk, told2)
  BY <1>1, ConnStays DEF NetOK
<1> QED
  BY <1>2 DEF NetOK

\* Leaving the socket in use.
LEMMA LeftFacts ==
    ASSUME TypeOK, ConnsInv
    PROVE  NetOK(Left, kept, outcome)
<1>1. net \in [Conns -> Conn] /\ (socket = NoConn \/ socket \in Conns)
  BY DEF TypeOK, Conn, Stages
<1>2. NetOK(net, kept, outcome)
  BY <1>1 DEF ConnsInv, NetOK
<1>3. CASE socket = NoConn
  BY <1>2, <1>3 DEF Left
<1>4. CASE socket # NoConn
  <2>1. socket \in Conns
    BY <1>1, <1>4
  <2>2. /\ Left \in [Conns -> Conn]
        /\ Left[socket].inbox = net[socket].inbox /\ Left[socket].outbox = net[socket].outbox
        /\ Left[socket].stage = IF net[socket].stage = "free" THEN "free" ELSE "leaving"
        /\ \A x \in Conns : x # socket => Left[x] = net[x]
    BY <1>1, <1>4, <2>1 DEF Left, Leave, Conn, Stages
  <2>3. ConnOK(socket, Left[socket].stage, Left[socket].inbox, Left[socket].outbox,
               kept, outcome)
    BY <1>2, <2>1, <2>2 DEF NetOK, ConnOK
  <2> QED
    BY <1>2, <2>2, <2>3 DEF NetOK
<1> QED
  BY <1>3, <1>4

\* What DropSaves does: the queue is empty, and those who waited know it.
LEMMA DropFacts ==
    ASSUME TypeOK, SavesInv, DropSaves
    PROVE  /\ saves' = <<>> /\ SavesInv'
           /\ outcome' \in [Saves -> Outcomes]
           /\ \A i \in Saves : outcome[i] # "none" => outcome'[i] # "none"
           /\ PendingIds \in SUBSET {i \in Saves : outcome[i] = "pending"}
           /\ outcome' = [i \in Saves |-> IF i \in PendingIds THEN "failed" ELSE outcome[i]]
<1>1. saves' = <<>> /\ DOMAIN saves' = {}
  BY DEF DropSaves
<1>2. outcome' = [i \in Saves |-> IF i \in PendingIds THEN "failed" ELSE outcome[i]]
  BY DEF DropSaves
<1>3. outcome \in [Saves -> Outcomes]
  BY DEF TypeOK, Outcomes
<1>4. saves \in Seq(Entries)
  BY DEF TypeOK, Entries
<1>5. PendingIds \in SUBSET {i \in Saves : outcome[i] = "pending"}
  BY <1>4, QueueFacts DEF PendingIds, SavesInv, QueueInv
<1>6. SavesInv'
  BY <1>1 DEF SavesInv, QueueInv
<1> QED
  BY <1>1, <1>2, <1>3, <1>5, <1>6 DEF Outcomes

\* A page without a connection: nothing waits, and the retry timer runs if one is wanted.
LEMMA Alone ==
    ASSUME TypeOK', NetOK(net', kept', outcome'), socket' = NoConn, saves' = <<>>,
           link'.phase \in {"idle", "error"},
           wanted' => "retry" \in timers',
           ~wanted' => timers' \subseteq {"silence"}
    PROVE  LinkInv'
<1>1. ConnsInv'
  BY DEF NetOK, ConnsInv
<1>2. AnswersInOrder' /\ AttemptIsDue' /\ QuietWhenUnwanted' /\ SessionIsCurrent'
  BY DEF AnswersInOrder, AttemptIsDue, QuietWhenUnwanted, SessionIsCurrent
<1>3. SocketInv'
  BY DEF SocketInv
<1>4. DOMAIN saves' = {}
  OBVIOUS
<1>5. SavesInv'
  BY <1>4 DEF SavesInv, QueueInv
<1> QED
  BY <1>1, <1>2, <1>3, <1>5 DEF LinkInv, LinkSafety

\* A page that tries: a connection of its own that carries nothing, and a time limit.
LEMMA Trying ==
    ASSUME NEW base \in Link, NEW n, NetOK(n, kept', outcome'), Open(base, n),
           wanted' = TRUE, saves' = <<>>, outcome' \in [Saves -> Outcomes],
           bridge' \in Bridges, kept' \subseteq Saves
    PROVE  LinkInv'
<1>1. PICK c \in Free(n) :
        /\ link' = [base EXCEPT !.phase = "connecting", !.hello = FALSE,
                                !.session = NoConn, !.silent = FALSE]
        /\ socket' = c
        /\ timers' = {"connect"}
        /\ net' = Opening(n, c)
  BY DEF Open
<1>2. c \in Conns /\ c # NoConn
  BY LinkAssumption DEF Free
<1>3. link' \in Link /\ link'.phase = "connecting" /\ link'.session = NoConn
  BY <1>1 DEF Link, Phases
<1>4. /\ net' \in [Conns -> Conn] /\ net'[c].stage = "opening"
      /\ net'[c].inbox = <<>> /\ net'[c].outbox = <<>>
      /\ \A x \in Conns : x # c => net'[x] = n[x]
  <2>1. [stage |-> "opening", inbox |-> <<>>, outbox |-> <<>>] \in Conn
    BY DEF Conn, Stages
  <2>2. n \in [Conns -> Conn]
    BY DEF NetOK
  <2> QED
    BY <1>1, <1>2, <2>1, <2>2 DEF Opening
<1>5. TypeOK'
  <2>1. <<>> \in Seq([id : Saves, timedOut : BOOLEAN])
    OBVIOUS
  <2> QED
    BY <1>1, <1>2, <1>3, <1>4, <2>1 DEF TypeOK, Timers, Outcomes, Conn, Stages
<1>6. ConnsInv'
  <2>1. ConnOK(c, "opening", <<>>, <<>>, kept', outcome')
    BY DEF ConnOK, TrueFrames, Asked
  <2> QED
    BY <1>4, <2>1 DEF ConnsInv, NetOK
<1>7. AnswersInOrder'
  <2>1. AnswersFit(<<>>, <<>>)
    BY DEF AnswersFit
  <2> QED
    BY <1>1, <1>4, <2>1 DEF AnswersInOrder
<1>8. AttemptIsDue' /\ QuietWhenUnwanted' /\ SessionIsCurrent' /\ SocketInv'
  BY <1>1, <1>2, <1>3, <1>4 DEF AttemptIsDue, QuietWhenUnwanted, SessionIsCurrent, SocketInv
<1>9. DOMAIN saves' = {}
  OBVIOUS
<1>10. SavesInv'
  BY <1>9 DEF SavesInv, QueueInv
<1> QED
  BY <1>5, <1>6, <1>7, <1>8, <1>10 DEF LinkInv, LinkSafety

LEMMA LinkParts ==
    ASSUME LinkInv
    PROVE  /\ TypeOK /\ ConnsInv /\ SocketInv /\ SavesInv /\ AnswersInOrder /\ AttemptIsDue
           /\ QuietWhenUnwanted /\ SessionIsCurrent
           /\ link \in Link /\ bridge \in Bridges /\ kept \subseteq Saves
           /\ saves \in Seq(Entries) /\ outcome \in [Saves -> Outcomes]
           /\ socket \in Conns \cup {NoConn} /\ timers \subseteq Timers
  BY DEF LinkInv, LinkSafety, TypeOK, Entries, Outcomes

LEMMA FreshFacts ==
    ASSUME link \in Link
    PROVE  Fresh \in Link
<1>1. "" \in Problems /\ FALSE \in BOOLEAN
  BY DEF Problems
<1>2. 0 \in 0..StoppedAfter
  BY DEF StoppedAfter
<1> QED
  BY <1>1, <1>2 DEF Fresh, Link

\* link.failures + 1, no further than STOPPED_AFTER_FAILURES.
LEMMA FailedFacts ==
    ASSUME link \in Link, NEW problem \in Problems, Failed(problem)
    PROVE  link' \in Link /\ link'.phase = "error" /\ timers' = {"retry"}
<1> DEFINE count == IF link.failures < StoppedAfter THEN link.failures + 1 ELSE link.failures
           gone == count >= StoppedAfter /\ problem # "full" /\ ServedHere
           now == IF gone THEN "stopped" ELSE problem
<1>1. count \in 0..StoppedAfter /\ now \in Problems
  <2>1. link.failures \in 0..StoppedAfter
    BY DEF Link
  <2>2. count \in 0..StoppedAfter
    BY <2>1 DEF StoppedAfter
  <2>3. "stopped" \in Problems
    BY DEF Problems
  <2> QED
    BY <2>2, <2>3
<1>2. /\ link' = [link EXCEPT !.phase = "error", !.silent = FALSE, !.failures = count,
                              !.problem = now]
      /\ timers' = {"retry"}
  BY DEF Failed
<1> HIDE DEF count, now
<1> QED
  BY <1>1, <1>2 DEF Link, Phases

LEMMA BlockedFacts ==
    ASSUME NEW base \in Link, Blocked(base)
    PROVE  /\ link' \in Link /\ link'.phase = "idle" /\ timers' = {}
           /\ wanted' = FALSE /\ socket' = NoConn
<1> DEFINE count == IF base.failures < StoppedAfter THEN base.failures + 1 ELSE base.failures
<1>1. count \in 0..StoppedAfter
  <2>1. base.failures \in 0..StoppedAfter
    BY DEF Link
  <2> QED
    BY <2>1 DEF StoppedAfter
<1>2. link' = [base EXCEPT !.phase = "idle", !.problem = "blocked", !.hello = FALSE,
                           !.session = NoConn, !.silent = FALSE, !.failures = count]
  BY DEF Blocked
<1> HIDE DEF count
<1> QED
  BY <1>1, <1>2 DEF Blocked, Link, Phases, Problems

\* The type invariant of a page that lost or gave up its connection.
LEMMA AloneTyped ==
    ASSUME link' \in Link, wanted' \in BOOLEAN, timers' \subseteq Timers, socket' = NoConn,
           saves' = <<>>, outcome' \in [Saves -> Outcomes], net' \in [Conns -> Conn],
           bridge' \in Bridges, kept' \subseteq Saves
    PROVE  TypeOK'
<1>1. <<>> \in Seq([id : Saves, timedOut : BOOLEAN])
  OBVIOUS
<1> QED
  BY <1>1 DEF TypeOK, Outcomes, Conn, Stages

LEMMA LearnerLinkKeeps ==
    ASSUME LinkInv, Connect \/ ConnectBlocked \/ Disconnect
    PROVE  LinkInv'
<1>0. /\ TypeOK /\ ConnsInv /\ SavesInv /\ link \in Link
      /\ bridge \in Bridges /\ kept \subseteq Saves
  BY LinkParts
<1>1. DropSaves /\ bridge' = bridge /\ kept' = kept
  BY DEF Connect, ConnectBlocked, Disconnect
<1>2. /\ saves' = <<>> /\ outcome' \in [Saves -> Outcomes]
      /\ \A i \in Saves : outcome[i] # "none" => outcome'[i] # "none"
  BY <1>0, <1>1, DropFacts
<1>3. NetOK(Left, kept', outcome')
  BY <1>0, <1>1, <1>2, LeftFacts, NetStays
<1>4. Fresh \in Link
  BY <1>0, FreshFacts
<1>5. CASE Connect
  <2>1. wanted' = TRUE /\ Open(Fresh, Left)
    BY <1>5 DEF Connect
  <2> QED
    BY <1>0, <1>1, <1>2, <1>3, <1>4, <2>1, Trying
<1>6. CASE ConnectBlocked
  <2>1. Blocked(Fresh) /\ net' = Left
    BY <1>6 DEF ConnectBlocked
  <2>2. /\ link' \in Link /\ link'.phase = "idle" /\ timers' = {}
        /\ wanted' = FALSE /\ socket' = NoConn
    BY <1>4, <2>1, BlockedFacts
  <2>3. TypeOK'
    BY <1>0, <1>1, <1>2, <1>3, <2>1, <2>2, AloneTyped DEF NetOK
  <2> QED
    BY <1>2, <1>3, <2>1, <2>2, <2>3, Alone
<1>7. CASE Disconnect
  <2>1. /\ wanted' = FALSE /\ timers' = {} /\ socket' = NoConn /\ net' = Left
        /\ link' = [Fresh EXCEPT !.phase = "idle", !.session = NoConn, !.silent = FALSE]
    BY <1>7 DEF Disconnect
  <2>2. link' \in Link /\ link'.phase = "idle"
    BY <1>4, <2>1 DEF Link, Phases
  <2>3. TypeOK'
    BY <1>0, <1>1, <1>2, <1>3, <2>1, <2>2, AloneTyped DEF NetOK
  <2> QED
    BY <1>2, <1>3, <2>1, <2>2, <2>3, Alone
<1> QED
  BY <1>5, <1>6, <1>7

LEMMA RetryKeeps ==
    ASSUME LinkInv, RetryDue \/ RetryBlocked
    PROVE  LinkInv'
<1>0. /\ TypeOK /\ ConnsInv /\ SocketInv /\ QuietWhenUnwanted /\ link \in Link
      /\ bridge \in Bridges /\ kept \subseteq Saves /\ outcome \in [Saves -> Outcomes]
  BY LinkParts
<1>1. "retry" \in timers /\ UNCHANGED <<saves, outcome, bridge, kept>>
  BY DEF RetryDue, RetryBlocked
<1>2. saves = <<>> /\ wanted
  BY <1>0, <1>1 DEF SocketInv, QuietWhenUnwanted
<1>3. NetOK(net, kept, outcome)
  BY <1>0 DEF NetOK, ConnsInv, TypeOK, Conn, Stages
<1>4. CASE RetryDue
  <2>1. Open(link, net) /\ wanted' = wanted
    BY <1>2, <1>4 DEF RetryDue
  <2>2. wanted' = TRUE
    BY <1>0, <1>2, <2>1 DEF TypeOK
  <2> QED
    BY <1>0, <1>1, <1>2, <1>3, <2>1, <2>2, Trying
<1>5. CASE RetryBlocked
  <2>1. Blocked(link) /\ net' = net
    BY <1>5 DEF RetryBlocked
  <2>2. /\ link' \in Link /\ link'.phase = "idle" /\ timers' = {}
        /\ wanted' = FALSE /\ socket' = NoConn
    BY <1>0, <2>1, BlockedFacts
  <2>3. TypeOK'
    BY <1>0, <1>1, <1>2, <1>3, <2>1, <2>2, AloneTyped DEF NetOK
  <2> QED
    BY <1>1, <1>2, <1>3, <2>1, <2>2, <2>3, Alone
<1> QED
  BY <1>4, <1>5

LEMMA ConnectDueKeeps ==
    ASSUME LinkInv, ConnectDue
    PROVE  LinkInv'
<1>0. /\ TypeOK /\ ConnsInv /\ SavesInv /\ QuietWhenUnwanted /\ link \in Link
      /\ bridge \in Bridges /\ kept \subseteq Saves
  BY LinkParts
<1>1. /\ "connect" \in timers /\ DropSaves /\ socket' = NoConn /\ net' = Left
      /\ Failed(IF link.everOpened THEN "lost" ELSE "timeout")
      /\ UNCHANGED <<wanted, bridge, kept>>
  BY DEF ConnectDue
<1>2. /\ saves' = <<>> /\ outcome' \in [Saves -> Outcomes]
      /\ \A i \in Saves : outcome[i] # "none" => outcome'[i] # "none"
  BY <1>0, <1>1, DropFacts
<1>3. NetOK(Left, kept', outcome')
  BY <1>0, <1>1, <1>2, LeftFacts, NetStays
<1>4. (IF link.everOpened THEN "lost" ELSE "timeout") \in Problems
  BY DEF Problems
<1>5. link' \in Link /\ link'.phase = "error" /\ timers' = {"retry"}
  BY <1>0, <1>1, <1>4, FailedFacts
<1>6. wanted' /\ wanted' \in BOOLEAN
  BY <1>0, <1>1 DEF QuietWhenUnwanted, TypeOK
<1>7. TypeOK'
  BY <1>0, <1>1, <1>2, <1>3, <1>5, <1>6, AloneTyped DEF NetOK, Timers
<1> QED
  BY <1>1, <1>2, <1>3, <1>5, <1>6, <1>7, Alone

-----------------------------------------------------------------------------
(* The page asks, waits and listens.                                         *)

LEMMA SaveKeeps ==
    ASSUME LinkInv, NEW i \in Saves, SaveRecord(i)
    PROVE  LinkInv'
<1>0. /\ TypeOK /\ ConnsInv /\ SocketInv /\ SavesInv /\ AnswersInOrder /\ AttemptIsDue
      /\ QuietWhenUnwanted /\ SessionIsCurrent
      /\ saves \in Seq(Entries) /\ outcome \in [Saves -> Outcomes]
      /\ socket \in Conns \cup {NoConn}
  BY LinkParts
<1> DEFINE e == [id |-> i, timedOut |-> FALSE]
           box == net[socket].inbox
           out == net[socket].outbox
           stage == net[socket].stage
           more == IF stage = "up" THEN Append(out, i) ELSE out
<1>1. /\ outcome[i] = "none" /\ socket # NoConn /\ link.phase = "open"
      /\ saves' = Append(saves, e) /\ outcome' = [outcome EXCEPT ![i] = "pending"]
      /\ link' = link /\ wanted' = wanted /\ timers' = timers /\ socket' = socket
      /\ bridge' = bridge /\ kept' = kept
  BY DEF SaveRecord, MaySave
<1>2. socket \in Conns
  BY <1>0, <1>1
<1>3. /\ box \in Seq(Frames) /\ out \in Seq(Saves) /\ net \in [Conns -> Conn]
      /\ stage \in Stages
  BY <1>0, <1>2, NetFacts
<1>4. stage \in {"up", "shut"}
  BY <1>0, <1>1 DEF SocketInv
<1>5. e \in Entries /\ e.id = i
  BY DEF Entries
<1>6. AnswersFit(box, saves) /\ (stage = "up" => RequestsFit(box, out, saves))
  BY <1>0, <1>1 DEF AnswersInOrder
<1>7. Changed(net', socket, stage, box, more)
  <2>1. CASE stage = "up"
    <3>1. Append(out, i) \in Seq(Saves)
      BY <1>3
    <3>2. net' = [net EXCEPT ![socket].outbox = Append(out, i)]
      BY <2>1 DEF SaveRecord
    <3> QED
      BY <1>0, <1>2, <2>1, <3>1, <3>2, OutboxSet
  <2>2. CASE stage # "up"
    <3>1. net' = net
      BY <2>2 DEF SaveRecord
    <3> QED
      BY <1>0, <1>2, <2>2, <3>1, NetFacts
  <2> QED
    BY <2>1, <2>2
<1>8. /\ outcome' \in [Saves -> Outcomes] /\ outcome'[i] # "none"
      /\ \A j \in Saves : outcome[j] # "none" => outcome'[j] # "none"
  BY <1>0, <1>1 DEF Outcomes
<1>9. ConnOK(socket, stage, box, out, kept', outcome')
  <2>1. ConnOK(socket, stage, box, out, kept, outcome)
    BY <1>0, <1>2 DEF ConnsInv
  <2> HIDE DEF stage, box, out
  <2> QED
    BY <1>1, <1>3, <1>8, <2>1, ConnStays
<1> HIDE DEF e, box, out, stage
<1>10. ConnOK(socket, stage, box, more, kept', outcome')
  <2>1. Asked(Append(out, i), outcome')
    BY <1>3, <1>8, <1>9, OutFacts DEF ConnOK
  <2> QED
    BY <1>4, <1>9, <2>1 DEF ConnOK
<1>11. /\ AnswersFit(box, Append(saves, e))
       /\ stage = "up" => RequestsFit(box, more, Append(saves, e))
  BY <1>0, <1>3, <1>5, <1>6, FitAsk
<1> HIDE DEF more
<1>12. ConnsInv'
  BY <1>0, <1>1, <1>2, <1>7, <1>8, <1>10, ConnsStep
<1>13. SavesInv'
  BY <1>0, <1>1, QueueAppend DEF SavesInv, e
<1>14. TypeOK'
  <2>1. Append(saves, e) \in Seq([id : Saves, timedOut : BOOLEAN])
    BY <1>0, <1>5 DEF Entries
  <2>2. net' \in [Conns -> Conn]
    BY <1>7 DEF Changed
  <2> QED
    BY <1>0, <1>1, <1>8, <2>1, <2>2 DEF TypeOK, Conn, Stages, Outcomes
<1>15. AnswersInOrder'
  BY <1>1, <1>7, <1>11 DEF AnswersInOrder, Changed
<1>16. SocketInv'
  BY <1>0, <1>1, <1>7 DEF SocketInv, Changed, stage
<1>17. AttemptIsDue' /\ QuietWhenUnwanted' /\ SessionIsCurrent'
  BY <1>0, <1>1 DEF AttemptIsDue, QuietWhenUnwanted, SessionIsCurrent
<1> QED
  BY <1>12, <1>13, <1>14, <1>15, <1>16, <1>17 DEF LinkInv, LinkSafety

\* The connections stay when only what requests are told changes.
LEMMA ConnsStay ==
    ASSUME TypeOK, ConnsInv, net' = net, kept' = kept,
           \A i \in Saves : outcome[i] # "none" => outcome'[i] # "none"
    PROVE  ConnsInv'
<1> SUFFICES ASSUME NEW x \in Conns
             PROVE  ConnOK(x, net[x].stage, net[x].inbox, net[x].outbox, kept, outcome')
  BY DEF ConnsInv
<1>1. ConnOK(x, net[x].stage, net[x].inbox, net[x].outbox, kept, outcome)
  BY DEF ConnsInv
<1>2. net[x].outbox \in Seq(Saves)
  BY NetFacts
<1> QED
  BY <1>1, <1>2, ConnStays

LEMMA RefuseKeeps ==
    ASSUME LinkInv, NEW i \in Saves, SaveRefused(i)
    PROVE  LinkInv'
<1>0. /\ TypeOK /\ ConnsInv /\ SocketInv /\ SavesInv /\ AnswersInOrder /\ AttemptIsDue
      /\ QuietWhenUnwanted /\ SessionIsCurrent
      /\ saves \in Seq(Entries) /\ outcome \in [Saves -> Outcomes]
  BY LinkParts
<1>1. /\ outcome[i] = "none" /\ outcome' = [outcome EXCEPT ![i] = "failed"]
      /\ link' = link /\ wanted' = wanted /\ timers' = timers /\ socket' = socket
      /\ saves' = saves /\ net' = net /\ bridge' = bridge /\ kept' = kept
  BY DEF SaveRefused
<1>2. /\ outcome' \in [Saves -> Outcomes]
      /\ \A j \in Saves : outcome[j] # "none" => outcome'[j] # "none"
      /\ \A j \in Saves : j # i => outcome'[j] = outcome[j]
  BY <1>0, <1>1 DEF Outcomes
<1>3. SavesInv'
  <2>1. outcome[i] \notin {"pending", "failed"}
    BY <1>1
  <2> QED
    BY <1>0, <1>1, <1>2, <2>1, QueueOther DEF SavesInv
<1>4. ConnsInv'
  BY <1>0, <1>1, <1>2, ConnsStay
<1>5. TypeOK'
  BY <1>0, <1>1, <1>2 DEF TypeOK, Outcomes
<1>6. AnswersInOrder' /\ SocketInv' /\ AttemptIsDue' /\ QuietWhenUnwanted' /\ SessionIsCurrent'
  BY <1>0, <1>1 DEF AnswersInOrder, SocketInv, AttemptIsDue, QuietWhenUnwanted,
     SessionIsCurrent
<1> QED
  BY <1>3, <1>4, <1>5, <1>6 DEF LinkInv, LinkSafety

LEMMA SaveDueKeeps ==
    ASSUME LinkInv, NEW n \in DOMAIN saves, SaveDue(n)
    PROVE  LinkInv'
<1>0. /\ TypeOK /\ ConnsInv /\ SocketInv /\ SavesInv /\ AnswersInOrder /\ AttemptIsDue
      /\ QuietWhenUnwanted /\ SessionIsCurrent
      /\ saves \in Seq(Entries) /\ outcome \in [Saves -> Outcomes]
      /\ socket \in Conns \cup {NoConn}
  BY LinkParts
<1> DEFINE marked == [saves EXCEPT ![n].timedOut = TRUE]
           i == saves[n].id
<1>1. /\ ~saves[n].timedOut
      /\ saves' = marked /\ outcome' = [outcome EXCEPT ![i] = "failed"]
      /\ link' = link /\ wanted' = wanted /\ timers' = timers /\ socket' = socket
      /\ net' = net /\ bridge' = bridge /\ kept' = kept
  BY DEF SaveDue
<1>2. /\ marked \in Seq(Entries) /\ Len(marked) = Len(saves)
      /\ \A m \in 1..Len(saves) : marked[m].id = saves[m].id
      /\ QueueInv(marked, [outcome EXCEPT ![i] = "failed"])
  BY <1>0, QueueMark DEF SavesInv
<1>3. i \in Saves
  BY <1>0, QueueFacts
<1>4. /\ outcome' \in [Saves -> Outcomes]
      /\ \A j \in Saves : outcome[j] # "none" => outcome'[j] # "none"
  BY <1>0, <1>1, <1>3 DEF Outcomes
<1> HIDE DEF marked, i
<1>5. ConnsInv'
  BY <1>0, <1>1, <1>4, ConnsStay
<1>6. SavesInv'
  BY <1>1, <1>2 DEF SavesInv
<1>7. TypeOK'
  BY <1>0, <1>1, <1>2, <1>4 DEF TypeOK, Outcomes, Entries
<1>8. AnswersInOrder'
  <2> SUFFICES ASSUME socket # NoConn
               PROVE  /\ AnswersFit(net[socket].inbox, marked)
                      /\ net[socket].stage = "up"
                           => RequestsFit(net[socket].inbox, net[socket].outbox, marked)
    BY <1>1 DEF AnswersInOrder
  <2>1. net[socket].inbox \in Seq(Frames) /\ net[socket].outbox \in Seq(Saves)
    BY <1>0, NetFacts
  <2> QED
    BY <1>0, <1>2, <2>1, FitMark DEF AnswersInOrder
<1>9. saves # <<>> \/ marked = <<>>
  BY <1>0, <1>2, EmptySeq
<1>10. SocketInv'
  BY <1>0, <1>1, <1>9 DEF SocketInv
<1>11. AttemptIsDue' /\ QuietWhenUnwanted' /\ SessionIsCurrent'
  BY <1>0, <1>1 DEF AttemptIsDue, QuietWhenUnwanted, SessionIsCurrent
<1> QED
  BY <1>5, <1>6, <1>7, <1>8, <1>10, <1>11 DEF LinkInv, LinkSafety

LEMMA SilenceKeeps ==
    ASSUME LinkInv, SilenceDue
    PROVE  LinkInv'
<1>0. /\ TypeOK /\ ConnsInv /\ SocketInv /\ SavesInv /\ AnswersInOrder /\ AttemptIsDue
      /\ QuietWhenUnwanted /\ SessionIsCurrent /\ link \in Link
  BY LinkParts
<1>1. /\ timers' = timers \ {"silence"}
      /\ wanted' = wanted /\ socket' = socket /\ saves' = saves /\ outcome' = outcome
      /\ net' = net /\ bridge' = bridge /\ kept' = kept
  BY DEF SilenceDue
<1>2. /\ link' \in Link /\ link'.phase = link.phase /\ link'.session = link.session
      /\ link'.hello = link.hello /\ link'.problem = link.problem
  BY <1>0 DEF SilenceDue, Link
<1>3. TypeOK'
  BY <1>0, <1>1, <1>2 DEF TypeOK
<1>4. ConnsInv' /\ SavesInv' /\ AnswersInOrder'
  BY <1>0, <1>1 DEF ConnsInv, SavesInv, AnswersInOrder
<1>5. SocketInv' /\ AttemptIsDue' /\ QuietWhenUnwanted' /\ SessionIsCurrent'
  BY <1>0, <1>1, <1>2 DEF SocketInv, AttemptIsDue, QuietWhenUnwanted, SessionIsCurrent
<1> QED
  BY <1>3, <1>4, <1>5 DEF LinkInv, LinkSafety

-----------------------------------------------------------------------------
(* A frame reaches the page.                                                 *)

\* What becomes of the connection it came on.
LEMMA DeliverNet ==
    ASSUME LinkInv, NEW c \in Conns, Deliver(c)
    PROVE  LET m == Head(net[c].inbox)
               rest == Tail(net[c].inbox)
               out == net[c].outbox
           IN  /\ net[c].inbox \in Seq(Frames) /\ net[c].inbox # <<>>
               /\ out \in Seq(Saves)
               /\ net[c].stage \in {"up", "shut", "leaving"}
               /\ m \in Frames /\ TrueFrame(c, m, kept)
               /\ rest \in Seq(Frames) /\ TrueFrames(c, rest, kept)
               /\ Asked(out, outcome)
               /\ bridge' = bridge /\ kept' = kept
               /\ m.kind = "close" => Changed(net', c, "free", <<>>, <<>>)
               /\ m.kind # "close" /\ c = socket /\ socket' = NoConn
                    => Changed(net', c, "leaving", rest, out)
               /\ m.kind # "close" /\ ~(c = socket /\ socket' = NoConn)
                    => Changed(net', c, net[c].stage, rest, out)
<1>0. TypeOK /\ ConnsInv
  BY LinkParts
<1> DEFINE box == net[c].inbox
           m == Head(box)
           rest == Tail(box)
           out == net[c].outbox
           left == [net EXCEPT ![c].inbox = rest]
<1>1. /\ box \in Seq(Frames) /\ out \in Seq(Saves) /\ net \in [Conns -> Conn]
      /\ net[c].stage \in Stages
  BY <1>0, NetFacts
<1>2. /\ box # <<>> /\ bridge' = bridge /\ kept' = kept
      /\ net' = IF m.kind = "close" THEN [net EXCEPT ![c] = Unused]
                ELSE IF c = socket /\ socket' = NoConn
                     THEN [left EXCEPT ![c].stage = "leaving"]
                     ELSE left
  BY DEF Deliver
<1>3. ConnOK(c, net[c].stage, box, out, kept, outcome)
  BY <1>0 DEF ConnsInv
<1>4. net[c].stage \in {"up", "shut", "leaving"} /\ Asked(out, outcome)
  BY <1>1, <1>2, <1>3 DEF ConnOK, Stages
<1>5. \E x : x \in Frames
  BY <1>1, <1>2, EmptySeq, ElementOfSeq, LenProperties
<1>6. /\ m \in Frames /\ TrueFrame(c, m, kept)
      /\ rest \in Seq(Frames) /\ TrueFrames(c, rest, kept)
  BY <1>1, <1>2, <1>3, <1>5, BoxFacts DEF ConnOK
<1> HIDE DEF m, rest
<1>7. CASE m.kind = "close"
  <2>1. Unused \in Conn
    BY DEF Unused, Conn, Stages
  <2>2. Changed(net', c, Unused.stage, Unused.inbox, Unused.outbox)
    BY <1>0, <1>2, <1>7, <2>1, Replaced
  <2>3. Changed(net', c, "free", <<>>, <<>>)
    BY <2>2 DEF Unused
  <2> QED
    BY <1>1, <1>2, <1>4, <1>6, <1>7, <2>3 DEF m, rest
<1>8. CASE m.kind # "close" /\ c = socket /\ socket' = NoConn
  <2>1. net' = [[net EXCEPT ![c].inbox = rest] EXCEPT ![c].stage = "leaving"]
    BY <1>2, <1>8
  <2>2. Changed(net', c, "leaving", rest, out)
    BY <1>1, <1>6, <2>1 DEF Changed, Conn, Stages
  <2> QED
    BY <1>1, <1>2, <1>4, <1>6, <1>8, <2>2 DEF m, rest
<1>9. CASE m.kind # "close" /\ ~(c = socket /\ socket' = NoConn)
  <2>1. net' = [net EXCEPT ![c].inbox = rest]
    BY <1>2, <1>9
  <2>2. Changed(net', c, net[c].stage, rest, out)
    BY <1>0, <1>6, <2>1, InboxSet
  <2> QED
    BY <1>1, <1>2, <1>4, <1>6, <1>9, <2>2 DEF m, rest
<1> QED
  BY <1>7, <1>8, <1>9

\* An event of a socket that has been replaced.
LEMMA UnheardKeeps ==
    ASSUME LinkInv, NEW c \in Conns, Deliver(c), c # socket
    PROVE  LinkInv'
<1> DEFINE m == Head(net[c].inbox)
           rest == Tail(net[c].inbox)
           out == net[c].outbox
<1>1. /\ TrueFrames(c, rest, kept) /\ Asked(out, outcome)
      /\ net[c].stage \in {"up", "shut", "leaving"}
      /\ bridge' = bridge /\ kept' = kept
      /\ m.kind = "close" => Changed(net', c, "free", <<>>, <<>>)
      /\ m.kind # "close" => Changed(net', c, net[c].stage, rest, out)
  BY DeliverNet
<1>2. UNCHANGED pageVars
  BY DEF Deliver, Heard
<1>3. bridge \in Bridges /\ kept \subseteq Saves
  BY LinkParts
<1> HIDE DEF m, rest, out
<1>4. CASE m.kind = "close"
  <2>1. ConnOK(c, "free", <<>>, <<>>, kept', outcome)
    BY DEF ConnOK, TrueFrames, Asked
  <2> QED
    BY <1>1, <1>2, <1>3, <1>4, <2>1, RobotStep
<1>5. CASE m.kind # "close"
  <2>1. ConnOK(c, net[c].stage, rest, out, kept', outcome)
    BY <1>1 DEF ConnOK
  <2> QED
    BY <1>1, <1>2, <1>3, <1>5, <2>1, RobotStep
<1> QED
  BY <1>4, <1>5

\* After the frame the page has no connection any more.
LEMMA LostKeeps ==
    ASSUME LinkInv, Deliver(socket), socket \in Conns,
           socket' = NoConn, DropSaves, link' \in Link, link'.phase \in {"idle", "error"},
           wanted' \in BOOLEAN, timers' \subseteq Timers,
           wanted' => "retry" \in timers',
           ~wanted' => timers' \subseteq {"silence"}
    PROVE  LinkInv'
<1> DEFINE m == Head(net[socket].inbox)
           rest == Tail(net[socket].inbox)
           out == net[socket].outbox
<1>0. TypeOK /\ ConnsInv /\ SavesInv /\ bridge \in Bridges /\ kept \subseteq Saves
  BY LinkParts
<1>1. /\ TrueFrames(socket, rest, kept) /\ Asked(out, outcome)
      /\ bridge' = bridge /\ kept' = kept
      /\ out \in Seq(Saves)
      /\ m.kind = "close" => Changed(net', socket, "free", <<>>, <<>>)
      /\ m.kind # "close" => Changed(net', socket, "leaving", rest, out)
  BY DeliverNet
<1>2. /\ saves' = <<>> /\ outcome' \in [Saves -> Outcomes]
      /\ \A i \in Saves : outcome[i] # "none" => outcome'[i] # "none"
  BY <1>0, DropFacts
<1> HIDE DEF m, rest, out
<1>3. PICK stage, box, o :
        /\ Changed(net', socket, stage, box, o)
        /\ ConnOK(socket, stage, box, o, kept', outcome')
  <2>1. CASE m.kind = "close"
    <3>1. ConnOK(socket, "free", <<>>, <<>>, kept', outcome')
      BY DEF ConnOK, TrueFrames, Asked
    <3> QED
      BY <1>1, <2>1, <3>1
  <2>2. CASE m.kind # "close"
    <3>1. ConnOK(socket, "leaving", rest, out, kept', outcome)
      BY <1>1 DEF ConnOK
    <3>2. ConnOK(socket, "leaving", rest, out, kept', outcome')
      BY <1>1, <1>2, <3>1, ConnStays
    <3> QED
      BY <1>1, <2>2, <3>2
  <2> QED
    BY <2>1, <2>2
<1>4. ConnsInv'
  BY <1>0, <1>1, <1>2, <1>3, ConnsStep
<1>5. NetOK(net', kept', outcome')
  BY <1>3, <1>4 DEF NetOK, ConnsInv, Changed
<1>6. TypeOK'
  BY <1>0, <1>1, <1>2, <1>5, AloneTyped DEF NetOK
<1> QED
  BY <1>2, <1>5, <1>6, Alone

\* After the frame the page is still on the connection.
LEMMA HeardKeeps ==
    ASSUME LinkInv, Deliver(socket), socket \in Conns, socket' = socket,
           Head(net[socket].inbox).kind # "close",
           link' \in Link, link'.phase \in {"connecting", "open"},
           net[socket].stage = "opening" => link'.phase = "connecting",
           link'.session \in {NoConn, socket},
           link'.phase = "open" => link'.hello /\ link'.problem = "",
           wanted' = wanted, wanted, timers' \subseteq Timers, "retry" \notin timers',
           link'.phase = "open" \/ "connect" \in timers',
           saves' \in Seq(Entries), saves' # <<>> => link'.phase = "open",
           outcome' \in [Saves -> Outcomes],
           \A i \in Saves : outcome[i] # "none" => outcome'[i] # "none",
           SavesInv',
           AnswersFit(Tail(net[socket].inbox), saves'),
           net[socket].stage = "up"
              => RequestsFit(Tail(net[socket].inbox), net[socket].outbox, saves')
    PROVE  LinkInv'
<1> DEFINE rest == Tail(net[socket].inbox)
           out == net[socket].outbox
           stage == net[socket].stage
<1>0. /\ TypeOK /\ ConnsInv /\ SocketInv /\ bridge \in Bridges /\ kept \subseteq Saves
      /\ socket # NoConn /\ wanted \in BOOLEAN
  BY LinkParts, LinkAssumption DEF TypeOK
<1>1. /\ TrueFrames(socket, rest, kept) /\ Asked(out, outcome)
      /\ bridge' = bridge /\ kept' = kept
      /\ out \in Seq(Saves) /\ stage \in {"up", "shut", "leaving"}
      /\ Changed(net', socket, stage, rest, out)
  BY <1>0, DeliverNet
<1>2. stage \in {"opening", "up", "shut"}
  BY <1>0 DEF SocketInv
<1> HIDE DEF rest, out, stage
<1>3. ConnsInv'
  <2>1. ConnOK(socket, stage, rest, out, kept', outcome)
    BY <1>1 DEF ConnOK
  <2>2. ConnOK(socket, stage, rest, out, kept', outcome')
    BY <1>1, <2>1, ConnStays
  <2> QED
    BY <1>0, <1>1, <2>2, ConnsStep
<1>4. TypeOK'
  BY <1>0, <1>1 DEF TypeOK, Changed, Conn, Stages, Entries, Outcomes
<1>5. AnswersInOrder'
  BY <1>0, <1>1 DEF AnswersInOrder, Changed, rest, out, stage
<1>6. SocketInv'
  BY <1>0, <1>1, <1>2 DEF SocketInv, Changed, stage
<1>7. AttemptIsDue' /\ QuietWhenUnwanted' /\ SessionIsCurrent'
  BY <1>0 DEF AttemptIsDue, QuietWhenUnwanted, SessionIsCurrent
<1> QED
  BY <1>3, <1>4, <1>5, <1>6, <1>7 DEF LinkInv, LinkSafety

\* A frame that is no answer leaves the queue as it is.
LEMMA NewsKeeps ==
    ASSUME LinkInv, NEW c \in Conns, c = socket, Deliver(c),
           Head(net[c].inbox).kind \in {"hello", "session", "status"},
           socket' = socket, saves' = saves, outcome' = outcome, wanted' = wanted,
           link' \in Link, link'.phase \in {link.phase, "open"},
           link'.session \in {link.session, c},
           link'.phase = "open" => link'.hello /\ link'.problem = "",
           timers' \subseteq Timers, timers' \subseteq timers \cup {"silence"},
           link'.phase = "open" \/ "connect" \in timers \cap timers'
    PROVE  LinkInv'
<1>0. /\ SocketInv /\ SavesInv /\ AnswersInOrder /\ SessionIsCurrent
      /\ saves \in Seq(Entries) /\ outcome \in [Saves -> Outcomes]
      /\ socket # NoConn /\ socket \in Conns
  BY LinkParts, LinkAssumption
<1>1. /\ net[c].inbox \in Seq(Frames) /\ net[c].inbox # <<>>
      /\ net[c].stage \in {"up", "shut", "leaving"}
  BY DeliverNet
<1>2. ~IsAnswer(Head(net[c].inbox))
  BY DEF IsAnswer
<1>3. /\ AnswersFit(net[c].inbox, saves)
      /\ net[c].stage = "up" => RequestsFit(net[c].inbox, net[c].outbox, saves)
  BY <1>0 DEF AnswersInOrder
<1>4. /\ AnswersFit(Tail(net[c].inbox), saves)
      /\ net[c].stage = "up" => RequestsFit(Tail(net[c].inbox), net[c].outbox, saves)
  BY <1>1, <1>2, <1>3, FitRead
<1>5. /\ link.phase \in {"connecting", "open"} /\ wanted /\ "retry" \notin timers
      /\ saves # <<>> => link.phase = "open"
      /\ link.session \in {NoConn, c}
  BY <1>0 DEF SocketInv, SessionIsCurrent
<1>6. SavesInv'
  BY <1>0 DEF SavesInv
<1>7. /\ link'.phase \in {"connecting", "open"} /\ link'.session \in {NoConn, socket}
      /\ "retry" \notin timers' /\ (link'.phase = "open" \/ "connect" \in timers')
      /\ saves' # <<>> => link'.phase = "open"
      /\ net[socket].stage # "opening"
  BY <1>1, <1>5
<1> QED
  BY <1>0, <1>1, <1>4, <1>5, <1>6, <1>7, HeardKeeps

LEMMA ArmFacts ==
    ASSUME NEW armed \in SUBSET Timers, NEW l
    PROVE  /\ ArmSilence(armed, l) \subseteq Timers
           /\ ArmSilence(armed, l) \subseteq armed \cup {"silence"}
           /\ armed \subseteq ArmSilence(armed, l)
  BY DEF ArmSilence, Timers

\* hello, session and status.
LEMMA GreetingKeeps ==
    ASSUME LinkInv, NEW c \in Conns, c = socket, Deliver(c),
           Head(net[c].inbox).kind \in {"hello", "session", "status"}
    PROVE  LinkInv'
<1> DEFINE m == Head(net[c].inbox)
<1>0. /\ SocketInv /\ SessionIsCurrent /\ AttemptIsDue /\ QuietWhenUnwanted
      /\ link \in Link /\ timers \subseteq Timers /\ socket # NoConn /\ socket \in Conns
  BY LinkParts, LinkAssumption
<1>1. m \in Frames /\ TrueFrame(c, m, kept)
  BY DeliverNet
<1>2. Handle(m)
  BY DEF Deliver, Heard
<1>3. m.kind \in {"hello", "session", "status"}
  OBVIOUS
<1>4. /\ link.phase \in {"connecting", "open"} /\ wanted /\ "retry" \notin timers
      /\ link.phase = "open" \/ "connect" \in timers
      /\ link.phase = "open" => link.hello /\ link.problem = ""
  BY <1>0 DEF SocketInv, SessionIsCurrent, AttemptIsDue
<1> HIDE DEF m
<1>5. CASE m.kind = "hello" /\ m.good
  <2> DEFINE opened == [link EXCEPT !.phase = "open", !.hello = TRUE, !.problem = "",
                                    !.everOpened = TRUE, !.failures = 0, !.silent = FALSE]
  <2>1. OnHello(m)
    BY <1>2, <1>5 DEF Handle
  <2>2. /\ link' = opened /\ timers' = ArmSilence(timers \ {"connect"}, opened)
        /\ UNCHANGED <<wanted, socket, saves, outcome>>
    BY <1>5, <2>1 DEF OnHello
  <2>3. opened \in Link
    <3>1. "open" \in Phases /\ "" \in Problems
      BY DEF Phases, Problems
    <3>2. 0 \in 0..StoppedAfter
      BY DEF StoppedAfter
    <3> QED
      BY <1>0, <3>1, <3>2 DEF Link
  <2>4. /\ opened.phase = "open" /\ opened.hello /\ opened.problem = ""
        /\ opened.session = link.session
    BY <1>0 DEF Link
  <2> HIDE DEF opened
  <2>5. timers' \subseteq Timers /\ timers' \subseteq timers \cup {"silence"}
    BY <1>0, <2>2, ArmFacts
  <2> QED
    BY <1>3, <2>2, <2>3, <2>4, <2>5, NewsKeeps DEF m
<1>6. CASE m.kind = "hello" /\ ~m.good
  <2>1. OnHello(m)
    BY <1>2, <1>6 DEF Handle
  <2>2. /\ wanted' = FALSE /\ timers' = {} /\ socket' = NoConn /\ DropSaves
        /\ link' = [link EXCEPT !.phase = "idle", !.problem = "version"]
    BY <1>6, <2>1 DEF OnHello
  <2>3. link' \in Link /\ link'.phase = "idle"
    <3>1. "idle" \in Phases /\ "version" \in Problems
      BY DEF Phases, Problems
    <3> QED
      BY <1>0, <2>2, <3>1 DEF Link
  <2> QED
    BY <1>0, <2>2, <2>3, LostKeeps
<1>7. CASE m.kind = "session"
  <2>1. /\ link' = [link EXCEPT !.session = c]
        /\ UNCHANGED <<wanted, timers, socket, saves, outcome>>
    BY <1>1, <1>2, <1>7 DEF Handle, OnSession, TrueFrame
  <2>2. /\ link' \in Link /\ link'.phase = link.phase /\ link'.session = c
        /\ link'.hello = link.hello /\ link'.problem = link.problem
    BY <1>0, <2>1 DEF Link
  <2> QED
    BY <1>0, <1>3, <1>4, <2>1, <2>2, NewsKeeps DEF m
<1>8. CASE m.kind = "status"
  <2>1. OnStatus(m)
    BY <1>2, <1>8 DEF Handle
  <2>2. UNCHANGED <<wanted, socket, saves, outcome>>
    BY <2>1 DEF OnStatus
  <2>3. /\ link' \in Link /\ link'.phase = link.phase /\ link'.session = link.session
        /\ link'.hello = link.hello /\ link'.problem = link.problem
    BY <1>0, <2>1 DEF OnStatus, Link
  <2>4. /\ timers' \subseteq Timers /\ timers' \subseteq timers \cup {"silence"}
        /\ "connect" \in timers => "connect" \in timers'
    <3>1. CASE m.good
      BY <1>0, <2>1, <3>1 DEF OnStatus
    <3>2. CASE ~m.good
      BY <1>0, <2>1, <3>2, ArmFacts DEF OnStatus
    <3> QED
      BY <3>1, <3>2
  <2> QED
    BY <1>3, <1>4, <2>2, <2>3, <2>4, NewsKeeps DEF m
<1> QED
  BY <1>3, <1>5, <1>6, <1>7, <1>8

\* What an answer does to the queue and to the request at its head.
LEMMA AnswerHeard ==
    ASSUME LinkInv, NEW c \in Conns, c = socket, Deliver(c),
           Head(net[c].inbox).kind = "answer"
    PROVE  LET m == Head(net[c].inbox)
           IN  /\ saves # <<>> /\ saves[1].id = m.id /\ m.id \in Saves
               /\ m.good \in BOOLEAN /\ (m.good => m.id \in kept)
               /\ outcome[m.id] = IF saves[1].timedOut THEN "failed" ELSE "pending"
               /\ saves' = Tail(saves)
               /\ outcome' = IF saves[1].timedOut THEN outcome
                             ELSE [outcome EXCEPT ![m.id] = IF m.good THEN "kept" ELSE "failed"]
               /\ UNCHANGED <<link, wanted, timers, socket>>
               /\ AnswersFit(Tail(net[c].inbox), saves')
               /\ net[c].stage = "up"
                    => RequestsFit(Tail(net[c].inbox), net[c].outbox, saves')
<1> DEFINE m == Head(net[c].inbox)
<1>0. /\ SavesInv /\ AnswersInOrder /\ saves \in Seq(Entries)
      /\ socket # NoConn /\ socket \in Conns
  BY LinkParts, LinkAssumption
<1>1. /\ net[c].inbox \in Seq(Frames) /\ net[c].inbox # <<>>
      /\ net[c].outbox \in Seq(Saves)
      /\ m \in Frames /\ TrueFrame(c, m, kept) /\ IsAnswer(m)
  BY DeliverNet DEF IsAnswer
<1>2. m.id \in Saves /\ m.good \in BOOLEAN /\ (m.good => m.id \in kept)
  <2> HIDE DEF m
  <2> QED
    BY <1>1, FrameFacts DEF IsAnswer, TrueFrame
<1>3. /\ AnswersFit(net[c].inbox, saves)
      /\ net[c].stage = "up" => RequestsFit(net[c].inbox, net[c].outbox, saves)
  BY <1>0 DEF AnswersInOrder
<1>4. /\ saves # <<>> /\ m.id = saves[1].id
      /\ AnswersFit(Tail(net[c].inbox), Tail(saves))
      /\ net[c].stage = "up"
           => RequestsFit(Tail(net[c].inbox), net[c].outbox, Tail(saves))
  BY <1>0, <1>1, <1>3, FitTake
<1>5. Handle(m)
  BY DEF Deliver, Heard
<1>6. OnAnswer(m)
  <2> HIDE DEF m
  <2> QED
    BY <1>1, <1>5 DEF Handle, IsAnswer
<1> HIDE DEF m
<1>7. /\ saves' = Tail(saves)
      /\ outcome' = IF saves[1].timedOut THEN outcome
                    ELSE [outcome EXCEPT ![m.id] = IF m.good THEN "kept" ELSE "failed"]
      /\ UNCHANGED <<link, wanted, timers, socket>>
  BY <1>4, <1>6 DEF OnAnswer
<1>8. 1 \in DOMAIN saves
  BY <1>0, <1>4, QueueFacts, EmptySeq
<1>9. outcome[m.id] = IF saves[1].timedOut THEN "failed" ELSE "pending"
  BY <1>0, <1>4, <1>8 DEF SavesInv, QueueInv
<1> QED
  BY <1>2, <1>4, <1>7, <1>9 DEF m

LEMMA AnswerHeardKeeps ==
    ASSUME LinkInv, NEW c \in Conns, c = socket, Deliver(c),
           Head(net[c].inbox).kind = "answer"
    PROVE  LinkInv'
<1> DEFINE m == Head(net[c].inbox)
<1>0. /\ SocketInv /\ SavesInv /\ SessionIsCurrent /\ AttemptIsDue
      /\ link \in Link /\ timers \subseteq Timers
      /\ saves \in Seq(Entries) /\ outcome \in [Saves -> Outcomes]
      /\ socket # NoConn /\ socket \in Conns
  BY LinkParts, LinkAssumption
<1>1. /\ saves # <<>> /\ saves[1].id = m.id /\ m.id \in Saves
      /\ m.good \in BOOLEAN
      /\ outcome[m.id] = IF saves[1].timedOut THEN "failed" ELSE "pending"
      /\ saves' = Tail(saves)
      /\ outcome' = IF saves[1].timedOut THEN outcome
                    ELSE [outcome EXCEPT ![m.id] = IF m.good THEN "kept" ELSE "failed"]
      /\ UNCHANGED <<link, wanted, timers, socket>>
      /\ AnswersFit(Tail(net[c].inbox), saves')
      /\ net[c].stage = "up" => RequestsFit(Tail(net[c].inbox), net[c].outbox, saves')
  BY AnswerHeard
<1>2. net[c].stage \in {"up", "shut", "leaving"}
  BY DeliverNet
<1> HIDE DEF m
<1>3. /\ outcome' \in [Saves -> Outcomes]
      /\ \A i \in Saves : outcome[i] # "none" => outcome'[i] # "none"
      /\ \A j \in Saves : j # saves[1].id => outcome'[j] = outcome[j]
  <2>1. CASE saves[1].timedOut
    BY <1>0, <1>1, <2>1
  <2>2. CASE ~saves[1].timedOut
    BY <1>0, <1>1, <2>2 DEF Outcomes
  <2> QED
    BY <2>1, <2>2
<1>4. saves' \in Seq(Entries) /\ SavesInv'
  BY <1>0, <1>1, <1>3, QueueTail DEF SavesInv
<1>5. /\ link.phase = "open" /\ wanted /\ "retry" \notin timers
      /\ link.hello /\ link.problem = "" /\ link.session \in {NoConn, socket}
  BY <1>0, <1>1 DEF SocketInv, SessionIsCurrent
<1>6. Head(net[socket].inbox).kind # "close"
  OBVIOUS
<1> QED
  BY <1>0, <1>1, <1>2, <1>3, <1>4, <1>5, <1>6, HeardKeeps

LEMMA CloseHeardKeeps ==
    ASSUME LinkInv, NEW c \in Conns, c = socket, Deliver(c),
           Head(net[c].inbox).kind = "close"
    PROVE  LinkInv'
<1> DEFINE m == Head(net[c].inbox)
           problem == IF m.good THEN "full" ELSE IF link.everOpened THEN "lost" ELSE "refused"
<1>0. SocketInv /\ TypeOK /\ link \in Link /\ socket # NoConn /\ socket \in Conns
  BY LinkParts, LinkAssumption
<1>1. Handle(m)
  BY DEF Deliver, Heard
<1>2. OnClose(m)
  BY <1>1 DEF Handle
<1>3. socket' = NoConn /\ DropSaves /\ Failed(problem) /\ wanted' = wanted
  BY <1>2 DEF OnClose
<1>4. problem \in Problems
  BY DEF Problems
<1> HIDE DEF problem, m
<1>5. link' \in Link /\ link'.phase = "error" /\ timers' = {"retry"}
  BY <1>0, <1>3, <1>4, FailedFacts
<1>6. wanted /\ wanted' \in BOOLEAN
  BY <1>0, <1>3 DEF SocketInv, TypeOK
<1>7. timers' \subseteq Timers
  BY <1>5 DEF Timers
<1> QED
  BY <1>0, <1>3, <1>5, <1>6, <1>7, LostKeeps

LEMMA DeliverKeeps ==
    ASSUME LinkInv, NEW c \in Conns, Deliver(c)
    PROVE  LinkInv'
<1>1. Head(net[c].inbox).kind \in {"hello", "status", "close", "session", "answer"}
  BY DeliverNet, FrameFacts
<1> QED
  BY <1>1, UnheardKeeps, GreetingKeeps, AnswerHeardKeeps, CloseHeardKeeps

-----------------------------------------------------------------------------
(* The theorems.                                                             *)

LEMMA LinkStart == Init => LinkInv
<1> SUFFICES ASSUME Init PROVE LinkInv
  OBVIOUS
<1>1. /\ <<>> \in Seq([id : Saves, timedOut : BOOLEAN]) /\ <<>> \in Seq(Frames)
      /\ <<>> \in Seq(Saves) /\ DOMAIN <<>> = {}
  OBVIOUS
<1>2. link \in Link
  <2>1. "idle" \in Phases /\ "" \in Problems /\ 0 \in 0..StoppedAfter
    BY DEF Phases, Problems, StoppedAfter
  <2> QED
    BY <2>1 DEF Init, Link
<1>3. net \in [Conns -> Conn] /\ \A c \in Conns : net[c] = Unused
  BY <1>1 DEF Init, Unused, Conn, Stages
<1>4. TypeOK
  BY <1>1, <1>2, <1>3 DEF Init, TypeOK, Timers, Conn, Stages
<1>5. ConnsInv
  BY <1>3 DEF ConnsInv, ConnOK, Unused, TrueFrames, Asked
<1>6. SavesInv
  BY <1>1 DEF Init, SavesInv, QueueInv
<1>7. AnswersInOrder /\ AttemptIsDue /\ QuietWhenUnwanted /\ SessionIsCurrent /\ SocketInv
  BY DEF Init, AnswersInOrder, AttemptIsDue, QuietWhenUnwanted, SessionIsCurrent, SocketInv
<1> QED
  BY <1>4, <1>5, <1>6, <1>7 DEF LinkInv, LinkSafety

LEMMA LinkStep == LinkInv /\ [Next]_vars => LinkInv'
<1> SUFFICES ASSUME LinkInv, [Next]_vars PROVE LinkInv'
  OBVIOUS
<1>1. CASE Learner
  <2>1. ASSUME NEW i \in Saves, SaveRecord(i) \/ SaveRefused(i) PROVE LinkInv'
    BY <2>1, SaveKeeps, RefuseKeeps
  <2> QED
    BY <1>1, <2>1, LearnerLinkKeeps DEF Learner
<1>2. CASE Due
  BY <1>2, RetryKeeps, ConnectDueKeeps, SilenceKeeps, SaveDueKeeps DEF Due
<1>3. CASE Robot
  BY <1>3, RobotKeeps
<1>4. ASSUME NEW c \in Conns, Deliver(c) PROVE LinkInv'
  BY <1>4, DeliverKeeps
<1>5. CASE UNCHANGED vars
  BY <1>5 DEF vars, LinkInv, LinkSafety, TypeOK, AnswersInOrder, AttemptIsDue,
     QuietWhenUnwanted, SessionIsCurrent, ConnsInv, SocketInv, SavesInv
<1> QED
  BY <1>1, <1>2, <1>3, <1>4, <1>5 DEF Next

THEOREM LinkInvariant == Spec => []LinkInv
  BY LinkStart, LinkStep, PTL DEF Spec

\* The queue of waiting requests stays in step with the answers on their way, an attempt
\* is due whenever a link is wanted, nothing connects by itself when none is, and the
\* session in use is the connection's own: whatever the number of sockets and requests.
THEOREM LinkIsSafe == Spec => []LinkSafety
<1>1. LinkInv => LinkSafety
  BY DEF LinkInv
<1> QED
  BY <1>1, LinkInvariant, PTL

\* Losing the connection fails the requests that wait, and no other.
LEMMA DropIsFail ==
    ASSUME LinkInv, DropSaves, kept' = kept
    PROVE  Promise!Fail
<1>1. /\ PendingIds \in SUBSET {i \in Saves : outcome[i] = "pending"}
      /\ outcome' = [i \in Saves |-> IF i \in PendingIds THEN "failed" ELSE outcome[i]]
  BY LinkParts, DropFacts
<1> QED
  BY <1>1 DEF Promise!Fail

\* One request that waits is failed.
LEMMA OneFails ==
    ASSUME LinkInv, NEW i \in Saves, outcome[i] = "pending",
           outcome' = [outcome EXCEPT ![i] = "failed"], kept' = kept
    PROVE  Promise!Fail
<1> DEFINE gone == {i}
<1>1. gone \in SUBSET {j \in Saves : outcome[j] = "pending"}
  OBVIOUS
<1>2. outcome \in [Saves -> Outcomes]
  BY LinkParts
<1>3. outcome' = [j \in Saves |-> IF j \in gone THEN "failed" ELSE outcome[j]]
  BY <1>2
<1> HIDE DEF gone
<1> QED
  BY <1>1, <1>3 DEF Promise!Fail

LEMMA PromiseStep == LinkInv /\ [Next]_vars => [Promise!PromiseNext]_(Promise!promiseVars)
<1> SUFFICES ASSUME LinkInv, [Next]_vars
             PROVE  Promise!PromiseNext \/ (outcome' = outcome /\ kept' = kept)
  BY DEF Promise!promiseVars
<1>0. saves \in Seq(Entries) /\ SavesInv
  BY LinkParts
<1>1. CASE Connect \/ ConnectBlocked \/ Disconnect \/ ConnectDue
  <2>1. DropSaves /\ kept' = kept
    BY <1>1 DEF Connect, ConnectBlocked, Disconnect, ConnectDue
  <2> QED
    BY <2>1, DropIsFail DEF Promise!PromiseNext
<1>2. ASSUME NEW i \in Saves, SaveRecord(i) PROVE Promise!PromiseNext
  BY <1>2 DEF SaveRecord, Promise!PromiseNext, Promise!Ask
<1>3. ASSUME NEW i \in Saves, SaveRefused(i) PROVE Promise!PromiseNext
  BY <1>3 DEF SaveRefused, Promise!PromiseNext, Promise!Refuse
<1>4. CASE RetryDue \/ RetryBlocked \/ SilenceDue
  BY <1>4 DEF RetryDue, RetryBlocked, SilenceDue
<1>5. ASSUME NEW n \in DOMAIN saves, SaveDue(n) PROVE Promise!PromiseNext
  <2>1. /\ ~saves[n].timedOut /\ kept' = kept
        /\ outcome' = [outcome EXCEPT ![saves[n].id] = "failed"]
    BY <1>5 DEF SaveDue
  <2>2. saves[n].id \in Saves
    BY <1>0, QueueFacts
  <2>3. outcome[saves[n].id] = "pending"
    BY <1>0, <2>1 DEF SavesInv, QueueInv
  <2> QED
    BY <2>1, <2>2, <2>3, OneFails DEF Promise!PromiseNext
<1>6. ASSUME NEW c \in Conns, NEW good \in BOOLEAN, AnswerSave(c, good)
      PROVE  Promise!PromiseNext \/ (outcome' = outcome /\ kept' = kept)
  <2> DEFINE i == Head(net[c].outbox)
  <2>1. /\ i \in Saves /\ outcome[i] # "none" /\ UNCHANGED pageVars
        /\ kept' = IF good THEN kept \cup {i} ELSE kept
    BY <1>6, AnswerFacts
  <2>2. outcome' = outcome
    BY <2>1 DEF pageVars
  <2> HIDE DEF i
  <2> QED
    BY <2>1, <2>2 DEF Promise!PromiseNext, Promise!Keep
<1>7. ASSUME NEW c \in Conns,
             \/ Accept(c) \/ TurnAway(c) \/ Break(c) \/ Forget(c)
             \/ \E good \in BOOLEAN : SendStatus(c, good)
      PROVE  outcome' = outcome /\ kept' = kept
  BY <1>7 DEF Accept, TurnAway, Break, Forget, SendStatus
<1>8. CASE BridgeChanges \/ UNCHANGED vars
  BY <1>8 DEF BridgeChanges, vars
<1>9. ASSUME NEW c \in Conns, Deliver(c)
      PROVE  Promise!PromiseNext \/ (outcome' = outcome /\ kept' = kept)
  <2> DEFINE m == Head(net[c].inbox)
  <2>1. kept' = kept /\ m \in Frames
    BY <1>9, DeliverNet
  <2>2. CASE c # socket
    BY <1>9, <2>1, <2>2 DEF Deliver, Heard, pageVars
  <2>3. CASE c = socket /\ m.kind = "answer"
    <3>1. /\ saves # <<>> /\ m.id \in Saves /\ m.good \in BOOLEAN
          /\ m.good => m.id \in kept
          /\ outcome[m.id] = IF saves[1].timedOut THEN "failed" ELSE "pending"
          /\ outcome' = IF saves[1].timedOut THEN outcome
                        ELSE [outcome EXCEPT ![m.id] = IF m.good THEN "kept" ELSE "failed"]
      BY <1>9, <2>3, AnswerHeard
    <3> HIDE DEF m
    <3>2. CASE saves[1].timedOut
      BY <2>1, <3>1, <3>2
    <3>3. CASE ~saves[1].timedOut /\ m.good
      BY <2>1, <3>1, <3>3 DEF Promise!PromiseNext, Promise!Confirm
    <3>4. CASE ~saves[1].timedOut /\ ~m.good
      BY <2>1, <3>1, <3>4, OneFails DEF Promise!PromiseNext
    <3> QED
      BY <3>1, <3>2, <3>3, <3>4
  <2>4. CASE c = socket /\ m.kind # "answer"
    <3>1. Handle(m)
      BY <1>9, <2>4 DEF Deliver, Heard
    <3> HIDE DEF m
    <3>2. UNCHANGED <<saves, outcome>> \/ DropSaves
      BY <2>4, <3>1 DEF Handle, OnHello, OnSession, OnStatus, OnClose
    <3> QED
      BY <2>1, <3>2, DropIsFail DEF Promise!PromiseNext
  <2> QED
    BY <2>2, <2>3, <2>4
<1> QED
  BY <1>1, <1>2, <1>3, <1>4, <1>5, <1>6, <1>7, <1>8, <1>9 DEF Next, Learner, Due, Robot

\* The queue matched by order, with its timeouts, lost answers and reconnections,
\* implements the promise saveRecordOnRobot makes: one settlement per request, and
\* as kept only for a recording the robot has.
THEOREM LinkKeepsPromise == Spec => KeepsPromise
<1>1. Init => Promise!PromiseInit
  BY DEF Init, Promise!PromiseInit
<1> QED
  BY <1>1, PromiseStep, LinkInvariant, PTL DEF Spec, KeepsPromise, Promise!PromiseSpec
=============================================================================
