-------------------------- MODULE CapacityGateProofs --------------------------
(***************************************************************************)
(* For any number of calls, lanes and permits: the permits of CapacityGate *)
(* are accounted for, the queues and the rotation hold exactly the calls   *)
(* that wait, no call waits while a permit is free, and lanes take turns.  *)
(***************************************************************************)
EXTENDS CapacityGate, FiniteSetTheorems, TLAPS

Listed(s) == {s[i] : i \in 1 .. Len(s)}
NoRepeat(s) == \A i, j \in 1 .. Len(s) : s[i] = s[j] => i = j

\* A gate between two of its methods, whoever waits at it.
WellFormed(g) ==
    /\ g \in Gate
    /\ NoRepeat(g.roundRobin)
    /\ Listed(g.roundRobin) = {l \in Lanes : g.queues[l] # <<>>}
    /\ \A l \in Lanes : /\ NoRepeat(g.queues[l])
                        /\ \A c \in Listed(g.queues[l]) : LaneOf[c] = l /\ c \notin g.done
    /\ g.inUse = Cardinality(g.done)

\* The inductive invariant.
GateInv ==
    /\ TypeOK
    /\ WellFormed(gate)
    /\ NoIdlePermit
    /\ \A c \in Calls :
          /\ stage[c] = "holding" => c \in gate.done
          /\ stage[c] = "idle" => c \notin gate.done
          /\ c \in Listed(gate.queues[LaneOf[c]]) <=>
                stage[c] \in {"waiting", "cancelling"} /\ c \notin gate.done

-----------------------------------------------------------------------------
(***************************************************************************)
(* Sequences without repetition.                                           *)
(***************************************************************************)

LEMMA EmptyListsNothing ==
    ASSUME NEW S, NEW s \in Seq(S)
    PROVE  /\ Listed(s) \subseteq S
           /\ s = <<>> <=> Listed(s) = {}
BY DEF Listed

LEMMA EmptyHasNoRepeat == NoRepeat(<<>>) /\ Listed(<<>>) = {}
BY DEF Listed, NoRepeat

LEMMA AppendLists ==
    ASSUME NEW S, NEW s \in Seq(S), NEW e \in S, NoRepeat(s), e \notin Listed(s)
    PROVE  /\ Append(s, e) \in Seq(S) /\ Append(s, e) # <<>>
           /\ NoRepeat(Append(s, e))
           /\ Listed(Append(s, e)) = Listed(s) \cup {e}
<1> DEFINE t == Append(s, e)
<1>1. t \in Seq(S) /\ Len(t) = Len(s) + 1 /\ t[Len(s) + 1] = e
  OBVIOUS
<1>2. \A i \in 1 .. Len(s) : t[i] = s[i]
  OBVIOUS
<1>3. NoRepeat(t)
  <2> SUFFICES ASSUME NEW i \in 1 .. Len(t), NEW j \in 1 .. Len(t), t[i] = t[j]
               PROVE  i = j
    BY DEF NoRepeat
  <2> HIDE DEF t
  <2> QED
    BY <1>1, <1>2 DEF NoRepeat, Listed
<1>4. Listed(t) = Listed(s) \cup {e}
  <2> HIDE DEF t
  <2>1. 1 .. Len(t) = (1 .. Len(s)) \cup {Len(s) + 1}
    BY <1>1
  <2> QED
    BY <1>1, <1>2, <2>1 DEF Listed
<1>5. t # <<>>
  <2> HIDE DEF t
  <2> QED
    BY <1>1
<1> QED
  BY <1>1, <1>3, <1>4, <1>5

LEMMA TailLists ==
    ASSUME NEW S, NEW s \in Seq(S), s # <<>>, NoRepeat(s)
    PROVE  /\ Head(s) \in S /\ Tail(s) \in Seq(S)
           /\ NoRepeat(Tail(s))
           /\ Listed(s) = Listed(Tail(s)) \cup {Head(s)}
           /\ Head(s) \notin Listed(Tail(s))
<1> DEFINE t == Tail(s)
<1>1. t \in Seq(S) /\ Len(t) = Len(s) - 1 /\ Len(s) \in Nat \ {0}
  OBVIOUS
<1>2. \A i \in 1 .. Len(t) : t[i] = s[i + 1]
  OBVIOUS
<1>3. Head(s) = s[1] /\ Head(s) \in S
  BY <1>1
<1> HIDE DEF t
<1>4. NoRepeat(t)
  <2> SUFFICES ASSUME NEW i \in 1 .. Len(t), NEW j \in 1 .. Len(t), t[i] = t[j]
               PROVE  i = j
    BY DEF NoRepeat
  <2>1. i + 1 \in 1 .. Len(s) /\ j + 1 \in 1 .. Len(s) /\ s[i + 1] = s[j + 1]
    BY <1>1, <1>2
  <2> QED
    BY <2>1 DEF NoRepeat
<1>5. Listed(s) = Listed(t) \cup {s[1]}
  <2>1. ASSUME NEW i \in 1 .. Len(s) PROVE s[i] \in Listed(t) \cup {s[1]}
    <3>1. CASE i = 1
      BY <3>1
    <3>2. CASE i # 1
      <4>1. i - 1 \in 1 .. Len(t) /\ (i - 1) + 1 = i
        BY <1>1, <3>2
      <4> QED
        BY <1>2, <4>1 DEF Listed
    <3> QED
      BY <3>1, <3>2
  <2>2. ASSUME NEW i \in 1 .. Len(t) PROVE t[i] \in Listed(s)
    <3>1. i + 1 \in 1 .. Len(s)
      BY <1>1
    <3> QED
      BY <1>2, <3>1 DEF Listed
  <2>3. s[1] \in Listed(s)
    BY <1>1 DEF Listed
  <2>4. Listed(s) \subseteq Listed(t) \cup {s[1]}
    BY <2>1 DEF Listed
  <2>5. Listed(t) \subseteq Listed(s)
    BY <2>2 DEF Listed
  <2> QED
    BY <2>3, <2>4, <2>5
<1>6. s[1] \notin Listed(t)
  <2> SUFFICES ASSUME NEW i \in 1 .. Len(t), t[i] = s[1]
               PROVE  FALSE
    BY DEF Listed
  <2>1. i + 1 \in 1 .. Len(s) /\ 1 \in 1 .. Len(s) /\ s[i + 1] = s[1] /\ i + 1 # 1
    BY <1>1, <1>2
  <2> QED
    BY <2>1 DEF NoRepeat
<1> QED
  BY <1>1, <1>3, <1>4, <1>5, <1>6 DEF t

LEMMA WithoutLists ==
    ASSUME NEW S, NEW s \in Seq(S), NEW e, NoRepeat(s)
    PROVE  /\ Without(s, e) \in Seq(S)
           /\ NoRepeat(Without(s, e))
           /\ Listed(Without(s, e)) = Listed(s) \ {e}
<1>1. CASE ~\E i \in 1 .. Len(s) : s[i] = e
  BY <1>1 DEF Without, Listed
<1>2. CASE \E i \in 1 .. Len(s) : s[i] = e
  <2> DEFINE at == CHOOSE i \in 1 .. Len(s) : s[i] = e
             t == Without(s, e)
  <2>1. at \in 1 .. Len(s) /\ s[at] = e
    BY <1>2
  <2>2. t = [i \in 1 .. Len(s) - 1 |-> IF i < at THEN s[i] ELSE s[i + 1]]
    BY <1>2 DEF Without
  <2> HIDE DEF at, t
  <2>3. Len(s) \in Nat /\ Len(s) - 1 \in Nat
    BY <2>1
  <2>4. \A i \in 1 .. Len(s) - 1 : /\ i \in 1 .. Len(s) /\ i + 1 \in 1 .. Len(s)
                                   /\ t[i] = IF i < at THEN s[i] ELSE s[i + 1]
    BY <2>1, <2>2, <2>3
  <2>5. t \in Seq(S) /\ Len(t) = Len(s) - 1
    <3>1. \A i \in 1 .. Len(s) : s[i] \in S
      OBVIOUS
    <3>2. t \in [1 .. Len(s) - 1 -> S]
      BY <2>2, <2>4, <3>1
    <3> QED
      BY <2>3, <3>2
  <2>6. NoRepeat(t)
    <3> SUFFICES ASSUME NEW i \in 1 .. Len(s) - 1, NEW j \in 1 .. Len(s) - 1, t[i] = t[j]
                 PROVE  i = j
      BY <2>5 DEF NoRepeat
    <3> QED
      BY <2>1, <2>3, <2>4 DEF NoRepeat
  <2>7. Listed(t) \subseteq Listed(s) \ {e}
    <3> SUFFICES ASSUME NEW i \in 1 .. Len(s) - 1
                 PROVE  t[i] \in Listed(s) /\ t[i] # e
      BY <2>5 DEF Listed
    <3> QED
      BY <2>1, <2>3, <2>4 DEF NoRepeat, Listed
  <2>8. Listed(s) \ {e} \subseteq Listed(t)
    <3> SUFFICES ASSUME NEW k \in 1 .. Len(s), s[k] # e
                 PROVE  \E i \in 1 .. Len(t) : t[i] = s[k]
      BY DEF Listed
    <3>1. CASE k < at
      BY <2>1, <2>3, <2>4, <2>5, <3>1
    <3>2. CASE k > at
      <4>1. k - 1 \in 1 .. Len(s) - 1 /\ ~(k - 1 < at) /\ (k - 1) + 1 = k
        BY <2>1, <2>3, <3>2
      <4> QED
        BY <2>4, <2>5, <4>1
    <3> QED
      BY <2>1, <2>3, <3>1, <3>2
  <2> QED
    BY <2>5, <2>6, <2>7, <2>8 DEF t
<1> QED
  BY <1>1, <1>2

-----------------------------------------------------------------------------
(***************************************************************************)
(* The methods of the gate.                                                *)
(***************************************************************************)

Queued(g, c) == c \in Listed(g.queues[LaneOf[c]])

LEMMA GateFields ==
    ASSUME NEW g \in Gate
    PROVE  /\ g.queues \in [Lanes -> Seq(Calls)] /\ g.roundRobin \in Seq(Lanes)
           /\ g.inUse \in 0 .. Limit /\ g.inUse \in Nat
           /\ g.done \subseteq Calls /\ IsFiniteSet(g.done)
           /\ Cardinality(g.done) \in Nat /\ Limit \in Nat \ {0}
<1>1. g.done \subseteq Calls
  BY DEF Gate
<1>2. IsFiniteSet(g.done) /\ Cardinality(g.done) \in Nat
  BY <1>1, GateAssumption, FS_Subset, FS_CardinalityType
<1> QED
  BY <1>1, <1>2, GateAssumption DEF Gate

\* A call that did not wait joins the queue of its lane; a lane that begins to
\* wait joins the rotation.
LEMMA EnqueuedIsWell ==
    ASSUME NEW g, WellFormed(g), NEW c \in Calls, c \notin g.done, ~Queued(g, c)
    PROVE  LET h == Enqueued(g, c)
           IN  /\ WellFormed(h)
               /\ h.done = g.done /\ h.inUse = g.inUse
               /\ \A d \in Calls : Queued(h, d) <=> d = c \/ Queued(g, d)
               /\ g.roundRobin = <<>> =>
                     /\ Tail(h.roundRobin) = <<>>
                     /\ Tail(h.queues[Head(h.roundRobin)]) = <<>>
<1> DEFINE h == Enqueued(g, c)
           lane == LaneOf[c]
<1>1. g \in Gate /\ lane \in Lanes
  BY GateAssumption DEF WellFormed
<1>2. /\ g.queues \in [Lanes -> Seq(Calls)] /\ g.roundRobin \in Seq(Lanes)
      /\ g.inUse \in 0 .. Limit /\ g.done \subseteq Calls
  BY <1>1, GateFields
<1> DEFINE queues == [g.queues EXCEPT ![lane] = Append(g.queues[lane], c)]
           turns == IF Waits(g, lane) THEN g.roundRobin ELSE Append(g.roundRobin, lane)
<1>3. /\ h.queues = queues /\ h.roundRobin = turns
      /\ h.inUse = g.inUse /\ h.done = g.done
      /\ h = [queues |-> queues, roundRobin |-> turns, inUse |-> g.inUse, done |-> g.done]
  <2>1. h = [g EXCEPT !.queues = queues, !.roundRobin = turns]
    BY DEF Enqueued
  <2> HIDE DEF h, queues, turns
  <2> QED
    BY <1>1, <2>1 DEF Gate
<1> HIDE DEF h
<1>4. /\ h.queues[lane] \in Seq(Calls) /\ h.queues[lane] # <<>> /\ NoRepeat(h.queues[lane])
      /\ Listed(h.queues[lane]) = Listed(g.queues[lane]) \cup {c}
  <2>1. g.queues[lane] \in Seq(Calls) /\ NoRepeat(g.queues[lane]) /\ c \notin Listed(g.queues[lane])
    BY <1>1, <1>2 DEF WellFormed, Queued
  <2>2. h.queues[lane] = Append(g.queues[lane], c)
    BY <1>1, <1>2, <1>3
  <2> QED
    BY <2>1, <2>2, AppendLists
<1>5. \A l \in Lanes : l # lane => h.queues[l] = g.queues[l]
  BY <1>2, <1>3
<1>6. /\ h.roundRobin \in Seq(Lanes) /\ NoRepeat(h.roundRobin)
      /\ Listed(h.roundRobin) = Listed(g.roundRobin) \cup {lane}
  <2>1. NoRepeat(g.roundRobin) /\ (lane \in Listed(g.roundRobin) <=> Waits(g, lane))
    BY <1>1 DEF WellFormed, Waits
  <2>2. CASE Waits(g, lane)
    BY <1>2, <1>3, <2>1, <2>2
  <2>3. CASE ~Waits(g, lane)
    BY <1>1, <1>2, <1>3, <2>1, <2>3, AppendLists
  <2> QED
    BY <2>2, <2>3
<1>7. h \in Gate
  BY <1>2, <1>3, <1>4, <1>6 DEF Gate
<1>8. Listed(h.roundRobin) = {l \in Lanes : h.queues[l] # <<>>}
  BY <1>1, <1>4, <1>5, <1>6 DEF WellFormed
<1>9. \A l \in Lanes : /\ NoRepeat(h.queues[l])
                       /\ \A d \in Listed(h.queues[l]) : LaneOf[d] = l /\ d \notin h.done
  BY <1>3, <1>4, <1>5 DEF WellFormed
<1>10. WellFormed(h)
  BY <1>3, <1>6, <1>7, <1>8, <1>9 DEF WellFormed
<1>11. \A d \in Calls : Queued(h, d) <=> d = c \/ Queued(g, d)
  BY <1>4, <1>5, GateAssumption DEF Queued
<1>12. ASSUME g.roundRobin = <<>>
       PROVE  Tail(h.roundRobin) = <<>> /\ Tail(h.queues[Head(h.roundRobin)]) = <<>>
  <2>1. g.queues[lane] = <<>>
    BY <1>1, <1>12, EmptyHasNoRepeat DEF WellFormed
  <2>2. h.roundRobin = Append(<<>>, lane) /\ h.queues[lane] = Append(<<>>, c)
    BY <1>1, <1>2, <1>3, <1>12, <2>1 DEF Waits
  <2>3. h.roundRobin = <<lane>> /\ h.queues[lane] = <<c>>
    BY <2>2
  <2>4. Head(<<lane>>) = lane /\ Tail(<<lane>>) = <<>> /\ Tail(<<c>>) = <<>>
    OBVIOUS
  <2> QED
    BY <2>3, <2>4
<1> QED
  BY <1>3, <1>10, <1>11, <1>12 DEF h

\* A turn of _dispatch passes a permit to one call that waited.
LEMMA GrantedIsWell ==
    ASSUME NEW g, WellFormed(g), Free(g)
    PROVE  LET h == Granted(g)
           IN  /\ WellFormed(h)
               /\ h.inUse = g.inUse + 1
               /\ \E d \in Calls :
                     /\ Queued(g, d) /\ h.done = g.done \cup {d}
                     /\ \A x \in Calls : Queued(h, x) <=> x # d /\ Queued(g, x)
               /\ Tail(g.roundRobin) = <<>> /\ Tail(g.queues[Head(g.roundRobin)]) = <<>>
                     => h.roundRobin = <<>>
<1> DEFINE h == Granted(g)
           lane == Head(g.roundRobin)
           rest == Tail(g.queues[lane])
           d == Head(g.queues[lane])
<1>1. /\ g \in Gate /\ g.queues \in [Lanes -> Seq(Calls)] /\ g.roundRobin \in Seq(Lanes)
      /\ g.inUse \in 0 .. Limit /\ g.done \subseteq Calls /\ IsFiniteSet(g.done)
      /\ Cardinality(g.done) \in Nat /\ Limit \in Nat
  BY GateFields DEF WellFormed
<1> DEFINE queues == [g.queues EXCEPT ![lane] = rest]
           turns == IF rest = <<>> THEN Tail(g.roundRobin) ELSE Append(Tail(g.roundRobin), lane)
<1>2. /\ h.queues = queues /\ h.roundRobin = turns
      /\ h.inUse = g.inUse + 1 /\ h.done = g.done \cup {d}
      /\ h = [queues |-> queues, roundRobin |-> turns, inUse |-> g.inUse + 1,
              done |-> g.done \cup {d}]
  <2>1. h = [g EXCEPT !.queues = queues, !.roundRobin = turns, !.inUse = g.inUse + 1,
                      !.done = g.done \cup {d}]
    BY DEF Granted
  <2> HIDE DEF h, queues, turns, d
  <2> QED
    BY <1>1, <2>1 DEF Gate
<1> HIDE DEF h
<1>3. /\ lane \in Lanes /\ Tail(g.roundRobin) \in Seq(Lanes) /\ NoRepeat(Tail(g.roundRobin))
      /\ Listed(g.roundRobin) = Listed(Tail(g.roundRobin)) \cup {lane}
      /\ lane \notin Listed(Tail(g.roundRobin))
  BY <1>1, TailLists DEF Free, WellFormed
<1>4. g.queues[lane] \in Seq(Calls) /\ g.queues[lane] # <<>> /\ NoRepeat(g.queues[lane])
  BY <1>1, <1>3 DEF WellFormed
<1>5. /\ d \in Calls /\ rest \in Seq(Calls) /\ NoRepeat(rest)
      /\ Listed(g.queues[lane]) = Listed(rest) \cup {d} /\ d \notin Listed(rest)
  BY <1>4, TailLists
<1>6. LaneOf[d] = lane /\ d \notin g.done /\ Queued(g, d)
  <2>1. d \in Listed(g.queues[lane])
    BY <1>5
  <2>2. LaneOf[d] = lane /\ d \notin g.done
    BY <1>3, <2>1 DEF WellFormed
  <2> QED
    BY <2>1, <2>2 DEF Queued
<1> HIDE DEF lane, rest, d
<1>7. h.queues[lane] = rest /\ \A l \in Lanes : l # lane => h.queues[l] = g.queues[l]
  BY <1>1, <1>2, <1>3
<1>8. /\ h.roundRobin \in Seq(Lanes) /\ NoRepeat(h.roundRobin)
      /\ Listed(h.roundRobin) = Listed(Tail(g.roundRobin)) \cup (IF rest = <<>> THEN {} ELSE {lane})
  <2>1. CASE rest = <<>>
    BY <1>2, <1>3, <2>1
  <2>2. CASE rest # <<>>
    <3>1. h.roundRobin = Append(Tail(g.roundRobin), lane)
      BY <1>2, <2>2
    <3> DEFINE others == Tail(g.roundRobin)
    <3>2. others \in Seq(Lanes) /\ NoRepeat(others) /\ lane \in Lanes /\ lane \notin Listed(others)
      BY <1>3
    <3> HIDE DEF others
    <3>3. /\ Append(others, lane) \in Seq(Lanes) /\ NoRepeat(Append(others, lane))
          /\ Listed(Append(others, lane)) = Listed(others) \cup {lane}
      BY <3>2, AppendLists
    <3> QED
      BY <2>2, <3>1, <3>3 DEF others
  <2> QED
    BY <2>1, <2>2
<1>9. h \in Gate
  <2>1. h.queues \in [Lanes -> Seq(Calls)]
    BY <1>1, <1>2, <1>5
  <2>2. h.inUse \in 0 .. Limit
    BY <1>1, <1>2 DEF Free
  <2>3. h.done \subseteq Calls
    BY <1>1, <1>2, <1>5
  <2> QED
    BY <1>2, <1>8, <2>1, <2>2, <2>3 DEF Gate
<1>10. Listed(h.roundRobin) = {l \in Lanes : h.queues[l] # <<>>}
  <2>1. Listed(g.roundRobin) = {l \in Lanes : g.queues[l] # <<>>}
    BY DEF WellFormed
  <2> QED
    BY <1>3, <1>7, <1>8, <2>1
<1>11. \A l \in Lanes : /\ NoRepeat(h.queues[l])
                        /\ \A x \in Listed(h.queues[l]) : LaneOf[x] = l /\ x \notin h.done
  <2> SUFFICES ASSUME NEW l \in Lanes
               PROVE  /\ NoRepeat(h.queues[l])
                      /\ \A x \in Listed(h.queues[l]) : LaneOf[x] = l /\ x \notin h.done
    OBVIOUS
  <2>1. NoRepeat(g.queues[l]) /\ \A x \in Listed(g.queues[l]) : LaneOf[x] = l /\ x \notin g.done
    BY DEF WellFormed
  <2>2. CASE l = lane
    BY <1>2, <1>5, <1>7, <2>1, <2>2
  <2>3. CASE l # lane
    BY <1>2, <1>6, <1>7, <2>1, <2>3
  <2> QED
    BY <2>2, <2>3
<1>12. h.inUse = Cardinality(h.done)
  <2>1. Cardinality(g.done \cup {d}) = Cardinality(g.done) + 1
    BY <1>1, <1>6, FS_AddElement
  <2> QED
    BY <1>2, <2>1 DEF WellFormed
<1>13. WellFormed(h)
  BY <1>8, <1>9, <1>10, <1>11, <1>12 DEF WellFormed
<1>14. \A x \in Calls : Queued(h, x) <=> x # d /\ Queued(g, x)
  <2> SUFFICES ASSUME NEW x \in Calls PROVE Queued(h, x) <=> x # d /\ Queued(g, x)
    OBVIOUS
  <2>1. LaneOf[x] \in Lanes
    BY GateAssumption
  <2>2. CASE LaneOf[x] = lane
    BY <1>5, <1>7, <2>2 DEF Queued
  <2>3. CASE LaneOf[x] # lane
    BY <1>6, <1>7, <2>1, <2>3 DEF Queued
  <2> QED
    BY <2>2, <2>3
<1>15. Tail(g.roundRobin) = <<>> /\ rest = <<>> => h.roundRobin = <<>>
  BY <1>2
<1>16. h.inUse = g.inUse + 1 /\ h.done = g.done \cup {d}
  BY <1>2
<1> QED
  BY <1>5, <1>6, <1>13, <1>14, <1>15, <1>16 DEF h, lane, rest, d

\* A cancelled waiter leaves its queue, and an emptied lane the rotation.
LEMMA WithdrawnIsWell ==
    ASSUME NEW g, WellFormed(g), NEW c \in Calls
    PROVE  LET h == Withdrawn(g, c)
           IN  /\ WellFormed(h)
               /\ h.inUse = g.inUse /\ h.done = g.done
               /\ \A x \in Calls : Queued(h, x) <=> x # c /\ Queued(g, x)
               /\ g.roundRobin = <<>> => h.roundRobin = <<>>
<1> DEFINE h == Withdrawn(g, c)
           lane == LaneOf[c]
           rest == Without(g.queues[lane], c)
<1>1. /\ g \in Gate /\ g.queues \in [Lanes -> Seq(Calls)] /\ g.roundRobin \in Seq(Lanes)
      /\ g.inUse \in 0 .. Limit /\ g.done \subseteq Calls /\ lane \in Lanes
  BY GateFields, GateAssumption DEF WellFormed
<1> DEFINE queues == [g.queues EXCEPT ![lane] = rest]
           turns == IF rest = <<>> THEN Without(g.roundRobin, lane) ELSE g.roundRobin
<1>2. /\ h.queues = queues /\ h.roundRobin = turns
      /\ h.inUse = g.inUse /\ h.done = g.done
      /\ h = [queues |-> queues, roundRobin |-> turns, inUse |-> g.inUse, done |-> g.done]
  <2>1. h = [g EXCEPT !.queues = queues, !.roundRobin = turns]
    BY DEF Withdrawn
  <2> HIDE DEF h, queues, turns
  <2> QED
    BY <1>1, <2>1 DEF Gate
<1> HIDE DEF h
<1>3. rest \in Seq(Calls) /\ NoRepeat(rest) /\ Listed(rest) = Listed(g.queues[lane]) \ {c}
  BY <1>1, WithoutLists DEF WellFormed
<1> HIDE DEF rest
<1>4. h.queues[lane] = rest /\ \A l \in Lanes : l # lane => h.queues[l] = g.queues[l]
  BY <1>1, <1>2
<1>5. rest # <<>> => g.queues[lane] # <<>>
  <2>1. rest # <<>> => Listed(rest) # {}
    BY <1>3, EmptyListsNothing
  <2>2. g.queues[lane] = <<>> => Listed(g.queues[lane]) = {}
    BY EmptyHasNoRepeat
  <2> QED
    BY <1>3, <2>1, <2>2
<1>6. /\ h.roundRobin \in Seq(Lanes) /\ NoRepeat(h.roundRobin)
      /\ Listed(h.roundRobin) = IF rest = <<>> THEN Listed(g.roundRobin) \ {lane}
                                ELSE Listed(g.roundRobin)
  <2>1. CASE rest = <<>>
    BY <1>1, <1>2, <2>1, WithoutLists DEF WellFormed
  <2>2. CASE rest # <<>>
    BY <1>1, <1>2, <2>2 DEF WellFormed
  <2> QED
    BY <2>1, <2>2
<1>7. h \in Gate
  BY <1>1, <1>2, <1>3, <1>6 DEF Gate
<1>8. Listed(h.roundRobin) = {l \in Lanes : h.queues[l] # <<>>}
  <2>1. Listed(g.roundRobin) = {l \in Lanes : g.queues[l] # <<>>}
    BY DEF WellFormed
  <2> QED
    BY <1>1, <1>4, <1>5, <1>6, <2>1
<1>9. \A l \in Lanes : /\ NoRepeat(h.queues[l])
                       /\ \A x \in Listed(h.queues[l]) : LaneOf[x] = l /\ x \notin h.done
  <2> SUFFICES ASSUME NEW l \in Lanes
               PROVE  /\ NoRepeat(h.queues[l])
                      /\ \A x \in Listed(h.queues[l]) : LaneOf[x] = l /\ x \notin h.done
    OBVIOUS
  <2>1. NoRepeat(g.queues[l]) /\ \A x \in Listed(g.queues[l]) : LaneOf[x] = l /\ x \notin g.done
    BY DEF WellFormed
  <2>2. CASE l = lane
    BY <1>2, <1>3, <1>4, <2>1, <2>2
  <2>3. CASE l # lane
    BY <1>2, <1>4, <2>1, <2>3
  <2> QED
    BY <2>2, <2>3
<1>10. WellFormed(h)
  <2>1. h.inUse = Cardinality(h.done)
    BY <1>2 DEF WellFormed
  <2> QED
    BY <1>6, <1>7, <1>8, <1>9, <2>1 DEF WellFormed
<1>11. \A x \in Calls : Queued(h, x) <=> x # c /\ Queued(g, x)
  <2> SUFFICES ASSUME NEW x \in Calls PROVE Queued(h, x) <=> x # c /\ Queued(g, x)
    OBVIOUS
  <2>1. LaneOf[x] \in Lanes
    BY GateAssumption
  <2>2. CASE LaneOf[x] = lane
    BY <1>3, <1>4, <2>2 DEF Queued
  <2>3. CASE LaneOf[x] # lane
    BY <1>4, <2>1, <2>3 DEF Queued
  <2> QED
    BY <2>2, <2>3
<1>12. g.roundRobin = <<>> => h.roundRobin = <<>>
  BY <1>1, <1>6, EmptyListsNothing, EmptyHasNoRepeat
<1> QED
  BY <1>2, <1>10, <1>11, <1>12 DEF h

\* _dispatch ends with no permit free for a waiter, if one turn is enough.
LEMMA DispatchedIsWell ==
    ASSUME NEW g, WellFormed(g),
           Free(g) => \/ g.inUse + 1 = Limit
                      \/ /\ Tail(g.roundRobin) = <<>>
                         /\ Tail(g.queues[Head(g.roundRobin)]) = <<>>
    PROVE  LET h == Dispatched(g)
           IN  /\ WellFormed(h) /\ ~Free(h)
               /\ \E D \in SUBSET Calls :
                     /\ h.done = g.done \cup D
                     /\ \A x \in D : Queued(g, x)
                     /\ \A x \in Calls : Queued(h, x) <=> x \notin D /\ Queued(g, x)
<1>1. CASE ~Free(g)
  <2>1. Dispatched(g) = g
    BY <1>1 DEF Dispatched
  <2>2. /\ {} \in SUBSET Calls /\ g.done = g.done \cup {}
        /\ \A x \in {} : Queued(g, x)
        /\ \A x \in Calls : Queued(g, x) <=> x \notin {} /\ Queued(g, x)
    OBVIOUS
  <2>3. \E D \in SUBSET Calls :
              /\ g.done = g.done \cup D
              /\ \A x \in D : Queued(g, x)
              /\ \A x \in Calls : Queued(g, x) <=> x \notin D /\ Queued(g, x)
    BY <2>2
  <2> QED
    BY <1>1, <2>1, <2>3
<1>2. CASE Free(g)
  <2> DEFINE h == Granted(g)
  <2>1. Dispatched(g) = h
    BY <1>2 DEF Dispatched
  <2>2. /\ WellFormed(h) /\ h.inUse = g.inUse + 1
        /\ Tail(g.roundRobin) = <<>> /\ Tail(g.queues[Head(g.roundRobin)]) = <<>>
              => h.roundRobin = <<>>
    BY <1>2, GrantedIsWell
  <2>3. PICK d \in Calls :
              /\ Queued(g, d) /\ h.done = g.done \cup {d}
              /\ \A x \in Calls : Queued(h, x) <=> x # d /\ Queued(g, x)
    BY <1>2, GrantedIsWell
  <2> HIDE DEF h
  <2>4. ~Free(h)
    <3>1. CASE g.inUse + 1 = Limit
      BY <2>2, <3>1, GateAssumption DEF Free
    <3>2. CASE Tail(g.roundRobin) = <<>> /\ Tail(g.queues[Head(g.roundRobin)]) = <<>>
      BY <2>2, <3>2 DEF Free
    <3> QED
      BY <1>2, <3>1, <3>2
  <2>5. /\ {d} \in SUBSET Calls /\ h.done = g.done \cup {d}
        /\ \A x \in {d} : Queued(g, x)
        /\ \A x \in Calls : Queued(h, x) <=> x \notin {d} /\ Queued(g, x)
    BY <2>3
  <2>6. \E D \in SUBSET Calls :
              /\ h.done = g.done \cup D
              /\ \A x \in D : Queued(g, x)
              /\ \A x \in Calls : Queued(h, x) <=> x \notin D /\ Queued(g, x)
    BY <2>5
  <2> QED
    BY <2>1, <2>2, <2>4, <2>6
<1> QED
  BY <1>1, <1>2

\* A permit that is given back goes to a waiter, if there is one.
LEMMA ReturnedIsWell ==
    ASSUME NEW g, WellFormed(g), ~Free(g), NEW c \in g.done
    PROVE  LET h == Returned(g, c)
           IN  /\ WellFormed(h) /\ ~Free(h)
               /\ \E D \in SUBSET Calls :
                     /\ h.done = (g.done \ {c}) \cup D
                     /\ \A x \in D : Queued(g, x)
                     /\ \A x \in Calls : Queued(h, x) <=> x \notin D /\ Queued(g, x)
<1> DEFINE n == g.inUse - 1
           others == g.done \ {c}
           r == [g EXCEPT !.inUse = n, !.done = others]
<1>1. /\ g \in Gate /\ g.queues \in [Lanes -> Seq(Calls)] /\ g.roundRobin \in Seq(Lanes)
      /\ g.inUse \in 0 .. Limit /\ g.done \subseteq Calls /\ IsFiniteSet(g.done)
      /\ Cardinality(g.done) \in Nat /\ Limit \in Nat
  BY GateFields DEF WellFormed
<1>2. Returned(g, c) = Dispatched(r)
  BY DEF Returned
<1>3. /\ r.queues = g.queues /\ r.roundRobin = g.roundRobin
      /\ r.inUse = n /\ r.done = others
      /\ r = [queues |-> g.queues, roundRobin |-> g.roundRobin, inUse |-> n, done |-> others]
  <2>1. r = [g EXCEPT !.inUse = n, !.done = others]
    OBVIOUS
  <2> HIDE DEF n, others, r
  <2> QED
    BY <1>1, <2>1 DEF Gate
<1> HIDE DEF r
<1>4. Cardinality(g.done \ {c}) = Cardinality(g.done) - 1 /\ Cardinality(g.done \ {c}) \in Nat
  BY <1>1, FS_RemoveElement, FS_CardinalityType
<1>5. r.inUse = Cardinality(r.done) /\ r.inUse \in 0 .. Limit
  BY <1>1, <1>3, <1>4 DEF WellFormed
<1>6. r \in Gate
  BY <1>1, <1>3, <1>5 DEF Gate
<1>7. WellFormed(r)
  BY <1>3, <1>5, <1>6 DEF WellFormed
<1>8. Free(r) => r.inUse + 1 = Limit
  BY <1>1, <1>3 DEF Free
<1>9. \A x : Queued(r, x) <=> Queued(g, x)
  BY <1>3 DEF Queued
<1> DEFINE h == Dispatched(r)
<1>10. WellFormed(h) /\ ~Free(h)
  BY <1>7, <1>8, DispatchedIsWell
<1>11. PICK D \in SUBSET Calls :
              /\ h.done = r.done \cup D
              /\ \A x \in D : Queued(r, x)
              /\ \A x \in Calls : Queued(h, x) <=> x \notin D /\ Queued(r, x)
  BY <1>7, <1>8, DispatchedIsWell
<1> HIDE DEF h
<1>12. /\ h.done = (g.done \ {c}) \cup D
       /\ \A x \in D : Queued(g, x)
       /\ \A x \in Calls : Queued(h, x) <=> x \notin D /\ Queued(g, x)
  BY <1>3, <1>9, <1>11
<1> QED
  BY <1>2, <1>10, <1>12 DEF h

-----------------------------------------------------------------------------
(***************************************************************************)
(* The steps of the calls.                                                 *)
(***************************************************************************)

\* What a step does to the variables, when the gate it leads to is a gate.
LEMMA StepsIsTyped ==
    ASSUME TypeOK, NEW c \in Calls, NEW g \in Gate, NEW s \in Stages, Steps(c, g, s)
    PROVE  /\ TypeOK'
           /\ gate' = g
           /\ stage'[c] = s
           /\ \A x \in Calls : x # c => stage'[x] = stage[x]
<1>1. gate' = g /\ stage' = [stage EXCEPT ![c] = s] /\ stage \in [Calls -> Stages]
  BY DEF Steps, TypeOK
<1>2. passed' \in [Lanes -> [Lanes -> 0 .. 2]]
  <2> SUFFICES ASSUME NEW l \in Lanes, NEW k \in Lanes
               PROVE  (IF l \in Served \/ ~Waits(gate', l) \/ ~Waits(gate, l) THEN 0
                       ELSE IF k \in Served /\ passed[l][k] < 2 THEN passed[l][k] + 1
                       ELSE passed[l][k]) \in 0 .. 2
    BY DEF Steps
  <2> QED
    BY DEF TypeOK
<1>3. stage' \in [Calls -> Stages] /\ gate' \in Gate
  BY <1>1
<1> QED
  BY <1>1, <1>2, <1>3 DEF TypeOK

LEMMA InitGateInv == Init => GateInv
<1> SUFFICES ASSUME Init PROVE GateInv
  OBVIOUS
<1>1. /\ gate.queues = [l \in Lanes |-> <<>>] /\ gate.roundRobin = <<>>
      /\ gate.inUse = 0 /\ gate.done = {} /\ Limit \in Nat \ {0}
  BY GateAssumption DEF Init
<1>2. TypeOK
  <2>1. gate \in Gate
    BY <1>1 DEF Init, Gate
  <2>2. stage \in [Calls -> Stages] /\ passed \in [Lanes -> [Lanes -> 0 .. 2]]
    BY DEF Init, Stages
  <2> QED
    BY <2>1, <2>2 DEF TypeOK
<1>3. WellFormed(gate)
  <2>1. Cardinality(gate.done) = 0
    BY <1>1, FS_EmptySet
  <2>2. {l \in Lanes : gate.queues[l] # <<>>} = {}
    BY <1>1
  <2> QED
    BY <1>1, <1>2, <2>1, <2>2, EmptyHasNoRepeat DEF WellFormed, TypeOK
<1>4. NoIdlePermit
  BY <1>1 DEF NoIdlePermit, Free
<1>5. \A c \in Calls : stage[c] = "idle" /\ c \notin gate.done /\ c \notin Listed(gate.queues[LaneOf[c]])
  BY <1>1, GateAssumption, EmptyHasNoRepeat DEF Init
<1> QED
  BY <1>2, <1>3, <1>4, <1>5 DEF GateInv

LEMMA StepGateInv == GateInv /\ [Next]_vars => GateInv'
<1> SUFFICES ASSUME GateInv, [Next]_vars PROVE GateInv'
  OBVIOUS
\* A gate the calls may be left with, c going to stage s.
<1> DEFINE Linked(g, c, s) ==
              /\ WellFormed(g) /\ ~Free(g)
              /\ s = "holding" => c \in g.done
              /\ s = "idle" => c \notin g.done
              /\ Queued(g, c) <=> s \in {"waiting", "cancelling"} /\ c \notin g.done
              /\ \A x \in Calls : x # c =>
                    /\ stage[x] = "holding" => x \in g.done
                    /\ stage[x] = "idle" => x \notin g.done
                    /\ Queued(g, x) <=> stage[x] \in {"waiting", "cancelling"} /\ x \notin g.done
<1>1. ASSUME NEW c \in Calls, NEW g, NEW s \in Stages, Steps(c, g, s), Linked(g, c, s)
      PROVE  GateInv'
  <2>1. TypeOK /\ g \in Gate
    BY <1>1 DEF GateInv, WellFormed
  <2>2. TypeOK' /\ gate' = g /\ stage'[c] = s /\ \A x \in Calls : x # c => stage'[x] = stage[x]
    BY <1>1, <2>1, StepsIsTyped
  <2>3. WellFormed(gate)' /\ NoIdlePermit'
    BY <1>1, <2>2 DEF NoIdlePermit, WellFormed, Free
  <2>4. ASSUME NEW x \in Calls
        PROVE  /\ stage'[x] = "holding" => x \in gate'.done
               /\ stage'[x] = "idle" => x \notin gate'.done
               /\ x \in Listed(gate'.queues[LaneOf[x]]) <=>
                     stage'[x] \in {"waiting", "cancelling"} /\ x \notin gate'.done
    BY <1>1, <2>2 DEF Queued
  <2> QED
    BY <2>2, <2>3, <2>4 DEF GateInv
\* The gate as it is.
<1>2. /\ WellFormed(gate) /\ ~Free(gate) /\ gate \in Gate
      /\ \A x \in Calls :
            /\ stage[x] \in Stages
            /\ stage[x] = "holding" => x \in gate.done
            /\ stage[x] = "idle" => x \notin gate.done
            /\ Queued(gate, x) <=> stage[x] \in {"waiting", "cancelling"} /\ x \notin gate.done
  BY DEF GateInv, NoIdlePermit, Queued, TypeOK
<1>3. ASSUME NEW c \in Calls, Acquire(c) PROVE GateInv'
  <2> DEFINE q == Enqueued(gate, c)
             h == Dispatched(q)
  <2>1. stage[c] = "idle" /\ Steps(c, h, "waiting")
    BY <1>3 DEF Acquire
  <2>2. c \notin gate.done /\ ~Queued(gate, c)
    BY <1>2, <2>1
  <2>3. /\ WellFormed(q) /\ q.done = gate.done /\ q.inUse = gate.inUse
        /\ \A d \in Calls : Queued(q, d) <=> d = c \/ Queued(gate, d)
        /\ gate.roundRobin = <<>> => Tail(q.roundRobin) = <<>>
                                     /\ Tail(q.queues[Head(q.roundRobin)]) = <<>>
    BY <1>2, <2>2, EnqueuedIsWell
  <2>4. Free(q) => /\ Tail(q.roundRobin) = <<>>
                   /\ Tail(q.queues[Head(q.roundRobin)]) = <<>>
    BY <1>2, <2>3 DEF Free
  <2>5. /\ WellFormed(h) /\ ~Free(h)
        /\ \E D \in SUBSET Calls :
              /\ h.done = q.done \cup D
              /\ \A x \in D : Queued(q, x)
              /\ \A x \in Calls : Queued(h, x) <=> x \notin D /\ Queued(q, x)
    <3> HIDE DEF q
    <3> QED
      BY <2>3, <2>4, DispatchedIsWell
  <2> HIDE DEF q, h
  <2>6. Linked(h, c, "waiting")
    BY <1>2, <2>2, <2>3, <2>5
  <2> HIDE DEF Linked
  <2> QED
    BY <1>1, <2>1, <2>6 DEF Stages
<1>4. ASSUME NEW c \in Calls, Enter(c) PROVE GateInv'
  <2>1. Steps(c, gate, "holding") /\ Linked(gate, c, "holding")
    BY <1>2, <1>4 DEF Enter
  <2> HIDE DEF Linked
  <2> QED
    BY <1>1, <2>1 DEF Stages
<1>5. ASSUME NEW c \in Calls, Cancel(c) PROVE GateInv'
  <2>1. Steps(c, gate, "cancelling") /\ Linked(gate, c, "cancelling")
    BY <1>2, <1>5 DEF Cancel
  <2> HIDE DEF Linked
  <2> QED
    BY <1>1, <2>1 DEF Stages
\* A permit given back by c, which is not in a queue.
<1>6. ASSUME NEW c \in Calls, c \in gate.done, Steps(c, Returned(gate, c), "idle")
      PROVE  GateInv'
  <2> DEFINE h == Returned(gate, c)
  <2>1. /\ WellFormed(h) /\ ~Free(h)
        /\ \E D \in SUBSET Calls :
              /\ h.done = (gate.done \ {c}) \cup D
              /\ \A x \in D : Queued(gate, x)
              /\ \A x \in Calls : Queued(h, x) <=> x \notin D /\ Queued(gate, x)
    BY <1>2, <1>6, ReturnedIsWell
  <2>2. ~Queued(gate, c) /\ Steps(c, h, "idle")
    BY <1>2, <1>6
  <2> HIDE DEF h
  <2>3. Linked(h, c, "idle")
    BY <1>2, <2>1, <2>2
  <2> HIDE DEF Linked
  <2> QED
    BY <1>1, <2>2, <2>3 DEF Stages
<1>7. ASSUME NEW c \in Calls, CancelWaiter(c) PROVE GateInv'
  <2>1. CASE c \in gate.done
    BY <1>6, <1>7, <2>1 DEF CancelWaiter
  <2>2. CASE c \notin gate.done
    <3> DEFINE h == Withdrawn(gate, c)
    <3>1. Steps(c, h, "idle")
      BY <1>7, <2>2 DEF CancelWaiter
    <3>2. /\ WellFormed(h) /\ h.inUse = gate.inUse /\ h.done = gate.done
          /\ \A x \in Calls : Queued(h, x) <=> x # c /\ Queued(gate, x)
          /\ gate.roundRobin = <<>> => h.roundRobin = <<>>
      BY <1>2, WithdrawnIsWell
    <3> HIDE DEF h
    <3>3. ~Free(h)
      BY <1>2, <3>2 DEF Free
    <3>4. Linked(h, c, "idle")
      BY <1>2, <2>2, <3>2, <3>3
    <3> HIDE DEF Linked
    <3> QED
      BY <1>1, <3>1, <3>4 DEF Stages
  <2> QED
    BY <2>1, <2>2
<1>8. ASSUME NEW c \in Calls, Release(c) PROVE GateInv'
  BY <1>2, <1>6, <1>8 DEF Release
<1>9. CASE UNCHANGED vars
  BY <1>9 DEF vars, GateInv, TypeOK, WellFormed, NoIdlePermit, Free
<1> HIDE DEF Linked
<1> QED
  BY <1>3, <1>4, <1>5, <1>7, <1>8, <1>9 DEF Next

-----------------------------------------------------------------------------
(***************************************************************************)
(* Theorems.                                                               *)
(***************************************************************************)

\* The invariant of the gate and its calls (FairCapacityGate).
THEOREM GateInvariant == Spec => []GateInv
BY InitGateInv, StepGateInv, PTL DEF Spec

\* Every step keeps the types; in_use stays within the limit.
THEOREM GateTypeCorrect == Spec => []TypeOK
<1>1. GateInv => TypeOK
  BY DEF GateInv
<1> QED
  BY <1>1, GateInvariant, PTL

\* No interleaving of _dispatch, _cancel_waiter and _release leaks a permit,
\* returns one twice or grants more than limit.
THEOREM PermitsAlwaysAccounted == Spec => []PermitsAccounted
<1>1. GateInv => PermitsAccounted
  BY GateFields DEF GateInv, WellFormed, PermitsAccounted
<1> QED
  BY <1>1, GateInvariant, PTL

\* No call waits while a permit is free: one turn of the loop of _dispatch is
\* always enough.
THEOREM NeverIdlePermit == Spec => []NoIdlePermit
<1>1. GateInv => NoIdlePermit
  BY DEF GateInv
<1> QED
  BY <1>1, GateInvariant, PTL

\* A sequence without repetition has each of its elements at one position.
LEMMA CountOf ==
    ASSUME NEW S, NEW s \in Seq(S), NoRepeat(s), NEW x
    PROVE  Cardinality({i \in 1 .. Len(s) : s[i] = x}) = IF x \in Listed(s) THEN 1 ELSE 0
<1>1. CASE x \in Listed(s)
  <2>1. PICK i \in 1 .. Len(s) : s[i] = x
    BY <1>1 DEF Listed
  <2>2. {j \in 1 .. Len(s) : s[j] = x} = {i}
    BY <2>1 DEF NoRepeat
  <2> QED
    BY <1>1, <2>2, FS_Singleton
<1>2. CASE x \notin Listed(s)
  <2>1. {j \in 1 .. Len(s) : s[j] = x} = {}
    BY <1>2 DEF Listed
  <2> QED
    BY <1>2, <2>1, FS_EmptySet
<1> QED
  BY <1>1, <1>2

\* The rotation and the queues hold exactly the lanes and calls that wait, each
\* once, after any cancellations (_cancel_waiter, _remove_lane).
THEOREM QueuesAlwaysMatch == Spec => []QueuesMatchWaiters
<1>1. ASSUME GateInv PROVE QueuesMatchWaiters
  <2> DEFINE waiting == {c \in Calls : stage[c] \in {"waiting", "cancelling"} /\ c \notin gate.done}
  <2>0. /\ WellFormed(gate) /\ gate.roundRobin \in Seq(Lanes)
        /\ gate.queues \in [Lanes -> Seq(Calls)]
    BY <1>1, GateFields DEF GateInv, WellFormed
  <2>1. ASSUME NEW l \in Lanes
        PROVE  Cardinality({i \in 1 .. Len(gate.roundRobin) : gate.roundRobin[i] = l})
                  = IF Waits(gate, l) THEN 1 ELSE 0
    <3>1. l \in Listed(gate.roundRobin) <=> Waits(gate, l)
      BY <2>0 DEF WellFormed, Waits
    <3>2. NoRepeat(gate.roundRobin)
      BY <2>0 DEF WellFormed
    <3> QED
      BY <2>0, <3>1, <3>2, CountOf
  <2>2. ASSUME NEW l \in Lanes, NEW c \in Calls
        PROVE  Cardinality({i \in 1 .. Len(gate.queues[l]) : gate.queues[l][i] = c})
                  = IF c \in waiting /\ LaneOf[c] = l THEN 1 ELSE 0
    <3>1. NoRepeat(gate.queues[l]) /\ \A d \in Listed(gate.queues[l]) : LaneOf[d] = l
      BY <2>0 DEF WellFormed
    <3>2. c \in Listed(gate.queues[LaneOf[c]]) <=> c \in waiting
      BY <1>1 DEF GateInv
    <3>3. c \in Listed(gate.queues[l]) <=> c \in waiting /\ LaneOf[c] = l
      BY <3>1, <3>2
    <3>4. gate.queues[l] \in Seq(Calls)
      BY <2>0
    <3> QED
      BY <3>1, <3>3, <3>4, CountOf
  <2> QED
    BY <2>1, <2>2 DEF QueuesMatchWaiters
<1> QED
  BY <1>1, GateInvariant, PTL

-----------------------------------------------------------------------------
(***************************************************************************)
(* Turns.  A lane that has been passed by another stands before it in the  *)
(* rotation, or the other is not there: it cannot be passed again by that  *)
(* one before its own turn.                                                *)
(***************************************************************************)
Ahead(s, l, k) == \A i, j \in 1 .. Len(s) : s[i] = l /\ s[j] = k => i < j

TurnInv ==
    \A l, k \in Lanes :
        passed[l][k] # 0 => /\ passed[l][k] = 1 /\ l # k
                            /\ Waits(gate, l) /\ Ahead(gate.roundRobin, l, k)

\* A lane that joins the rotation, or comes again, stands behind the others.
LEMMA AppendKeepsAhead ==
    ASSUME NEW S, NEW s \in Seq(S), NEW e \in S, NEW l \in S, NEW k \in S, l # e,
           k # e => Ahead(s, l, k), k = e => e \notin Listed(s)
    PROVE  Ahead(Append(s, e), l, k)
<1> DEFINE t == Append(s, e)
<1>1. /\ Len(s) \in Nat /\ Len(t) = Len(s) + 1 /\ t[Len(s) + 1] = e
      /\ \A i \in 1 .. Len(s) : t[i] = s[i]
  OBVIOUS
<1> HIDE DEF t
<1>2. ASSUME NEW i \in 1 .. Len(t), NEW j \in 1 .. Len(t), t[i] = l, t[j] = k
      PROVE  i < j
  <2>1. i \in 1 .. Len(s) /\ s[i] = l
    BY <1>1, <1>2
  <2>2. CASE j = Len(s) + 1
    BY <1>1, <2>1, <2>2
  <2>3. CASE j \in 1 .. Len(s)
    BY <1>1, <1>2, <2>1, <2>3 DEF Ahead, Listed
  <2> QED
    BY <1>1, <2>2, <2>3
<1> QED
  BY <1>2 DEF Ahead, t

LEMMA TailKeepsAhead ==
    ASSUME NEW S, NEW s \in Seq(S), s # <<>>, NEW l, NEW k, Ahead(s, l, k)
    PROVE  Ahead(Tail(s), l, k)
<1> DEFINE t == Tail(s)
<1>1. /\ Len(s) \in Nat \ {0} /\ Len(t) = Len(s) - 1
      /\ \A i \in 1 .. Len(s) - 1 : t[i] = s[i + 1]
  OBVIOUS
<1> HIDE DEF t
<1>2. ASSUME NEW i \in 1 .. Len(t), NEW j \in 1 .. Len(t), t[i] = l, t[j] = k
      PROVE  i < j
  <2>1. i + 1 \in 1 .. Len(s) /\ j + 1 \in 1 .. Len(s) /\ s[i + 1] = l /\ s[j + 1] = k
    BY <1>1, <1>2
  <2>2. i + 1 < j + 1
    BY <2>1 DEF Ahead
  <2> QED
    BY <2>2
<1> QED
  BY <1>2 DEF Ahead, t

LEMMA WithoutKeepsAhead ==
    ASSUME NEW S, NEW s \in Seq(S), NEW e, NEW l, NEW k, Ahead(s, l, k)
    PROVE  Ahead(Without(s, e), l, k)
<1>1. CASE ~\E i \in 1 .. Len(s) : s[i] = e
  BY <1>1 DEF Without
<1>2. CASE \E i \in 1 .. Len(s) : s[i] = e
  <2> DEFINE at == CHOOSE i \in 1 .. Len(s) : s[i] = e
             t == Without(s, e)
  <2>1. at \in 1 .. Len(s) /\ s[at] = e
    BY <1>2
  <2>2. t = [i \in 1 .. Len(s) - 1 |-> IF i < at THEN s[i] ELSE s[i + 1]]
    BY <1>2 DEF Without
  <2> HIDE DEF at, t
  <2>3. Len(s) \in Nat /\ Len(s) - 1 \in Nat /\ Len(t) = Len(s) - 1
    BY <2>1, <2>2
  <2>4. \A i \in 1 .. Len(t) : /\ i \in 1 .. Len(s) /\ i + 1 \in 1 .. Len(s)
                               /\ t[i] = IF i < at THEN s[i] ELSE s[i + 1]
    BY <2>1, <2>2, <2>3
  <2>5. ASSUME NEW i \in 1 .. Len(t), NEW j \in 1 .. Len(t), t[i] = l, t[j] = k
        PROVE  i < j
    <3> DEFINE old(m) == IF m < at THEN m ELSE m + 1
    <3>1. /\ old(i) \in 1 .. Len(s) /\ old(j) \in 1 .. Len(s)
          /\ s[old(i)] = l /\ s[old(j)] = k
      BY <2>4, <2>5
    <3>2. old(i) < old(j)
      BY <3>1 DEF Ahead
    <3> QED
      BY <2>1, <2>3, <3>2
  <2> QED
    BY <2>5 DEF Ahead, t
<1> QED
  BY <1>1, <1>2

\* The gate q a step prepares for _dispatch: who is ahead stays ahead as long
\* as it waits, and nobody queued has a permit.
Prepared(q) ==
    /\ WellFormed(q)
    /\ q.done \subseteq gate.done
    /\ \A x \in Calls : Queued(q, x) => x \notin gate.done
    /\ \A l, k \in Lanes :
          l # k /\ Waits(gate, l) /\ Waits(q, l) /\ Ahead(gate.roundRobin, l, k)
          => Ahead(q.roundRobin, l, k)

\* The lane that is served is at the head of the rotation and goes behind the
\* others (_dispatch).
LEMMA ServedIsAtHead ==
    ASSUME NEW q, Prepared(q), Free(q), gate' = Granted(q)
    PROVE  LET lane == Head(q.roundRobin)
           IN  /\ Served = {lane}
               /\ \A l \in Lanes : l # lane /\ Waits(gate', l) =>
                     /\ Waits(q, l)
                     /\ ~Ahead(q.roundRobin, l, lane)
                     /\ Ahead(gate'.roundRobin, l, lane)
                     /\ \A k \in Lanes : k # lane /\ Ahead(q.roundRobin, l, k)
                           => Ahead(gate'.roundRobin, l, k)
<1> DEFINE lane == Head(q.roundRobin)
           rest == Tail(q.queues[lane])
           d == Head(q.queues[lane])
           others == Tail(q.roundRobin)
<1>1. /\ q \in Gate /\ q.queues \in [Lanes -> Seq(Calls)] /\ q.roundRobin \in Seq(Lanes)
      /\ q.done \subseteq Calls
  BY GateFields DEF Prepared, WellFormed
<1>2. /\ gate'.queues = [q.queues EXCEPT ![lane] = rest]
      /\ gate'.roundRobin = IF rest = <<>> THEN others ELSE Append(others, lane)
      /\ gate'.done = q.done \cup {d}
  <2>1. gate' = [q EXCEPT !.queues = [q.queues EXCEPT ![lane] = rest],
                          !.roundRobin = IF rest = <<>> THEN others ELSE Append(others, lane),
                          !.inUse = q.inUse + 1,
                          !.done = q.done \cup {d}]
    BY DEF Granted
  <2> HIDE DEF lane, rest, d, others
  <2> QED
    BY <1>1, <2>1 DEF Gate
<1>3. /\ q.roundRobin # <<>> /\ lane \in Lanes /\ others \in Seq(Lanes)
      /\ NoRepeat(q.roundRobin)
      /\ Listed(q.roundRobin) = Listed(others) \cup {lane} /\ lane \notin Listed(others)
  BY <1>1, TailLists DEF Free, Prepared, WellFormed
<1>4. q.queues[lane] \in Seq(Calls) /\ q.queues[lane] # <<>> /\ NoRepeat(q.queues[lane])
  BY <1>1, <1>3 DEF Prepared, WellFormed
<1>5. d \in Calls /\ d \in Listed(q.queues[lane])
  BY <1>4, TailLists
<1>6. LaneOf[d] = lane /\ d \notin gate.done
  <2>1. LaneOf[d] = lane
    BY <1>3, <1>5 DEF Prepared, WellFormed
  <2> HIDE DEF lane, d
  <2> QED
    BY <1>5, <2>1 DEF Prepared, Queued
<1>7. q.roundRobin[1] = lane /\ 1 \in 1 .. Len(q.roundRobin)
  BY <1>1, <1>3
<1> HIDE DEF lane, rest, d
<1>8. Served = {lane}
  <2>1. gate'.done \ gate.done = {d}
    BY <1>2, <1>6 DEF Prepared
  <2> QED
    BY <1>6, <2>1 DEF Served
<1>9. ASSUME NEW l \in Lanes, l # lane, Waits(gate', l)
      PROVE  /\ Waits(q, l)
             /\ ~Ahead(q.roundRobin, l, lane)
             /\ Ahead(gate'.roundRobin, l, lane)
             /\ \A k \in Lanes : k # lane /\ Ahead(q.roundRobin, l, k)
                   => Ahead(gate'.roundRobin, l, k)
  <2>1. Waits(q, l)
    BY <1>1, <1>2, <1>3, <1>9 DEF Waits
  <2>2. ~Ahead(q.roundRobin, l, lane)
    <3>1. l \in Listed(q.roundRobin)
      BY <2>1 DEF Prepared, WellFormed, Waits
    <3>2. PICK i \in 1 .. Len(q.roundRobin) : q.roundRobin[i] = l
      BY <3>1 DEF Listed
    <3> QED
      BY <1>7, <3>2 DEF Ahead
  <2>3. Ahead(gate'.roundRobin, l, lane)
    <3>1. CASE rest = <<>>
      <4>1. gate'.roundRobin = others
        BY <1>2, <3>1
      <4> HIDE DEF others
      <4> QED
        BY <1>3, <4>1 DEF Ahead, Listed
    <3>2. CASE rest # <<>>
      <4>1. gate'.roundRobin = Append(others, lane)
        BY <1>2, <3>2
      <4> HIDE DEF others
      <4> QED
        BY <1>3, <1>9, <4>1, AppendKeepsAhead
    <3> QED
      BY <3>1, <3>2
  <2>4. ASSUME NEW k \in Lanes, k # lane, Ahead(q.roundRobin, l, k)
        PROVE  Ahead(gate'.roundRobin, l, k)
    <3>1. Ahead(others, l, k)
      BY <1>1, <1>3, <2>4, TailKeepsAhead
    <3> HIDE DEF others
    <3> QED
      BY <1>2, <1>3, <1>9, <2>4, <3>1, AppendKeepsAhead
  <2> QED
    BY <2>1, <2>2, <2>3, <2>4
<1> QED
  BY <1>8, <1>9 DEF lane

\* A step of a call that prepares the gate q and dispatches.
LEMMA StepKeepsTurns ==
    ASSUME GateInv, TurnInv, NEW q, Prepared(q),
           NEW c \in Calls, NEW s, Steps(c, Dispatched(q), s)
    PROVE  TurnInv'
<1>0. /\ TypeOK
      /\ gate' = Dispatched(q)
      /\ passed' = [l \in Lanes |-> [k \in Lanes |->
             IF l \in Served \/ ~Waits(gate', l) \/ ~Waits(gate, l) THEN 0
             ELSE IF k \in Served /\ passed[l][k] < 2 THEN passed[l][k] + 1
             ELSE passed[l][k]]]
  BY DEF Steps, GateInv
<1> SUFFICES ASSUME NEW l \in Lanes, NEW k \in Lanes, passed'[l][k] # 0
             PROVE  /\ passed'[l][k] = 1 /\ l # k
                    /\ Waits(gate', l) /\ Ahead(gate'.roundRobin, l, k)
  BY DEF TurnInv
<1>1. l \notin Served /\ Waits(gate', l) /\ Waits(gate, l)
  BY <1>0
<1>2. passed'[l][k] = IF k \in Served /\ passed[l][k] < 2 THEN passed[l][k] + 1
                      ELSE passed[l][k]
  BY <1>0, <1>1
<1>3. /\ passed[l][k] \in 0 .. 2
      /\ passed[l][k] # 0 => passed[l][k] = 1 /\ l # k /\ Ahead(gate.roundRobin, l, k)
  BY <1>0 DEF TypeOK, TurnInv
<1>4. Waits(q, l) /\ passed[l][k] # 0 => Ahead(q.roundRobin, l, k)
  BY <1>1, <1>3 DEF Prepared
<1>5. CASE ~Free(q)
  <2>1. gate' = q
    BY <1>0, <1>5 DEF Dispatched
  <2>2. Served = {}
    BY <2>1 DEF Served, Prepared
  <2> QED
    BY <1>1, <1>2, <1>3, <1>4, <2>1, <2>2
<1>6. CASE Free(q)
  <2> DEFINE lane == Head(q.roundRobin)
  <2>1. gate' = Granted(q)
    BY <1>0, <1>6 DEF Dispatched
  <2>2. Served = {lane}
    BY <1>6, <2>1, ServedIsAtHead
  <2>3. l # lane
    BY <1>1, <2>2
  <2>4. /\ Waits(q, l)
        /\ ~Ahead(q.roundRobin, l, lane)
        /\ Ahead(gate'.roundRobin, l, lane)
        /\ k # lane /\ Ahead(q.roundRobin, l, k) => Ahead(gate'.roundRobin, l, k)
    BY <1>1, <1>6, <2>1, <2>3, ServedIsAtHead
  <2> HIDE DEF lane
  <2>5. CASE k = lane
    <3>1. passed[l][k] = 0
      BY <1>4, <2>4, <2>5
    <3> QED
      BY <1>1, <1>2, <2>2, <2>3, <2>4, <2>5, <3>1
  <2>6. CASE k # lane
    <3>1. passed'[l][k] = passed[l][k]
      BY <1>2, <2>2, <2>6
    <3> QED
      BY <1>1, <1>3, <1>4, <2>4, <2>6, <3>1
  <2> QED
    BY <2>5, <2>6
<1> QED
  BY <1>5, <1>6

\* A gate nobody may be served from dispatches to itself.
LEMMA NothingToDispatch ==
    ASSUME NEW q, ~Free(q)
    PROVE  Dispatched(q) = q
BY DEF Dispatched

\* Joining a queue, giving back a permit and leaving a queue keep the turns.
LEMMA EnqueuedIsPrepared ==
    ASSUME GateInv, NEW c \in Calls, stage[c] = "idle"
    PROVE  Prepared(Enqueued(gate, c))
<1> DEFINE q == Enqueued(gate, c)
           lane == LaneOf[c]
<1>1. /\ WellFormed(gate) /\ c \notin gate.done /\ lane \in Lanes
      /\ \A x \in Calls : Queued(gate, x) => x \notin gate.done
      /\ ~Queued(gate, c)
  BY GateAssumption DEF GateInv, Queued
<1>2. /\ WellFormed(q) /\ q.done = gate.done
      /\ \A d \in Calls : Queued(q, d) <=> d = c \/ Queued(gate, d)
  BY <1>1, EnqueuedIsWell
<1>3. gate.roundRobin \in Seq(Lanes) /\ gate \in Gate
  BY <1>1, GateFields DEF WellFormed
<1>4. q.roundRobin = IF Waits(gate, lane) THEN gate.roundRobin
                     ELSE Append(gate.roundRobin, lane)
  BY <1>3 DEF Enqueued, Gate
<1> HIDE DEF q
<1>5. ASSUME NEW l \in Lanes, NEW k \in Lanes, l # k, Waits(gate, l),
             Ahead(gate.roundRobin, l, k)
      PROVE  Ahead(q.roundRobin, l, k)
  <2>1. ~Waits(gate, lane) => lane \notin Listed(gate.roundRobin)
    BY <1>1 DEF WellFormed, Waits
  <2> QED
    BY <1>1, <1>3, <1>4, <1>5, <2>1, AppendKeepsAhead
<1> QED
  BY <1>1, <1>2, <1>5 DEF Prepared, q

LEMMA ReturnedIsPrepared ==
    ASSUME GateInv, NEW c \in gate.done
    PROVE  LET q == [gate EXCEPT !.inUse = @ - 1, !.done = @ \ {c}]
           IN  Prepared(q)
<1> DEFINE n == gate.inUse - 1
           others == gate.done \ {c}
           q == [gate EXCEPT !.inUse = n, !.done = others]
<1>1. /\ gate \in Gate /\ WellFormed(gate) /\ gate.inUse \in 0 .. Limit
      /\ gate.done \subseteq Calls /\ IsFiniteSet(gate.done)
      /\ Cardinality(gate.done) \in Nat /\ Limit \in Nat
      /\ \A x \in Calls : Queued(gate, x) => x \notin gate.done
  BY GateFields DEF GateInv, WellFormed, Queued
<1>2. /\ q.queues = gate.queues /\ q.roundRobin = gate.roundRobin
      /\ q.inUse = n /\ q.done = others
      /\ q = [queues |-> gate.queues, roundRobin |-> gate.roundRobin,
              inUse |-> n, done |-> others]
  <2>1. q = [gate EXCEPT !.inUse = n, !.done = others]
    OBVIOUS
  <2> HIDE DEF n, others, q
  <2> QED
    BY <1>1, <2>1 DEF Gate
<1> HIDE DEF q
<1>3. Cardinality(others) = Cardinality(gate.done) - 1 /\ Cardinality(others) \in Nat
  BY <1>1, FS_RemoveElement, FS_CardinalityType
<1>4. WellFormed(q)
  <2>1. q.inUse = Cardinality(q.done) /\ q.inUse \in 0 .. Limit
    BY <1>1, <1>2, <1>3 DEF WellFormed
  <2>2. q \in Gate
    BY <1>1, <1>2, <2>1 DEF Gate
  <2> QED
    BY <1>1, <1>2, <2>1, <2>2 DEF WellFormed
<1>5. Prepared(q)
  BY <1>1, <1>2, <1>4 DEF Prepared, Queued
<1> QED
  BY <1>5 DEF q

LEMMA WithdrawnIsPrepared ==
    ASSUME GateInv, NEW c \in Calls
    PROVE  Prepared(Withdrawn(gate, c)) /\ ~Free(Withdrawn(gate, c))
<1> DEFINE q == Withdrawn(gate, c)
           rest == Without(gate.queues[LaneOf[c]], c)
<1>1. /\ WellFormed(gate) /\ ~Free(gate)
      /\ \A x \in Calls : Queued(gate, x) => x \notin gate.done
  BY DEF GateInv, Queued, NoIdlePermit
<1>2. /\ WellFormed(q) /\ q.inUse = gate.inUse /\ q.done = gate.done
      /\ \A x \in Calls : Queued(q, x) <=> x # c /\ Queued(gate, x)
      /\ gate.roundRobin = <<>> => q.roundRobin = <<>>
  BY <1>1, WithdrawnIsWell
<1>3. gate.roundRobin \in Seq(Lanes) /\ gate \in Gate
  BY <1>1, GateFields DEF WellFormed
<1>4. q.roundRobin = IF rest = <<>> THEN Without(gate.roundRobin, LaneOf[c])
                     ELSE gate.roundRobin
  BY <1>3 DEF Withdrawn, Gate
<1> HIDE DEF q, rest
<1>5. \A l, k \in Lanes : Ahead(gate.roundRobin, l, k) => Ahead(q.roundRobin, l, k)
  BY <1>3, <1>4, WithoutKeepsAhead
<1>6. ~Free(q)
  BY <1>1, <1>2 DEF Free
<1> QED
  BY <1>1, <1>2, <1>5, <1>6 DEF Prepared, q

LEMMA StepTurnInv == GateInv /\ TurnInv /\ [Next]_vars => TurnInv'
<1> SUFFICES ASSUME GateInv, TurnInv, [Next]_vars PROVE TurnInv'
  OBVIOUS
<1>0. Prepared(gate) /\ ~Free(gate)
  BY DEF GateInv, Prepared, Queued, NoIdlePermit
<1>1. ASSUME NEW c \in Calls, Acquire(c) PROVE TurnInv'
  BY <1>1, EnqueuedIsPrepared, StepKeepsTurns DEF Acquire
<1>2. ASSUME NEW c \in Calls, Enter(c) \/ Cancel(c) PROVE TurnInv'
  <2>1. PICK s : Steps(c, gate, s)
    BY <1>2 DEF Enter, Cancel
  <2> QED
    BY <1>0, <2>1, NothingToDispatch, StepKeepsTurns
<1>3. ASSUME NEW c \in Calls, c \in gate.done, Steps(c, Returned(gate, c), "idle")
      PROVE  TurnInv'
  BY <1>3, ReturnedIsPrepared, StepKeepsTurns DEF Returned
<1>4. ASSUME NEW c \in Calls, CancelWaiter(c) PROVE TurnInv'
  <2>1. CASE c \in gate.done
    BY <1>3, <1>4, <2>1 DEF CancelWaiter
  <2>2. CASE c \notin gate.done
    BY <1>4, <2>2, WithdrawnIsPrepared, NothingToDispatch, StepKeepsTurns DEF CancelWaiter
  <2> QED
    BY <2>1, <2>2
<1>5. ASSUME NEW c \in Calls, Release(c) PROVE TurnInv'
  BY <1>3, <1>5 DEF Release, GateInv
<1>6. CASE UNCHANGED vars
  BY <1>6 DEF vars, TurnInv, Waits
<1> QED
  BY <1>1, <1>2, <1>4, <1>5, <1>6 DEF Next

\* While a lane waits no other lane is granted a second permit, whatever is
\* cancelled or withdrawn meanwhile (_dispatch, _cancel_waiter).
THEOREM LanesTakeTurns == Spec => []NoLaneServedTwice
<1>1. Init => TurnInv
  BY DEF Init, TurnInv
<1>2. TurnInv => NoLaneServedTwice
  <2> SUFFICES ASSUME TurnInv, NEW l \in Lanes, NEW k \in Lanes PROVE passed[l][k] <= 1
    BY DEF NoLaneServedTwice
  <2> QED
    BY DEF TurnInv
<1> QED
  BY <1>1, <1>2, StepTurnInv, GateInvariant, PTL DEF Spec
=============================================================================
