---------------------------- MODULE StressProofs ----------------------------
(***************************************************************************)
(* fanstress stops its loads before it writes, keeps them in their phases, *)
(* frees nothing in use and reports what happened, for any number of       *)
(* workers, phases and presses of Ctrl-C.                                  *)
(***************************************************************************)
EXTENDS Stress, SequenceTheorems, TLAPS

Stopping == {"set cpu", "join cpu", "set gpu", "join gpu"}
Calls == Stopping \cup {"unset cpu", "fork", "append", "start gpu", "free", "clear", "forget"}

\* The calls a statement of run may still have to make.
Allowed(at) ==
  CASE at = "sample"  -> {"set cpu", "join cpu", "unset cpu", "fork", "append", "start gpu"}
    [] at = "print"   -> Stopping \cup {"forget"}
    [] at = "next"    -> Stopping \cup {"forget", "free", "clear"}
    [] at = "unwind"  -> {"set cpu", "join cpu"}
    [] at = "finally" -> Stopping \cup {"free", "clear"}
    [] OTHER          -> {}

Followed(list, first, second) ==
  \A i \in 1..Len(list) : list[i] = first => i < Len(list) /\ list[i + 1] = second

\* What the tail of a list inherits: the thread is told before it is joined and joined
\* before its objects are freed; a worker that was forked is appended next, and the handles
\* of objects that were freed are cleared next.
Ordered(list) ==
  /\ \A i \in 2..Len(list) : list[i] = "join gpu" => list[i - 1] = "set gpu"
  /\ \A i \in 2..Len(list) : list[i] = "free" => list[i - 1] = "join gpu"
  /\ Followed(list, "fork", "append") /\ Followed(list, "free", "clear")

\* A list as it is handed out does not begin in the middle of this.
Whole(list) ==
  /\ list \in Seq(Calls)
  /\ Ordered(list)
  /\ Len(list) > 0 => list[1] \notin {"join gpu", "free", "append"}

Contains(list, call) == \E i \in 1..Len(list) : list[i] = call
JoinsFirst(list) ==
  \E i \in 1..Len(list) : list[i] = "join cpu" /\ \A j \in 1..i : list[j] # "forget"

Awaits(call) == Contains(todo, call)

-----------------------------------------------------------------------------
\* The tail of a list.

LEMMA TailFacts ==
  ASSUME NEW S, NEW list \in Seq(S), list # <<>>
  PROVE  /\ Len(list) \in Nat \ {0} /\ Head(list) = list[1]
         /\ Tail(list) \in Seq(S) /\ Len(Tail(list)) = Len(list) - 1
         /\ \A i \in 1..Len(Tail(list)) : i + 1 \in 1..Len(list) /\ Tail(list)[i] = list[i + 1]
<1>1. Len(list) \in Nat \ {0} /\ Head(list) = list[1]
  OBVIOUS
<1>2. /\ Tail(list) \in Seq(S) /\ Len(Tail(list)) = Len(list) - 1
      /\ \A i \in 1..Len(Tail(list)) : Tail(list)[i] = list[i + 1]
  BY HeadTailProperties
<1>. QED
  BY <1>1, <1>2

LEMMA TailOrdered ==
  ASSUME NEW list \in Seq(Calls), list # <<>>, Ordered(list)
  PROVE  /\ Ordered(Tail(list))
         /\ Tail(list) # <<>> =>
              /\ Head(Tail(list)) = "join gpu" => Head(list) = "set gpu"
              /\ Head(Tail(list)) = "free" => Head(list) = "join gpu"
         /\ Head(list) = "fork" => Tail(list) # <<>> /\ Head(Tail(list)) = "append"
         /\ Head(list) = "free" => Tail(list) # <<>> /\ Head(Tail(list)) = "clear"
<1>1. /\ Len(list) \in Nat \ {0} /\ Head(list) = list[1]
      /\ Tail(list) \in Seq(Calls) /\ Len(Tail(list)) = Len(list) - 1
      /\ \A i \in 1..Len(Tail(list)) : i + 1 \in 1..Len(list) /\ Tail(list)[i] = list[i + 1]
  BY TailFacts
<1>2. ASSUME NEW i \in 2..Len(Tail(list))
      PROVE  /\ Tail(list)[i] = list[i + 1] /\ i + 1 \in 2..Len(list)
             /\ Tail(list)[i - 1] = list[(i + 1) - 1]
  <2>1. i - 1 \in 1..Len(Tail(list)) /\ i \in 1..Len(Tail(list)) /\ (i - 1) + 1 = (i + 1) - 1
    BY <1>1
  <2>. QED
    BY <1>1, <2>1
<1>3. \A i \in 2..Len(Tail(list)) : Tail(list)[i] = "join gpu" => Tail(list)[i - 1] = "set gpu"
  BY <1>2 DEF Ordered
<1>4. \A i \in 2..Len(Tail(list)) : Tail(list)[i] = "free" => Tail(list)[i - 1] = "join gpu"
  BY <1>2 DEF Ordered
<1>5. ASSUME NEW first, NEW second, Followed(list, first, second)
      PROVE  Followed(Tail(list), first, second)
  <2>. SUFFICES ASSUME NEW i \in 1..Len(Tail(list)), Tail(list)[i] = first
                PROVE  i < Len(Tail(list)) /\ Tail(list)[i + 1] = second
    BY DEF Followed
  <2>1. i + 1 \in 1..Len(list) /\ list[i + 1] = first
    BY <1>1
  <2>2. i + 1 < Len(list) /\ list[(i + 1) + 1] = second
    BY <1>5, <2>1 DEF Followed
  <2>3. i + 1 \in 1..Len(Tail(list))
    BY <1>1, <2>2
  <2>. QED
    BY <1>1, <2>2, <2>3
<1>6. ASSUME Tail(list) # <<>>
      PROVE  Head(Tail(list)) = list[2] /\ 2 \in 2..Len(list) /\ list[2 - 1] = Head(list)
  <2>1. Len(Tail(list)) \in Nat \ {0} /\ Head(Tail(list)) = Tail(list)[1]
    BY <1>1, <1>6, TailFacts
  <2>. QED
    BY <1>1, <2>1
<1>7. Tail(list) # <<>> =>
        /\ Head(Tail(list)) = "join gpu" => Head(list) = "set gpu"
        /\ Head(Tail(list)) = "free" => Head(list) = "join gpu"
  BY <1>6 DEF Ordered
<1>8. ASSUME NEW first, NEW second, Followed(list, first, second), Head(list) = first
      PROVE  Tail(list) # <<>> /\ Head(Tail(list)) = second
  <2>1. 1 \in 1..Len(list) /\ list[1] = first
    BY <1>1, <1>8
  <2>2. 1 < Len(list) /\ list[1 + 1] = second
    BY <1>8, <2>1 DEF Followed
  <2>3. Tail(list) # <<>>
    <3>1. Len(Tail(list)) # 0
      BY <1>1, <2>2
    <3>2. Len(<<>>) = 0
      OBVIOUS
    <3>. QED
      BY <3>1, <3>2, Zenon
  <2>. QED
    BY <1>6, <2>2, <2>3
<1>9. Followed(list, "fork", "append") /\ Followed(list, "free", "clear")
  BY DEF Ordered
<1>10. Followed(Tail(list), "fork", "append") /\ Followed(Tail(list), "free", "clear")
  BY <1>5, <1>9
<1>11. /\ Head(list) = "fork" => Tail(list) # <<>> /\ Head(Tail(list)) = "append"
       /\ Head(list) = "free" => Tail(list) # <<>> /\ Head(Tail(list)) = "clear"
  BY <1>8, <1>9
<1>. QED
  BY <1>3, <1>4, <1>7, <1>10, <1>11 DEF Ordered

LEMMA TailContains ==
  ASSUME NEW list \in Seq(Calls), list # <<>>, NEW call
  PROVE  /\ Contains(Tail(list), call) => Contains(list, call)
         /\ Contains(list, call) => Contains(Tail(list), call) \/ Head(list) = call
         /\ Contains(list, Head(list))
<1>1. /\ Len(list) \in Nat \ {0} /\ Head(list) = list[1]
      /\ Len(Tail(list)) = Len(list) - 1
      /\ \A i \in 1..Len(Tail(list)) : i + 1 \in 1..Len(list) /\ Tail(list)[i] = list[i + 1]
  BY TailFacts
<1>2. Contains(Tail(list), call) => Contains(list, call)
  BY <1>1 DEF Contains
<1>3. ASSUME NEW i \in 1..Len(list), list[i] = call, Head(list) # call
      PROVE  Contains(Tail(list), call)
  <2>1. i # 1
    BY <1>1, <1>3
  <2>2. i - 1 \in 1..Len(Tail(list)) /\ (i - 1) + 1 = i
    BY <1>1, <2>1
  <2>3. Tail(list)[i - 1] = call
    BY <1>1, <1>3, <2>2
  <2>. QED
    BY <2>2, <2>3 DEF Contains
<1>. QED
  BY <1>1, <1>2, <1>3 DEF Contains

LEMMA TailJoins ==
  ASSUME NEW list \in Seq(Calls), list # <<>>, JoinsFirst(list)
  PROVE  Head(list) # "forget" /\ (JoinsFirst(Tail(list)) \/ Head(list) = "join cpu")
<1>1. /\ Len(list) \in Nat \ {0} /\ Head(list) = list[1]
      /\ Len(Tail(list)) = Len(list) - 1
      /\ \A i \in 1..Len(Tail(list)) : i + 1 \in 1..Len(list) /\ Tail(list)[i] = list[i + 1]
  BY TailFacts
<1>2. PICK i \in 1..Len(list) : list[i] = "join cpu" /\ \A j \in 1..i : list[j] # "forget"
  BY DEF JoinsFirst
<1>3. Head(list) # "forget"
  <2>1. 1 \in 1..i
    BY <1>1
  <2>. QED
    BY <1>1, <1>2, <2>1
<1>4. ASSUME Head(list) # "join cpu"
      PROVE  JoinsFirst(Tail(list))
  <2>1. i # 1
    BY <1>1, <1>2, <1>4
  <2>2. i - 1 \in 1..Len(Tail(list)) /\ (i - 1) + 1 = i
    BY <1>1, <2>1
  <2>3. Tail(list)[i - 1] = "join cpu"
    BY <1>1, <1>2, <2>2
  <2>4. \A j \in 1..(i - 1) : j \in 1..Len(Tail(list)) /\ j + 1 \in 1..i
    BY <1>1, <2>2
  <2>5. \A j \in 1..(i - 1) : Tail(list)[j] # "forget"
    BY <1>1, <1>2, <2>4
  <2>. QED
    BY <2>2, <2>3, <2>5 DEF JoinsFirst
<1>. QED
  BY <1>3, <1>4

-----------------------------------------------------------------------------
\* One list after another.

LEMMA ConcatFacts ==
  ASSUME NEW s \in Seq(Calls), NEW t \in Seq(Calls)
  PROVE  /\ s \o t \in Seq(Calls)
         /\ Len(s) \in Nat /\ Len(t) \in Nat /\ Len(s \o t) = Len(s) + Len(t)
         /\ \A i \in 1..Len(s) : i \in 1..Len(s \o t) /\ (s \o t)[i] = s[i]
         /\ \A i \in 1..Len(t) : i + Len(s) \in 1..Len(s \o t) /\ (s \o t)[i + Len(s)] = t[i]
         /\ \A i \in 1..Len(s \o t) : i \notin 1..Len(s) => i - Len(s) \in 1..Len(t)
                                                          /\ (s \o t)[i] = t[i - Len(s)]
<1>1. /\ s \o t \in Seq(Calls)
      /\ Len(s) \in Nat /\ Len(t) \in Nat /\ Len(s \o t) = Len(s) + Len(t)
      /\ \A i \in 1..(Len(s) + Len(t)) : (s \o t)[i] = IF i <= Len(s) THEN s[i]
                                                       ELSE t[i - Len(s)]
  BY ConcatProperties, LenProperties
<1>2. ASSUME NEW i \in 1..Len(t)
      PROVE  i + Len(s) \in 1..Len(s \o t) /\ (s \o t)[i + Len(s)] = t[i]
  <2>1. i + Len(s) \in 1..(Len(s) + Len(t)) /\ ~(i + Len(s) <= Len(s)) /\ (i + Len(s)) - Len(s) = i
    BY <1>1
  <2>. QED
    BY <1>1, <2>1
<1>3. \A i \in 1..Len(s) : i \in 1..Len(s \o t) /\ (s \o t)[i] = s[i]
  BY <1>1
<1>4. \A i \in 1..Len(s \o t) : i \notin 1..Len(s) => i - Len(s) \in 1..Len(t)
                                                    /\ (s \o t)[i] = t[i - Len(s)]
  BY <1>1
<1>. QED
  BY <1>1, <1>2, <1>3, <1>4

LEMMA ConcatContains ==
  ASSUME NEW s \in Seq(Calls), NEW t \in Seq(Calls), NEW call
  PROVE  Contains(s \o t, call) <=> Contains(s, call) \/ Contains(t, call)
<1>1. Contains(s, call) => Contains(s \o t, call)
  BY ConcatFacts DEF Contains
<1>2. ASSUME NEW i \in 1..Len(t), t[i] = call
      PROVE  Contains(s \o t, call)
  BY <1>2, ConcatFacts DEF Contains
<1>3. ASSUME NEW i \in 1..Len(s \o t), (s \o t)[i] = call
      PROVE  Contains(s, call) \/ Contains(t, call)
  BY <1>3, ConcatFacts DEF Contains
<1>. QED
  BY <1>1, <1>2, <1>3 DEF Contains

LEMMA ConcatJoins ==
  ASSUME NEW s \in Seq(Calls), NEW t \in Seq(Calls), JoinsFirst(s)
  PROVE  JoinsFirst(s \o t)
<1>1. PICK i \in 1..Len(s) : s[i] = "join cpu" /\ \A j \in 1..i : s[j] # "forget"
  BY DEF JoinsFirst
<1>2. i \in 1..Len(s \o t) /\ (s \o t)[i] = "join cpu"
  BY <1>1, ConcatFacts
<1>3. \A j \in 1..i : j \in 1..Len(s)
  BY ConcatFacts
<1>4. \A j \in 1..i : (s \o t)[j] # "forget"
  BY <1>1, <1>3, ConcatFacts
<1>. QED
  BY <1>2, <1>4 DEF JoinsFirst

LEMMA ConcatWhole ==
  ASSUME NEW s, NEW t, Whole(s), Whole(t)
  PROVE  Whole(s \o t)
<1>0. s \in Seq(Calls) /\ t \in Seq(Calls)
  BY DEF Whole
<1>. DEFINE L == Len(s)
            c == s \o t
<1>1. /\ c \in Seq(Calls)
      /\ L \in Nat /\ Len(t) \in Nat /\ Len(c) = L + Len(t)
      /\ \A i \in 1..L : i \in 1..Len(c) /\ c[i] = s[i]
      /\ \A i \in 1..Len(c) : i \notin 1..L => i - L \in 1..Len(t) /\ c[i] = t[i - L]
  BY <1>0, ConcatFacts
<1>. HIDE DEF c, L
<1>2. /\ \A i \in 2..L : s[i] = "join gpu" => s[i - 1] = "set gpu"
      /\ \A i \in 2..L : s[i] = "free" => s[i - 1] = "join gpu"
      /\ Followed(s, "fork", "append") /\ Followed(s, "free", "clear")
  BY DEF Whole, Ordered, L
<1>3. /\ \A i \in 2..Len(t) : t[i] = "join gpu" => t[i - 1] = "set gpu"
      /\ \A i \in 2..Len(t) : t[i] = "free" => t[i - 1] = "join gpu"
      /\ Followed(t, "fork", "append") /\ Followed(t, "free", "clear")
      /\ Len(t) > 0 => t[1] \notin {"join gpu", "free", "append"}
  BY DEF Whole, Ordered
<1>4. ASSUME NEW i \in 2..Len(c), i \in 1..L
      PROVE  c[i] = s[i] /\ c[i - 1] = s[i - 1] /\ i \in 2..L
  <2>1. i - 1 \in 1..L /\ i \in 2..L
    BY <1>1, <1>4
  <2>. QED
    BY <1>1, <1>4, <2>1
<1>5. ASSUME NEW i \in 2..Len(c), i \notin 1..L, i - L # 1
      PROVE  c[i] = t[i - L] /\ c[i - 1] = t[(i - L) - 1] /\ i - L \in 2..Len(t)
  <2>1. i - L \in 2..Len(t)
    BY <1>1, <1>5
  <2>2. i - 1 \in 1..Len(c) /\ i - 1 \notin 1..L /\ (i - 1) - L = (i - L) - 1
    BY <1>1, <2>1
  <2>3. c[i - 1] = t[(i - 1) - L]
    BY <1>1, <2>2
  <2>. QED
    BY <1>1, <1>5, <2>1, <2>2, <2>3
<1>6. ASSUME NEW i \in 2..Len(c), i \notin 1..L, i - L = 1
      PROVE  c[i] \notin {"join gpu", "free"}
  <2>1. c[i] = t[1] /\ Len(t) > 0
    BY <1>1, <1>6
  <2>. QED
    BY <1>3, <2>1
<1>7. \A i \in 2..Len(c) : c[i] = "join gpu" => c[i - 1] = "set gpu"
  <2>. SUFFICES ASSUME NEW i \in 2..Len(c), c[i] = "join gpu"
                PROVE  c[i - 1] = "set gpu"
    OBVIOUS
  <2>1. CASE i \in 1..L
    BY <1>2, <1>4, <2>1
  <2>2. CASE i \notin 1..L
    BY <1>3, <1>5, <1>6, <2>2
  <2>. QED
    BY <2>1, <2>2
<1>8. \A i \in 2..Len(c) : c[i] = "free" => c[i - 1] = "join gpu"
  <2>. SUFFICES ASSUME NEW i \in 2..Len(c), c[i] = "free"
                PROVE  c[i - 1] = "join gpu"
    OBVIOUS
  <2>1. CASE i \in 1..L
    BY <1>2, <1>4, <2>1
  <2>2. CASE i \notin 1..L
    BY <1>3, <1>5, <1>6, <2>2
  <2>. QED
    BY <2>1, <2>2
<1>9. ASSUME NEW first, NEW second,
             Followed(s, first, second), Followed(t, first, second)
      PROVE  Followed(c, first, second)
  <2>. SUFFICES ASSUME NEW i \in 1..Len(c), c[i] = first
                PROVE  i < Len(c) /\ c[i + 1] = second
    BY DEF Followed
  <2>1. CASE i \in 1..L
    <3>1. i < L /\ s[i + 1] = second
      BY <1>1, <1>9, <2>1 DEF Followed, L
    <3>2. i + 1 \in 1..L
      BY <1>1, <3>1
    <3>. QED
      BY <1>1, <3>1, <3>2
  <2>2. CASE i \notin 1..L
    <3>1. i - L \in 1..Len(t) /\ t[i - L] = first
      BY <1>1, <2>2
    <3>2. i - L < Len(t) /\ t[(i - L) + 1] = second
      BY <1>9, <3>1 DEF Followed
    <3>3. i + 1 \in 1..Len(c) /\ i + 1 \notin 1..L /\ (i + 1) - L = (i - L) + 1
      BY <1>1, <2>2, <3>2
    <3>. QED
      BY <1>1, <3>2, <3>3
  <2>. QED
    BY <2>1, <2>2
<1>10. Len(c) > 0 => c[1] \notin {"join gpu", "free", "append"}
  <2>1. ASSUME L > 0
        PROVE  c[1] \notin {"join gpu", "free", "append"}
    <3>1. c[1] = s[1] /\ Len(s) > 0
      BY <1>1, <2>1 DEF L
    <3>. QED
      BY <3>1 DEF Whole
  <2>2. ASSUME L = 0, Len(c) > 0
        PROVE  c[1] \notin {"join gpu", "free", "append"}
    <3>1. s = <<>>
      BY <1>0, <2>2, EmptySeq DEF L
    <3>2. <<>> \o t = t
      BY <1>0, ConcatEmptySeq
    <3>3. c = t
      BY <3>1, <3>2, Zenon DEF c
    <3>. QED
      BY <1>3, <2>2, <3>3
  <2>3. L > 0 \/ L = 0
    BY <1>1
  <2>. QED
    BY <2>1, <2>2, <2>3, Zenon
<1>11. Followed(c, "fork", "append") /\ Followed(c, "free", "clear")
  BY <1>2, <1>3, <1>9
<1>12. Ordered(c)
  BY <1>7, <1>8, <1>11 DEF Ordered
<1>. QED
  BY <1>1, <1>10, <1>12 DEF Whole, c

-----------------------------------------------------------------------------
\* The lists of the model.

LEMMA EmptyList == Whole(<<>>) /\ \A call : ~Contains(<<>>, call)
<1>1. <<>> \in Seq(Calls) /\ Len(<<>>) = 0
  BY EmptySeq
<1>. QED
  BY <1>1 DEF Whole, Ordered, Followed, Contains

LEMMA Indices ==
  /\ \A i \in 1..1 : i = 1
  /\ \A i \in 1..2 : i \in {1, 2}
  /\ \A i \in 1..4 : i \in {1, 2, 3, 4}
  /\ \A i : i \notin 2..1
  /\ \A i \in 2..2 : i = 2
  /\ \A i \in 2..4 : i \in {2, 3, 4}
  /\ 1 \in 1..1 /\ {1, 2} \subseteq 1..2 /\ {1, 2, 3, 4} \subseteq 1..4
  /\ 2 - 1 = 1 /\ 3 - 1 = 2
OBVIOUS

LEMMA SingleLists ==
  /\ Whole(<<"unset cpu">>) /\ \A c : Contains(<<"unset cpu">>, c) <=> c = "unset cpu"
  /\ Whole(<<"start gpu">>) /\ \A c : Contains(<<"start gpu">>, c) <=> c = "start gpu"
  /\ Whole(<<"forget">>) /\ \A c : Contains(<<"forget">>, c) <=> c = "forget"
<1>1. /\ <<"unset cpu">> \in Seq(Calls) /\ Len(<<"unset cpu">>) = 1
      /\ <<"unset cpu">>[1] = "unset cpu"
  BY DEF Calls
<1>2. /\ <<"start gpu">> \in Seq(Calls) /\ Len(<<"start gpu">>) = 1
      /\ <<"start gpu">>[1] = "start gpu"
  BY DEF Calls
<1>3. /\ <<"forget">> \in Seq(Calls) /\ Len(<<"forget">>) = 1
      /\ <<"forget">>[1] = "forget"
  BY DEF Calls
<1>4. /\ \A c : Contains(<<"unset cpu">>, c) <=> c = "unset cpu"
      /\ \A c : Contains(<<"start gpu">>, c) <=> c = "start gpu"
      /\ \A c : Contains(<<"forget">>, c) <=> c = "forget"
  BY <1>1, <1>2, <1>3, Indices DEF Contains
<1>5. Whole(<<"unset cpu">>) /\ Whole(<<"start gpu">>) /\ Whole(<<"forget">>)
  BY <1>1, <1>2, <1>3, Indices DEF Whole, Ordered, Followed
<1>. QED
  BY <1>4, <1>5

LEMMA StopCpuList ==
  /\ Whole(StopCpu) /\ JoinsFirst(StopCpu)
  /\ \A call : Contains(StopCpu, call) <=> call \in {"set cpu", "join cpu"}
<1>1. /\ StopCpu \in Seq(Calls) /\ Len(StopCpu) = 2
      /\ StopCpu[1] = "set cpu" /\ StopCpu[2] = "join cpu"
  BY DEF StopCpu, Calls, Stopping
<1>2. Whole(StopCpu)
  BY <1>1, Indices DEF Whole, Ordered, Followed
<1>3. JoinsFirst(StopCpu)
  BY <1>1, Indices DEF JoinsFirst
<1>4. \A call : Contains(StopCpu, call) <=> call \in {"set cpu", "join cpu"}
  BY <1>1, Indices DEF Contains
<1>. QED
  BY <1>2, <1>3, <1>4

LEMMA StopGpuList ==
  /\ Whole(StopGpu)
  /\ \A call : Contains(StopGpu, call) <=> call \in {"set gpu", "join gpu"}
<1>1. /\ StopGpu \in Seq(Calls) /\ Len(StopGpu) = 2
      /\ StopGpu[1] = "set gpu" /\ StopGpu[2] = "join gpu"
  BY DEF StopGpu, Calls, Stopping
<1>2. Whole(StopGpu)
  BY <1>1, Indices DEF Whole, Ordered, Followed
<1>3. \A call : Contains(StopGpu, call) <=> call \in {"set gpu", "join gpu"}
  BY <1>1, Indices DEF Contains
<1>. QED
  BY <1>2, <1>3

LEMMA StopsList ==
  ASSUME NEW loads
  PROVE  /\ Whole(Stops(loads))
         /\ "cpu" \in loads => JoinsFirst(Stops(loads))
         /\ \A call : Contains(Stops(loads), call) <=>
                        \/ "cpu" \in loads /\ call \in {"set cpu", "join cpu"}
                        \/ "gpu" \in loads /\ call \in {"set gpu", "join gpu"}
<1>. DEFINE s == IF "cpu" \in loads THEN StopCpu ELSE <<>>
            t == IF "gpu" \in loads THEN StopGpu ELSE <<>>
<1>1. /\ Whole(s) /\ ("cpu" \in loads => JoinsFirst(s))
      /\ \A call : Contains(s, call) <=> "cpu" \in loads /\ call \in {"set cpu", "join cpu"}
  BY StopCpuList, EmptyList
<1>2. /\ Whole(t)
      /\ \A call : Contains(t, call) <=> "gpu" \in loads /\ call \in {"set gpu", "join gpu"}
  BY StopGpuList, EmptyList
<1>3. Stops(loads) = s \o t
  BY DEF Stops
<1>. HIDE DEF s, t
<1>4. s \in Seq(Calls) /\ t \in Seq(Calls)
  BY <1>1, <1>2 DEF Whole
<1>5. Whole(s \o t)
  BY <1>1, <1>2, ConcatWhole
<1>6. "cpu" \in loads => JoinsFirst(s \o t)
  BY <1>1, <1>4, ConcatJoins
<1>7. \A call : Contains(s \o t, call) <=> Contains(s, call) \/ Contains(t, call)
  BY <1>4, ConcatContains
<1>. QED
  BY <1>1, <1>2, <1>3, <1>5, <1>6, <1>7

LEMMA ReleaseList ==
  /\ Whole(Release)
  /\ \A call : Contains(Release, call) <=>
                 gpu /\ call \in {"set gpu", "join gpu", "free", "clear"}
<1>. DEFINE list == StopGpu \o <<"free", "clear">>
<1>1. /\ list \in Seq(Calls) /\ Len(list) = 4
      /\ list[1] = "set gpu" /\ list[2] = "join gpu" /\ list[3] = "free" /\ list[4] = "clear"
  BY DEF Calls, Stopping, StopGpu
<1>2. Release = IF gpu THEN list ELSE <<>>
  BY DEF Release
<1>. HIDE DEF list
<1>3. /\ \A i \in 2..4 : list[i] = "join gpu" => i = 2
      /\ \A i \in 2..4 : list[i] = "free" => i = 3
      /\ \A i \in 1..4 : list[i] # "fork"
      /\ \A i \in 1..4 : list[i] = "free" => i = 3
  BY <1>1, Indices
<1>6. Followed(list, "free", "clear")
  <2>1. 3 < 4 /\ 3 + 1 = 4
    OBVIOUS
  <2>2. list[3 + 1] = "clear"
    BY <1>1, <2>1, Zenon
  <2>. QED
    BY <1>1, <1>3, <2>1, <2>2 DEF Followed
<1>4. Whole(list)
  BY <1>1, <1>3, <1>6, Indices DEF Whole, Ordered, Followed
<1>5. \A call : Contains(list, call) <=> call \in {"set gpu", "join gpu", "free", "clear"}
  BY <1>1, Indices DEF Contains
<1>. QED
  BY <1>2, <1>4, <1>5, EmptyList

LEMMA SpawnsList ==
  /\ Whole(Spawns)
  /\ \A call : Contains(Spawns, call) => call \in {"fork", "append"}
<1>1. /\ 2 * WorkerCount \in Nat
      /\ \A i \in 1..(2 * WorkerCount) : Spawns[i] = IF i % 2 = 1 THEN "fork" ELSE "append"
      /\ Spawns \in [1..(2 * WorkerCount) -> Calls]
  BY WorkerAssumption DEF Spawns, Calls
<1>2. Spawns \in Seq(Calls) /\ Len(Spawns) = 2 * WorkerCount
  BY <1>1, IsASeq, LenProperties
<1>3. ASSUME NEW i \in 1..(2 * WorkerCount), Spawns[i] = "fork"
      PROVE  i < 2 * WorkerCount /\ Spawns[i + 1] = "append"
  <2>1. i % 2 = 1
    BY <1>1, <1>3
  <2>2. i # 2 * WorkerCount
    BY <2>1, WorkerAssumption
  <2>3. i + 1 \in 1..(2 * WorkerCount)
    BY <1>1, <2>2
  <2>4. (i + 1) % 2 # 1
    BY <2>1
  <2>. QED
    BY <1>1, <2>2, <2>3, <2>4
<1>4. \A i \in 1..(2 * WorkerCount) : Spawns[i] \in {"fork", "append"}
  BY <1>1
<1>5. Spawns[1] = "fork"
  <2>1. 1 \in 1..(2 * WorkerCount) /\ 1 % 2 = 1
    BY WorkerAssumption
  <2>. QED
    BY <1>1, <2>1
<1>6. \A i \in 2..(2 * WorkerCount) : Spawns[i] \notin {"join gpu", "free"}
  <2>1. \A i \in 2..(2 * WorkerCount) : i \in 1..(2 * WorkerCount)
    BY WorkerAssumption
  <2>. QED
    BY <1>4, <2>1
<1>7. Ordered(Spawns)
  <2>1. \A i \in 1..(2 * WorkerCount) : Spawns[i] # "free"
    BY <1>4
  <2>. QED
    BY <1>2, <1>3, <1>6, <2>1 DEF Ordered, Followed
<1>. QED
  BY <1>2, <1>4, <1>5, <1>7 DEF Whole, Contains

LEMMA StartsList ==
  ASSUME NEW loads
  PROVE  /\ Whole(Starts(loads))
         /\ \A call : Contains(Starts(loads), call) =>
              \/ "cpu" \in loads /\ call \in {"set cpu", "join cpu", "unset cpu", "fork", "append"}
              \/ "gpu" \in loads /\ call = "start gpu"
<1>. DEFINE u == StopCpu \o <<"unset cpu">>
            v == u \o Spawns
            s == IF "cpu" \in loads THEN v ELSE <<>>
            t == IF "gpu" \in loads THEN <<"start gpu">> ELSE <<>>
<1>1. Whole(u) /\ \A c : Contains(u, c) => c \in {"set cpu", "join cpu", "unset cpu"}
  <2>1. Whole(u)
    BY SingleLists, StopCpuList, ConcatWhole
  <2>2. \A c : Contains(u, c) <=> Contains(StopCpu, c) \/ Contains(<<"unset cpu">>, c)
    BY SingleLists, StopCpuList, ConcatContains DEF Whole
  <2>. QED
    BY <2>1, <2>2, SingleLists, StopCpuList
<1>. HIDE DEF u
<1>2. Whole(v) /\ \A c : Contains(v, c) =>
                         c \in {"set cpu", "join cpu", "unset cpu", "fork", "append"}
  <2>1. Whole(v)
    BY <1>1, SpawnsList, ConcatWhole
  <2>2. \A c : Contains(v, c) <=> Contains(u, c) \/ Contains(Spawns, c)
    BY <1>1, SpawnsList, ConcatContains DEF Whole
  <2>. QED
    BY <1>1, <2>1, <2>2, SpawnsList
<1>3. Starts(loads) = s \o t
  BY DEF Starts, u
<1>. HIDE DEF v
<1>4. Whole(s) /\ Whole(t)
  BY SingleLists, <1>2, EmptyList
<1>5. /\ \A c : Contains(s, c) =>
              "cpu" \in loads /\ c \in {"set cpu", "join cpu", "unset cpu", "fork", "append"}
      /\ \A c : Contains(t, c) => "gpu" \in loads /\ c = "start gpu"
  BY SingleLists, <1>2, EmptyList
<1>. HIDE DEF s, t
<1>6. Whole(s \o t)
  BY <1>4, ConcatWhole
<1>7. \A c : Contains(s \o t, c) <=> Contains(s, c) \/ Contains(t, c)
  BY <1>4, ConcatContains DEF Whole
<1>. QED
  BY <1>3, <1>5, <1>6, <1>7

LEMMA StopActiveList ==
  /\ Whole(StopActive)
  /\ "cpu" \in active => JoinsFirst(StopActive)
  /\ \A call : Contains(StopActive, call) <=>
                 \/ "cpu" \in active /\ call \in {"set cpu", "join cpu"}
                 \/ "gpu" \in active /\ call \in {"set gpu", "join gpu"}
                 \/ call = "forget"
<1>. DEFINE s == Stops(active)
            t == <<"forget">>
<1>1. Whole(t) /\ \A call : Contains(t, call) <=> call = "forget"
  BY SingleLists
<1>2. StopActive = s \o t
  BY DEF StopActive
<1>. HIDE DEF t
<1>3. Whole(s) /\ s \in Seq(Calls) /\ t \in Seq(Calls)
  BY <1>1, StopsList DEF Whole
<1>4. Whole(s \o t)
  BY <1>1, <1>3, ConcatWhole
<1>5. "cpu" \in active => JoinsFirst(s \o t)
  BY <1>3, StopsList, ConcatJoins
<1>6. \A call : Contains(s \o t, call) <=> Contains(s, call) \/ Contains(t, call)
  BY <1>3, ConcatContains
<1>. QED
  BY <1>1, <1>2, <1>4, <1>5, <1>6, StopsList

\* What run has left to do at the end of a phase ...
LEMMA EndOfPhaseList ==
  /\ Whole(StopActive \o Release)
  /\ "cpu" \in active => JoinsFirst(StopActive \o Release)
  /\ \A call : Contains(StopActive \o Release, call) <=>
                 Contains(StopActive, call) \/ Contains(Release, call)
<1>1. StopActive \in Seq(Calls) /\ Release \in Seq(Calls)
  BY StopActiveList, ReleaseList DEF Whole
<1>. QED
  BY <1>1, StopActiveList, ReleaseList, ConcatWhole, ConcatJoins, ConcatContains

\* ... and on the way out.
LEMMA CleanupList ==
  /\ Whole(Cleanup)
  /\ \A call : Contains(Cleanup, call) <=>
                 Contains(Stops(active), call) \/ Contains(Release, call)
<1>1. Stops(active) \in Seq(Calls) /\ Release \in Seq(Calls)
  BY StopsList, ReleaseList DEF Whole
<1>2. Whole(Stops(active) \o Release)
  BY StopsList, ReleaseList, ConcatWhole
<1>3. \A call : Contains(Stops(active) \o Release, call) <=>
                  Contains(Stops(active), call) \/ Contains(Release, call)
  BY <1>1, ConcatContains
<1>. QED
  BY <1>2, <1>3 DEF Cleanup

-----------------------------------------------------------------------------
\* The inductive invariant.

Labels == {"preflight", "phase", "open", "calibrate", "sample", "print", "next", "unwind",
           "finally", "report", "ended"}

\* The calls still to be made belong to the statement that made the list.
Place ==
  /\ pc \in Labels
  /\ todo \in Seq(Calls) /\ Ordered(todo)
  /\ \A call \in Calls : Awaits(call) => call \in Allowed(pc)

AtRest == overran /\ gpuStop
ThreadGone == thread # "none" => AtRest
NoCpu == alive = {} /\ tracked = {}

\* Whoever frees has joined, and whoever joins has told the thread to end.
GpuInv ==
  /\ Called("join gpu") => gpuStop
  /\ Called("free") => GpuAtRest
  /\ Awaits("start gpu") => frees = 0 /\ "gpu" \in active
  /\ frees > 0 => GpuAtRest
  /\ stray => overran

\* How often Ctrl-C was pressed.  An object whose handle is not about to be cleared has
\* been released no more often than that.
Presses == MaxInterrupts - interrupts
FreeInv ==
  /\ interrupts \in 0..MaxInterrupts /\ frees \in Nat
  /\ frees <= 1 + Presses
  /\ held /\ ~Called("clear") => frees <= Presses

\* Inside the try block run knows of every load there is, and of every worker but
\* the one that was just forked.
TryInv ==
  pc \in {"preflight", "phase", "open", "calibrate", "sample", "print", "next", "unwind"} =>
    /\ ~NoCpu => "cpu" \in active
    /\ held => gpu
    /\ ThreadGone \/ gpu
    /\ pc # "unwind" => alive \subseteq tracked \cup (IF Called("append") THEN {NextWorker}
                                                                        ELSE {})

\* The loads of a phase are the plan's, start with it, and end with it or before the
\* line of the sample that stopped them.
Stopped ==
  /\ ~NoCpu => JoinsFirst(todo)
  /\ active # {} => Awaits("forget")
  /\ thread # "none" => AtRest \/ Awaits("join gpu")
PhaseInv ==
  /\ pc \in {"preflight", "phase", "open", "calibrate"} => NoCpu /\ ~gpu
  /\ pc \in {"open", "calibrate"} => LoadsGpu /\ active = IF LoadsCpu THEN {"cpu"} ELSE {}
  /\ pc \in {"sample", "print"} =>
       /\ "cpu" \in active => LoadsCpu
       /\ "gpu" \in active => LoadsGpu
       /\ gpu => LoadsGpu
  /\ pc = "sample" \/ (pc = "print" /\ aborted = "none") => (gpu <=> "gpu" \in active)
  /\ pc = "print" /\ aborted = "none" => todo = <<>>
  /\ pc = "print" /\ aborted # "none" => Stopped
  /\ pc = "next" => Stopped /\ (held => Awaits("clear"))
  /\ pc = "sample" /\ (Awaits("fork") \/ Awaits("append")) => "cpu" \in active
  /\ active \subseteq {"cpu", "gpu"}

\* The finally block stops what is left.
FinalInv ==
  /\ pc = "finally" =>
       /\ tracked # {} => Awaits("join cpu")
       /\ alive # {} => cpuStop \/ Awaits("set cpu")
       /\ held => Awaits("clear")
       /\ thread # "none" => AtRest \/ Awaits("join gpu")
  /\ pc = "report" =>
       /\ tracked = {} /\ ~held /\ ThreadGone
       /\ alive # {} => cpuStop

\* What became of the run is what made it end.
VerdictInv ==
  /\ pc \in {"preflight", "phase", "open", "calibrate", "sample"} => aborted = "none"
  /\ aborted = "none" => ~limitHit
  /\ pc = "unwind" => raised \/ aborted = "interrupted"
  /\ pc \in {"finally", "report"} /\ aborted = "none" => raised \/ ~InPhase
  /\ pc = "report" => ~raised
  /\ status = "success" => pc = "ended"
  /\ status = "success" /\ aborted # "interrupted" => aborted = "none" /\ ~InPhase

\* A sample that trips the guard has ended the run by the time it is printed.
SampleInv ==
  /\ sample \in [cpu : CpuReadings, gpu : GpuReadings, counter : Counters \cup {"still"}]
  /\ pc = "print" /\ Tripped(sample, LoadsGpu) => aborted # "none"

StressInv == Place /\ GpuInv /\ FreeInv /\ TryInv /\ PhaseInv /\ FinalInv /\ VerdictInv /\ SampleInv

LEMMA WhereAwaited ==
  ASSUME Place
  PROVE  /\ Awaits("start gpu") \/ Awaits("fork") \/ Awaits("append") \/ Awaits("unset cpu")
              => pc = "sample"
         /\ Awaits("forget") => pc \in {"print", "next"}
         /\ Awaits("free") \/ Awaits("clear") => pc \in {"next", "finally"}
         /\ Awaits("set gpu") \/ Awaits("join gpu") => pc \in {"print", "next", "finally"}
         /\ Awaits("set cpu") \/ Awaits("join cpu") =>
              pc \in {"sample", "print", "next", "unwind", "finally"}
<1>1. \A call \in Calls : Awaits(call) => call \in Allowed(pc)
  BY DEF Place
<1>2. \A call \in Calls : call \in Allowed(pc) =>
        /\ call \in {"start gpu", "fork", "append", "unset cpu"} => pc = "sample"
        /\ call = "forget" => pc \in {"print", "next"}
        /\ call \in {"free", "clear"} => pc \in {"next", "finally"}
        /\ call \in {"set gpu", "join gpu"} => pc \in {"print", "next", "finally"}
        /\ call \in {"set cpu", "join cpu"} =>
             pc \in {"sample", "print", "next", "unwind", "finally"}
  BY DEF Place, Labels, Allowed, Stopping, Calls
<1>. QED
  BY <1>1, <1>2 DEF Calls, Stopping

LEMMA CalledIsAwaited ==
  ASSUME Place, NEW call, Called(call)
  PROVE  /\ Awaits(call) /\ call \in Calls /\ todo # <<>>
         /\ \A other : Called(other) => other = call
<1>1. todo \in Seq(Calls) /\ todo # <<>> /\ Head(todo) = call
  BY DEF Place, Called
<1>2. Contains(todo, Head(todo)) /\ Head(todo) \in Calls
  BY <1>1, TailContains, HeadTailProperties
<1>. QED
  BY <1>1, <1>2 DEF Awaits, Called

LEMMA Proceeds ==
  ASSUME Place, todo # <<>>, todo' = Tail(todo)
  PROVE  /\ todo' \in Seq(Calls) /\ Ordered(todo')
         /\ \A call : Contains(todo', call) => Awaits(call)
         /\ \A call : Awaits(call) => Contains(todo', call) \/ Called(call)
         /\ JoinsFirst(todo) => ~Called("forget") /\ (JoinsFirst(todo') \/ Called("join cpu"))
         /\ Called("join gpu")' => Called("set gpu")
         /\ Called("free")' => Called("join gpu")
         /\ Called("fork") => Called("append")'
         /\ Called("free") => Called("clear")'
<1>1. todo \in Seq(Calls) /\ Ordered(todo)
  BY DEF Place
<1>2. todo' \in Seq(Calls)
  BY <1>1, TailFacts
<1>3. /\ Ordered(todo')
      /\ todo' # <<>> => /\ Head(todo') = "join gpu" => Head(todo) = "set gpu"
                         /\ Head(todo') = "free" => Head(todo) = "join gpu"
      /\ Head(todo) = "fork" => todo' # <<>> /\ Head(todo') = "append"
      /\ Head(todo) = "free" => todo' # <<>> /\ Head(todo') = "clear"
  BY <1>1, TailOrdered
<1>4. /\ \A call : Contains(todo', call) => Contains(todo, call)
      /\ \A call : Contains(todo, call) => Contains(todo', call) \/ Head(todo) = call
  BY <1>1, TailContains
<1>5. JoinsFirst(todo) => Head(todo) # "forget" /\ (JoinsFirst(todo') \/ Head(todo) = "join cpu")
  BY <1>1, TailJoins
<1>. QED
  BY <1>2, <1>3, <1>4, <1>5 DEF Awaits, Called

LEMMA Anew ==
  ASSUME Whole(todo')
  PROVE  /\ todo' \in Seq(Calls) /\ Ordered(todo')
         /\ ~Called("join gpu")' /\ ~Called("free")' /\ ~Called("append")'
<1>1. todo' \in Seq(Calls) /\ Ordered(todo')
  BY DEF Whole
<1>2. ASSUME todo' # <<>>
      PROVE  Head(todo') \notin {"join gpu", "free", "append"}
  <2>1. Len(todo') > 0 /\ Head(todo') = todo'[1]
    BY <1>1, <1>2, TailFacts
  <2>. QED
    BY <2>1 DEF Whole
<1>. QED
  BY <1>1, <1>2 DEF Called

LEMMA NothingToDo ==
  ASSUME todo = <<>>
  PROVE  Whole(todo) /\ (\A call : ~Awaits(call) /\ ~Called(call)) /\ ~JoinsFirst(todo)
<1>1. Len(todo) = 0
  BY EmptySeq
<1>2. ~JoinsFirst(todo)
  BY <1>1 DEF JoinsFirst
<1>. QED
  BY <1>2, EmptyList DEF Awaits, Called

-----------------------------------------------------------------------------
\* The lists, in the states that they are handed out in.

LEMMA AllowedFacts ==
  /\ Allowed("sample") = {"set cpu", "join cpu", "unset cpu", "fork", "append", "start gpu"}
  /\ Allowed("print") = Stopping \cup {"forget"}
  /\ Allowed("next") = Stopping \cup {"forget", "free", "clear"}
  /\ Allowed("unwind") = {"set cpu", "join cpu"}
  /\ Allowed("finally") = Stopping \cup {"free", "clear"}
BY DEF Allowed

LEMMA PlaceOf ==
  ASSUME Whole(todo'), pc' \in Labels,
         \A call : Contains(todo', call) => call \in Allowed(pc')
  PROVE  Place'
BY Anew DEF Place, Awaits

LEMMA PlaceWithout ==
  ASSUME todo' = <<>>, pc' \in Labels
  PROVE  Place' /\ Whole(todo')
<1>1. Whole(todo') /\ \A call : ~Contains(todo', call)
  BY EmptyList
<1>. QED
  BY <1>1, PlaceOf

LEMMA PlaceStarts ==
  ASSUME pc' = "sample", todo' = Starts(active')
  PROVE  /\ Place' /\ Whole(todo')
         /\ \A call : Contains(todo', call) =>
              \/ /\ "cpu" \in active'
                 /\ call \in {"set cpu", "join cpu", "unset cpu", "fork", "append"}
              \/ "gpu" \in active' /\ call = "start gpu"
<1>1. /\ Whole(todo')
      /\ \A call : Contains(todo', call) =>
           \/ /\ "cpu" \in active'
              /\ call \in {"set cpu", "join cpu", "unset cpu", "fork", "append"}
           \/ "gpu" \in active' /\ call = "start gpu"
  BY StartsList
<1>2. \A call : Contains(todo', call) => call \in Allowed(pc')
  BY <1>1, AllowedFacts
<1>3. pc' \in Labels
  BY DEF Labels
<1>. QED
  BY <1>1, <1>2, <1>3, PlaceOf

LEMMA PlaceCleanup ==
  ASSUME pc' = "finally", todo' = Cleanup
  PROVE  /\ Place' /\ Whole(todo')
         /\ "cpu" \in active => Contains(todo', "set cpu") /\ Contains(todo', "join cpu")
         /\ gpu => Contains(todo', "join gpu") /\ Contains(todo', "clear")
<1>1. \A call : Contains(todo', call) <=>
        \/ "cpu" \in active /\ call \in {"set cpu", "join cpu"}
        \/ "gpu" \in active /\ call \in {"set gpu", "join gpu"}
        \/ gpu /\ call \in {"set gpu", "join gpu", "free", "clear"}
  BY CleanupList, StopsList, ReleaseList
<1>2. Whole(todo')
  BY CleanupList
<1>3. \A call : Contains(todo', call) => call \in Allowed(pc')
  BY <1>1, AllowedFacts DEF Stopping
<1>4. pc' \in Labels
  BY DEF Labels
<1>5. Place'
  BY <1>2, <1>3, <1>4, PlaceOf
<1>6. /\ "cpu" \in active => Contains(todo', "set cpu") /\ Contains(todo', "join cpu")
      /\ gpu => Contains(todo', "join gpu") /\ Contains(todo', "clear")
  BY <1>1
<1>. QED
  BY <1>2, <1>5, <1>6

LEMMA PlaceStops ==
  ASSUME pc' = "finally", todo' = Stops(active)
  PROVE  Place' /\ Whole(todo')
<1>1. /\ Whole(todo')
      /\ \A call : Contains(todo', call) =>
           call \in {"set cpu", "join cpu", "set gpu", "join gpu"}
  BY StopsList
<1>2. \A call : Contains(todo', call) => call \in Allowed(pc')
  BY <1>1, AllowedFacts DEF Stopping
<1>3. pc' \in Labels
  BY DEF Labels
<1>. QED
  BY <1>1, <1>2, <1>3, PlaceOf

LEMMA PlaceUnwind ==
  ASSUME pc' = "unwind", todo' = StopCpu
  PROVE  Place' /\ Whole(todo')
<1>1. /\ Whole(todo')
      /\ \A call : Contains(todo', call) => call \in {"set cpu", "join cpu"}
  BY StopCpuList
<1>2. \A call : Contains(todo', call) => call \in Allowed(pc')
  BY <1>1, AllowedFacts
<1>3. pc' \in Labels
  BY DEF Labels
<1>. QED
  BY <1>1, <1>2, <1>3, PlaceOf

LEMMA PlaceStopActive ==
  ASSUME pc' = "print", todo' = StopActive
  PROVE  /\ Place' /\ Whole(todo')
         /\ "cpu" \in active => JoinsFirst(todo')
         /\ "gpu" \in active => Contains(todo', "join gpu")
         /\ Contains(todo', "forget")
<1>1. \A call : Contains(todo', call) <=>
                 \/ "cpu" \in active /\ call \in {"set cpu", "join cpu"}
                 \/ "gpu" \in active /\ call \in {"set gpu", "join gpu"}
                 \/ call = "forget"
  BY StopActiveList
<1>2. Whole(todo') /\ ("cpu" \in active => JoinsFirst(todo'))
  BY StopActiveList
<1>3. \A call : Contains(todo', call) => call \in Allowed(pc')
  BY <1>1, AllowedFacts DEF Stopping
<1>4. pc' \in Labels
  BY DEF Labels
<1>5. Place'
  BY <1>2, <1>3, <1>4, PlaceOf
<1>6. /\ "gpu" \in active => Contains(todo', "join gpu")
      /\ Contains(todo', "forget")
  BY <1>1
<1>. QED
  BY <1>2, <1>5, <1>6

LEMMA PlaceEndPhase ==
  ASSUME pc' = "next", todo' = StopActive \o Release
  PROVE  /\ Place' /\ Whole(todo')
         /\ "cpu" \in active => JoinsFirst(todo')
         /\ "gpu" \in active \/ gpu => Contains(todo', "join gpu")
         /\ Contains(todo', "forget")
         /\ gpu => Contains(todo', "clear")
<1>1. \A call : Contains(todo', call) <=>
                 \/ "cpu" \in active /\ call \in {"set cpu", "join cpu"}
                 \/ "gpu" \in active /\ call \in {"set gpu", "join gpu"}
                 \/ call = "forget"
                 \/ gpu /\ call \in {"set gpu", "join gpu", "free", "clear"}
  BY EndOfPhaseList, StopActiveList, ReleaseList
<1>2. Whole(todo') /\ ("cpu" \in active => JoinsFirst(todo'))
  BY EndOfPhaseList
<1>3. \A call : Contains(todo', call) => call \in Allowed(pc')
  BY <1>1, AllowedFacts DEF Stopping
<1>4. pc' \in Labels
  BY DEF Labels
<1>5. Place'
  BY <1>2, <1>3, <1>4, PlaceOf
<1>6. /\ "gpu" \in active \/ gpu => Contains(todo', "join gpu")
      /\ Contains(todo', "forget")
      /\ gpu => Contains(todo', "clear")
  BY <1>1
<1>. QED
  BY <1>2, <1>5, <1>6

LEMMA PlaceProceeds ==
  ASSUME Place, todo # <<>>, todo' = Tail(todo), pc' = pc
  PROVE  Place'
<1>1. /\ todo' \in Seq(Calls) /\ Ordered(todo')
      /\ \A call : Contains(todo', call) => Awaits(call)
  BY Proceeds
<1>. QED
  BY <1>1 DEF Place, Awaits

LEMMA PlaceStays ==
  ASSUME Place, UNCHANGED <<todo, pc>>
  PROVE  /\ Place'
         /\ \A call : Called(call)' <=> Called(call)
         /\ \A call : Awaits(call)' <=> Awaits(call)
BY DEF Place, Awaits, Called

LEMMA NoStart ==
  ASSUME Place', pc' # "sample"
  PROVE  ~Awaits("start gpu")' /\ ~Awaits("fork")' /\ ~Awaits("append")'
<1>1. \A call \in Calls : Awaits(call)' => call \in Allowed(pc')
  BY DEF Place
<1>2. \A call \in {"start gpu", "fork", "append"} : call \in Calls /\ call \notin Allowed(pc')
  BY DEF Place, Labels, Allowed, Stopping, Calls
<1>. QED
  BY <1>1, <1>2

-----------------------------------------------------------------------------
\* Every step keeps the calls with the statement that they belong to.

LEMMA InitStress ==
  ASSUME StressInit
  PROVE  StressInv
<1>1. Whole(todo) /\ (\A call : ~Awaits(call) /\ ~Called(call)) /\ ~JoinsFirst(todo)
  BY NothingToDo DEF StressInit
<1>2. Place
  <2>1. pc \in Labels
    BY DEF StressInit, Labels
  <2>. QED
    BY <1>1, <2>1 DEF Place, Whole
<1>3. GpuInv
  <2>1. ~Called("join gpu") /\ ~Called("free") /\ ~Awaits("start gpu")
    BY <1>1
  <2>2. frees = 0 /\ ~(frees > 0) /\ ~stray
    BY DEF StressInit, LoadsInit
  <2>. QED
    BY <2>1, <2>2 DEF GpuInv
<1>4. TryInv
  BY DEF StressInit, LoadsInit, TryInv, NoCpu, ThreadGone
<1>5. PhaseInv
  BY DEF StressInit, LoadsInit, PhaseInv, NoCpu
<1>6. FinalInv
  BY DEF StressInit, FinalInv
<1>7. VerdictInv
  BY DEF StressInit, VerdictInv
<1>8. SampleInv
  BY DEF StressInit, SampleInv
<1>9. FreeInv
  <2>1. interrupts = MaxInterrupts /\ frees = 0
    BY DEF StressInit, LoadsInit
  <2>. QED
    BY <2>1, StressAssumption DEF FreeInv, Presses
<1>. QED
  BY <1>2, <1>3, <1>4, <1>5, <1>6, <1>7, <1>8, <1>9 DEF StressInv

\* A step that leaves the statement and its list alone.
Elsewhere == GpuThread \/ CpuWorker \/ Joining \/ UNCHANGED stressVars

\* A step of run proper, which hands out a whole list.
Moves ==
  \/ Preflight \/ SkipPhase \/ EnterPhase \/ RefusePhase \/ AllPhasesDone
  \/ Calibrate \/ OpenGpu \/ NoGpuLoad
  \/ TakeSample \/ PrintAndBreak \/ PrintAndSleep \/ PhaseOver \/ NextPhase
  \/ Unwind \/ EndFinally \/ Report
  \/ ForkFails \/ Interrupt \/ InterruptOutside

LEMMA ThreeKinds ==
  ASSUME [StressNext]_stressVars
  PROVE  Elsewhere \/ Call \/ Forget \/ Moves
BY DEF StressNext, Main, Calibrated, Elsewhere, Moves

LEMMA MovesPlace ==
  ASSUME Moves
  PROVE  Place' /\ Whole(todo')
<1>1. CASE Preflight \/ Report \/ EndFinally \/ InterruptOutside
  <2>1. todo' = <<>> /\ pc' \in Labels
    BY <1>1 DEF Preflight, Report, EndFinally, InterruptOutside, At, Ends, Labels
  <2>. QED
    BY <2>1, PlaceWithout
<1>2. CASE SkipPhase \/ Calibrate \/ NoGpuLoad \/ PrintAndSleep
  <2>1. todo' = <<>> /\ pc' \in Labels
    BY <1>2 DEF SkipPhase, Calibrate, NoGpuLoad, PrintAndSleep, At, Labels
  <2>. QED
    BY <2>1, PlaceWithout
<1>3. CASE EnterPhase
  <2>1. CASE LoadsGpu
    BY <1>3, <2>1, PlaceWithout DEF EnterPhase, Labels
  <2>2. CASE ~LoadsGpu
    BY <1>3, <2>2, PlaceStarts DEF EnterPhase
  <2>. QED
    BY <2>1, <2>2
<1>4. CASE OpenGpu
  BY <1>4, PlaceStarts DEF OpenGpu
<1>5. CASE RefusePhase \/ AllPhasesDone \/ Unwind
  BY <1>5, PlaceCleanup DEF RefusePhase, AllPhasesDone, Unwind
<1>6. CASE TakeSample
  <2>1. pc' = "print" /\ todo' = IF aborted' = "none" THEN <<>> ELSE StopActive
    BY <1>6 DEF TakeSample, StopBeforePrinting
  <2>2. pc' \in Labels
    BY <2>1 DEF Labels
  <2>. QED
    BY <2>1, <2>2, PlaceWithout, PlaceStopActive
<1>7. CASE PrintAndBreak \/ PhaseOver
  BY <1>7, PlaceEndPhase DEF PrintAndBreak, PhaseOver, EndPhase
<1>8. CASE NextPhase
  <2>1. CASE aborted # "none"
    BY <1>8, <2>1, PlaceStops DEF NextPhase
  <2>2. CASE aborted = "none"
    <3>1. todo' = <<>> /\ pc' \in Labels
      BY <1>8, <2>2 DEF NextPhase, At, Labels
    <3>. QED
      BY <3>1, PlaceWithout
  <2>. QED
    BY <2>1, <2>2
<1>9. CASE ForkFails
  BY <1>9, PlaceUnwind DEF ForkFails
<1>10. CASE Interrupt
  <2>1. CASE Starting
    BY <1>10, <2>1, PlaceUnwind DEF Interrupt
  <2>2. CASE ~Starting
    BY <1>10, <2>2, PlaceCleanup DEF Interrupt
  <2>. QED
    BY <2>1, <2>2
<1>. QED
  BY <1>1, <1>2, <1>3, <1>4, <1>5, <1>6, <1>7, <1>8, <1>9, <1>10 DEF Moves

LEMMA NextPlace ==
  ASSUME StressInv, [StressNext]_stressVars
  PROVE  Place'
<1>1. Place
  BY DEF StressInv
<1>2. CASE Elsewhere
  <2>1. UNCHANGED <<todo, pc>>
    BY <1>2 DEF Elsewhere, GpuThread, CpuWorker, Joining, stressVars, controlVars
  <2>. QED
    BY <1>1, <2>1, PlaceStays
<1>3. CASE Call \/ Forget
  <2>1. todo' = Tail(todo) /\ todo # <<>> /\ pc' = pc
    BY <1>3 DEF Call, Forget, Called, controlVars
  <2>. QED
    BY <1>1, <2>1, PlaceProceeds
<1>. QED
  BY <1>2, <1>3, ThreeKinds, MovesPlace

-----------------------------------------------------------------------------
\* The thread and its objects.

LEMMA NextGpu ==
  ASSUME StressInv, [StressNext]_stressVars
  PROVE  GpuInv'
<1>1. Place /\ GpuInv /\ TryInv /\ PhaseInv /\ Place'
  BY NextPlace DEF StressInv
<1>2. CASE Elsewhere
  <2>1. /\ Called("join gpu")' => Called("join gpu")
        /\ Called("free")' => Called("free")
        /\ Awaits("start gpu")' => Awaits("start gpu")
    <3>1. todo' = todo
      BY <1>2 DEF Elsewhere, GpuThread, CpuWorker, Joining, stressVars
    <3>. QED
      BY <3>1, Zenon DEF Called, Awaits
  <2>2. UNCHANGED <<gpuStop, frees, overran, active>>
    BY <1>2 DEF Elsewhere, GpuThread, Launch, LaunchReturns, StrayEnds, CpuWorker, WorkerEnds,
                Joining, JoinWorker, stressVars, controlVars, loadVars, cpuVars, gpuVars,
                threadVars, handleVars, strayVars
  <2>4. stray' => stray
    BY <1>2, Zenon
    DEF Elsewhere, GpuThread, Launch, LaunchReturns, StrayEnds, CpuWorker, WorkerEnds,
        Joining, JoinWorker, stressVars, controlVars, loadVars, cpuVars, gpuVars,
        threadVars, handleVars, strayVars
  <2>3. GpuAtRest => GpuAtRest'
    <3>1. GpuWorking' => GpuWorking
      BY <1>2 DEF Elsewhere, GpuThread, Launch, LaunchReturns, StrayEnds, CpuWorker, WorkerEnds,
                  Joining, JoinWorker, stressVars, loadVars, gpuVars, threadVars, GpuWorking
    <3>. QED
      BY <2>2, <3>1 DEF GpuAtRest
  <2>. QED
    BY <1>1, <2>1, <2>2, <2>3, <2>4 DEF GpuInv
<1>3. CASE Call
  <2>1. todo' = Tail(todo) /\ todo # <<>> /\ UNCHANGED <<pc, active>>
    BY <1>3 DEF Call, Called, controlVars
  <2>2. /\ Called("join gpu")' => Called("set gpu")
        /\ Called("free")' => Called("join gpu")
        /\ Awaits("start gpu")' => Awaits("start gpu")
    BY <1>1, <2>1, Proceeds DEF Awaits
  <2>3. \A a, b : Called(a) /\ Called(b) => a = b
    BY DEF Called
  <2>4. CASE Called("start gpu") /\ StartThread
    <3>1. Awaits("start gpu") /\ ~Called("set gpu") /\ ~Called("join gpu")
      BY <1>1, <2>3, <2>4, CalledIsAwaited
    <3>2. frees' = frees /\ stray' = stray /\ overran' = overran
      BY <2>4 DEF StartThread, handleVars, strayVars
    <3>3. frees = 0
      BY <1>1, <3>1, Zenon DEF GpuInv
    <3>4. ~(frees > 0)
      BY <3>3
    <3>. QED
      BY <1>1, <2>1, <2>2, <3>1, <3>2, <3>3, <3>4, Zenon DEF GpuInv
  <2>5. CASE Called("set gpu") /\ SetGpuStop
    <3>1. ~Called("join gpu")
      BY <2>3, <2>5
    <3>. QED
      BY <1>1, <2>1, <2>2, <2>5, <3>1
      DEF GpuInv, SetGpuStop, handleVars, strayVars, GpuAtRest, GpuWorking
  <2>6. CASE Called("join gpu") /\ JoinThread
    <3>1. ~Called("set gpu")
      BY <2>3, <2>6
    <3>4. gpuStop'
      BY <1>1, <2>6, Zenon DEF GpuInv, JoinThread
    <3>2. GpuAtRest'
      <4>1. CASE thread' = "none"
        BY <4>1 DEF GpuAtRest, GpuWorking
      <4>2. CASE overran'
        BY <3>4, <4>2 DEF GpuAtRest
      <4>. QED
        BY <2>6, <4>1, <4>2, Zenon DEF JoinThread
    <3>3. frees' = frees /\ stray' = stray
      BY <2>6 DEF JoinThread, handleVars
    <3>5. overran => overran'
      BY <2>6, Zenon DEF JoinThread
    <3>. QED
      BY <1>1, <2>1, <2>2, <3>1, <3>2, <3>3, <3>5 DEF GpuInv
  <2>7. CASE Called("free") /\ FreeObjects
    <3>1. ~Called("set gpu") /\ ~Called("join gpu") /\ GpuAtRest
      BY <1>1, <2>3, <2>7 DEF GpuInv
    <3>2. GpuAtRest'
      BY <2>7, <3>1 DEF FreeObjects, GpuAtRest, GpuWorking, threadVars, strayVars
    <3>3. ~Awaits("start gpu")
      BY <1>1, <2>7, WhereAwaited, CalledIsAwaited
    <3>4. stray' = stray /\ overran' = overran
      BY <2>7 DEF FreeObjects, strayVars
    <3>. QED
      BY <1>1, <2>1, <2>2, <3>1, <3>2, <3>3, <3>4 DEF GpuInv
  <2>8. CASE Called("clear") /\ ClearHandles
    <3>1. ~Called("set gpu") /\ ~Called("join gpu")
      BY <2>3, <2>8
    <3>. QED
      BY <1>1, <2>1, <2>2, <2>8, <3>1
      DEF GpuInv, ClearHandles, threadVars, strayVars, GpuAtRest, GpuWorking
  <2>9. CASE \/ Called("set cpu") /\ SetCpuStop
             \/ Called("join cpu") /\ ForgetWorkers
             \/ Called("unset cpu") /\ ClearCpuStop
             \/ Called("fork") /\ ForkWorker
             \/ Called("append") /\ AppendWorker
    <3>1. ~Called("set gpu") /\ ~Called("join gpu")
      BY <2>3, <2>9
    <3>2. UNCHANGED gpuVars
      BY <2>9 DEF SetCpuStop, ForgetWorkers, ClearCpuStop, ForkWorker, AppendWorker
    <3>. QED
      BY <1>1, <2>1, <2>2, <3>1, <3>2
      DEF GpuInv, gpuVars, threadVars, handleVars, strayVars, GpuAtRest, GpuWorking
  <2>. QED
    BY <1>3, <2>4, <2>5, <2>6, <2>7, <2>8, <2>9 DEF Call
<1>4. CASE Forget
  <2>1. todo' = Tail(todo) /\ todo # <<>> /\ UNCHANGED loadVars /\ Called("forget")
    BY <1>4 DEF Forget, Called
  <2>2. /\ Called("join gpu")' => Called("set gpu")
        /\ Called("free")' => Called("join gpu")
        /\ Awaits("start gpu")' => Awaits("start gpu")
    BY <1>1, <2>1, Proceeds DEF Awaits
  <2>3. ~Called("set gpu") /\ ~Called("join gpu")
    BY <2>1 DEF Called
  <2>4. ~Awaits("start gpu")
    BY <1>1, <2>1, WhereAwaited, CalledIsAwaited
  <2>. QED
    BY <1>1, <2>1, <2>2, <2>3, <2>4
    DEF GpuInv, loadVars, gpuVars, threadVars, handleVars, strayVars, GpuAtRest, GpuWorking
<1>5. CASE Moves
  <2>1. ~Called("join gpu")' /\ ~Called("free")'
    BY <1>5, MovesPlace, Anew
  <2>2. CASE OpenGpu
    <3>1. frees' = 0 /\ active' = active \cup {"gpu"}
      BY <2>2 DEF OpenGpu, OpenHandles
    <3>4. (stray' => stray \/ GpuWorking) /\ overran' = overran
      BY <2>2, Zenon DEF OpenGpu, OpenHandles
    <3>2. ThreadGone
      BY <1>1, <2>2 DEF OpenGpu, At, TryInv, PhaseInv
    <3>3. stray' => overran'
      BY <1>1, <3>2, <3>4 DEF GpuInv, ThreadGone, AtRest, GpuWorking
    <3>5. ~(frees' > 0)
      BY <3>1
    <3>. QED
      BY <2>1, <3>1, <3>3, <3>5 DEF GpuInv
  <2>3. ASSUME ~OpenGpu
        PROVE  GpuInv'
    <3>1. /\ frees' = frees /\ gpuStop' = gpuStop /\ overran' = overran
          /\ (stray' => stray) /\ (GpuWorking' => GpuWorking)
      <4>1. UNCHANGED loadVars \/ ProcessEnds
        BY <1>5, <2>3 DEF Moves, Preflight, SkipPhase, EnterPhase, RefusePhase, AllPhasesDone,
             Calibrate, NoGpuLoad, TakeSample, PrintAndBreak, PrintAndSleep, PhaseOver, NextPhase,
             Unwind, EndFinally, Report, ForkFails, Interrupt, InterruptOutside, EndPhase, Ends
      <4>. QED
        BY <4>1 DEF ProcessEnds, loadVars, gpuVars, threadVars, handleVars, strayVars, GpuWorking
    <3>2. ~Awaits("start gpu")'
      <4>1. CASE EnterPhase
        <5>1. "gpu" \notin active'
          BY <4>1 DEF EnterPhase
        <5>2. CASE LoadsGpu
          BY <1>1, <4>1, <5>2, NoStart DEF EnterPhase
        <5>3. CASE ~LoadsGpu
          <6>1. pc' = "sample" /\ todo' = Starts(active')
            BY <4>1, <5>3 DEF EnterPhase
          <6>2. Contains(todo', "start gpu") => "gpu" \in active'
            BY <6>1, PlaceStarts
          <6>. QED
            BY <5>1, <6>2 DEF Awaits
        <5>. QED
          BY <5>2, <5>3
      <4>2. CASE PrintAndSleep
        BY <4>2, NothingToDo, EmptyList DEF PrintAndSleep, At, Awaits
      <4>3. ASSUME ~EnterPhase, ~PrintAndSleep
            PROVE  pc' # "sample"
        BY <1>5, <2>3, <4>3 DEF Moves, Preflight, SkipPhase, RefusePhase, AllPhasesDone,
             Calibrate, NoGpuLoad, TakeSample, PrintAndBreak, PhaseOver, NextPhase, Unwind,
             EndFinally, Report, ForkFails, Interrupt, InterruptOutside, EndPhase, Ends, At
      <4>. QED
        BY <1>1, <4>1, <4>2, <4>3, NoStart
    <3>. QED
      BY <1>1, <2>1, <3>1, <3>2 DEF GpuInv, GpuAtRest
  <2>. QED
    BY <2>2, <2>3
<1>. QED
  BY <1>2, <1>3, <1>4, <1>5, ThreeKinds

-----------------------------------------------------------------------------
\* The try block.

Trying == {"preflight", "phase", "open", "calibrate", "sample", "print", "next", "unwind"}
Covered ==
  /\ ~NoCpu => "cpu" \in active
  /\ held => gpu
  /\ ThreadGone \/ gpu
Appending == alive \subseteq tracked \cup (IF Called("append") THEN {NextWorker} ELSE {})

\* What a call finds, and what it leaves for the next.
LEMMA CallFacts ==
  ASSUME StressInv, Call
  PROVE  /\ todo # <<>> /\ todo' = Tail(todo) /\ UNCHANGED controlVars
         /\ Awaits(Head(todo))
         /\ \A call : Awaits(call)' => Awaits(call)
         /\ \A call : Awaits(call) => Awaits(call)' \/ Called(call)
         /\ JoinsFirst(todo) => JoinsFirst(todo') \/ Called("join cpu")
         /\ Called("fork") => Called("append")'
         /\ Called("free") => Called("clear")'
<1>1. Place
  BY DEF StressInv
<1>2. todo # <<>> /\ todo' = Tail(todo) /\ UNCHANGED controlVars
  BY DEF Call, Called
<1>3. Called(Head(todo))
  BY <1>2 DEF Called
<1>. QED
  BY <1>1, <1>2, <1>3, Proceeds, CalledIsAwaited DEF Awaits

LEMMA ElsewhereFacts ==
  ASSUME Elsewhere
  PROVE  /\ UNCHANGED <<pc, todo, n, active, aborted, sample, status>>
         /\ UNCHANGED <<gpu, guarded, raised, limitHit>>
         /\ UNCHANGED <<cpuStop, tracked, gpuStop, held, overran>>
         /\ alive' \subseteq alive
         /\ thread' # "none" => thread # "none"
<1>. USE DEF Elsewhere, GpuThread, Launch, LaunchReturns, StrayEnds, CpuWorker, WorkerEnds, Joining,
     JoinWorker, stressVars, controlVars, loadVars, cpuVars, gpuVars, threadVars, handleVars,
     strayVars
<1>1. UNCHANGED <<pc, todo, n, active, aborted, sample, status>>
  OBVIOUS
<1>2. UNCHANGED <<gpu, guarded, raised, limitHit>>
  OBVIOUS
<1>3. UNCHANGED <<cpuStop, tracked, gpuStop, held, overran>>
  OBVIOUS
<1>4. alive' \subseteq alive
  OBVIOUS
<1>5. thread' # "none" => thread # "none"
  OBVIOUS
<1>. QED
  BY <1>1, <1>2, <1>3, <1>4, <1>5, Zenon

LEMMA MovesLoads ==
  ASSUME Moves, ~OpenGpu
  PROVE  \/ UNCHANGED loadVars /\ pc' \notin {"report", "ended"}
         \/ UNCHANGED loadVars /\ EndFinally /\ pc' = "report"
         \/ ProcessEnds /\ pc' = "ended" /\ todo' = <<>>
BY DEF Moves, Preflight, SkipPhase, EnterPhase, RefusePhase, AllPhasesDone,
   Calibrate, NoGpuLoad, TakeSample, PrintAndBreak, PrintAndSleep, PhaseOver, NextPhase, Unwind,
   EndFinally, Report, ForkFails, Interrupt, InterruptOutside, EndPhase, Ends, At

\* Only "free" releases, and only a press of Ctrl-C keeps "clear" from following it.
LEMMA NextFree ==
  ASSUME StressInv, [StressNext]_stressVars
  PROVE  FreeInv'
<1>1. Place /\ FreeInv
  BY DEF StressInv
<1>2. interrupts \in Nat /\ MaxInterrupts \in Nat /\ frees \in Nat /\ interrupts <= MaxInterrupts
  BY <1>1, StressAssumption DEF FreeInv
<1>3. ASSUME UNCHANGED <<interrupts, frees, held>>, Called("clear") => Called("clear")' \/ ~held
      PROVE  FreeInv'
  BY <1>1, <1>3 DEF FreeInv, Presses
<1>4. CASE Elsewhere
  <2>1. UNCHANGED <<interrupts, frees, held, todo>>
    BY <1>4 DEF Elsewhere, GpuThread, Launch, LaunchReturns, StrayEnds, CpuWorker, WorkerEnds,
         Joining, JoinWorker, stressVars, controlVars, loadVars, gpuVars, handleVars
  <2>. QED
    BY <1>3, <2>1 DEF Called
<1>5. CASE Call
  <2>1. todo # <<>> /\ todo' = Tail(todo) /\ interrupts' = interrupts
    BY <1>5 DEF Call, Called, controlVars
  <2>2. CASE Called("free") /\ FreeObjects
    <3>1. /\ frees' = IF held THEN frees + 1 ELSE frees
          /\ held' = held
      BY <2>2 DEF FreeObjects
    <3>2. Called("clear")' /\ ~Called("clear")
      BY <1>1, <2>1, <2>2, Proceeds DEF Called
    <3>3. CASE held
      <4>1. frees' = frees + 1 /\ frees <= Presses
        BY <1>1, <3>1, <3>2, <3>3 DEF FreeInv
      <4>. QED
        BY <1>2, <2>1, <3>2, <4>1 DEF FreeInv, Presses
    <3>4. CASE ~held
      BY <1>3, <2>1, <3>1, <3>4
    <3>. QED
      BY <3>3, <3>4
  <2>3. CASE Called("clear") /\ ClearHandles
    <3>1. frees' = frees /\ ~held'
      BY <2>3 DEF ClearHandles
    <3>. QED
      BY <1>1, <2>1, <3>1 DEF FreeInv, Presses
  <2>4. CASE ~(Called("free") /\ FreeObjects) /\ ~(Called("clear") /\ ClearHandles)
    <3>1. UNCHANGED <<frees, held>> /\ ~Called("clear")
      BY <1>5, <2>4 DEF Call, Called, SetCpuStop, ForgetWorkers, ClearCpuStop, ForkWorker,
           AppendWorker, StartThread, SetGpuStop, JoinThread, gpuVars, handleVars
    <3>. QED
      BY <1>3, <2>1, <3>1
  <2>. QED
    BY <2>2, <2>3, <2>4
<1>6. CASE Forget
  <2>1. UNCHANGED <<interrupts, frees, held>> /\ ~Called("clear")
    BY <1>6 DEF Forget, Called, loadVars, gpuVars, handleVars
  <2>. QED
    BY <1>3, <2>1
<1>7. CASE OpenGpu
  <2>1. frees' = 0 /\ interrupts' = interrupts
    BY <1>7 DEF OpenGpu, OpenHandles
  <2>. QED
    BY <1>2, <2>1 DEF FreeInv, Presses
<1>8. CASE Interrupt \/ InterruptOutside
  <2>1. interrupts > 0 /\ interrupts' = interrupts - 1 /\ frees' = frees
    BY <1>8 DEF Interrupt, InterruptOutside, Pressed, Ends, ProcessEnds, loadVars, gpuVars,
         handleVars
  <2>2. frees <= 1 + Presses
    BY <1>1 DEF FreeInv
  <2>. QED
    BY <1>2, <2>1, <2>2 DEF FreeInv, Presses
<1>9. CASE Moves /\ ~OpenGpu /\ ~Interrupt /\ ~InterruptOutside
  <2>1. interrupts' = interrupts
    BY <1>9 DEF Moves, Preflight, SkipPhase, EnterPhase, RefusePhase, AllPhasesDone,
         Calibrate, NoGpuLoad, TakeSample, PrintAndBreak, PrintAndSleep, PhaseOver, NextPhase,
         Unwind, EndFinally, Report, ForkFails, EndPhase
  <2>2. UNCHANGED <<frees, held>>
    BY <1>9, MovesLoads DEF ProcessEnds, loadVars, gpuVars, handleVars
  <2>3. ~Called("clear")
    BY <1>9 DEF Moves, Preflight, SkipPhase, EnterPhase, RefusePhase, AllPhasesDone,
         Calibrate, NoGpuLoad, TakeSample, PrintAndBreak, PrintAndSleep, PhaseOver, NextPhase,
         Unwind, EndFinally, Report, ForkFails, At, Called
  <2>. QED
    BY <1>3, <2>1, <2>2, <2>3
<1>. QED
  BY <1>4, <1>5, <1>6, <1>7, <1>8, <1>9, ThreeKinds

\* What Forget and NextPhase rely on.
LEMMA AfterStop ==
  ASSUME StressInv, pc = "next" \/ (pc = "print" /\ aborted # "none")
  PROVE  /\ Called("forget") => NoCpu
         /\ todo = <<>> => NoCpu /\ active = {} /\ ThreadGone
         /\ todo = <<>> /\ pc = "next" => ~held
<1>1. Place /\ Stopped /\ (pc = "next" => (held => Awaits("clear")))
  BY DEF StressInv, PhaseInv
<1>2. Called("forget") => NoCpu
  <2>1. ASSUME Called("forget"), JoinsFirst(todo)
        PROVE  FALSE
    <3>1. todo \in Seq(Calls) /\ todo # <<>> /\ Head(todo) = "forget"
      BY <1>1, <2>1 DEF Place, Called
    <3>. QED
      BY <2>1, <3>1, TailJoins
  <2>. QED
    BY <1>1, <2>1 DEF Stopped
<1>3. ASSUME todo = <<>>
      PROVE  ~JoinsFirst(todo) /\ ~Awaits("forget") /\ ~Awaits("join gpu") /\ ~Awaits("clear")
  BY <1>3, NothingToDo
<1>. QED
  BY <1>1, <1>2, <1>3 DEF Stopped, ThreadGone

LEMMA NextTry ==
  ASSUME StressInv, [StressNext]_stressVars
  PROVE  TryInv'
<1>1. Place /\ GpuInv /\ TryInv /\ PhaseInv /\ VerdictInv /\ Place'
  BY NextPlace DEF StressInv
<1>2. TryInv <=> (pc \in Trying => Covered /\ (pc # "unwind" => Appending))
  BY DEF TryInv, Trying, Covered, Appending
<1>3. TryInv' <=> (pc' \in Trying => Covered' /\ (pc' # "unwind" => Appending'))
  BY DEF TryInv, Trying, Covered, Appending
<1>4. CASE Elsewhere
  <2>1. /\ UNCHANGED <<pc, todo, active, tracked>> /\ alive' \subseteq alive
        /\ (thread' # "none" => thread # "none")
    BY <1>4, ElsewhereFacts
  <2>2. (gpu' <=> gpu) /\ (held' <=> held) /\ (AtRest' <=> AtRest)
    BY <1>4, ElsewhereFacts DEF AtRest
  <2>3. Covered => Covered'
    BY <2>1, <2>2 DEF Covered, NoCpu, ThreadGone
  <2>4. Appending => Appending'
    <3>1. Called("append")' <=> Called("append")
      BY <2>1 DEF Called
    <3>2. NextWorker' = NextWorker
      BY <2>1 DEF NextWorker
    <3>. QED
      BY <2>1, <3>1, <3>2 DEF Appending
  <2>. QED
    BY <1>1, <1>2, <1>3, <2>1, <2>3, <2>4
<1>5. CASE Call
  <2>0. UNCHANGED controlVars /\ (Called("fork") => Called("append")')
    BY <1>5, CallFacts
  <2>1. pc' = pc /\ active' = active /\ (gpu' <=> gpu) /\ (Called("fork") => Called("append")')
    BY <2>0 DEF controlVars
  <2>2. SUFFICES ASSUME pc \in Trying, Covered, pc # "unwind" => Appending
                 PROVE  Covered' /\ (pc # "unwind" => Appending')
    BY <1>1, <1>2, <1>3, <2>1
  <2>3. \A a, b : Called(a) /\ Called(b) => a = b
    BY DEF Called
  <2>5. CASE Called("fork") /\ ForkWorker
    <3>1. "cpu" \in active
      <4>1. Awaits("fork") /\ pc = "sample"
        BY <1>1, <2>5, CalledIsAwaited, WhereAwaited
      <4>. QED
        BY <1>1, <4>1 DEF PhaseInv
    <3>2. /\ alive' = alive \cup {NextWorker} /\ tracked' = tracked /\ NextWorker' = NextWorker
          /\ ~Called("append") /\ Called("append")'
      BY <2>1, <2>3, <2>5 DEF ForkWorker, NextWorker
    <3>3. (held' <=> held) /\ (ThreadGone' <=> ThreadGone)
      BY <2>5 DEF ForkWorker, gpuVars, threadVars, handleVars, strayVars, ThreadGone, AtRest
    <3>. QED
      BY <2>1, <2>2, <3>1, <3>2, <3>3 DEF Covered, Appending
  <2>6. CASE Called("append") /\ AppendWorker
    <3>1. "cpu" \in active /\ pc = "sample"
      <4>1. Awaits("append") /\ pc = "sample"
        BY <1>1, <2>6, CalledIsAwaited, WhereAwaited
      <4>. QED
        BY <1>1, <4>1 DEF PhaseInv
    <3>2. alive' = alive /\ tracked' = tracked \cup {NextWorker}
      BY <2>6 DEF AppendWorker
    <3>3. alive' \subseteq tracked'
      BY <2>2, <2>6, <3>1, <3>2 DEF Appending
    <3>4. (held' <=> held) /\ (ThreadGone' <=> ThreadGone)
      BY <2>6 DEF AppendWorker, gpuVars, threadVars, handleVars, strayVars, ThreadGone, AtRest
    <3>. QED
      BY <2>1, <2>2, <3>1, <3>3, <3>4 DEF Covered, Appending
  <2>7. CASE Called("join cpu") /\ ForgetWorkers
    <3>1. /\ tracked \cap alive = {} /\ alive' = alive /\ tracked' = {}
          /\ ~Called("append")
      BY <2>3, <2>7 DEF ForgetWorkers
    <3>2. (held' <=> held) /\ (ThreadGone' <=> ThreadGone)
      BY <2>7 DEF ForgetWorkers, gpuVars, threadVars, handleVars, strayVars, ThreadGone, AtRest
    <3>3. Covered'
      BY <2>1, <2>2, <3>1, <3>2 DEF Covered, NoCpu
    <3>4. ASSUME pc # "unwind"
          PROVE  Appending'
      <4>1. alive \subseteq tracked
        BY <2>2, <3>1, <3>4 DEF Appending
      <4>2. alive' = {}
        BY <3>1, <4>1
      <4>. QED
        BY <4>2 DEF Appending
    <3>. QED
      BY <3>3, <3>4
  <2>8. CASE \/ Called("set cpu") /\ SetCpuStop
             \/ Called("unset cpu") /\ ClearCpuStop
    <3>0. ~Called("append")
      BY <2>3, <2>8
    <3>1. alive' = alive /\ tracked' = tracked /\ UNCHANGED gpuVars
      BY <2>8 DEF SetCpuStop, ClearCpuStop
    <3>2. (held' <=> held) /\ (ThreadGone' <=> ThreadGone)
      BY <3>1 DEF gpuVars, threadVars, handleVars, strayVars, ThreadGone, AtRest
    <3>. QED
      BY <2>1, <2>2, <3>0, <3>1, <3>2 DEF Covered, NoCpu, Appending
  <2>9. CASE Called("start gpu") /\ StartThread
    <3>1. alive' = alive /\ tracked' = tracked /\ ~Called("append")
      BY <2>3, <2>9 DEF StartThread, cpuVars
    <3>2. held' <=> held
      BY <2>9 DEF StartThread, handleVars
    <3>3. gpu
      <4>1. Awaits("start gpu") /\ pc = "sample"
        BY <1>1, <2>9, CalledIsAwaited, WhereAwaited
      <4>. QED
        BY <1>1, <4>1 DEF PhaseInv, GpuInv
    <3>. QED
      BY <2>1, <2>2, <3>1, <3>2, <3>3 DEF Covered, NoCpu, Appending
  <2>10. CASE \/ Called("set gpu") /\ SetGpuStop
              \/ Called("join gpu") /\ JoinThread
              \/ Called("free") /\ FreeObjects
              \/ Called("clear") /\ ClearHandles
    <3>1. alive' = alive /\ tracked' = tracked /\ ~Called("append")
      BY <2>3, <2>10 DEF SetGpuStop, JoinThread, FreeObjects, ClearHandles, cpuVars
    <3>2. held' => held
      BY <2>10, Zenon DEF SetGpuStop, JoinThread, FreeObjects, ClearHandles, handleVars
    <3>3. thread' # "none" => thread # "none"
      BY <2>10 DEF SetGpuStop, JoinThread, FreeObjects, ClearHandles, threadVars
    <3>4. overran => overran'
      BY <2>10, Zenon DEF SetGpuStop, JoinThread, FreeObjects, ClearHandles, strayVars
    <3>5. gpuStop => gpuStop'
      BY <2>10, Zenon DEF SetGpuStop, JoinThread, FreeObjects, ClearHandles, threadVars
    <3>. QED
      BY <2>1, <2>2, <3>1, <3>2, <3>3, <3>4, <3>5
      DEF Covered, NoCpu, Appending, ThreadGone, AtRest
  <2>. QED
    BY <1>5, <2>5, <2>6, <2>7, <2>8, <2>9, <2>10 DEF Call
<1>6. CASE Forget
  <2>1. /\ todo' = Tail(todo) /\ todo # <<>> /\ pc' = pc /\ UNCHANGED loadVars
        /\ Called("forget") /\ (gpu' <=> gpu)
    BY <1>6 DEF Forget, Called
  <2>2. NoCpu
    <3>1. pc \in {"print", "next"}
      BY <1>1, <2>1, CalledIsAwaited, WhereAwaited
    <3>2. pc = "print" => aborted # "none"
      BY <1>1, <2>1 DEF PhaseInv
    <3>. QED
      BY <2>1, <3>1, <3>2, AfterStop
  <2>3. NoCpu' /\ (held' <=> held) /\ (ThreadGone' <=> ThreadGone)
    BY <2>1, <2>2 DEF NoCpu, ThreadGone, AtRest, loadVars, cpuVars, gpuVars, threadVars,
                      handleVars, strayVars
  <2>. QED
    BY <1>1, <1>2, <1>3, <2>1, <2>3 DEF Covered, NoCpu, Appending
<1>7. CASE Moves
  <2>1. ~Called("append")'
    BY <1>7, MovesPlace, Anew
  <2>2. CASE OpenGpu
    <3>1. NoCpu /\ NoCpu' /\ thread' = "none" /\ gpu'
      BY <1>1, <2>2 DEF OpenGpu, At, OpenHandles, PhaseInv, NoCpu, cpuVars
    <3>. QED
      BY <1>3, <3>1 DEF Covered, NoCpu, ThreadGone, Appending
  <2>3. CASE pc' \notin Trying
    BY <1>3, <2>3
  <2>4. ASSUME ~OpenGpu, pc' \in Trying
        PROVE  TryInv'
    <3>1. UNCHANGED loadVars
      BY <1>7, <2>4, MovesLoads DEF Trying
    <3>2. /\ (NoCpu' <=> NoCpu) /\ (held' <=> held) /\ (ThreadGone' <=> ThreadGone)
          /\ alive' = alive /\ tracked' = tracked
      BY <3>1 DEF NoCpu, ThreadGone, AtRest, loadVars, cpuVars, gpuVars, threadVars,
                  handleVars, strayVars
    <3>3. pc' = "unwind" \/ todo = <<>>
      BY <1>7, <2>4 DEF Moves, Trying, Preflight, SkipPhase, EnterPhase, RefusePhase,
           AllPhasesDone, Calibrate, NoGpuLoad, TakeSample, PrintAndBreak, PrintAndSleep, PhaseOver,
           NextPhase, Unwind, EndFinally, Report, ForkFails, Interrupt, InterruptOutside,
           EndPhase, Ends, At
    <3>0. ForkFails => pc = "sample"
      <4>1. ForkFails => Called("fork")
        BY DEF ForkFails
      <4>. QED
        BY <1>1, <4>1, CalledIsAwaited, WhereAwaited
    <3>4. pc \in Trying
      BY <1>7, <2>4, <3>0 DEF Moves, Trying, Preflight, SkipPhase, EnterPhase, RefusePhase,
           AllPhasesDone, Calibrate, NoGpuLoad, TakeSample, PrintAndBreak, PrintAndSleep, PhaseOver,
           NextPhase, Unwind, EndFinally, Report, ForkFails, Interrupt, InterruptOutside,
           EndPhase, Ends, At, InTry
    <3>5. pc' # "unwind" => Appending'
      <4>1. ASSUME pc' # "unwind"
            PROVE  pc # "unwind" /\ ~Called("append")
        <5>1. pc # "unwind"
          BY <1>7, <2>4, <4>1 DEF Moves, Trying, Preflight, SkipPhase, EnterPhase, RefusePhase,
             AllPhasesDone, Calibrate, NoGpuLoad, TakeSample, PrintAndBreak, PrintAndSleep,
             PhaseOver, NextPhase, Unwind, EndFinally, Report, ForkFails, Interrupt,
             InterruptOutside, EndPhase, Ends, At
        <5>. QED
          BY <3>3, <4>1, <5>1 DEF Called
      <4>. QED
        BY <1>1, <1>2, <2>1, <3>2, <3>4, <4>1 DEF Appending
    <3>6. CASE NextPhase
      <4>1. NoCpu /\ ThreadGone /\ ~held
        BY <3>6, AfterStop DEF NextPhase, At
      <4>. QED
        BY <1>3, <3>2, <3>5, <4>1 DEF Covered
    <3>7. CASE EnterPhase
      <4>1. NoCpu /\ ~gpu
        BY <1>1, <3>7 DEF EnterPhase, At, PhaseInv
      <4>2. gpu' <=> gpu
        BY <3>7 DEF EnterPhase
      <4>. QED
        BY <1>1, <1>2, <1>3, <3>2, <3>4, <3>5, <4>1, <4>2 DEF Covered
    <3>8. ASSUME ~NextPhase, ~EnterPhase
          PROVE  active' = active /\ gpu' = gpu
      BY <1>7, <2>4, <3>8 DEF Moves, Trying, Preflight, SkipPhase, RefusePhase,
           AllPhasesDone, Calibrate, NoGpuLoad, TakeSample, PrintAndBreak, PrintAndSleep, PhaseOver,
           Unwind, EndFinally, Report, ForkFails, Interrupt, InterruptOutside,
           EndPhase, Ends, At
    <3>9. ASSUME ~NextPhase, ~EnterPhase
          PROVE  TryInv'
      BY <1>1, <1>2, <1>3, <3>2, <3>4, <3>5, <3>8, <3>9 DEF Covered
    <3>. QED
      BY <3>6, <3>7, <3>9
  <2>. QED
    BY <2>2, <2>3, <2>4
<1>. QED
  BY <1>4, <1>5, <1>6, <1>7, ThreeKinds

-----------------------------------------------------------------------------
\* The phases.

\* What a call leaves of the loads that are told to stop.
LEMMA CallStops ==
  ASSUME StressInv, Call, pc \in {"print", "next"}
  PROVE  /\ Stopped => Stopped'
         /\ (held => Awaits("clear")) => (held' => Awaits("clear")')
<1>1. Place /\ GpuInv /\ TryInv
  BY DEF StressInv
<1>2. \A a, b : Called(a) /\ Called(b) => a = b
  BY DEF Called
<1>3. /\ ~Called("fork") /\ ~Called("append") /\ ~Called("unset cpu") /\ ~Called("start gpu")
  BY <1>1, WhereAwaited, CalledIsAwaited
<1>4. /\ JoinsFirst(todo) => JoinsFirst(todo)' \/ Called("join cpu")
      /\ Awaits("forget") => Awaits("forget")' \/ Called("forget")
      /\ Awaits("join gpu") => Awaits("join gpu")' \/ Called("join gpu")
      /\ Awaits("clear") => Awaits("clear")' \/ Called("clear")
  BY CallFacts
<1>5. ~Called("forget") /\ active' = active
  BY <1>2 DEF Call, controlVars
<1>6. CASE \/ Called("set cpu") /\ SetCpuStop
           \/ Called("join cpu") /\ ForgetWorkers
  <2>1. (Called("join cpu") => NoCpu') /\ (NoCpu => NoCpu')
    <3>1. CASE Called("join cpu") /\ ForgetWorkers
      <4>1. alive \subseteq tracked /\ tracked \cap alive = {} /\ alive' = alive /\ tracked' = {}
        BY <1>1, <1>3, <3>1 DEF TryInv, ForgetWorkers
      <4>. QED
        BY <4>1 DEF NoCpu
    <3>2. CASE Called("set cpu") /\ SetCpuStop
      BY <1>2, <3>2 DEF NoCpu, SetCpuStop
    <3>. QED
      BY <1>6, <3>1, <3>2
  <2>2. UNCHANGED gpuVars /\ ~Called("join gpu") /\ ~Called("clear")
    BY <1>2, <1>6 DEF SetCpuStop, ForgetWorkers
  <2>3. (held' <=> held) /\ thread' = thread /\ (AtRest' <=> AtRest)
    BY <2>2 DEF gpuVars, threadVars, handleVars, strayVars, AtRest
  <2>. QED
    BY <1>4, <1>5, <2>1, <2>2, <2>3 DEF Stopped
<1>7. CASE \/ Called("set gpu") /\ SetGpuStop
           \/ Called("join gpu") /\ JoinThread
           \/ Called("free") /\ FreeObjects
           \/ Called("clear") /\ ClearHandles
  <2>1. (NoCpu' <=> NoCpu) /\ ~Called("join cpu")
    <3>1. UNCHANGED cpuVars
      BY <1>7 DEF SetGpuStop, JoinThread, FreeObjects, ClearHandles
    <3>2. ~Called("join cpu")
      BY <1>2, <1>7
    <3>. QED
      BY <3>1, <3>2 DEF cpuVars, NoCpu
  <2>2. (held' => held) /\ (Called("clear") => ~held')
    <3>1. held' => held
      BY <1>7, Zenon DEF SetGpuStop, JoinThread, FreeObjects, ClearHandles, handleVars
    <3>2. Called("clear") => ClearHandles
      BY <1>2, <1>7
    <3>. QED
      BY <3>1, <3>2 DEF ClearHandles
  <2>3. AtRest => AtRest'
    <3>1. overran => overran'
      BY <1>7, Zenon DEF SetGpuStop, JoinThread, FreeObjects, ClearHandles, strayVars
    <3>2. gpuStop => gpuStop'
      BY <1>7, Zenon DEF SetGpuStop, JoinThread, FreeObjects, ClearHandles, threadVars
    <3>. QED
      BY <3>1, <3>2 DEF AtRest
  <2>4. thread' # "none" => thread # "none"
    BY <1>7 DEF SetGpuStop, JoinThread, FreeObjects, ClearHandles, threadVars
  <2>5. ASSUME Called("join gpu"), thread' # "none"
        PROVE  AtRest'
    <3>1. JoinThread
      BY <1>2, <1>7, <2>5
    <3>2. gpuStop'
      BY <1>1, <2>5, <3>1, Zenon DEF GpuInv, JoinThread
    <3>3. overran'
      BY <2>5, <3>1, Zenon DEF JoinThread
    <3>. QED
      BY <3>2, <3>3 DEF AtRest
  <2>. QED
    BY <1>4, <1>5, <2>1, <2>2, <2>3, <2>4, <2>5 DEF Stopped
<1>. QED
  BY <1>3, <1>6, <1>7 DEF Call

LEMMA SamePhase ==
  ASSUME n' = n
  PROVE  (LoadsCpu' <=> LoadsCpu) /\ (LoadsGpu' <=> LoadsGpu) /\ (InPhase' <=> InPhase)
BY DEF LoadsCpu, LoadsGpu, InPhase

LEMMA NextPhaseInv ==
  ASSUME StressInv, [StressNext]_stressVars
  PROVE  PhaseInv'
<1>1. Place /\ GpuInv /\ TryInv /\ PhaseInv /\ VerdictInv /\ Place'
  BY NextPlace DEF StressInv
<1>2. CASE Elsewhere
  <2>1. /\ UNCHANGED <<pc, todo, n, active, aborted>>
        /\ (gpu' <=> gpu) /\ (held' <=> held) /\ (AtRest' <=> AtRest)
        /\ (NoCpu => NoCpu') /\ (thread' # "none" => thread # "none")
    BY <1>2, ElsewhereFacts DEF NoCpu, AtRest
  <2>2. \A call : Awaits(call)' <=> Awaits(call)
    BY <2>1 DEF Awaits
  <2>3. Stopped => Stopped'
    BY <2>1, <2>2 DEF Stopped
  <2>. QED
    BY <1>1, <2>1, <2>2, <2>3, SamePhase DEF PhaseInv
<1>3. CASE Call
  <2>1. /\ pc' = pc /\ n' = n /\ active' = active /\ aborted' = aborted /\ (gpu' <=> gpu)
        /\ todo # <<>>
    BY <1>3 DEF Call, controlVars, Called
  <2>2. \A call : Awaits(call)' => Awaits(call)
    BY <1>3, CallFacts
  <2>3. pc \notin {"preflight", "phase", "open", "calibrate"}
    <3>1. Awaits(Head(todo)) /\ Head(todo) \in Calls
      <4>1. Called(Head(todo))
        BY <2>1 DEF Called
      <4>. QED
        BY <1>1, <4>1, CalledIsAwaited
    <3>. QED
      BY <1>1, <3>1, WhereAwaited DEF Calls, Stopping
  <2>4. pc \in {"print", "next"} => /\ Stopped => Stopped'
                                    /\ (held => Awaits("clear")) => (held' => Awaits("clear")')
    BY <1>3, CallStops
  <2>. QED
    BY <1>1, <2>1, <2>2, <2>3, <2>4, SamePhase DEF PhaseInv
<1>4. CASE Forget
  <2>1. /\ pc' = pc /\ n' = n /\ active' = {} /\ aborted' = aborted /\ (gpu' <=> gpu)
        /\ todo # <<>> /\ todo' = Tail(todo) /\ UNCHANGED loadVars /\ Called("forget")
    BY <1>4 DEF Forget, Called
  <2>2. pc = "next" \/ (pc = "print" /\ aborted # "none")
    <3>1. pc \in {"print", "next"}
      BY <1>1, <2>1, CalledIsAwaited, WhereAwaited
    <3>. QED
      BY <1>1, <2>1, <3>1 DEF PhaseInv
  <2>3. /\ (held' <=> held) /\ thread' = thread /\ (AtRest' <=> AtRest) /\ (NoCpu' <=> NoCpu)
    BY <2>1 DEF loadVars, cpuVars, gpuVars, threadVars, handleVars, strayVars, AtRest, NoCpu
  <2>4. NoCpu'
    BY <2>1, <2>2, <2>3, AfterStop
  <2>5. ~Called("join gpu") /\ ~Called("clear")
    BY <2>1 DEF Called
  <2>6. /\ Awaits("join gpu") => Awaits("join gpu")'
        /\ Awaits("clear") => Awaits("clear")'
    BY <1>1, <2>1, <2>5, Proceeds DEF Awaits
  <2>7. Stopped'
    BY <1>1, <2>1, <2>2, <2>3, <2>4, <2>6 DEF Stopped, PhaseInv
  <2>8. pc' = "next" => (held' => Awaits("clear")')
    BY <1>1, <2>1, <2>3, <2>6 DEF PhaseInv
  <2>. QED
    BY <1>1, <2>1, <2>2, <2>7, <2>8, SamePhase DEF PhaseInv
<1>5. CASE Moves
  <2>1. CASE pc' \in {"unwind", "finally", "report", "ended"}
    <3>1. active' = active
      BY <1>5, <2>1 DEF Moves, Preflight, SkipPhase, EnterPhase, RefusePhase,
           AllPhasesDone, OpenGpu, Calibrate, NoGpuLoad, TakeSample, PrintAndBreak, PrintAndSleep,
           PhaseOver, NextPhase, Unwind, EndFinally, Report, ForkFails, Interrupt,
           InterruptOutside, EndPhase, Ends, At
    <3>. QED
      BY <1>1, <2>1, <3>1 DEF PhaseInv
  <2>2. CASE Preflight \/ SkipPhase \/ NoGpuLoad
    <3>1. CASE pc' = "ended"
      BY <2>1, <3>1
    <3>2. ASSUME pc' # "ended"
          PROVE  /\ pc' = "phase" /\ pc \in {"preflight", "phase", "open", "calibrate"}
                 /\ active' = active /\ gpu' = gpu /\ UNCHANGED loadVars
      BY <2>2, <3>2 DEF Preflight, SkipPhase, Calibrate, NoGpuLoad, At, Ends
    <3>3. (NoCpu /\ ~gpu /\ active \subseteq {"cpu", "gpu"}) \/ pc' = "ended"
      BY <1>1, <3>2 DEF PhaseInv
    <3>4. (NoCpu' /\ ~gpu') \/ pc' = "ended"
      BY <3>2, <3>3 DEF NoCpu, loadVars, cpuVars
    <3>. QED
      BY <3>1, <3>2, <3>3, <3>4 DEF PhaseInv
  <2>0. CASE Calibrate
    <3>1. /\ pc = "open" /\ pc' = "calibrate" /\ UNCHANGED <<loadVars, n, active, gpu>>
      BY <2>0 DEF Calibrate, At
    <3>2. NoCpu' /\ ~gpu' /\ LoadsGpu /\ active = IF LoadsCpu THEN {"cpu"} ELSE {}
      BY <1>1, <3>1 DEF PhaseInv, NoCpu, loadVars, cpuVars
    <3>. QED
      BY <1>1, <3>1, <3>2, SamePhase DEF PhaseInv
  <2>3. CASE EnterPhase
    <3>1. /\ NoCpu' /\ ~gpu' /\ n' = n
          /\ active' = (IF LoadsCpu THEN {"cpu"} ELSE {})
          /\ pc' = (IF LoadsGpu THEN "open" ELSE "sample")
      BY <1>1, <2>3 DEF EnterPhase, At, PhaseInv, NoCpu, loadVars, cpuVars
    <3>2. pc' = "sample" /\ (Awaits("fork")' \/ Awaits("append")') => "cpu" \in active'
      <4>1. ASSUME pc' = "sample", Awaits("fork")' \/ Awaits("append")'
            PROVE  "cpu" \in active'
        <5>1. todo' = Starts(active')
          BY <2>3, <3>1, <4>1 DEF EnterPhase
        <5>2. \A call \in {"fork", "append"} : Contains(todo', call) => "cpu" \in active'
          BY <4>1, <5>1, PlaceStarts
        <5>. QED
          BY <4>1, <5>2 DEF Awaits
      <4>. QED
        BY <4>1
    <3>. QED
      BY <3>1, <3>2, SamePhase DEF PhaseInv
  <2>4. CASE OpenGpu
    <3>1. /\ pc' = "sample" /\ gpu' /\ n' = n /\ active' = active \cup {"gpu"}
          /\ todo' = Starts(active') /\ LoadsGpu
          /\ active = IF LoadsCpu THEN {"cpu"} ELSE {}
      BY <1>1, <2>4 DEF OpenGpu, At, PhaseInv
    <3>2. \A call \in {"fork", "append"} : Contains(todo', call) => "cpu" \in active'
      BY <3>1, PlaceStarts
    <3>. QED
      BY <3>1, <3>2, SamePhase DEF PhaseInv, Awaits
  <2>5. CASE TakeSample
    <3>1. /\ pc = "sample" /\ pc' = "print" /\ n' = n /\ active' = active /\ (gpu' <=> gpu)
          /\ UNCHANGED loadVars
          /\ todo' = IF aborted' = "none" THEN <<>> ELSE StopActive
      BY <2>5 DEF TakeSample, StopBeforePrinting, At
    <3>2. (NoCpu' <=> NoCpu) /\ thread' = thread /\ (AtRest' <=> AtRest)
      BY <3>1 DEF NoCpu, AtRest, loadVars, cpuVars, gpuVars, threadVars, strayVars
    <3>3. ASSUME aborted' # "none"
          PROVE  Stopped'
      <4>1. /\ "cpu" \in active => JoinsFirst(todo')
            /\ "gpu" \in active => Contains(todo', "join gpu")
            /\ Contains(todo', "forget")
        BY <3>1, <3>3, PlaceStopActive
      <4>2. ~NoCpu => "cpu" \in active
        BY <1>1, <3>1 DEF TryInv
      <4>3. thread # "none" => AtRest \/ "gpu" \in active
        BY <1>1, <3>1 DEF TryInv, PhaseInv, ThreadGone
      <4>. QED
        BY <3>2, <4>1, <4>2, <4>3 DEF Stopped, Awaits
    <3>. QED
      BY <1>1, <3>1, <3>3, SamePhase DEF PhaseInv
  <2>6. CASE PrintAndBreak \/ PhaseOver
    <3>1. /\ pc \in {"sample", "print"} /\ pc' = "next" /\ active' = active
          /\ UNCHANGED loadVars /\ todo' = StopActive \o Release
      BY <2>6 DEF PrintAndBreak, PhaseOver, EndPhase, At
    <3>2. (NoCpu' <=> NoCpu) /\ thread' = thread /\ (AtRest' <=> AtRest) /\ (held' <=> held)
      BY <3>1 DEF NoCpu, AtRest, loadVars, cpuVars, gpuVars, threadVars, handleVars, strayVars
    <3>3. /\ "cpu" \in active => JoinsFirst(todo')
          /\ gpu => Contains(todo', "join gpu")
          /\ Contains(todo', "forget")
          /\ gpu => Contains(todo', "clear")
      BY <3>1, PlaceEndPhase
    <3>4. /\ ~NoCpu => "cpu" \in active
          /\ held => gpu
          /\ thread # "none" => AtRest \/ gpu
      BY <1>1, <3>1 DEF TryInv, ThreadGone
    <3>5. Stopped' /\ (held' => Awaits("clear")')
      BY <3>2, <3>3, <3>4 DEF Stopped, Awaits
    <3>. QED
      BY <1>1, <3>1, <3>5 DEF PhaseInv
  <2>7. CASE PrintAndSleep
    <3>1. /\ pc = "print" /\ aborted = "none" /\ pc' = "sample" /\ n' = n /\ active' = active
          /\ (gpu' <=> gpu) /\ todo' = <<>>
      BY <2>7 DEF PrintAndSleep, At
    <3>2. ~Awaits("fork")' /\ ~Awaits("append")'
      BY <3>1, EmptyList DEF Awaits
    <3>. QED
      BY <1>1, <3>1, <3>2, SamePhase DEF PhaseInv
  <2>8. CASE NextPhase
    <3>1. CASE pc' = "finally"
      BY <2>1, <3>1
    <3>2. ASSUME pc' # "finally"
          PROVE  /\ pc' = "phase" /\ active' = active
                 /\ ~gpu' /\ UNCHANGED loadVars /\ NoCpu
      BY <2>8, <3>2, AfterStop DEF NextPhase, At
    <3>. QED
      BY <1>1, <3>1, <3>2 DEF PhaseInv, NoCpu, loadVars, cpuVars
  <2>9. CASE \/ RefusePhase \/ AllPhasesDone \/ Unwind \/ EndFinally \/ Report
             \/ ForkFails \/ Interrupt \/ InterruptOutside
    <3>1. pc' \in {"unwind", "finally", "report", "ended"}
      BY <2>9 DEF RefusePhase, AllPhasesDone, Unwind, EndFinally, Report, ForkFails, Interrupt,
                  InterruptOutside, Ends
    <3>. QED
      BY <2>1, <3>1
  <2>. QED
    BY <1>5, <2>0, <2>2, <2>3, <2>4, <2>5, <2>6, <2>7, <2>8, <2>9 DEF Moves
<1>. QED
  BY <1>2, <1>3, <1>4, <1>5, ThreeKinds

-----------------------------------------------------------------------------
\* The finally block, and what the run comes to.

\* The cleanup of the try block's end names everything that Covered knows of.
LEMMA CleanupCovers ==
  ASSUME Covered, UNCHANGED loadVars, pc' = "finally", todo' = Cleanup
  PROVE  FinalInv'
<1>1. /\ "cpu" \in active => Contains(todo', "set cpu") /\ Contains(todo', "join cpu")
      /\ gpu => Contains(todo', "join gpu") /\ Contains(todo', "clear")
  BY PlaceCleanup
<1>2. /\ alive' = alive /\ tracked' = tracked /\ (held' <=> held) /\ thread' = thread
      /\ (AtRest' <=> AtRest)
  BY DEF loadVars, cpuVars, gpuVars, threadVars, handleVars, strayVars, AtRest
<1>. QED
  BY <1>1, <1>2 DEF FinalInv, Covered, NoCpu, ThreadGone, Awaits

LEMMA NextFinal ==
  ASSUME StressInv, [StressNext]_stressVars
  PROVE  FinalInv'
<1>1. Place /\ GpuInv /\ TryInv /\ PhaseInv /\ FinalInv /\ Place'
  BY NextPlace DEF StressInv
<1>2. CASE Elsewhere
  <2>1. /\ UNCHANGED <<pc, todo, tracked>> /\ alive' \subseteq alive
        /\ (cpuStop' <=> cpuStop) /\ (held' <=> held) /\ (AtRest' <=> AtRest)
        /\ (thread' # "none" => thread # "none")
    BY <1>2, ElsewhereFacts DEF AtRest
  <2>2. \A call : Awaits(call)' <=> Awaits(call)
    BY <2>1 DEF Awaits
  <2>. QED
    BY <1>1, <2>1, <2>2 DEF FinalInv, ThreadGone
<1>3. CASE Call
  <2>1. /\ pc' = pc /\ todo # <<>>
    BY <1>3 DEF Call, controlVars, Called
  <2>2. /\ Awaits("join cpu") => Awaits("join cpu")' \/ Called("join cpu")
        /\ Awaits("set cpu") => Awaits("set cpu")' \/ Called("set cpu")
        /\ Awaits("join gpu") => Awaits("join gpu")' \/ Called("join gpu")
        /\ Awaits("clear") => Awaits("clear")' \/ Called("clear")
    BY <1>3, CallFacts
  <2>3. \A a, b : Called(a) /\ Called(b) => a = b
    BY DEF Called
  <2>4. pc # "report"
    <3>1. Awaits(Head(todo)) /\ Head(todo) \in Calls
      <4>1. Called(Head(todo))
        BY <2>1 DEF Called
      <4>. QED
        BY <1>1, <4>1, CalledIsAwaited
    <3>. QED
      BY <1>1, <3>1, WhereAwaited DEF Calls, Stopping
  <2>5. SUFFICES ASSUME pc = "finally"
                 PROVE  FinalInv'
    BY <2>1, <2>4 DEF FinalInv
  <2>6. ~Called("fork") /\ ~Called("append") /\ ~Called("unset cpu") /\ ~Called("start gpu")
    BY <1>1, <2>5, WhereAwaited, CalledIsAwaited
  <2>7. CASE \/ Called("set cpu") /\ SetCpuStop
             \/ Called("join cpu") /\ ForgetWorkers
    <3>1. UNCHANGED gpuVars /\ ~Called("join gpu") /\ ~Called("clear") /\ alive' = alive
      BY <2>3, <2>7 DEF SetCpuStop, ForgetWorkers
    <3>2. (held' <=> held) /\ thread' = thread /\ (AtRest' <=> AtRest)
      BY <3>1 DEF gpuVars, threadVars, handleVars, strayVars, AtRest
    <3>3. (cpuStop => cpuStop') /\ (Called("set cpu") => cpuStop')
      <4>1. cpuStop => cpuStop'
        BY <2>7, Zenon DEF SetCpuStop, ForgetWorkers
      <4>2. Called("set cpu") => SetCpuStop
        BY <2>3, <2>7
      <4>. QED
        BY <4>1, <4>2 DEF SetCpuStop
    <3>4. tracked' # {} => tracked # {} /\ ~Called("join cpu")
      BY <2>3, <2>7 DEF SetCpuStop, ForgetWorkers
    <3>. QED
      BY <1>1, <2>1, <2>2, <2>5, <3>1, <3>2, <3>3, <3>4 DEF FinalInv
  <2>8. CASE \/ Called("set gpu") /\ SetGpuStop
             \/ Called("join gpu") /\ JoinThread
             \/ Called("free") /\ FreeObjects
             \/ Called("clear") /\ ClearHandles
    <3>1. UNCHANGED cpuVars /\ ~Called("join cpu") /\ ~Called("set cpu")
      BY <2>3, <2>8 DEF SetGpuStop, JoinThread, FreeObjects, ClearHandles
    <3>2. alive' = alive /\ tracked' = tracked /\ (cpuStop' <=> cpuStop)
      BY <3>1 DEF cpuVars
    <3>3. (held' => held) /\ (Called("clear") => ~held')
      <4>1. held' => held
        BY <2>8, Zenon DEF SetGpuStop, JoinThread, FreeObjects, ClearHandles, handleVars
      <4>2. Called("clear") => ClearHandles
        BY <2>3, <2>8
      <4>. QED
        BY <4>1, <4>2 DEF ClearHandles
    <3>4. AtRest => AtRest'
      <4>1. overran => overran'
        BY <2>8, Zenon DEF SetGpuStop, JoinThread, FreeObjects, ClearHandles, strayVars
      <4>2. gpuStop => gpuStop'
        BY <2>8, Zenon DEF SetGpuStop, JoinThread, FreeObjects, ClearHandles, threadVars
      <4>. QED
        BY <4>1, <4>2 DEF AtRest
    <3>5. thread' # "none" => thread # "none"
      BY <2>8 DEF SetGpuStop, JoinThread, FreeObjects, ClearHandles, threadVars
    <3>6. ASSUME Called("join gpu"), thread' # "none"
          PROVE  AtRest'
      <4>1. JoinThread
        BY <2>3, <2>8, <3>6
      <4>2. gpuStop'
        BY <1>1, <3>6, <4>1, Zenon DEF GpuInv, JoinThread
      <4>3. overran'
        BY <3>6, <4>1, Zenon DEF JoinThread
      <4>. QED
        BY <4>2, <4>3 DEF AtRest
    <3>. QED
      BY <1>1, <2>1, <2>2, <2>5, <3>1, <3>2, <3>3, <3>4, <3>5, <3>6 DEF FinalInv
  <2>. QED
    BY <1>3, <2>6, <2>7, <2>8 DEF Call
<1>4. CASE Forget
  <2>1. pc \in {"print", "next"} /\ pc' = pc
    BY <1>1, <1>4, CalledIsAwaited, WhereAwaited DEF Forget
  <2>. QED
    BY <2>1 DEF FinalInv
<1>5. CASE Moves
  <2>1. CASE RefusePhase \/ AllPhasesDone \/ Unwind
    <3>1. /\ pc \in {"phase", "unwind"} /\ UNCHANGED loadVars
          /\ pc' = "finally" /\ todo' = Cleanup
      BY <2>1 DEF RefusePhase, AllPhasesDone, Unwind, At
    <3>2. Covered
      BY <1>1, <3>1 DEF TryInv, Covered
    <3>. QED
      BY <3>1, <3>2, CleanupCovers
  <2>2. CASE Interrupt
    <3>1. CASE Starting
      BY <2>2, <3>1 DEF Interrupt, FinalInv
    <3>2. CASE ~Starting
      <4>1. UNCHANGED loadVars /\ pc' = "finally" /\ todo' = Cleanup
        BY <2>2, <3>2 DEF Interrupt
      <4>2. Covered
        BY <1>1, <2>2 DEF Interrupt, InTry, TryInv, Covered
      <4>. QED
        BY <4>1, <4>2, CleanupCovers
    <3>. QED
      BY <3>1, <3>2
  <2>3. CASE NextPhase
    <3>1. NoCpu /\ ThreadGone /\ ~held /\ UNCHANGED loadVars /\ pc' \in {"phase", "finally"}
      BY <2>3, AfterStop DEF NextPhase, At
    <3>2. NoCpu' /\ ThreadGone' /\ ~held'
      BY <3>1 DEF NoCpu, ThreadGone, AtRest, loadVars, cpuVars, gpuVars, threadVars,
                  handleVars, strayVars
    <3>. QED
      BY <3>1, <3>2 DEF FinalInv, NoCpu, ThreadGone
  <2>4. CASE EndFinally
    <3>1. CASE raised
      BY <2>4, <3>1 DEF EndFinally, Ends, FinalInv
    <3>2. CASE ~raised
      <4>1. pc = "finally" /\ todo = <<>> /\ pc' = "report" /\ UNCHANGED loadVars
        BY <2>4, <3>2 DEF EndFinally, At
      <4>2. /\ ~Awaits("join cpu") /\ ~Awaits("set cpu") /\ ~Awaits("clear")
            /\ ~Awaits("join gpu")
        BY <4>1, NothingToDo
      <4>3. tracked = {} /\ (alive # {} => cpuStop) /\ ~held /\ ThreadGone
        BY <1>1, <4>1, <4>2 DEF FinalInv, ThreadGone
      <4>4. tracked' = {} /\ (alive' # {} => cpuStop') /\ ~held' /\ ThreadGone'
        BY <4>1, <4>3 DEF loadVars, cpuVars, gpuVars, threadVars, handleVars, strayVars,
                          ThreadGone, AtRest
      <4>. QED
        BY <4>1, <4>4 DEF FinalInv
    <3>. QED
      BY <3>1, <3>2
  <2>5. CASE \/ Preflight \/ SkipPhase \/ EnterPhase \/ Calibrate \/ OpenGpu \/ NoGpuLoad
             \/ TakeSample \/ PrintAndBreak \/ PrintAndSleep \/ PhaseOver \/ Report \/ ForkFails
             \/ InterruptOutside
    <3>1. pc' \notin {"finally", "report"}
      BY <2>5 DEF Preflight, SkipPhase, EnterPhase, OpenGpu, Calibrate, NoGpuLoad, TakeSample,
                  PrintAndBreak, PrintAndSleep, PhaseOver, Report, ForkFails, InterruptOutside,
                  EndPhase, Ends, At
    <3>. QED
      BY <3>1 DEF FinalInv
  <2>. QED
    BY <1>5, <2>1, <2>2, <2>3, <2>4, <2>5 DEF Moves
<1>. QED
  BY <1>2, <1>3, <1>4, <1>5, ThreeKinds

LEMMA VerdictStays ==
  ASSUME VerdictInv, UNCHANGED <<pc, n, aborted, status>>,
         (raised' <=> raised) /\ (limitHit' <=> limitHit)
  PROVE  VerdictInv'
BY SamePhase DEF VerdictInv

LEMMA NextVerdict ==
  ASSUME StressInv, [StressNext]_stressVars
  PROVE  VerdictInv'
<1>1. Place /\ PhaseInv /\ VerdictInv
  BY DEF StressInv
<1>2. CASE Elsewhere
  BY <1>1, <1>2, ElsewhereFacts, VerdictStays
<1>3. CASE Call \/ Forget
  <2>1. UNCHANGED <<pc, n, aborted, status, raised, limitHit>>
    BY <1>3 DEF Call, Forget, controlVars
  <2>. QED
    BY <1>1, <2>1, VerdictStays
<1>4. CASE Preflight
  BY <1>1, <1>4, SamePhase DEF Preflight, At, Ends, VerdictInv
<1>5. CASE SkipPhase \/ Calibrate \/ NoGpuLoad
  BY <1>1, <1>5 DEF SkipPhase, Calibrate, NoGpuLoad, At, VerdictInv
<1>6. CASE EnterPhase \/ OpenGpu
  BY <1>1, <1>6 DEF EnterPhase, OpenGpu, At, VerdictInv
<1>7. CASE RefusePhase
  BY <1>1, <1>7 DEF RefusePhase, At, VerdictInv
<1>8. CASE AllPhasesDone
  BY <1>1, <1>8, SamePhase DEF AllPhasesDone, At, VerdictInv
<1>9. CASE TakeSample
  <2>1. pc = "sample" /\ pc' = "print" /\ status' = status /\ aborted = "none"
    BY <1>1, <1>9 DEF TakeSample, At, VerdictInv
  <2>2. ASSUME aborted' = "none"
        PROVE  ~limitHit'
    <3>1. ~Tripped(sample', LoadsGpu)
      BY <1>9, <2>2 DEF TakeSample
    <3>. QED
      BY <1>1, <1>9, <2>1, <3>1 DEF TakeSample, VerdictInv
  <2>. QED
    BY <1>1, <2>1, <2>2 DEF VerdictInv
<1>10. CASE PrintAndBreak \/ PhaseOver \/ PrintAndSleep
  BY <1>1, <1>10 DEF PrintAndBreak, PhaseOver, PrintAndSleep, EndPhase, At, VerdictInv
<1>11. CASE NextPhase
  BY <1>1, <1>11 DEF NextPhase, At, VerdictInv
<1>12. CASE Unwind
  BY <1>1, <1>12 DEF Unwind, At, VerdictInv
<1>13. CASE EndFinally
  BY <1>1, <1>13, SamePhase DEF EndFinally, At, Ends, VerdictInv
<1>14. CASE Report
  BY <1>1, <1>14, SamePhase DEF Report, ExitStatus, At, Ends, VerdictInv
<1>15. CASE ForkFails
  <2>1. pc = "sample"
    BY <1>1, <1>15, CalledIsAwaited, WhereAwaited DEF ForkFails
  <2>. QED
    BY <1>1, <1>15, <2>1 DEF ForkFails, VerdictInv
<1>16. CASE Interrupt
  BY <1>1, <1>16 DEF Interrupt, InTry, VerdictInv
<1>17. CASE InterruptOutside
  BY <1>1, <1>17 DEF InterruptOutside, Ends, VerdictInv
<1>. QED
  BY <1>2, <1>3, <1>4, <1>5, <1>6, <1>7, <1>8, <1>9, <1>10, <1>11, <1>12, <1>13, <1>14, <1>15,
     <1>16, <1>17, ThreeKinds DEF Moves

LEMMA NextSample ==
  ASSUME StressInv, [StressNext]_stressVars
  PROVE  SampleInv'
<1>1. SampleInv
  BY DEF StressInv
<1>. DEFINE All == [cpu : CpuReadings, gpu : GpuReadings, counter : Counters \cup {"still"}]
<1>2. ASSUME UNCHANGED <<pc, n, aborted, sample, guarded>>
      PROVE  SampleInv'
  BY <1>1, <1>2, SamePhase DEF SampleInv, Tripped
<1>3. CASE Elsewhere
  BY <1>2, <1>3, ElsewhereFacts
<1>4. CASE Call \/ Forget
  <2>1. UNCHANGED <<pc, n, aborted, sample, guarded>>
    BY <1>4 DEF Call, Forget, controlVars
  <2>. QED
    BY <1>2, <2>1
<1>5. CASE TakeSample
  <2>1. sample' \in All
    BY <1>5 DEF TakeSample, Samples
  <2>2. (guarded' <=> guarded) /\ n' = n
    BY <1>5 DEF TakeSample
  <2>3. Tripped(sample', LoadsGpu) => aborted' # "none"
    BY <1>5 DEF TakeSample
  <2>4. Tripped(sample, LoadsGpu)' => Tripped(sample', LoadsGpu)
    BY <2>2, SamePhase DEF Tripped
  <2>. QED
    BY <2>1, <2>3, <2>4 DEF SampleInv
<1>6. CASE Moves /\ ~TakeSample
  <2>1. sample' = sample \/ sample' \in Samples
    BY <1>6 DEF Moves, Preflight, SkipPhase, EnterPhase, RefusePhase, AllPhasesDone, OpenGpu,
         Calibrate, NoGpuLoad, PrintAndBreak, PrintAndSleep, PhaseOver, NextPhase, Unwind,
         EndFinally, Report, ForkFails, Interrupt, InterruptOutside, EndPhase
  <2>2. sample' \in All
    BY <1>1, <2>1 DEF SampleInv, Samples
  <2>3. pc' # "print"
    BY <1>6 DEF Moves, Preflight, SkipPhase, EnterPhase, RefusePhase, AllPhasesDone, OpenGpu,
         Calibrate, NoGpuLoad, PrintAndBreak, PrintAndSleep, PhaseOver, NextPhase, Unwind,
         EndFinally, Report, ForkFails, Interrupt, InterruptOutside, EndPhase, Ends, At
  <2>. QED
    BY <2>2, <2>3 DEF SampleInv
<1>. QED
  BY <1>3, <1>4, <1>5, <1>6, ThreeKinds

\* What run knows of its loads, keeps for its finally block and reports is right at every
\* statement of stress.py's run and at every moment of Ctrl-C.
THEOREM StressIsInductive == StressSpec => []StressInv
<1>1. StressInit => StressInv
  BY InitStress
<1>2. StressInv /\ [StressNext]_stressVars => StressInv'
  BY NextPlace, NextGpu, NextFree, NextTry, NextPhaseInv, NextFinal, NextVerdict, NextSample
  DEF StressInv
<1>. QED
  BY <1>1, <1>2, PTL DEF StressSpec

\* OpenCL objects are freed only when no launch uses them, unless that launch has outlasted
\* a join, and then no further launch is made with them; and they are freed once, and once
\* more at most for each press of Ctrl-C (load.py 231-272).
THEOREM ObjectsAreFreedWhenIdle == StressSpec => []FreedWhenIdle
<1>1. StressInv => FreedWhenIdle
  BY DEF StressInv, GpuInv, FreeInv, Presses, FreedWhenIdle
<1>. QED
  BY <1>1, StressIsInductive, PTL

\* A phase is loaded by its own loads only (stress.py 406-408, 456-461).
THEOREM PhasesAreQuiet == StressSpec => []QuietPhase
<1>1. ASSUME StressInv, pc \in {"sample", "print"}
      PROVE  /\ CpuWorking => LoadsCpu
             /\ held => LoadsGpu
             /\ GpuWorking => LoadsGpu \/ GpuAtRest
             /\ stray => overran
  <2>1. TryInv /\ PhaseInv /\ GpuInv
    BY <1>1 DEF StressInv
  <2>2. /\ ~NoCpu => "cpu" \in active
        /\ held => gpu
        /\ ThreadGone \/ gpu
    BY <1>1, <2>1 DEF TryInv
  <2>3. ("cpu" \in active => LoadsCpu) /\ (gpu => LoadsGpu)
    BY <1>1, <2>1 DEF PhaseInv
  <2>. QED
    BY <2>1, <2>2, <2>3 DEF GpuInv, CpuWorking, NoCpu, GpuWorking, GpuAtRest, ThreadGone, AtRest
<1>2. StressInv => QuietPhase
  BY <1>1 DEF QuietPhase
<1>. QED
  BY <1>2, StressIsInductive, PTL

\* When the report is written every load has been told to stop and the tracked ones are
\* gone (stress.py 464-470).
THEOREM ReportComesAfterLoad == StressSpec => []ReportAfterLoad
<1>1. StressInv => ReportAfterLoad
  BY DEF StressInv, FinalInv, ReportAfterLoad, CpuWorking, ThreadGone, AtRest
<1>. QED
  BY <1>1, StressIsInductive, PTL

\* Unless it was interrupted, a run that ends with success came to the end of its plan and
\* the guard never stopped it (stress.py 440-461, 482).
THEOREM SuccessIsAlwaysComplete == StressSpec => []SuccessIsComplete
<1>1. StressInv => SuccessIsComplete
  BY DEF StressInv, VerdictInv, SuccessIsComplete
<1>. QED
  BY <1>1, StressIsInductive, PTL

\* The line of a sample that must stop the load, or found one dead, is written after every
\* load has stopped (stress.py 444-452), if the counter can be read or is missing altogether:
\* one that exists and cannot be read passes for one that has not moved (probe.py 280).
THEOREM AlarmAlwaysStopsLoad ==
  ASSUME "unreadable" \notin Counters
  PROVE  StressSpec => []AlarmStopsLoad
<1>1. ASSUME StressInv, At("print"), Alarm(sample) \/ aborted = "load"
      PROVE  ~CpuWorking /\ GpuAtRest
  <2>1. SampleInv /\ pc = "print" /\ todo = <<>>
    BY <1>1 DEF StressInv, At
  <2>2. sample.counter \in {"still", "moved", "gone"}
    BY <2>1, StressAssumption DEF SampleInv
  <2>3. Alarm(sample) => Tripped(sample, LoadsGpu)
    BY <2>2 DEF Alarm, Tripped
  <2>4. aborted # "none"
    BY <1>1, <2>1, <2>3 DEF SampleInv
  <2>5. NoCpu /\ ThreadGone
    BY <1>1, <2>1, <2>4, AfterStop
  <2>. QED
    BY <2>5 DEF NoCpu, CpuWorking, ThreadGone, AtRest, GpuAtRest, GpuWorking
<1>2. StressInv => AlarmStopsLoad
  BY <1>1 DEF AlarmStopsLoad
<1>. QED
  BY <1>2, StressIsInductive, PTL
=============================================================================
