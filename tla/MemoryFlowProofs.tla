-------------------------- MODULE MemoryFlowProofs --------------------------
(***************************************************************************)
(* Proofs about what the compiler makes of references: MemoryFlow, for any *)
(* functions, statements and lengths, and RedundantReferenceCounting, for  *)
(* any block, values and objects.                                          *)
(***************************************************************************)
EXTENDS MemoryFlow, RedundantReferenceCounting, SequenceTheorems, FiniteSetTheorems, WellFoundedInduction, TLAPS

(***************************************************************************)
(* The inductive invariant.  AnalysisClosed speaks of the end.  What keeps *)
(* it until then is that whatever a function took for granted of another   *)
(* one whose analysis was running is in assumed, so that a category that   *)
(* changes when that analysis ends makes AssumptionsHold false.            *)
(***************************************************************************)

\* The positions of the statements of f that have been analysed.
Performed(f) == {k \in Positions(f) : statement[f] # None => k # Len(body[f])}
Finished(f) == stage[f] \in {"promises", "done"}

\* Every analysis that is not over is on the stack, and has the statement it is at.
OnTheWay ==
    \A f \in Functions :
        /\ Running(f) => \E n \in 1..Len(running) : running[n] = f
        /\ stage[f] = "promises" => Super[f] # None
        /\ statement[f] # None =>
            /\ stage[f] = "body"
            /\ body[f] # <<>>
            /\ statement[f] = body[f][Len(body[f])]

ParamCategory(f) == IF "param" \in escaping[f] THEN "Escaping" ELSE "Borrowing"

\* A category only changes when an analysis starts or its body ends.
FlowsFinal ==
    \A f \in Functions :
        /\ stage[f] = "body" => thisFlow[f] = "Escaping"
        /\ Finished(f) => thisFlow[f] = ThisCategory(f) /\ paramFlow[f] = ParamCategory(f)

\* A statement is analysed after what it calls, or what it assumed is recorded.
TargetsKnown ==
    \A f \in Functions : \A k \in Performed(f) :
        LET target == body[f][k].target IN
        target # None =>
            /\ IsMemoryFlowAnalysed(target)
            /\ stage[target] = "body" /\ paramFlow[target] = "Borrowing" =>
                <<target, "param", "Borrowing">> \in assumed

\* Nothing that was assumed is refuted before the body ends.
AssumedSoFar ==
    \A a \in assumed :
        /\ IsMemoryFlowAnalysed(a[1])
        /\ stage[a[1]] = "body" => a[3] = IF a[2] = "this" THEN thisFlow[a[1]] ELSE paramFlow[a[1]]

\* What statements let escape is in escaping.
Summarised ==
    AssumptionsHold =>
        \A f \in Functions : \A k \in Performed(f) : EscapingIn(body[f][k]) \subseteq escaping[f]

Fulfilled(f) ==
    /\ FulfillsPromise(thisFlow[f], thisFlow[Super[f]])
    /\ FulfillsPromise(paramFlow[f], paramFlow[Super[f]])

PromisesChecked ==
    \A f \in Functions :
        stage[f] = "done" /\ Super[f] # None /\ f \notin broken =>
            /\ IsMemoryFlowAnalysed(Super[f])
            /\ stage[Super[f]] = "body" =>
                /\ <<Super[f], "this", thisFlow[Super[f]]>> \in assumed
                /\ <<Super[f], "param", paramFlow[Super[f]]>> \in assumed
            /\ AssumptionsHold => Fulfilled(f)

DeinitializersChecked ==
    \A d \in Deinitializers : Finished(d) /\ d \notin broken => "this" \notin escaping[d]

\* What is on the stack, or may come there at the end of the body.
SitesBorrowed ==
    /\ \A f \in Functions : \A k \in inits[f] :
        k \in Performed(f) /\ body[f][k].op = "new" /\ body[f][k].use = "let"
    /\ \A f \in Functions, k \in 1..MaxLength : <<f, k>> \in onStack =>
        /\ k \in Performed(f)
        /\ body[f][k].op = "new"
        /\ body[f][k].use \in {"discard", "let"}
        /\ Finished(body[f][k].target) /\ thisFlow[body[f][k].target] = "Borrowing"
        /\ body[f][k].use = "let" => Finished(f) /\ "var" \notin escaping[f]

IInv ==
    /\ FlowTypeOK
    /\ OnTheWay
    /\ FlowsFinal
    /\ TargetsKnown
    /\ AssumedSoFar
    /\ Summarised
    /\ PromisesChecked
    /\ DeinitializersChecked
    /\ SitesBorrowed

-----------------------------------------------------------------------------
\* A sequence with one more element.
LEMMA AppendFacts ==
    ASSUME NEW S, NEW seq \in Seq(S), NEW e \in S
    PROVE  /\ Append(seq, e) \in Seq(S)
           /\ Len(Append(seq, e)) = Len(seq) + 1
           /\ Len(seq) \in Nat
           /\ \A i \in 1..Len(seq) : Append(seq, e)[i] = seq[i] /\ i \in 1..Len(seq) + 1 /\ i # Len(seq) + 1
           /\ Append(seq, e)[Len(seq) + 1] = e /\ Len(seq) + 1 \in 1..Len(seq) + 1
           /\ \A i \in 1..Len(seq) + 1 : i \in 1..Len(seq) \/ i = Len(seq) + 1
           /\ Append(seq, e) # <<>>
  OBVIOUS

\* A sequence without its last element.
LEMMA FrontFacts ==
    ASSUME NEW S, NEW seq \in Seq(S), seq # <<>>
    PROVE  /\ Front(seq) \in Seq(S)
           /\ \A i \in 1..Len(seq) : i # Len(seq) => i \in 1..Len(Front(seq)) /\ Front(seq)[i] = seq[i]
<1>1. Len(seq) \in Nat /\ Len(seq) > 0 /\ \A i \in 1..Len(seq) : seq[i] \in S
  BY EmptySeq, LenProperties
<1>2. /\ Front(seq) \in Seq(S)
      /\ Len(Front(seq)) = IF 1 <= Len(seq) - 1 THEN Len(seq) - 1 - 1 + 1 ELSE 0
      /\ \A i \in 1..(Len(seq) - 1 - 1 + 1) : Front(seq)[i] = seq[1 + i - 1]
  <2>1. \A i \in 1..(Len(seq) - 1) : seq[i] \in S
    BY <1>1
  <2>2. Len(seq) - 1 \in Int /\ 1 \in Int
    BY <1>1
  <2>3. QED
    BY <2>1, <2>2, SubSeqProperties DEF Front
<1>3. ASSUME NEW i \in 1..Len(seq), i # Len(seq)
      PROVE  i \in 1..Len(Front(seq)) /\ Front(seq)[i] = seq[i]
  <2>1. \A n, m, j : n \in Nat /\ n > 0 /\ m = (IF 1 <= n - 1 THEN n - 1 - 1 + 1 ELSE 0) /\ j \in 1..n /\ j # n
            => j \in 1..m /\ j \in 1..(n - 1 - 1 + 1) /\ 1 + j - 1 = j
    OBVIOUS
  <2>2. Len(seq) \in Nat /\ Len(seq) > 0
    BY <1>1
  <2>3. i \in 1..Len(Front(seq)) /\ i \in 1..(Len(seq) - 1 - 1 + 1) /\ 1 + i - 1 = i
    BY <2>1, <2>2, <1>2, <1>3
  <2>4. Front(seq)[i] = seq[1 + i - 1]
    BY <1>2, <2>3
  <2>5. QED
    BY <2>3, <2>4
<1>4. QED
  BY <1>2, <1>3

\* What statement s lets escape, if the context and the parameter of what it calls have
\* the categories this and param.
Escaped(s, this, param) ==
    {v \in Values :
        \/ s.op = "value" /\ v = s.arg /\ Records(v, Category(s.use))
        \/ s.op \in {"call", "super", "new"} /\ v = s.arg /\ Records(v, param)
        \/ s.op = "call" /\ v = s.callee /\ Records(v, this)
        \/ s.op = "super" /\ v = "this" /\ Records(v, this)}

Recorded(uses) == {u[1] : u \in {w \in uses : Records(w[1], w[2])}}

\* What one use records.
LEMMA RecordedOne ==
    ASSUME NEW a, NEW b
    PROVE  \A v : v \in Recorded({<<a, b>>}) <=> v = a /\ Records(a, b)
<1>1. <<a, b>>[1] = a /\ <<a, b>>[2] = b
  OBVIOUS
<1>2. QED
  BY <1>1 DEF Recorded

\* What two uses record.
LEMMA RecordedPair ==
    ASSUME NEW a, NEW b, NEW c, NEW d
    PROVE  \A v : v \in Recorded({<<a, b>>, <<c, d>>}) <=> (v = a /\ Records(a, b)) \/ (v = c /\ Records(c, d))
<1>1. <<a, b>>[1] = a /\ <<a, b>>[2] = b /\ <<c, d>>[1] = c /\ <<c, d>>[2] = d
  OBVIOUS
<1>2. QED
  BY <1>1 DEF Recorded

\* What a statement lets escape depends on the flow categories of its target only.
LEMMA EscapingIsEscaped ==
    ASSUME NEW f \in Functions, NEW s \in Statements[f]
    PROVE  /\ EscapingIn(s) = Escaped(s, thisFlow[s.target], paramFlow[s.target])
           /\ EscapingIn(s)' = Escaped(s, thisFlow'[s.target], paramFlow'[s.target])
<1>1. s \in Statement
  BY StatementsAssumption
<1>2. s.arg \in Values /\ s.op \in {"value", "call", "super", "new"}
  BY <1>1 DEF Statement
<1>3. s.op = "call" => s.callee \in Values
  BY <1>1, StatementsAssumption DEF Statement
<1>4. "this" \in Values
  BY DEF Values
<1>10. EscapingIn(s) = Recorded(UsesOf(s)) /\ EscapingIn(s)' = Recorded(UsesOf(s)')
  BY DEF EscapingIn, Recorded
<1>5. CASE s.op = "value"
  <2>1. UsesOf(s) = {<<s.arg, Category(s.use)>>} /\ UsesOf(s)' = {<<s.arg, Category(s.use)>>}
    BY <1>5 DEF UsesOf
  <2>2. \A v : v \in Recorded({<<s.arg, Category(s.use)>>}) <=> v = s.arg /\ Records(s.arg, Category(s.use))
    BY RecordedOne
  <2>3. \A v : v \in Recorded({<<s.arg, Category(s.use)>>}) <=> v = s.arg /\ Records(v, Category(s.use))
    BY <2>2
  <2>4. ASSUME NEW x, NEW y
        PROVE  Recorded({<<s.arg, Category(s.use)>>}) = Escaped(s, x, y)
    <3>1. \A v : v \in Recorded({<<s.arg, Category(s.use)>>}) <=> v \in Escaped(s, x, y)
      BY <1>2, <1>5, <2>3 DEF Escaped
    <3>2. QED
      BY <3>1
  <2>5. QED
    BY <1>10, <2>1, <2>4
<1>6. CASE s.op = "call"
  <2>1. /\ UsesOf(s) = {<<s.callee, thisFlow[s.target]>>, <<s.arg, paramFlow[s.target]>>}
        /\ UsesOf(s)' = {<<s.callee, thisFlow'[s.target]>>, <<s.arg, paramFlow'[s.target]>>}
    BY <1>6 DEF UsesOf
  <2>2. ASSUME NEW x, NEW y
        PROVE  Recorded({<<s.callee, x>>, <<s.arg, y>>}) = Escaped(s, x, y)
    <3>1. \A v : v \in Recorded({<<s.callee, x>>, <<s.arg, y>>}) <=>
                    (v = s.callee /\ Records(s.callee, x)) \/ (v = s.arg /\ Records(s.arg, y))
      BY RecordedPair
    <3>2. \A v : v \in Recorded({<<s.callee, x>>, <<s.arg, y>>}) <=> v \in Escaped(s, x, y)
      BY <1>2, <1>3, <1>6, <3>1 DEF Escaped
    <3>3. QED
      BY <3>2
  <2>3. QED
    BY <1>10, <2>1, <2>2
<1>7. CASE s.op = "super"
  <2>1. /\ UsesOf(s) = {<<"this", thisFlow[s.target]>>, <<s.arg, paramFlow[s.target]>>}
        /\ UsesOf(s)' = {<<"this", thisFlow'[s.target]>>, <<s.arg, paramFlow'[s.target]>>}
    BY <1>7 DEF UsesOf
  <2>2. ASSUME NEW x, NEW y
        PROVE  Recorded({<<"this", x>>, <<s.arg, y>>}) = Escaped(s, x, y)
    <3>1. \A v : v \in Recorded({<<"this", x>>, <<s.arg, y>>}) <=>
                    (v = "this" /\ Records("this", x)) \/ (v = s.arg /\ Records(s.arg, y))
      BY RecordedPair
    <3>2. \A v : v \in Recorded({<<"this", x>>, <<s.arg, y>>}) <=> v \in Escaped(s, x, y)
      BY <1>2, <1>4, <1>7, <3>1 DEF Escaped
    <3>3. QED
      BY <3>2
  <2>3. QED
    BY <1>10, <2>1, <2>2
<1>8. CASE s.op = "new"
  <2>1. UsesOf(s) = {<<s.arg, paramFlow[s.target]>>} /\ UsesOf(s)' = {<<s.arg, paramFlow'[s.target]>>}
    BY <1>8 DEF UsesOf
  <2>2. ASSUME NEW x, NEW y
        PROVE  Recorded({<<s.arg, y>>}) = Escaped(s, x, y)
    <3>1. \A v : v \in Recorded({<<s.arg, y>>}) <=> v = s.arg /\ Records(s.arg, y)
      BY RecordedOne
    <3>2. \A v : v \in Recorded({<<s.arg, y>>}) <=> v \in Escaped(s, x, y)
      BY <1>2, <1>8, <3>1 DEF Escaped
    <3>3. QED
      BY <3>2
  <2>3. QED
    BY <1>10, <2>1, <2>2
<1>9. QED
  BY <1>2, <1>5, <1>6, <1>7, <1>8

\* The less a called function lets escape, the less does the statement.
LEMMA EscapedMonotone ==
    ASSUME NEW s, NEW this1, NEW param1, NEW this2, NEW param2,
           this1 \in {"Borrowing", "Escaping"}, param1 \in {"Borrowing", "Escaping"},
           s.op # "value" =>
               /\ this1 = "Borrowing" \/ this2 = "Escaping"
               /\ param1 = "Borrowing" \/ param2 = "Escaping"
    PROVE  Escaped(s, this1, param1) \subseteq Escaped(s, this2, param2)
  BY DEF Escaped, Records, RecordThis, RecordVariableGet, IsEscaping

-----------------------------------------------------------------------------
\* Before a function is analysed the invariant holds.
LEMMA Initially == FlowInit => IInv
<1> SUFFICES ASSUME FlowInit
             PROVE  IInv
  OBVIOUS
<1> USE FunctionsAssumption DEF FlowInit
<1>1. <<>> \in Seq(Statement) /\ <<>> \in Seq(Functions) /\ Len(<<>>) = 0
  BY EmptySeq
<1>2. \A f \in Functions : Positions(f) = {} /\ Performed(f) = {}
  BY <1>1 DEF Positions, Performed
<1>3. FlowTypeOK
  <2>1. body \in [Functions -> Seq(Statement)]
    BY <1>1
  <2>2. \A f \in Functions : Len(body[f]) <= MaxLength
    BY <1>1
  <2>3. QED
    BY <1>1, <1>2, <2>1, <2>2 DEF FlowTypeOK, Stage, Flow
<1>4. OnTheWay
  BY DEF OnTheWay, Running
<1>5. FlowsFinal /\ TargetsKnown /\ AssumedSoFar /\ PromisesChecked /\ DeinitializersChecked
  <2>1. \A f \in Functions : stage[f] = "new"
    OBVIOUS
  <2>2. FlowsFinal /\ PromisesChecked
    BY <2>1 DEF FlowsFinal, Finished, PromisesChecked
  <2>3. TargetsKnown
    BY <1>2 DEF TargetsKnown
  <2>4. AssumedSoFar
    BY DEF AssumedSoFar
  <2>5. DeinitializersChecked
    BY <2>1 DEF DeinitializersChecked, Finished, Functions
  <2>6. QED
    BY <2>2, <2>3, <2>4, <2>5
<1>6. Summarised /\ SitesBorrowed
  BY <1>2 DEF Summarised, SitesBorrowed
<1>7. QED
  BY <1>3, <1>4, <1>5, <1>6 DEF IInv

\* Starting the analysis of e changes no category any analysed statement has used.
LEMMA BeginKeeps ==
    ASSUME IInv, NEW e \in Functions, Begin(e)
    PROVE  IInv'
<1> USE FunctionsAssumption
<1>1. /\ stage[e] = "new"
      /\ running' = Append(running, e)
      /\ stage' = [stage EXCEPT ![e] = "body"]
      /\ thisFlow' = [thisFlow EXCEPT ![e] = "Escaping"]
      /\ body' = body /\ statement' = statement /\ escaping' = escaping /\ inits' = inits
      /\ paramFlow' = paramFlow /\ onStack' = onStack /\ broken' = broken /\ assumed' = assumed
  BY DEF Begin, IsMemoryFlowAnalysed
<1>2. FlowTypeOK
  BY DEF IInv
<1>3. /\ \A f \in Functions : stage'[f] = IF f = e THEN "body" ELSE stage[f]
      /\ \A f \in Functions : thisFlow'[f] = IF f = e THEN "Escaping" ELSE thisFlow[f]
  BY <1>1, <1>2 DEF FlowTypeOK
<1>4. \A f \in Functions : Performed(f)' = Performed(f) /\ Positions(f)' = Positions(f)
  BY <1>1 DEF Performed, Positions
<1>5. \A f \in Functions : Performed(f) \subseteq Positions(f)
  BY DEF Performed
<1>6. \A f \in Functions : \A k \in Performed(f) :
        /\ body[f][k] \in Statements[f] /\ body[f][k] \in Statement
        /\ body[f][k].target = None <=> body[f][k].op = "value"
        /\ body[f][k].target \in Functions \cup {None}
        /\ body[f][k].target # e
        /\ body[f][k].target # None => stage[body[f][k].target] # "new"
  <2>1. ASSUME NEW f \in Functions, NEW k \in Performed(f)
        PROVE  /\ body[f][k] \in Statements[f] /\ body[f][k] \in Statement
               /\ body[f][k].target = None <=> body[f][k].op = "value"
    BY <1>2, <1>5, <2>1, StatementsAssumption DEF FlowTypeOK
  <2>2. \A s \in Statement : s.target \in Functions \cup {None}
    BY DEF Statement
  <2>3. ASSUME NEW f \in Functions, NEW k \in Performed(f), body[f][k].target # None
        PROVE  stage[body[f][k].target] # "new"
    BY <2>3 DEF IInv, TargetsKnown, IsMemoryFlowAnalysed
  <2>4. QED
    BY <1>1, <2>1, <2>2, <2>3
<1>7. FlowTypeOK'
  <2>1. running' \in Seq(Functions)
    BY <1>1, <1>2, AppendFacts DEF FlowTypeOK
  <2>2. stage' \in [Functions -> Stage] /\ thisFlow' \in [Functions -> Flow]
    BY <1>1, <1>2 DEF FlowTypeOK, Stage, Flow
  <2>3. QED
    BY <1>1, <1>2, <1>4, <2>1, <2>2 DEF FlowTypeOK
<1>8. OnTheWay'
  <2>1. ASSUME NEW f \in Functions, Running(f)'
        PROVE  \E n \in 1..Len(running') : running'[n] = f
    <3>1. CASE f = e
      BY <1>1, <1>2, <3>1, AppendFacts DEF FlowTypeOK
    <3>2. CASE f # e
      <4>1. Running(f)
        BY <1>3, <2>1, <3>2 DEF Running
      <4>2. PICK n \in 1..Len(running) : running[n] = f
        BY <4>1 DEF IInv, OnTheWay
      <4>3. n \in 1..Len(running') /\ running'[n] = f
        BY <1>1, <1>2, <4>2, AppendFacts DEF FlowTypeOK
      <4>4. QED
        BY <4>3
    <3>3. QED
      BY <3>1, <3>2
  <2>2. ASSUME NEW f \in Functions
        PROVE  /\ stage'[f] = "promises" => Super[f] # None
               /\ statement[f] # None =>
                    stage'[f] = "body" /\ body[f] # <<>> /\ statement[f] = body[f][Len(body[f])]
    BY <1>1, <1>3 DEF IInv, OnTheWay
  <2>3. QED
    BY <1>1, <2>1, <2>2 DEF OnTheWay
<1>9. FlowsFinal'
  BY <1>1, <1>3 DEF IInv, FlowsFinal, Finished, ThisCategory, ParamCategory
<1>10. TargetsKnown'
  <2>1. ASSUME NEW f \in Functions, NEW k \in Performed(f), NEW t, t = body[f][k].target, t # None
        PROVE  /\ stage'[t] # "new"
               /\ stage'[t] = "body" /\ paramFlow[t] = "Borrowing" => <<t, "param", "Borrowing">> \in assumed
    BY <1>3, <1>6, <2>1 DEF IInv, TargetsKnown, IsMemoryFlowAnalysed
  <2>2. QED
    BY <1>1, <1>4, <2>1 DEF TargetsKnown, IsMemoryFlowAnalysed
<1>11. \A a \in assumed : a[1] \in Functions /\ a[1] # e
  BY <1>1, <1>2 DEF IInv, AssumedSoFar, IsMemoryFlowAnalysed, FlowTypeOK
<1>12. AssumedSoFar'
  BY <1>1, <1>3, <1>11 DEF IInv, AssumedSoFar, IsMemoryFlowAnalysed
<1>13. AssumptionsHold' => AssumptionsHold
  BY <1>1, <1>3, <1>11 DEF AssumptionsHold
<1>14. Summarised'
  <2>1. ASSUME NEW f \in Functions, NEW k \in Performed(f), AssumptionsHold, NEW s, s = body[f][k]
        PROVE  EscapingIn(s)' \subseteq escaping[f]
    <3>1. EscapingIn(s) \subseteq escaping[f]
      BY <2>1 DEF IInv, Summarised
    <3>2. /\ EscapingIn(s) = Escaped(s, thisFlow[s.target], paramFlow[s.target])
          /\ EscapingIn(s)' = Escaped(s, thisFlow'[s.target], paramFlow'[s.target])
      BY <1>6, <2>1, EscapingIsEscaped
    <3>3. CASE s.op = "value"
      <4>1. \A x, y, z, w : Escaped(s, x, y) = Escaped(s, z, w)
        BY <3>3 DEF Escaped
      <4>2. QED
        BY <3>1, <3>2, <4>1
    <3>4. CASE s.op # "value"
      <4>1. thisFlow'[s.target] = thisFlow[s.target] /\ paramFlow'[s.target] = paramFlow[s.target]
        BY <1>1, <1>3, <1>6, <2>1, <3>4
      <4>2. QED
        BY <3>1, <3>2, <4>1
    <3>5. QED
      BY <3>3, <3>4
  <2>2. ASSUME AssumptionsHold', NEW f \in Functions, NEW k \in Performed(f)
        PROVE  EscapingIn(body[f][k])' \subseteq escaping[f]
    BY <1>1, <1>13, <2>1, <2>2 DEF EscapingIn, UsesOf
  <2>3. QED
    BY <1>1, <1>4, <2>2 DEF Summarised
<1>15. PromisesChecked'
  <2>1. ASSUME NEW f \in Functions, stage'[f] = "done", Super[f] # None, f \notin broken
        PROVE  /\ stage[f] = "done" /\ f # e
               /\ Super[f] \in Functions /\ Super[f] # e
    <3>1. stage[f] = "done" /\ f # e
      BY <1>1, <1>3, <2>1
    <3>2. Super[f] \in Functions
      BY <2>1
    <3>3. stage[Super[f]] # "new"
      BY <2>1, <3>1 DEF IInv, PromisesChecked, IsMemoryFlowAnalysed
    <3>4. QED
      BY <1>1, <3>1, <3>2, <3>3
  <2>2. QED
    BY <1>1, <1>3, <1>13, <2>1 DEF IInv, PromisesChecked, IsMemoryFlowAnalysed, Fulfilled
<1>16. DeinitializersChecked'
  BY <1>1, <1>3 DEF IInv, DeinitializersChecked, Finished
<1>17. SitesBorrowed'
  <2>1. ASSUME NEW f \in Functions, NEW k \in 1..MaxLength, <<f, k>> \in onStack, NEW t, t = body[f][k].target
        PROVE  /\ Finished(t) /\ thisFlow[t] = "Borrowing"
               /\ Finished(t)' /\ thisFlow'[t] = "Borrowing"
               /\ Finished(f) => Finished(f)'
    <3>1. Finished(t) /\ thisFlow[t] = "Borrowing" /\ k \in Performed(f) /\ body[f][k].op = "new"
      BY <2>1 DEF IInv, SitesBorrowed
    <3>2. t \in Functions /\ t # e
      BY <1>6, <2>1, <3>1
    <3>3. QED
      BY <1>1, <1>3, <3>1, <3>2 DEF Finished
  <2>2. QED
    BY <1>1, <1>4, <2>1 DEF IInv, SitesBorrowed
<1>18. QED
  BY <1>7, <1>8, <1>9, <1>10, <1>12, <1>14, <1>15, <1>16, <1>17 DEF IInv

\* Facts about the statements that have been analysed, used for every step.
LEMMA PerformedFacts ==
    ASSUME FlowTypeOK, TargetsKnown, NEW f \in Functions, NEW k \in Performed(f)
    PROVE  /\ k \in Positions(f)
           /\ body[f][k] \in Statements[f] /\ body[f][k] \in Statement
           /\ body[f][k].target = None <=> body[f][k].op = "value"
           /\ body[f][k].target # None =>
                body[f][k].target \in Functions /\ stage[body[f][k].target] # "new"
<1>1. k \in Positions(f)
  BY DEF Performed
<1>2. /\ body[f][k] \in Statements[f] /\ body[f][k] \in Statement
      /\ body[f][k].target = None <=> body[f][k].op = "value"
  BY <1>1, StatementsAssumption DEF FlowTypeOK
<1>3. \A s \in Statement : s.target \in Functions \cup {None}
  BY DEF Statement
<1>4. body[f][k].target # None => stage[body[f][k].target] # "new"
  BY DEF TargetsKnown, IsMemoryFlowAnalysed
<1>5. QED
  BY <1>1, <1>2, <1>3, <1>4

\* Reaching a statement changes nothing about those that have been analysed.
LEMMA ReachKeeps ==
    ASSUME IInv, NEW f \in Functions, NEW s \in Statements[f], Reach(f, s)
    PROVE  IInv'
<1> USE FunctionsAssumption
<1>1. /\ stage[f] = "body" /\ statement[f] = None
      /\ Len(body[f]) < MaxLength
      /\ body' = [body EXCEPT ![f] = Append(body[f], s)]
      /\ statement' = [statement EXCEPT ![f] = s]
      /\ running' = running /\ stage' = stage /\ thisFlow' = thisFlow /\ escaping' = escaping /\ inits' = inits
      /\ paramFlow' = paramFlow /\ onStack' = onStack /\ broken' = broken /\ assumed' = assumed
  BY DEF Reach
<1>2. FlowTypeOK /\ TargetsKnown
  BY DEF IInv
<1>3. s \in Statement /\ s # None
  BY StatementsAssumption
<1>4. body[f] \in Seq(Statement)
  BY <1>2 DEF FlowTypeOK
<1>5. /\ \A g \in Functions : body'[g] = IF g = f THEN Append(body[f], s) ELSE body[g]
      /\ \A g \in Functions : statement'[g] = IF g = f THEN s ELSE statement[g]
  BY <1>1, <1>2 DEF FlowTypeOK
<1>6. /\ Len(body'[f]) = Len(body[f]) + 1
      /\ body'[f] \in Seq(Statement)
      /\ \A k \in 1..Len(body[f]) : body'[f][k] = body[f][k] /\ k \in 1..Len(body[f]) + 1 /\ k # Len(body[f]) + 1
      /\ body'[f][Len(body[f]) + 1] = s
      /\ \A k \in 1..Len(body[f]) + 1 : k \in 1..Len(body[f]) \/ k = Len(body[f]) + 1
      /\ body'[f] # <<>>
  <2>1. /\ Len(Append(body[f], s)) = Len(body[f]) + 1
        /\ Append(body[f], s) \in Seq(Statement)
        /\ \A k \in 1..Len(body[f]) :
            Append(body[f], s)[k] = body[f][k] /\ k \in 1..Len(body[f]) + 1 /\ k # Len(body[f]) + 1
        /\ Append(body[f], s)[Len(body[f]) + 1] = s
        /\ \A k \in 1..Len(body[f]) + 1 : k \in 1..Len(body[f]) \/ k = Len(body[f]) + 1
        /\ Append(body[f], s) # <<>>
    BY <1>3, <1>4, AppendFacts
  <2>2. body'[f] = Append(body[f], s)
    BY <1>5
  <2>3. QED
    BY <2>1, <2>2
<1>7. \A g \in Functions : Performed(g)' = Performed(g)
  <2>1. Performed(f) = 1..Len(body[f])
    BY <1>1 DEF Performed, Positions
  <2>2. Performed(f)' = {k \in 1..Len(body[f]) + 1 : k # Len(body[f]) + 1}
    BY <1>3, <1>5, <1>6 DEF Performed, Positions
  <2>3. Performed(f)' = Performed(f)
    BY <1>6, <2>1, <2>2
  <2>4. \A g \in Functions : g # f => Performed(g)' = Performed(g)
    BY <1>5 DEF Performed, Positions
  <2>5. QED
    BY <2>3, <2>4
<1>8. \A g \in Functions : \A k \in Positions(g) : k \in Positions(g)' /\ body'[g][k] = body[g][k]
  BY <1>5, <1>6 DEF Positions
<1>9. \A g \in Functions : Performed(g) \subseteq Positions(g)
  BY DEF Performed
<1>10. FlowTypeOK'
  <2>1. body' \in [Functions -> Seq(Statement)] /\ statement' \in [Functions -> Statement \cup {None}]
    BY <1>1, <1>2, <1>3, <1>5, <1>6 DEF FlowTypeOK
  <2>2. \A g \in Functions : Len(body'[g]) <= MaxLength
    <3>1. \A n \in Nat : n < MaxLength => n + 1 <= MaxLength
      OBVIOUS
    <3>2. Len(body[f]) \in Nat
      BY <1>4, LenProperties
    <3>3. QED
      BY <1>1, <1>2, <1>5, <1>6, <3>1, <3>2 DEF FlowTypeOK
  <2>3. \A g \in Functions : \A k \in Positions(g)' : body'[g][k] \in Statements[g]
    BY <1>2, <1>5, <1>6 DEF FlowTypeOK, Positions
  <2>4. \A g \in Functions : \A k \in inits[g] : k \in Positions(g)' /\ body'[g][k].op = "new"
    <3>1. \A g \in Functions : \A k \in inits[g] : k \in Positions(g) /\ body[g][k].op = "new"
      BY <1>2 DEF FlowTypeOK
    <3>2. QED
      BY <1>8, <3>1
  <2>5. QED
    BY <1>1, <1>2, <2>1, <2>2, <2>3, <2>4 DEF FlowTypeOK
<1>11. OnTheWay'
  <2>1. ASSUME NEW g \in Functions, statement'[g] # None
        PROVE  stage[g] = "body" /\ body'[g] # <<>> /\ statement'[g] = body'[g][Len(body'[g])]
    BY <1>1, <1>5, <1>6, <2>1 DEF IInv, OnTheWay
  <2>2. QED
    BY <1>1, <2>1 DEF IInv, OnTheWay, Running
<1>12. FlowsFinal'
  BY <1>1 DEF IInv, FlowsFinal, Finished, ThisCategory, ParamCategory
<1>13. TargetsKnown'
  <2>1. ASSUME NEW g \in Functions, NEW k \in Performed(g), NEW target, target = body'[g][k].target, target # None
        PROVE  /\ stage[target] # "new"
               /\ stage[target] = "body" /\ paramFlow[target] = "Borrowing" =>
                    <<target, "param", "Borrowing">> \in assumed
    <3>1. body'[g][k] = body[g][k]
      BY <1>8, <1>9, <2>1
    <3>2. QED
      BY <1>2, <2>1, <3>1 DEF TargetsKnown, IsMemoryFlowAnalysed
  <2>2. ASSUME NEW g \in Functions, NEW k \in Performed(g)', NEW target, target = body'[g][k].target, target # None
        PROVE  /\ stage'[target] # "new"
               /\ stage'[target] = "body" /\ paramFlow'[target] = "Borrowing" =>
                    <<target, "param", "Borrowing">> \in assumed'
    <3>1. k \in Performed(g)
      BY <1>7, <2>2
    <3>2. /\ stage[target] # "new"
          /\ stage[target] = "body" /\ paramFlow[target] = "Borrowing" =>
               <<target, "param", "Borrowing">> \in assumed
      BY <2>1, <2>2, <3>1
    <3>3. QED
      BY <1>1, <3>2
  <2>3. QED
    BY <2>2 DEF TargetsKnown, IsMemoryFlowAnalysed
<1>14. AssumedSoFar' /\ DeinitializersChecked'
  BY <1>1 DEF IInv, AssumedSoFar, DeinitializersChecked, IsMemoryFlowAnalysed, Finished
<1>15. AssumptionsHold' <=> AssumptionsHold
  BY <1>1 DEF AssumptionsHold
<1>16. Summarised'
  <2>1. ASSUME AssumptionsHold, NEW g \in Functions, NEW k \in Performed(g)
        PROVE  EscapingIn(body[g][k])' \subseteq escaping[g]
    <3>1. body'[g][k] = body[g][k] /\ EscapingIn(body[g][k]) \subseteq escaping[g]
      BY <1>8, <1>9, <2>1 DEF IInv, Summarised
    <3>2. QED
      BY <1>1, <3>1 DEF EscapingIn, UsesOf
  <2>2. QED
    BY <1>1, <1>7, <1>15, <2>1 DEF Summarised
<1>17. PromisesChecked'
  BY <1>1, <1>15 DEF IInv, PromisesChecked, IsMemoryFlowAnalysed, Fulfilled
<1>18. SitesBorrowed'
  <2>1. ASSUME NEW g \in Functions, NEW k \in inits[g]
        PROVE  k \in Performed(g) /\ body'[g][k].op = "new" /\ body'[g][k].use = "let"
    BY <1>8, <1>9, <2>1 DEF IInv, SitesBorrowed
  <2>2. ASSUME NEW g \in Functions, NEW k \in 1..MaxLength, <<g, k>> \in onStack
        PROVE  /\ k \in Performed(g)
               /\ body'[g][k] = body[g][k]
               /\ body[g][k].op = "new"
               /\ body[g][k].use \in {"discard", "let"}
               /\ Finished(body[g][k].target) /\ thisFlow[body[g][k].target] = "Borrowing"
               /\ body[g][k].use = "let" => Finished(g) /\ "var" \notin escaping[g]
    BY <1>8, <1>9, <2>2 DEF IInv, SitesBorrowed
  <2>3. ASSUME NEW g \in Functions, NEW k \in inits[g]
        PROVE  k \in Performed(g)' /\ body'[g][k].op = "new" /\ body'[g][k].use = "let"
    <3>1. Performed(g)' = Performed(g)
      BY <1>7
    <3>2. QED
      BY <2>1, <3>1
  <2>4. ASSUME NEW g \in Functions, NEW k \in 1..MaxLength, <<g, k>> \in onStack, NEW s1, s1 = body'[g][k]
        PROVE  /\ k \in Performed(g)'
               /\ s1.op = "new" /\ s1.use \in {"discard", "let"}
               /\ Finished(s1.target)' /\ thisFlow'[s1.target] = "Borrowing"
               /\ s1.use = "let" => Finished(g)' /\ "var" \notin escaping'[g]
    <3>1. stage' = stage /\ thisFlow' = thisFlow /\ escaping' = escaping /\ Performed(g)' = Performed(g)
      BY <1>1, <1>7
    <3>2. QED
      BY <2>2, <2>4, <3>1 DEF Finished
  <2>5. inits' = inits /\ onStack' = onStack
    BY <1>1
  <2>6. \A g \in Functions : \A k \in inits'[g] :
            k \in Performed(g)' /\ body'[g][k].op = "new" /\ body'[g][k].use = "let"
    BY <2>3, <2>5
  <2>7. \A g \in Functions, k \in 1..MaxLength : <<g, k>> \in onStack' =>
               /\ k \in Performed(g)'
               /\ body'[g][k].op = "new"
               /\ body'[g][k].use \in {"discard", "let"}
               /\ Finished(body[g][k].target)' /\ thisFlow'[body'[g][k].target] = "Borrowing"
               /\ body'[g][k].use = "let" => Finished(g)' /\ "var" \notin escaping'[g]
    BY <2>4, <2>5
  <2>8. QED
    BY <2>6, <2>7 DEF SitesBorrowed
<1>19. QED
  BY <1>10, <1>11, <1>12, <1>13, <1>14, <1>16, <1>17, <1>18 DEF IInv

\* The categories a statement uses are final, or its function is in assumed.
LEMMA AnalyseStatementKeeps ==
    ASSUME IInv, NEW f \in Functions, AnalyseStatement(f)
    PROVE  IInv'
<1> USE FunctionsAssumption
<1> DEFINE position == Len(body[f])
<1>1. PICK s : s = statement[f]
  OBVIOUS
<1>2. /\ s # None
      /\ s.target # None => stage[s.target] # "new"
      /\ statement' = [statement EXCEPT ![f] = None]
      /\ escaping' = [escaping EXCEPT ![f] = escaping[f] \cup EscapingIn(s)]
      /\ inits' = [inits EXCEPT ![f] = IF IsInit(s) THEN inits[f] \cup {position} ELSE inits[f]]
      /\ onStack' = IF s.op = "new" /\ ~IsEscaping(Category(s.use)) /\ StackInitializable(s, thisFlow)
                    THEN onStack \cup {<<f, position>>}
                    ELSE onStack
      /\ assumed' = IF s.target # None /\ Running(s.target) /\ paramFlow[s.target] = "Borrowing"
                    THEN assumed \cup {<<s.target, "param", "Borrowing">>}
                    ELSE assumed
  BY <1>1 DEF AnalyseStatement, Ready, IsMemoryFlowAnalysed
<1>3. /\ body' = body /\ running' = running /\ stage' = stage /\ thisFlow' = thisFlow
      /\ paramFlow' = paramFlow /\ broken' = broken
  BY DEF AnalyseStatement
<1>4. FlowTypeOK /\ TargetsKnown
  BY DEF IInv
<1>5. stage[f] = "body" /\ body[f] # <<>> /\ s = body[f][position]
  BY <1>1, <1>2 DEF IInv, OnTheWay
<1>6. position \in Positions(f) /\ position \in 1..MaxLength
  <2>1. body[f] \in Seq(Statement) /\ Len(body[f]) <= MaxLength
    BY <1>4 DEF FlowTypeOK
  <2>2. Len(body[f]) \in Nat /\ Len(body[f]) # 0
    BY <1>5, <2>1, EmptySeq, LenProperties
  <2>3. \A n \in Nat : n # 0 => n \in 1..n /\ (n <= MaxLength => n \in 1..MaxLength)
    OBVIOUS
  <2>4. QED
    BY <2>1, <2>2, <2>3 DEF Positions
<1>7. /\ s \in Statements[f] /\ s \in Statement
      /\ s.target = None <=> s.op = "value"
      /\ s.target \in Functions \cup {None}
      /\ s.use \in {"discard", "let", "store", "return"}
  <2>1. s \in Statements[f]
    BY <1>4, <1>5, <1>6 DEF FlowTypeOK
  <2>2. s \in Statement /\ (s.target = None <=> s.op = "value")
    BY <2>1, StatementsAssumption
  <2>3. QED
    BY <2>1, <2>2 DEF Statement
<1>8. /\ statement'[f] = None
      /\ \A g \in Functions : g # f => statement'[g] = statement[g]
      /\ escaping'[f] = escaping[f] \cup EscapingIn(s)
      /\ \A g \in Functions : g # f => escaping'[g] = escaping[g] /\ inits'[g] = inits[g]
      /\ inits'[f] = IF IsInit(s) THEN inits[f] \cup {position} ELSE inits[f]
  BY <1>2, <1>4 DEF FlowTypeOK
<1>9. Performed(f)' = Performed(f) \cup {position} /\ position \notin Performed(f)
  BY <1>1, <1>2, <1>3, <1>6, <1>8 DEF Performed, Positions
<1>10. \A g \in Functions : g # f => Performed(g)' = Performed(g)
  BY <1>3, <1>8 DEF Performed, Positions
<1>11. EscapingIn(s) \subseteq Values
  <2>1. EscapingIn(s) = Escaped(s, thisFlow[s.target], paramFlow[s.target])
    BY <1>7, EscapingIsEscaped
  <2>2. QED
    BY <2>1 DEF Escaped
<1>12. FlowTypeOK'
  <2>1. statement' \in [Functions -> Statement \cup {None}] /\ escaping' \in [Functions -> SUBSET Values]
    BY <1>2, <1>4, <1>11 DEF FlowTypeOK
  <2>2. inits' \in [Functions -> SUBSET (1..MaxLength)]
    BY <1>2, <1>4, <1>6 DEF FlowTypeOK
  <2>3. ASSUME NEW g \in Functions, NEW k \in inits'[g]
        PROVE  k \in Positions(g) /\ body[g][k].op = "new"
    <3>1. CASE k \in inits[g]
      BY <1>4, <3>1 DEF FlowTypeOK
    <3>2. CASE k \notin inits[g]
      <4>1. g = f /\ k = position /\ IsInit(s)
        BY <1>8, <2>3, <3>2
      <4>2. QED
        BY <1>5, <1>6, <4>1 DEF IsInit
    <3>3. QED
      BY <3>1, <3>2
  <2>4. onStack' \subseteq Functions \X (1..MaxLength)
    BY <1>2, <1>4, <1>6 DEF FlowTypeOK
  <2>5. assumed' \subseteq Functions \X {"this", "param"} \X {"Borrowing", "Escaping"}
    BY <1>2, <1>4, <1>7 DEF FlowTypeOK
  <2>6. QED
    BY <1>3, <1>4, <2>1, <2>2, <2>3, <2>4, <2>5 DEF FlowTypeOK, Positions
<1>13. OnTheWay'
  BY <1>3, <1>8 DEF IInv, OnTheWay, Running
<1>14. FlowsFinal'
  BY <1>3, <1>5, <1>8 DEF IInv, FlowsFinal, Finished, ThisCategory, ParamCategory
<1>15. assumed \subseteq assumed'
  BY <1>2
<1>16. TargetsKnown'
  <2>1. ASSUME NEW g \in Functions, NEW k \in Performed(g)', NEW target, target = body[g][k].target, target # None
        PROVE  /\ stage[target] # "new"
               /\ stage[target] = "body" /\ paramFlow[target] = "Borrowing" =>
                    <<target, "param", "Borrowing">> \in assumed'
    <3>1. CASE k \in Performed(g)
      BY <1>4, <1>15, <2>1, <3>1 DEF TargetsKnown, IsMemoryFlowAnalysed
    <3>2. CASE k \notin Performed(g)
      <4>1. g = f /\ k = position
        BY <1>9, <1>10, <2>1, <3>2
      <4>2. target = s.target
        BY <1>5, <2>1, <4>1
      <4>3. QED
        BY <1>2, <2>1, <4>2 DEF Running
    <3>3. QED
      BY <3>1, <3>2
  <2>2. QED
    BY <1>3, <2>1 DEF TargetsKnown, IsMemoryFlowAnalysed
<1>17. AssumedSoFar'
  <2>1. ASSUME NEW a \in assumed'
        PROVE  /\ stage[a[1]] # "new"
               /\ stage[a[1]] = "body" => a[3] = IF a[2] = "this" THEN thisFlow[a[1]] ELSE paramFlow[a[1]]
    <3>1. CASE a \in assumed
      BY <3>1 DEF IInv, AssumedSoFar, IsMemoryFlowAnalysed
    <3>2. CASE a \notin assumed
      <4>1. /\ a = <<s.target, "param", "Borrowing">>
            /\ s.target # None /\ paramFlow[s.target] = "Borrowing"
        BY <1>2, <2>1, <3>2
      <4>2. a[1] = s.target /\ a[2] = "param" /\ a[3] = "Borrowing"
        BY <4>1
      <4>3. QED
        BY <1>2, <4>1, <4>2
    <3>3. QED
      BY <3>1, <3>2
  <2>2. QED
    BY <1>3, <2>1 DEF AssumedSoFar, IsMemoryFlowAnalysed
<1>18. AssumptionsHold' => AssumptionsHold
  BY <1>3, <1>15 DEF AssumptionsHold
<1>19. Summarised'
  <2>1. ASSUME AssumptionsHold, NEW g \in Functions, NEW k \in Performed(g)', NEW r, r = body[g][k]
        PROVE  EscapingIn(r) \subseteq escaping'[g]
    <3>1. CASE k \in Performed(g)
      BY <1>8, <2>1, <3>1 DEF IInv, Summarised
    <3>2. CASE k \notin Performed(g)
      <4>1. g = f /\ k = position
        BY <1>9, <1>10, <2>1, <3>2
      <4>2. QED
        BY <1>5, <1>8, <2>1, <4>1
    <3>3. QED
      BY <3>1, <3>2
  <2>2. ASSUME AssumptionsHold, NEW g \in Functions, NEW k \in Performed(g)'
        PROVE  EscapingIn(body[g][k])' \subseteq escaping'[g]
    <3>2. EscapingIn(body[g][k]) \subseteq escaping'[g]
      BY <2>1, <2>2
    <3>3. EscapingIn(body[g][k])' = EscapingIn(body[g][k])
      BY <1>3 DEF EscapingIn, UsesOf
    <3>4. QED
      BY <3>2, <3>3
  <2>3. QED
    BY <1>18, <2>2 DEF Summarised
<1>20. PromisesChecked'
  BY <1>3, <1>15, <1>18 DEF IInv, PromisesChecked, IsMemoryFlowAnalysed, Fulfilled
<1>21. DeinitializersChecked'
  BY <1>3, <1>5, <1>8 DEF IInv, DeinitializersChecked, Finished, Functions
<1>22. SitesBorrowed'
  <2>1. ASSUME NEW g \in Functions, NEW k \in inits'[g]
        PROVE  k \in Performed(g)' /\ body[g][k].op = "new" /\ body[g][k].use = "let"
    <3>1. CASE k \in inits[g]
      BY <1>9, <1>10, <2>1, <3>1 DEF IInv, SitesBorrowed
    <3>2. CASE k \notin inits[g]
      <4>1. g = f /\ k = position /\ IsInit(s)
        BY <1>8, <2>1, <3>2
      <4>2. QED
        BY <1>5, <1>9, <4>1 DEF IsInit
    <3>3. QED
      BY <3>1, <3>2
  <2>2. ASSUME NEW g \in Functions, NEW k \in 1..MaxLength, <<g, k>> \in onStack', NEW r, r = body[g][k]
        PROVE  /\ k \in Performed(g)'
               /\ r.op = "new" /\ r.use \in {"discard", "let"}
               /\ Finished(r.target) /\ thisFlow[r.target] = "Borrowing"
               /\ r.use = "let" => Finished(g) /\ "var" \notin escaping'[g]
    <3>1. CASE <<g, k>> \in onStack
      <4>1. /\ k \in Performed(g)
            /\ r.op = "new" /\ r.use \in {"discard", "let"}
            /\ Finished(r.target) /\ thisFlow[r.target] = "Borrowing"
            /\ r.use = "let" => Finished(g) /\ "var" \notin escaping[g]
        BY <2>2, <3>1 DEF IInv, SitesBorrowed
      <4>2. Finished(g) => g # f
        BY <1>5 DEF Finished
      <4>3. QED
        BY <1>8, <1>9, <1>10, <4>1, <4>2
    <3>2. CASE <<g, k>> \notin onStack
      <4>1. /\ s.op = "new" /\ ~IsEscaping(Category(s.use)) /\ ~IsEscaping(thisFlow[s.target])
            /\ <<g, k>> = <<f, position>>
        BY <1>2, <2>2, <3>2 DEF StackInitializable
      <4>2. g = f /\ k = position /\ r = s
        BY <1>5, <2>2, <4>1
      <4>3. s.use = "discard"
        BY <1>7, <4>1 DEF Category, IsEscaping
      <4>4. s.target \in Functions /\ stage[s.target] # "new" /\ stage[s.target] # "body"
        BY <1>2, <1>7, <4>1 DEF IInv, FlowsFinal, IsEscaping
      <4>5. Finished(s.target)
        BY <1>4, <4>4 DEF FlowTypeOK, Stage, Finished
      <4>6. thisFlow[s.target] = "Borrowing"
        BY <4>1, <4>4, <4>5 DEF IInv, FlowsFinal, ThisCategory, IsEscaping
      <4>7. QED
        BY <1>9, <4>1, <4>2, <4>3, <4>5, <4>6
    <3>3. QED
      BY <3>1, <3>2
  <2>3. /\ \A g \in Functions : \A k \in inits'[g] :
             k \in Performed(g)' /\ body'[g][k].op = "new" /\ body'[g][k].use = "let"
    BY <1>3, <2>1
  <2>4. \A g : Finished(g)' = Finished(g)
    BY <1>3 DEF Finished
  <2>5. \A g \in Functions, k \in 1..MaxLength : <<g, k>> \in onStack' =>
           /\ k \in Performed(g)'
           /\ body'[g][k].op = "new"
           /\ body'[g][k].use \in {"discard", "let"}
           /\ Finished(body[g][k].target)' /\ thisFlow'[body'[g][k].target] = "Borrowing"
           /\ body'[g][k].use = "let" => Finished(g)' /\ "var" \notin escaping'[g]
    <3>1. ASSUME NEW g \in Functions, NEW k \in 1..MaxLength, <<g, k>> \in onStack'
          PROVE  Finished(body[g][k].target)' = Finished(body[g][k].target)
      BY <1>3 DEF Finished
    <3>2. QED
      BY <1>3, <2>2, <2>4, <3>1
  <2>6. QED
    BY <2>3, <2>5 DEF SitesBorrowed
<1>23. QED
  BY <1>12, <1>13, <1>14, <1>16, <1>17, <1>19, <1>20, <1>21, <1>22 DEF IInv

\* At the end of a body its categories become final, within what was assumed of them.
LEMMA FinishBodyKeeps ==
    ASSUME IInv, NEW f \in Functions, running # <<>>, f = Innermost, FinishBody(f)
    PROVE  IInv'
<1> USE FunctionsAssumption
<1>1. /\ stage[f] = "body" /\ statement[f] = None
      /\ thisFlow' = [thisFlow EXCEPT ![f] = ThisCategory(f)]
      /\ paramFlow' = [paramFlow EXCEPT ![f] = ParamCategory(f)]
      /\ onStack' = IF "var" \in escaping[f] THEN onStack
                    ELSE onStack \cup {<<f, k>> : k \in {i \in inits[f] : ~IsEscaping(thisFlow'[body[f][i].target])}}
  BY DEF FinishBody, PopScope, ParamCategory, StackInitializable
<1>2. /\ stage' = [stage EXCEPT ![f] = IF Super[f] = None THEN "done" ELSE "promises"]
      /\ running' = IF Super[f] = None THEN Front(running) ELSE running
      /\ broken' = IF Super[f] = None /\ f \in Deinitializers /\ "this" \in escaping[f] THEN broken \cup {f} ELSE broken
  BY DEF FinishBody
<1>3. body' = body /\ statement' = statement /\ escaping' = escaping /\ inits' = inits /\ assumed' = assumed
  BY DEF FinishBody
<1>4. FlowTypeOK /\ TargetsKnown
  BY DEF IInv
<1>5. /\ \A g \in Functions : stage'[g] = IF g = f THEN (IF Super[f] = None THEN "done" ELSE "promises") ELSE stage[g]
      /\ \A g \in Functions : thisFlow'[g] = IF g = f THEN ThisCategory(f) ELSE thisFlow[g]
      /\ \A g \in Functions : paramFlow'[g] = IF g = f THEN ParamCategory(f) ELSE paramFlow[g]
  BY <1>1, <1>2, <1>4 DEF FlowTypeOK
<1>6. \A g \in Functions : Performed(g)' = Performed(g) /\ Positions(g)' = Positions(g)
  BY <1>3 DEF Performed, Positions
<1>7. ThisCategory(f) \in {"Borrowing", "Escaping"} /\ ParamCategory(f) \in {"Borrowing", "Escaping"}
  BY DEF ThisCategory, ParamCategory
<1>8. thisFlow[f] = "Escaping"
  BY <1>1 DEF IInv, FlowsFinal
<1>9. \A k \in inits[f] : k \in 1..MaxLength
  BY <1>4 DEF FlowTypeOK
<1>10. /\ Front(running) \in Seq(Functions)
       /\ \A n \in 1..Len(running) : n # Len(running) => n \in 1..Len(Front(running)) /\ Front(running)[n] = running[n]
  BY <1>4, FrontFacts DEF FlowTypeOK
<1>11. FlowTypeOK'
  <2>1. stage' \in [Functions -> Stage] /\ thisFlow' \in [Functions -> Flow]
        /\ paramFlow' \in [Functions -> {"Borrowing", "Escaping"}]
    BY <1>1, <1>2, <1>4, <1>7 DEF FlowTypeOK, Stage, Flow
  <2>2. running' \in Seq(Functions) /\ broken' \subseteq Functions
    BY <1>2, <1>4, <1>10 DEF FlowTypeOK
  <2>3. onStack' \subseteq Functions \X (1..MaxLength)
    BY <1>1, <1>4, <1>9 DEF FlowTypeOK
  <2>4. QED
    BY <1>3, <1>4, <1>6, <2>1, <2>2, <2>3 DEF FlowTypeOK
<1>12. OnTheWay'
  <2>1. ASSUME NEW g \in Functions, Running(g)'
        PROVE  \E n \in 1..Len(running') : running'[n] = g
    <3>1. Running(g)
      BY <1>1, <1>5, <2>1 DEF Running
    <3>2. PICK n \in 1..Len(running) : running[n] = g
      BY <3>1 DEF IInv, OnTheWay
    <3>3. CASE Super[f] = None
      <4>1. g # f
        BY <1>5, <2>1, <3>3 DEF Running
      <4>2. n # Len(running)
        BY <3>2, <4>1 DEF Innermost
      <4>3. QED
        BY <1>2, <1>10, <3>2, <3>3, <4>2
    <3>4. CASE Super[f] # None
      BY <1>2, <3>2, <3>4
    <3>5. QED
      BY <3>3, <3>4
  <2>2. ASSUME NEW g \in Functions
        PROVE  /\ stage'[g] = "promises" => Super[g] # None
               /\ statement[g] # None =>
                    stage'[g] = "body" /\ body[g] # <<>> /\ statement[g] = body[g][Len(body[g])]
    BY <1>1, <1>5 DEF IInv, OnTheWay
  <2>3. QED
    BY <1>3, <2>1, <2>2 DEF OnTheWay
<1>13. FlowsFinal'
  BY <1>3, <1>5 DEF IInv, FlowsFinal, Finished, ThisCategory, ParamCategory
<1>14. TargetsKnown'
  <2>1. ASSUME NEW g \in Functions, NEW k \in Performed(g), NEW target, target = body[g][k].target, target # None
        PROVE  /\ stage'[target] # "new"
               /\ stage'[target] = "body" /\ paramFlow'[target] = "Borrowing" =>
                    <<target, "param", "Borrowing">> \in assumed
    <3>1. target \in Functions /\ stage[target] # "new"
      BY <1>4, <2>1, PerformedFacts
    <3>2. stage[target] = "body" /\ paramFlow[target] = "Borrowing" => <<target, "param", "Borrowing">> \in assumed
      BY <2>1 DEF IInv, TargetsKnown
    <3>3. QED
      BY <1>5, <3>1, <3>2
  <2>2. QED
    BY <1>3, <1>6, <2>1 DEF TargetsKnown, IsMemoryFlowAnalysed
<1>15. \A a \in assumed : a[1] \in Functions /\ a[2] \in {"this", "param"}
  BY <1>4 DEF FlowTypeOK
<1>16. AssumedSoFar'
  BY <1>3, <1>5, <1>15 DEF IInv, AssumedSoFar, IsMemoryFlowAnalysed
<1>17. AssumptionsHold' => AssumptionsHold
  <2>1. ASSUME AssumptionsHold', NEW a \in assumed
        PROVE  a[3] = IF a[2] = "this" THEN thisFlow[a[1]] ELSE paramFlow[a[1]]
    <3>1. CASE a[1] = f
      BY <1>1, <3>1 DEF IInv, AssumedSoFar
    <3>2. CASE a[1] # f
      BY <1>3, <1>5, <1>15, <2>1, <3>2 DEF AssumptionsHold
    <3>3. QED
      BY <3>1, <3>2
  <2>2. QED
    BY <2>1 DEF AssumptionsHold
<1>18. AssumptionsHold' => \A x : <<f, "param", x>> \in assumed => x = ParamCategory(f)
  <2>1. ASSUME AssumptionsHold', NEW x, NEW a, a = <<f, "param", x>>, a \in assumed
        PROVE  x = ParamCategory(f)
    <3>1. a[1] = f /\ a[2] = "param" /\ a[3] = x
      BY <2>1
    <3>2. a[3] = IF a[2] = "this" THEN thisFlow'[a[1]] ELSE paramFlow'[a[1]]
      BY <1>3, <2>1 DEF AssumptionsHold
    <3>3. QED
      BY <1>5, <3>1, <3>2
  <2>2. QED
    BY <2>1
<1>19. AssumptionsHold' => \A x : <<f, "this", x>> \in assumed => x = ThisCategory(f)
  <2>1. ASSUME AssumptionsHold', NEW x, NEW a, a = <<f, "this", x>>, a \in assumed
        PROVE  x = ThisCategory(f)
    <3>1. a[1] = f /\ a[2] = "this" /\ a[3] = x
      BY <2>1
    <3>2. a[3] = IF a[2] = "this" THEN thisFlow'[a[1]] ELSE paramFlow'[a[1]]
      BY <1>3, <2>1 DEF AssumptionsHold
    <3>3. QED
      BY <1>5, <3>1, <3>2
  <2>2. QED
    BY <2>1
<1>20. Summarised'
  <2>1. ASSUME AssumptionsHold', NEW g \in Functions, NEW k \in Performed(g), NEW s, s = body[g][k]
        PROVE  EscapingIn(s)' \subseteq escaping[g]
    <3>1. EscapingIn(s) \subseteq escaping[g]
      BY <1>17, <2>1 DEF IInv, Summarised
    <3>2. s \in Statements[g] /\ (s.target = None <=> s.op = "value") /\ (s.target # None => s.target \in Functions)
      BY <1>4, <2>1, PerformedFacts
    <3>3. /\ EscapingIn(s) = Escaped(s, thisFlow[s.target], paramFlow[s.target])
          /\ EscapingIn(s)' = Escaped(s, thisFlow'[s.target], paramFlow'[s.target])
      BY <3>2, EscapingIsEscaped
    <3>4. CASE s.op = "value"
      <4>1. \A x, y, z, w : Escaped(s, x, y) = Escaped(s, z, w)
        BY <3>4 DEF Escaped
      <4>2. QED
        BY <3>1, <3>3, <4>1
    <3>5. CASE s.op # "value" /\ s.target # f
      <4>1. thisFlow'[s.target] = thisFlow[s.target] /\ paramFlow'[s.target] = paramFlow[s.target]
        BY <1>5, <3>2, <3>5
      <4>2. QED
        BY <3>1, <3>3, <4>1
    <3>6. CASE s.op # "value" /\ s.target = f
      <4>1. paramFlow[f] = "Borrowing" => <<f, "param", "Borrowing">> \in assumed
        BY <1>1, <2>1, <3>2, <3>6 DEF IInv, TargetsKnown
      <4>2. ParamCategory(f) = "Borrowing" \/ paramFlow[f] = "Escaping"
        BY <1>4, <1>18, <2>1, <4>1 DEF FlowTypeOK
      <4>3. Escaped(s, ThisCategory(f), ParamCategory(f)) \subseteq Escaped(s, thisFlow[f], paramFlow[f])
        BY <1>7, <1>8, <4>2, EscapedMonotone
      <4>4. QED
        BY <1>5, <3>1, <3>3, <3>6, <4>3
    <3>7. QED
      BY <3>4, <3>5, <3>6
  <2>2. ASSUME AssumptionsHold', NEW g \in Functions, NEW k \in Performed(g)
        PROVE  EscapingIn(body[g][k])' \subseteq escaping[g]
    BY <1>3, <2>1, <2>2 DEF EscapingIn, UsesOf
  <2>3. QED
    BY <1>3, <1>6, <2>2 DEF Summarised
<1>21. PromisesChecked'
  <2>1. ASSUME NEW g \in Functions, stage'[g] = "done", NEW super, super = Super[g], super # None, g \notin broken
        PROVE  /\ stage'[super] # "new"
               /\ stage'[super] = "body" =>
                    <<super, "this", thisFlow'[super]>> \in assumed /\ <<super, "param", paramFlow'[super]>> \in assumed
               /\ AssumptionsHold' => Fulfilled(g)'
    <3>1. g # f /\ stage[g] = "done" /\ super \in Functions
      BY <1>5, <2>1
    <3>2. /\ stage[super] # "new"
          /\ stage[super] = "body" =>
                <<super, "this", thisFlow[super]>> \in assumed /\ <<super, "param", paramFlow[super]>> \in assumed
          /\ AssumptionsHold => Fulfilled(g)
      BY <2>1, <3>1 DEF IInv, PromisesChecked, IsMemoryFlowAnalysed
    <3>3. CASE super # f
      BY <1>5, <1>17, <2>1, <3>1, <3>2, <3>3 DEF Fulfilled
    <3>4. CASE super = f
      <4>1. <<f, "this", thisFlow[f]>> \in assumed /\ <<f, "param", paramFlow[f]>> \in assumed
        BY <1>1, <3>2, <3>4
      <4>2. AssumptionsHold' => thisFlow[f] = ThisCategory(f) /\ paramFlow[f] = ParamCategory(f)
        BY <1>18, <1>19, <4>1
      <4>3. AssumptionsHold' => Fulfilled(g)'
        BY <1>5, <1>17, <2>1, <3>1, <3>2, <3>4, <4>2 DEF Fulfilled
      <4>4. QED
        BY <1>1, <1>5, <3>4, <4>3
    <3>5. QED
      BY <3>3, <3>4
  <2>2. broken \subseteq broken'
    BY <1>2
  <2>3. QED
    BY <1>3, <2>1, <2>2 DEF PromisesChecked, IsMemoryFlowAnalysed
<1>22. DeinitializersChecked'
  BY <1>2, <1>3, <1>5 DEF IInv, DeinitializersChecked, Finished, Functions
<1>23. SitesBorrowed'
  <2>1. \A g \in Functions : Finished(g) => g # f /\ Finished(g)' /\ thisFlow'[g] = thisFlow[g]
    BY <1>1, <1>5 DEF Finished
  <2>2. Finished(f)'
    BY <1>5 DEF Finished
  <2>3. ASSUME NEW g \in Functions, NEW k \in 1..MaxLength, <<g, k>> \in onStack', NEW r, r = body[g][k]
        PROVE  /\ k \in Performed(g)
               /\ r.op = "new" /\ r.use \in {"discard", "let"}
               /\ Finished(r.target)' /\ thisFlow'[r.target] = "Borrowing"
               /\ r.use = "let" => Finished(g)' /\ "var" \notin escaping[g]
    <3>1. CASE <<g, k>> \in onStack
      <4>1. /\ k \in Performed(g)
            /\ r.op = "new" /\ r.use \in {"discard", "let"}
            /\ Finished(r.target) /\ thisFlow[r.target] = "Borrowing"
            /\ r.use = "let" => Finished(g) /\ "var" \notin escaping[g]
        BY <2>3, <3>1 DEF IInv, SitesBorrowed
      <4>2. r.target \in Functions
        BY <1>4, <2>3, <4>1, PerformedFacts
      <4>3. QED
        BY <2>1, <4>1, <4>2
    <3>2. CASE <<g, k>> \notin onStack
      <4>1. /\ g = f /\ k \in inits[f] /\ "var" \notin escaping[f]
            /\ ~IsEscaping(thisFlow'[r.target])
        BY <1>1, <2>3, <3>2
      <4>2. k \in Performed(f) /\ r.op = "new" /\ r.use = "let"
        BY <2>3, <4>1 DEF IInv, SitesBorrowed
      <4>3. r.target \in Functions /\ stage[r.target] # "new"
        BY <1>4, <2>3, <4>1, <4>2, PerformedFacts
      <4>4. Finished(r.target)' /\ thisFlow'[r.target] = "Borrowing"
        <5>1. CASE r.target = f
          BY <1>5, <1>7, <2>2, <4>1, <5>1 DEF IsEscaping
        <5>2. CASE r.target # f
          <6>1. thisFlow'[r.target] = thisFlow[r.target]
            BY <1>5, <4>3, <5>2
          <6>2. stage[r.target] # "body"
            BY <4>1, <4>3, <6>1 DEF IInv, FlowsFinal, IsEscaping
          <6>3. Finished(r.target)
            BY <1>4, <4>3, <6>2 DEF FlowTypeOK, Stage, Finished
          <6>4. thisFlow[r.target] = "Borrowing"
            BY <4>1, <4>3, <6>1, <6>3 DEF IInv, FlowsFinal, ThisCategory, IsEscaping
          <6>5. QED
            BY <2>1, <4>3, <6>1, <6>3, <6>4
        <5>3. QED
          BY <5>1, <5>2
      <4>5. QED
        BY <2>2, <4>1, <4>2, <4>4
    <3>3. QED
      BY <3>1, <3>2
  <2>4. /\ \A g \in Functions : \A k \in inits'[g] :
             k \in Performed(g)' /\ body'[g][k].op = "new" /\ body'[g][k].use = "let"
    BY <1>3, <1>6 DEF IInv, SitesBorrowed
  <2>5. \A g \in Functions, k \in 1..MaxLength : <<g, k>> \in onStack' =>
           /\ k \in Performed(g)'
           /\ body'[g][k].op = "new"
           /\ body'[g][k].use \in {"discard", "let"}
           /\ Finished(body[g][k].target)' /\ thisFlow'[body'[g][k].target] = "Borrowing"
           /\ body'[g][k].use = "let" => Finished(g)' /\ "var" \notin escaping'[g]
    <3>1. ASSUME NEW g \in Functions, NEW k \in 1..MaxLength, <<g, k>> \in onStack', NEW t, t = body[g][k].target
          PROVE  Finished(body[g][k].target)' <=> Finished(t)'
      BY <1>3, <3>1 DEF Finished
    <3>2. QED
      BY <1>3, <1>6, <2>3, <3>1
  <2>6. QED
    BY <2>4, <2>5 DEF SitesBorrowed
<1>24. QED
  BY <1>11, <1>12, <1>13, <1>14, <1>16, <1>20, <1>21, <1>22, <1>23 DEF IInv

\* A promise is checked against final categories, or those that are recorded in assumed.
LEMMA CheckMFPromisesKeeps ==
    ASSUME IInv, NEW f \in Functions, running # <<>>, f = Innermost, CheckMFPromises(f)
    PROVE  IInv'
<1> USE FunctionsAssumption
<1>1. PICK super : super = Super[f]
  OBVIOUS
<1>2. /\ stage[f] = "promises" /\ stage[super] # "new"
      /\ broken' = IF FulfillsPromise(thisFlow[f], thisFlow[super]) /\ FulfillsPromise(paramFlow[f], paramFlow[super])
                   THEN broken ELSE broken \cup {f}
      /\ assumed' = IF Running(super)
                    THEN assumed \cup {<<super, "this", thisFlow[super]>>, <<super, "param", paramFlow[super]>>}
                    ELSE assumed
      /\ stage' = [stage EXCEPT ![f] = "done"]
      /\ running' = Front(running)
  BY <1>1 DEF CheckMFPromises, IsMemoryFlowAnalysed
<1>3. /\ body' = body /\ statement' = statement /\ escaping' = escaping /\ inits' = inits
      /\ thisFlow' = thisFlow /\ paramFlow' = paramFlow /\ onStack' = onStack
  BY DEF CheckMFPromises
<1>4. FlowTypeOK /\ TargetsKnown
  BY DEF IInv
<1>5. super \in Functions
  BY <1>1, <1>2 DEF IInv, OnTheWay
<1>6. \A g \in Functions : stage'[g] = IF g = f THEN "done" ELSE stage[g]
  BY <1>2, <1>4 DEF FlowTypeOK
<1>7. \A g \in Functions : Performed(g)' = Performed(g) /\ Positions(g)' = Positions(g)
  BY <1>3 DEF Performed, Positions
<1>8. /\ Front(running) \in Seq(Functions)
      /\ \A n \in 1..Len(running) : n # Len(running) => n \in 1..Len(Front(running)) /\ Front(running)[n] = running[n]
  BY <1>4, FrontFacts DEF FlowTypeOK
<1>9. Running(super) => thisFlow[super] \in {"Borrowing", "Escaping"} /\ paramFlow[super] \in {"Borrowing", "Escaping"}
  BY <1>4, <1>5 DEF IInv, FlowsFinal, Finished, Running, ThisCategory, FlowTypeOK
<1>10. FlowTypeOK'
  <2>1. stage' \in [Functions -> Stage] /\ broken' \subseteq Functions
    BY <1>2, <1>4 DEF FlowTypeOK, Stage
  <2>2. assumed' \subseteq Functions \X {"this", "param"} \X {"Borrowing", "Escaping"}
    BY <1>2, <1>4, <1>5, <1>9 DEF FlowTypeOK
  <2>3. QED
    BY <1>2, <1>3, <1>4, <1>7, <1>8, <2>1, <2>2 DEF FlowTypeOK
<1>11. OnTheWay'
  <2>1. ASSUME NEW g \in Functions, Running(g)'
        PROVE  \E n \in 1..Len(running') : running'[n] = g
    <3>1. Running(g) /\ g # f
      BY <1>6, <2>1 DEF Running
    <3>2. PICK n \in 1..Len(running) : running[n] = g
      BY <3>1 DEF IInv, OnTheWay
    <3>3. n # Len(running)
      BY <3>1, <3>2 DEF Innermost
    <3>4. QED
      BY <1>2, <1>8, <3>2, <3>3
  <2>2. ASSUME NEW g \in Functions
        PROVE  /\ stage'[g] = "promises" => Super[g] # None
               /\ statement[g] # None =>
                    stage'[g] = "body" /\ body[g] # <<>> /\ statement[g] = body[g][Len(body[g])]
    BY <1>2, <1>6 DEF IInv, OnTheWay
  <2>3. QED
    BY <1>3, <2>1, <2>2 DEF OnTheWay
<1>12. FlowsFinal'
  BY <1>2, <1>3, <1>6 DEF IInv, FlowsFinal, Finished, ThisCategory, ParamCategory
<1>13. assumed \subseteq assumed'
  BY <1>2
<1>14. TargetsKnown'
  <2>1. ASSUME NEW g \in Functions, NEW k \in Performed(g), NEW target, target = body[g][k].target, target # None
        PROVE  /\ stage'[target] # "new"
               /\ stage'[target] = "body" /\ paramFlow[target] = "Borrowing" =>
                    <<target, "param", "Borrowing">> \in assumed'
    <3>1. target \in Functions /\ stage[target] # "new"
      BY <1>4, <2>1, PerformedFacts
    <3>2. stage[target] = "body" /\ paramFlow[target] = "Borrowing" => <<target, "param", "Borrowing">> \in assumed
      BY <2>1 DEF IInv, TargetsKnown
    <3>3. QED
      BY <1>6, <1>13, <3>1, <3>2
  <2>2. QED
    BY <1>3, <1>7, <2>1 DEF TargetsKnown, IsMemoryFlowAnalysed
<1>15. AssumedSoFar'
  <2>1. ASSUME NEW a \in assumed'
        PROVE  /\ stage'[a[1]] # "new"
               /\ stage'[a[1]] = "body" => a[3] = IF a[2] = "this" THEN thisFlow[a[1]] ELSE paramFlow[a[1]]
    <3>1. CASE a \in assumed
      <4>1. a[1] \in Functions
        BY <1>4, <3>1 DEF FlowTypeOK
      <4>2. QED
        BY <1>6, <3>1, <4>1 DEF IInv, AssumedSoFar, IsMemoryFlowAnalysed
    <3>2. CASE a = <<super, "this", thisFlow[super]>>
      <4>1. a[1] = super /\ a[2] = "this" /\ a[3] = thisFlow[super]
        BY <3>2
      <4>2. QED
        BY <1>2, <1>5, <1>6, <4>1
    <3>3. CASE a = <<super, "param", paramFlow[super]>>
      <4>1. a[1] = super /\ a[2] = "param" /\ a[3] = paramFlow[super]
        BY <3>3
      <4>2. QED
        BY <1>2, <1>5, <1>6, <4>1
    <3>4. QED
      BY <1>2, <2>1, <3>1, <3>2, <3>3
  <2>2. QED
    BY <1>3, <2>1 DEF AssumedSoFar, IsMemoryFlowAnalysed
<1>16. AssumptionsHold' => AssumptionsHold
  BY <1>3, <1>13 DEF AssumptionsHold
<1>17. Summarised'
  <2>1. ASSUME AssumptionsHold, NEW g \in Functions, NEW k \in Performed(g)
        PROVE  EscapingIn(body[g][k])' \subseteq escaping[g]
    <3>1. EscapingIn(body[g][k]) \subseteq escaping[g]
      BY <2>1 DEF IInv, Summarised
    <3>2. QED
      BY <1>3, <3>1 DEF EscapingIn, UsesOf
  <2>2. QED
    BY <1>3, <1>7, <1>16, <2>1 DEF Summarised
<1>18. PromisesChecked'
  <2>1. ASSUME NEW g \in Functions, stage'[g] = "done", NEW s, s = Super[g], s # None, g \notin broken'
        PROVE  /\ stage'[s] # "new"
               /\ stage'[s] = "body" => <<s, "this", thisFlow[s]>> \in assumed' /\ <<s, "param", paramFlow[s]>> \in assumed'
               /\ AssumptionsHold => Fulfilled(g)
    <3>1. s \in Functions
      BY <2>1
    <3>2. CASE g = f
      BY <1>1, <1>2, <1>5, <1>6, <2>1, <3>2 DEF Fulfilled, Running
    <3>3. CASE g # f
      <4>1. stage[g] = "done" /\ g \notin broken
        BY <1>2, <1>6, <2>1, <3>3
      <4>2. QED
        BY <1>6, <1>13, <2>1, <3>1, <4>1 DEF IInv, PromisesChecked, IsMemoryFlowAnalysed
    <3>4. QED
      BY <3>2, <3>3
  <2>2. QED
    BY <1>3, <1>16, <2>1 DEF PromisesChecked, IsMemoryFlowAnalysed, Fulfilled
<1>19. DeinitializersChecked'
  BY <1>2, <1>3, <1>6 DEF IInv, DeinitializersChecked, Finished, Functions
<1>20. SitesBorrowed'
  <2>1. \A g \in Functions : Finished(g)' <=> Finished(g)
    BY <1>2, <1>6 DEF Finished
  <2>2. ASSUME NEW g \in Functions, NEW k \in 1..MaxLength, <<g, k>> \in onStack, NEW t, t = body[g][k].target
        PROVE  Finished(t)' /\ thisFlow[t] = "Borrowing"
    <3>1. Finished(t) /\ thisFlow[t] = "Borrowing" /\ k \in Performed(g) /\ body[g][k].op = "new"
      BY <2>2 DEF IInv, SitesBorrowed
    <3>2. t \in Functions
      BY <1>4, <2>2, <3>1, PerformedFacts
    <3>3. QED
      BY <2>1, <3>1, <3>2
  <2>3. QED
    BY <1>3, <1>7, <2>1, <2>2 DEF IInv, SitesBorrowed
<1>21. QED
  BY <1>10, <1>11, <1>12, <1>14, <1>15, <1>17, <1>18, <1>19, <1>20 DEF IInv

\* A stuttering step keeps the invariant.
LEMMA StutterKeeps == IInv /\ UNCHANGED flowVars => IInv'
<1> SUFFICES ASSUME IInv, UNCHANGED flowVars
             PROVE  IInv'
  OBVIOUS
<1> USE DEF IInv, flowVars
<1>1. FlowTypeOK'
  BY DEF FlowTypeOK, Positions
<1>2. OnTheWay' /\ FlowsFinal'
  BY DEF OnTheWay, FlowsFinal, Running, Finished, ThisCategory, ParamCategory
<1>3. TargetsKnown' /\ AssumedSoFar'
  BY DEF TargetsKnown, AssumedSoFar, Performed, Positions, IsMemoryFlowAnalysed
<1>4. Summarised'
  <2>1. (AssumptionsHold' <=> AssumptionsHold) /\ \A f \in Functions : Performed(f)' = Performed(f)
    BY DEF AssumptionsHold, Performed, Positions
  <2>2. \A f \in Functions : \A k : EscapingIn(body[f][k])' = EscapingIn(body[f][k])
    BY DEF EscapingIn, UsesOf
  <2>3. QED
    BY <2>1, <2>2 DEF Summarised
<1>5. PromisesChecked' /\ DeinitializersChecked'
  BY DEF PromisesChecked, DeinitializersChecked, AssumptionsHold, IsMemoryFlowAnalysed, Fulfilled, Finished
<1>6. SitesBorrowed'
  BY DEF SitesBorrowed, Performed, Positions, Finished
<1>7. QED
  BY <1>1, <1>2, <1>3, <1>4, <1>5, <1>6

\* The inductive invariant holds for any functions, statements and lengths.
THEOREM Invariance == FlowSpec => []IInv
<1>1. IInv /\ [FlowNext]_flowVars => IInv'
  <2> SUFFICES ASSUME IInv, [FlowNext]_flowVars
               PROVE  IInv'
    OBVIOUS
  <2>1. ASSUME NEW f \in Functions, Analyse(f)
        PROVE  IInv'
    BY <2>1, BeginKeeps DEF Analyse
  <2>2. ASSUME running # <<>>, NEW f, f = Innermost, Step(f)
        PROVE  IInv'
    <3>1. f \in Functions
      <4>1. running \in Seq(Functions)
        BY DEF IInv, FlowTypeOK
      <4>2. Len(running) \in 1..Len(running)
        <5>1. Len(running) \in Nat /\ Len(running) # 0
          BY <2>2, <4>1, EmptySeq, LenProperties
        <5>2. \A n \in Nat : n # 0 => n \in 1..n
          OBVIOUS
        <5>3. QED
          BY <5>1, <5>2
      <4>3. QED
        BY <2>2, <4>1, <4>2, LenProperties DEF Innermost
    <3>2. ASSUME NEW s \in Statements[f], Reach(f, s)
          PROVE  IInv'
      BY <3>1, <3>2, ReachKeeps
    <3>3. CASE AnalyseIfNecessary(f)
      <4>1. statement[f] # None /\ statement[f].target # None /\ Begin(statement[f].target)
        BY <3>3 DEF AnalyseIfNecessary
      <4>2. statement[f] \in Statement
        BY <3>1, <4>1 DEF IInv, FlowTypeOK
      <4>3. statement[f].target \in Functions
        BY <4>1, <4>2 DEF Statement
      <4>4. QED
        BY <4>1, <4>3, BeginKeeps
    <3>4. CASE AnalyseStatement(f)
      BY <3>1, <3>4, AnalyseStatementKeeps
    <3>5. CASE FinishBody(f)
      BY <2>2, <3>1, <3>5, FinishBodyKeeps
    <3>6. CASE AnalyseSuper(f)
      <4>1. stage[f] = "promises" /\ Begin(Super[f])
        BY <3>6 DEF AnalyseSuper
      <4>2. Super[f] \in Functions
        BY <3>1, <4>1, FunctionsAssumption DEF IInv, OnTheWay
      <4>3. QED
        BY <4>1, <4>2, BeginKeeps
    <3>7. CASE CheckMFPromises(f)
      BY <2>2, <3>1, <3>7, CheckMFPromisesKeeps
    <3>8. QED
      BY <2>2, <3>2, <3>3, <3>4, <3>5, <3>6, <3>7 DEF Step
  <2>3. CASE UNCHANGED flowVars
    BY <2>3, StutterKeeps
  <2>4. QED
    BY <2>1, <2>2, <2>3 DEF FlowNext
<1>2. QED
  BY Initially, <1>1, PTL DEF FlowSpec

\* The types of the state.
THEOREM TypeCorrect == FlowSpec => []FlowTypeOK
<1>1. IInv => FlowTypeOK
  BY DEF IInv
<1>2. QED
  BY Invariance, <1>1, PTL

-----------------------------------------------------------------------------
\* Which values escape, by the kind of value.
LEMMA EscapesValues ==
    ASSUME NEW f
    PROVE  /\ Escapes(f, Local("this")) <=> IsEscaping(thisFlow[f])
           /\ Escapes(f, Local("param")) <=> IsEscaping(paramFlow[f])
           /\ Escapes(f, Local("var")) <=> \E k \in Positions(f) : "var" \in EscapingIn(body[f][k])
           /\ \A k : Escapes(f, Site(k)) <=> <<f, k>> \notin onStack
<1>1. /\ Local("this") # Local("param") /\ Local("this") # Local("var") /\ Local("param") # Local("var")
      /\ \A k : Site(k)[2] = k /\ Site(k) # Local("this") /\ Site(k) # Local("param") /\ Site(k) # Local("var")
  BY DEF Local, Site
<1>2. QED
  BY <1>1 DEF Escapes

\* What the analysis permits is what escapes.
LEMMA PermittedFacts ==
    ASSUME NEW f \in Functions, NEW v, NEW x
    PROVE  /\ <<f, v, x>> \in Permitted => Escapes(f, v)
           /\ /\ \/ \E w \in Values : v = Local(w)
                 \/ \E k \in 1..MaxLength : v = Site(k)
              /\ x \in {"heap", "result"}
              /\ Escapes(f, v)
              => <<f, v, x>> \in Permitted
<1>1. <<f, v, x>>[1] = f /\ <<f, v, x>>[2] = v
  OBVIOUS
<1>2. QED
  BY <1>1 DEF Permitted, Facts

\* What holds once everything is analysed.
LEMMA AtTheEnd ==
    ASSUME IInv, Compiled, AssumptionsHold
    PROVE  /\ \A f \in Functions : \A k \in Positions(f) :
                /\ body[f][k] \in Statement /\ body[f][k] \in Statements[f]
                /\ k \in 1..MaxLength
                /\ EscapingIn(body[f][k]) \subseteq escaping[f]
           /\ \A f \in Functions :
                /\ "this" \in escaping[f] => Escapes(f, Local("this"))
                /\ "param" \in escaping[f] => Escapes(f, Local("param"))
           /\ \A f \in Functions : \A k \in Positions(f) : <<f, k>> \in onStack =>
                /\ body[f][k].op = "new" /\ body[f][k].use \in {"discard", "let"}
                /\ thisFlow[body[f][k].target] = "Borrowing"
                /\ body[f][k].use = "let" => ~Escapes(f, Local("var"))
           /\ \A f \in Functions : Super[f] # None => Fulfilled(f)
           /\ \A d \in Deinitializers : ~Escapes(d, Local("this"))
<1> USE FunctionsAssumption
<1>1. FlowTypeOK
  BY DEF IInv
<1>2. \A f \in Functions : stage[f] = "done" /\ statement[f] = None
  <2>1. ASSUME NEW f \in Functions
        PROVE  ~Running(f)
    <3>1. ASSUME Running(f)
          PROVE  FALSE
      <4>1. PICK n \in 1..Len(running) : running[n] = f
        BY <3>1 DEF IInv, OnTheWay
      <4>2. Len(running) = 0
        BY EmptySeq DEF Compiled
      <4>3. QED
        BY <4>1, <4>2
    <3>2. QED
      BY <3>1
  <2>2. ASSUME NEW f \in Functions
        PROVE  stage[f] = "done"
    BY <1>1, <2>1 DEF Compiled, IsMemoryFlowAnalysed, Running, FlowTypeOK, Stage
  <2>3. QED
    BY <2>2 DEF IInv, OnTheWay
<1>3. \A f \in Functions : Performed(f) = Positions(f) /\ Finished(f)
  BY <1>2 DEF Performed, Finished
<1>4. \A f \in Functions : \A k \in Positions(f) :
        /\ body[f][k] \in Statement /\ body[f][k] \in Statements[f]
        /\ k \in 1..MaxLength
        /\ EscapingIn(body[f][k]) \subseteq escaping[f]
  <2>1. ASSUME NEW f \in Functions, NEW k \in Positions(f)
        PROVE  k \in 1..MaxLength
    <3>1. Len(body[f]) \in Nat /\ Len(body[f]) <= MaxLength
      BY <1>1, LenProperties DEF FlowTypeOK
    <3>2. \A n \in Nat : n <= MaxLength => 1..n \subseteq 1..MaxLength
      OBVIOUS
    <3>3. QED
      BY <3>1, <3>2 DEF Positions
  <2>2. ASSUME NEW f \in Functions, NEW k \in Positions(f)
        PROVE  body[f][k] \in Statement /\ body[f][k] \in Statements[f]
    BY <1>1, StatementsAssumption DEF FlowTypeOK
  <2>3. QED
    BY <1>3, <2>1, <2>2 DEF IInv, Summarised
<1>5. \A f \in Functions :
        /\ Escapes(f, Local("this")) <=> "this" \in escaping[f] \/ f \in DeclaredThis
        /\ Escapes(f, Local("param")) <=> "param" \in escaping[f]
  BY <1>3, EscapesValues DEF IInv, FlowsFinal, ThisCategory, ParamCategory, IsEscaping
<1>6. \A f \in Functions : Escapes(f, Local("var")) => "var" \in escaping[f]
  BY <1>4, EscapesValues
<1>7. ASSUME NEW f \in Functions, NEW k \in Positions(f), <<f, k>> \in onStack
      PROVE  /\ body[f][k].op = "new" /\ body[f][k].use \in {"discard", "let"}
             /\ thisFlow[body[f][k].target] = "Borrowing"
             /\ body[f][k].use = "let" => ~Escapes(f, Local("var"))
  BY <1>4, <1>6, <1>7 DEF IInv, SitesBorrowed
<1>8. \A f \in Functions : Super[f] # None => Fulfilled(f)
  BY <1>2 DEF IInv, PromisesChecked, Compiled
<1>9. \A d \in Deinitializers : ~Escapes(d, Local("this"))
  BY <1>3, <1>5 DEF IInv, DeinitializersChecked, Compiled, Functions
<1>10. QED
  BY <1>4, <1>5, <1>7, <1>8, <1>9

\* What a method of a subclass lets escape, the overridden method is known to let escape.
LEMMA TargetsPromise ==
    ASSUME FlowTypeOK, NEW s \in Statement, s.op = "value" <=> s.target = None, s.op # "value",
           \A f \in Functions : Super[f] # None => Fulfilled(f),
           NEW g \in Targets(s), NEW formal \in {"this", "param"}, Escapes(g, Local(formal))
    PROVE  /\ g \in Functions
           /\ (IF formal = "this" THEN thisFlow[s.target] ELSE paramFlow[s.target]) = "Escaping"
           /\ Escapes(s.target, Local(formal))
<1> USE FunctionsAssumption
<1>1. s.target \in Functions /\ g \in Functions
  BY DEF Targets, Statement
<1>2. g = s.target \/ Super[g] = s.target
  BY DEF Targets
<1>3. CASE formal = "this"
  <2>1. IsEscaping(thisFlow[g])
    BY <1>3, EscapesValues
  <2>2. IsEscaping(thisFlow[s.target])
    BY <1>1, <1>2, <2>1 DEF Fulfilled, FulfillsPromise, IsEscaping
  <2>3. thisFlow[s.target] \in {"Borrowing", "Escaping", "Unknown"}
    BY <1>1 DEF FlowTypeOK, Flow
  <2>4. thisFlow[s.target] = "Escaping"
    BY <2>2, <2>3 DEF IsEscaping
  <2>5. QED
    BY <1>1, <1>3, <2>2, <2>4, EscapesValues
<1>4. CASE formal = "param"
  <2>1. IsEscaping(paramFlow[g])
    BY <1>4, EscapesValues
  <2>2. IsEscaping(paramFlow[s.target])
    BY <1>1, <1>2, <2>1 DEF Fulfilled, FulfillsPromise, IsEscaping
  <2>3. paramFlow[s.target] = "Escaping"
    BY <1>1, <2>2 DEF FlowTypeOK, IsEscaping
  <2>4. QED
    BY <1>1, <1>4, <2>2, <2>3, EscapesValues
<1>5. QED
  BY <1>3, <1>4

\* What the statement at k of f does with its own value.
LEMMA UsesPermitted ==
    ASSUME IInv, Compiled, AssumptionsHold, NoneReturnsThis,
           NEW f \in Functions, NEW k \in Positions(f), NEW x \in UsedIn(Permitted, f, k)
    PROVE  <<f, ValueOf(f, k), x>> \in Permitted
<1>1. PICK s : s = body[f][k]
  OBVIOUS
<1>2. /\ s \in Statement /\ s \in Statements[f] /\ k \in 1..MaxLength
      /\ EscapingIn(s) \subseteq escaping[f]
      /\ "this" \in escaping[f] => Escapes(f, Local("this"))
      /\ "param" \in escaping[f] => Escapes(f, Local("param"))
      /\ <<f, k>> \in onStack =>
            s.op = "new" /\ s.use \in {"discard", "let"} /\ (s.use = "let" => ~Escapes(f, Local("var")))
  BY <1>1, AtTheEnd
<1>3. s.op \in {"value", "call", "super", "new"} /\ s.use \in {"discard", "let", "store", "return"} /\ s.arg \in Values
  BY <1>2 DEF Statement
<1>4. /\ x \in {"heap", "result"}
      /\ s.use # "discard"
      /\ s.use = "let" => Escapes(f, Local("var"))
  <2>1. \A v : \A y \in SinksOf(Permitted, f, v) : y \in {"heap", "result"} /\ Escapes(f, v)
    BY PermittedFacts DEF SinksOf
  <2>2. QED
    BY <1>1, <1>3, <2>1 DEF UsedIn
<1>5. CASE s.op = "value"
  <2>1. ValueOf(f, k) = Local(s.arg)
    BY <1>1, <1>5 DEF ValueOf
  <2>2. EscapingIn(s) = Escaped(s, thisFlow[s.target], paramFlow[s.target])
    BY <1>2, EscapingIsEscaped
  <2>3. s.arg = "this" => s.use # "return"
    BY <1>1, <2>1 DEF NoneReturnsThis, ReturnsThis
  <2>4. Records(s.arg, Category(s.use))
    BY <1>3, <1>4, <2>3 DEF Records, RecordThis, RecordVariableGet, Category, IsEscaping
  <2>5. s.arg \in EscapingIn(s)
    BY <1>3, <1>5, <2>2, <2>4 DEF Escaped
  <2>6. Escapes(f, Local(s.arg))
    BY <1>1, <1>2, <1>3, <2>5, EscapesValues DEF Values
  <2>7. QED
    BY <1>3, <1>4, <2>1, <2>6, PermittedFacts
<1>6. CASE s.op # "value"
  <2>1. ValueOf(f, k) = Site(k)
    BY <1>1, <1>6 DEF ValueOf
  <2>2. <<f, k>> \notin onStack
    BY <1>2, <1>3, <1>4
  <2>3. Escapes(f, Site(k))
    BY <2>2, EscapesValues
  <2>4. QED
    BY <1>2, <1>4, <2>1, <2>3, PermittedFacts
<1>7. QED
  BY <1>5, <1>6

\* What the methods that the statement at k of f may call do with what they are passed.
LEMMA PassingPermitted ==
    ASSUME IInv, Compiled, AssumptionsHold,
           NEW f \in Functions, NEW k \in Positions(f),
           NEW g \in Targets(body[f][k]), NEW a \in Actuals(f, k), NEW x \in PassedIn(Permitted, f, k, g, a[1])
    PROVE  <<f, a[2], x>> \in Permitted
<1>1. PICK s : s = body[f][k]
  OBVIOUS
<1>2. /\ s \in Statement /\ s \in Statements[f] /\ k \in 1..MaxLength
      /\ EscapingIn(s) \subseteq escaping[f]
      /\ "this" \in escaping[f] => Escapes(f, Local("this"))
      /\ "param" \in escaping[f] => Escapes(f, Local("param"))
      /\ <<f, k>> \in onStack => s.op = "new" /\ thisFlow[s.target] = "Borrowing"
      /\ \A h \in Functions : Super[h] # None => Fulfilled(h)
  BY <1>1, AtTheEnd
<1>3. s.op \in {"value", "call", "super", "new"} /\ s.arg \in Values /\ (s.op = "call" => s.callee \in Values)
  BY <1>2, StatementsAssumption DEF Statement
<1>4. s.op # "value"
  BY <1>1 DEF Actuals
<1>5. /\ a[1] \in {"this", "param"}
      /\ a[1] = "param" => a[2] = Local(s.arg)
      /\ a[1] = "this" =>
            \/ s.op = "call" /\ a[2] = Local(s.callee)
            \/ s.op = "super" /\ a[2] = Local("this")
            \/ s.op = "new" /\ a[2] = Site(k)
  <2>1. CASE s.op = "call"
    BY <1>1, <2>1 DEF Actuals
  <2>2. CASE s.op = "super"
    BY <1>1, <2>2 DEF Actuals
  <2>3. CASE s.op = "new"
    BY <1>1, <2>3 DEF Actuals
  <2>4. QED
    BY <1>3, <1>4, <2>1, <2>2, <2>3
<1>6. x \in {"heap", "result"} /\ Escapes(g, Local(a[1]))
  <2>1. g \in Functions
    BY <1>1, <1>2, <1>4, StatementsAssumption DEF Targets, Statement
  <2>2. x \in {"heap", "result"}
    BY DEF PassedIn, SinksOf
  <2>3. <<g, Local(a[1]), "heap">> \in Permitted \/ <<g, Local(a[1]), "result">> \in Permitted
    BY DEF PassedIn, SinksOf
  <2>4. QED
    BY <2>1, <2>2, <2>3, PermittedFacts
<1>7. (IF a[1] = "this" THEN thisFlow[s.target] ELSE paramFlow[s.target]) = "Escaping"
  <2>1. FlowTypeOK /\ (s.op = "value" <=> s.target = None)
    BY <1>2, StatementsAssumption DEF IInv
  <2>2. QED
    BY <1>1, <1>2, <1>4, <1>5, <1>6, <2>1, TargetsPromise
<1>8. EscapingIn(s) = Escaped(s, thisFlow[s.target], paramFlow[s.target])
  BY <1>2, EscapingIsEscaped
<1>9. \A v : Records(v, "Escaping")
  BY DEF Records, RecordThis, RecordVariableGet, IsEscaping
<1>10. ASSUME NEW v \in EscapingIn(s)
       PROVE  Escapes(f, Local(v)) /\ v \in Values
  <2>1. v \in Values
    BY <1>8, <1>10 DEF Escaped
  <2>2. v = "var" => Escapes(f, Local(v))
    BY <1>1, <1>10, EscapesValues
  <2>3. QED
    BY <1>2, <1>10, <2>1, <2>2 DEF Values
<1>11. CASE a[1] = "param"
  <2>1. s.arg \in EscapingIn(s)
    BY <1>3, <1>4, <1>7, <1>8, <1>9, <1>11 DEF Escaped
  <2>2. QED
    BY <1>5, <1>6, <1>10, <1>11, <2>1, PermittedFacts
<1>12. CASE a[1] = "this" /\ s.op = "new"
  <2>1. <<f, k>> \notin onStack
    BY <1>2, <1>7, <1>12
  <2>2. Escapes(f, Site(k)) /\ a[2] = Site(k)
    BY <1>5, <1>12, <2>1, EscapesValues
  <2>3. QED
    BY <1>2, <1>6, <2>2, PermittedFacts
<1>13. CASE a[1] = "this" /\ s.op = "call"
  <2>1. s.callee \in EscapingIn(s) /\ a[2] = Local(s.callee)
    BY <1>3, <1>5, <1>7, <1>8, <1>9, <1>13 DEF Escaped
  <2>2. QED
    BY <1>6, <1>10, <2>1, PermittedFacts
<1>14. CASE a[1] = "this" /\ s.op = "super"
  <2>1. "this" \in EscapingIn(s) /\ a[2] = Local("this")
    BY <1>5, <1>7, <1>8, <1>9, <1>14 DEF Escaped, Values
  <2>2. QED
    BY <1>6, <1>10, <2>1, PermittedFacts
<1>15. QED
  BY <1>5, <1>11, <1>12, <1>13, <1>14

\* What flows somewhere in a step was permitted.
LEMMA PermittedClosed ==
    ASSUME IInv, Compiled, AssumptionsHold, NoneReturnsThis
    PROVE  MoreSinks(Permitted) \subseteq Permitted
<1>1. ASSUME NEW f \in Functions, NEW k \in Positions(f), NEW fact \in SinksAt(Permitted, f, k)
      PROVE  fact \in Permitted
  <2>1. CASE fact \in {<<f, ValueOf(f, k), x>> : x \in UsedIn(Permitted, f, k)}
    BY <2>1, UsesPermitted
  <2>2. CASE \E g \in Targets(body[f][k]), a \in Actuals(f, k) :
                fact \in {<<f, a[2], x>> : x \in PassedIn(Permitted, f, k, g, a[1])}
    BY <2>2, PassingPermitted
  <2>3. QED
    BY <2>1, <2>2 DEF SinksAt
<1>2. QED
  BY <1>1 DEF MoreSinks

\* Whatever functions call and override each other, the categories are consistent.
THEOREM CategoriesClosed == FlowSpec => []AnalysisClosed
<1>1. IInv => AnalysisClosed
  BY PermittedClosed DEF AnalysisClosed
<1>2. QED
  BY Invariance, <1>1, PTL

(***************************************************************************)
(* Sinks is computed by adding what follows until nothing does.  What the  *)
(* computation ends with is the least set closed under MoreSinks, whatever *)
(* the program: by induction over the sets of facts, from larger to        *)
(* smaller ones.                                                           *)
(***************************************************************************)

\* What is known of the statements of a program that is compiled.
ProgramTyped ==
    \A f \in Functions : \A k \in Positions(f) :
        /\ body[f][k] \in Statement /\ body[f][k] \in Statements[f] /\ k \in 1..MaxLength

\* What flows where in a step: facts, and more the more is known.
LEMMA FlowsGrow ==
    ASSUME ProgramTyped, NEW small, NEW large, small \subseteq large, large \subseteq Facts
    PROVE  MoreSinks(small) \subseteq MoreSinks(large) /\ MoreSinks(large) \subseteq Facts
<1>1. ASSUME NEW f \in Functions, NEW k \in Positions(f)
      PROVE  SinksAt(small, f, k) \subseteq SinksAt(large, f, k) /\ SinksAt(large, f, k) \subseteq Facts
  <2>1. PICK s : s = body[f][k]
    OBVIOUS
  <2>2. /\ s.op \in {"value", "call", "super", "new"} /\ s.arg \in Values
        /\ s.use \in {"discard", "let", "store", "return"}
        /\ (s.op = "call" => s.callee \in Values) /\ k \in 1..MaxLength
    BY <2>1, StatementsAssumption DEF Statement, ProgramTyped
  <2>3. \A v : SinksOf(small, f, v) \subseteq SinksOf(large, f, v) /\ SinksOf(large, f, v) \subseteq {"heap", "result"}
    BY DEF SinksOf
  <2>4. UsedIn(small, f, k) \subseteq UsedIn(large, f, k) /\ UsedIn(large, f, k) \subseteq {"heap", "result"}
    <3>1. CASE s.use = "let"
      BY <2>1, <2>3, <3>1 DEF UsedIn
    <3>2. CASE s.use # "let"
      BY <2>1, <2>2, <3>2 DEF UsedIn
    <3>3. QED
      BY <3>1, <3>2
  <2>5. \A g, formal : /\ PassedIn(small, f, k, g, formal) \subseteq PassedIn(large, f, k, g, formal)
                       /\ PassedIn(large, f, k, g, formal) \subseteq {"heap", "result"}
    BY DEF PassedIn, SinksOf
  <2>6. \A v \in Values, x \in {"heap", "result"} : <<f, Local(v), x>> \in Facts
    BY DEF Facts
  <2>7. \A x \in {"heap", "result"} : <<f, Site(k), x>> \in Facts
    BY <2>2 DEF Facts
  <2>8. \A x \in {"heap", "result"} : <<f, ValueOf(f, k), x>> \in Facts
    BY <2>1, <2>2, <2>6, <2>7 DEF ValueOf
  <2>9. \A a \in Actuals(f, k) : a[2] = Site(k) \/ \E v \in Values : a[2] = Local(v)
    <3>1. CASE s.op = "value"
      BY <2>1, <3>1 DEF Actuals
    <3>2. CASE s.op = "call"
      BY <2>1, <2>2, <3>2 DEF Actuals
    <3>3. CASE s.op = "super"
      BY <2>1, <2>2, <3>3 DEF Actuals, Values
    <3>4. CASE s.op = "new"
      BY <2>1, <2>2, <3>4 DEF Actuals
    <3>5. QED
      BY <2>2, <3>1, <3>2, <3>3, <3>4
  <2>10. \A a \in Actuals(f, k), x \in {"heap", "result"} : <<f, a[2], x>> \in Facts
    BY <2>6, <2>7, <2>9
  <2>11. ASSUME NEW fact \in SinksAt(small, f, k)
         PROVE  fact \in SinksAt(large, f, k)
    <3>1. CASE \E x \in UsedIn(small, f, k) : fact = <<f, ValueOf(f, k), x>>
      BY <2>4, <3>1 DEF SinksAt
    <3>2. CASE \E g \in Targets(body[f][k]), a \in Actuals(f, k) :
                  \E x \in PassedIn(small, f, k, g, a[1]) : fact = <<f, a[2], x>>
      <4>1. PICK g \in Targets(body[f][k]), a \in Actuals(f, k) :
                    \E x \in PassedIn(small, f, k, g, a[1]) : fact = <<f, a[2], x>>
        BY <3>2
      <4>. DEFINE P(h, b) == {<<f, b[2], x>> : x \in PassedIn(large, f, k, h, b[1])}
      <4>2. fact \in P(g, a)
        BY <2>5, <4>1
      <4>3. SinksAt(large, f, k) = {<<f, ValueOf(f, k), x>> : x \in UsedIn(large, f, k)}
                \cup UNION {P(h, b) : h \in Targets(body[f][k]), b \in Actuals(f, k)}
        BY DEF SinksAt
      <4>. HIDE DEF P
      <4>4. QED
        BY <4>1, <4>2, <4>3
    <3>3. QED
      BY <2>11, <3>1, <3>2 DEF SinksAt
  <2>12. ASSUME NEW fact \in SinksAt(large, f, k)
         PROVE  fact \in Facts
    <3>1. CASE \E x \in UsedIn(large, f, k) : fact = <<f, ValueOf(f, k), x>>
      BY <2>4, <2>8, <3>1
    <3>2. CASE \E g \in Targets(body[f][k]), a \in Actuals(f, k) :
                  \E x \in PassedIn(large, f, k, g, a[1]) : fact = <<f, a[2], x>>
      <4>1. PICK g \in Targets(body[f][k]), a \in Actuals(f, k) :
                    \E x \in PassedIn(large, f, k, g, a[1]) : fact = <<f, a[2], x>>
        BY <3>2
      <4>2. PICK x \in {"heap", "result"} : fact = <<f, a[2], x>>
        BY <2>5, <4>1
      <4>3. QED
        BY <2>10, <4>1, <4>2
    <3>3. QED
      BY <2>12, <3>1, <3>2 DEF SinksAt
  <2>13. QED
    BY <2>11, <2>12
<1>2. QED
  BY <1>1 DEF MoreSinks

\* A program has finitely many facts.
LEMMA FactsFinite == IsFiniteSet(Facts)
<1>1. IsFiniteSet({Local(v) : v \in Values})
  <2>1. {Local(v) : v \in Values} = {Local("this"), Local("param"), Local("var")}
    BY DEF Values
  <2>2. IsFiniteSet({Local("this")} \cup {Local("param")})
    BY FS_Singleton, FS_AddElement
  <2>3. IsFiniteSet(({Local("this")} \cup {Local("param")}) \cup {Local("var")})
    BY <2>2, FS_AddElement
  <2>4. ({Local("this")} \cup {Local("param")}) \cup {Local("var")} = {Local("this"), Local("param"), Local("var")}
    OBVIOUS
  <2>5. QED
    BY <2>1, <2>3, <2>4
<1>2. IsFiniteSet({Site(k) : k \in 1..MaxLength})
  <2>. DEFINE sites == {Site(k) : k \in 1..MaxLength}
              f == [k \in 1..MaxLength |-> Site(k)]
  <2>1. IsFiniteSet(1..MaxLength)
    BY FS_Interval, FunctionsAssumption
  <2>2. f \in [1..MaxLength -> sites] /\ \A x \in sites : \E k \in 1..MaxLength : f[k] = x
    OBVIOUS
  <2>. HIDE DEF f, sites
  <2>3. IsFiniteSet(sites)
    BY <2>1, <2>2, FS_Surjection DEF Surjection
  <2>4. QED
    BY <2>3 DEF sites
<1>3. IsFiniteSet({Local(v) : v \in Values} \cup {Site(k) : k \in 1..MaxLength})
  BY <1>1, <1>2, FS_Union
<1>4. IsFiniteSet({"heap", "result"})
  <2>1. IsFiniteSet({"heap"} \cup {"result"})
    BY FS_Singleton, FS_AddElement
  <2>2. {"heap"} \cup {"result"} = {"heap", "result"}
    OBVIOUS
  <2>3. QED
    BY <2>1, <2>2
<1>. DEFINE A == {Local(v) : v \in Values} \cup {Site(k) : k \in 1..MaxLength}
            X == {"heap", "result"}
<1>5. IsFiniteSet(Functions) /\ IsFiniteSet(A) /\ IsFiniteSet(X)
  BY <1>3, <1>4, ProgramIsFinite
<1>. HIDE DEF A, X
<1>6. IsFiniteSet(Functions \X A)
  BY <1>5, FS_Product
<1>7. IsFiniteSet((Functions \X A) \X X)
  BY <1>5, <1>6, FS_Product
<1>. DEFINE P == (Functions \X A) \X X
            T == Functions \X A \X X
            g == [p \in P |-> <<p[1][1], p[1][2], p[2]>>]
<1>8. g \in [P -> T] /\ \A t \in T : \E p \in P : g[p] = t
  <2>1. \A t \in T : <<<<t[1], t[2]>>, t[3]>> \in P /\ g[<<<<t[1], t[2]>>, t[3]>>] = t
    OBVIOUS
  <2>2. QED
    BY <2>1
<1>. HIDE DEF g, P, T
<1>9. g \in Surjection(P, T)
  BY <1>8 DEF Surjection
<1>10. IsFiniteSet(T)
  BY <1>7, <1>9, FS_Surjection DEF P
<1>11. QED
  BY <1>10 DEF T, A, X, Facts

\* The facts that every set with the facts of s in it has that is closed under
\* MoreSinks.
Closure(s) ==
    {fact \in Facts : \A t \in SUBSET Facts : s \subseteq t /\ MoreSinks(t) \subseteq t => fact \in t}

\* The functions that what Sinks calls grow may be.
Grows(g) ==
    g = [s \in SUBSET Facts |->
            IF s \cup MoreSinks(s) = s THEN s ELSE g[s \cup MoreSinks(s)]]

\* Adding what follows at once changes nothing about what follows in the end.
LEMMA ClosureGrows ==
    ASSUME ProgramTyped, NEW s \in SUBSET Facts
    PROVE  /\ s \cup MoreSinks(s) \in SUBSET Facts
           /\ Closure(s \cup MoreSinks(s)) = Closure(s)
           /\ s \cup MoreSinks(s) = s => Closure(s) = s
<1>1. MoreSinks(s) \subseteq Facts
  BY FlowsGrow
<1>2. ASSUME NEW t \in SUBSET Facts, MoreSinks(t) \subseteq t
      PROVE  s \subseteq t <=> s \cup MoreSinks(s) \subseteq t
  BY <1>2, FlowsGrow
<1>3. Closure(s \cup MoreSinks(s)) = Closure(s)
  BY <1>2 DEF Closure
<1>4. ASSUME s \cup MoreSinks(s) = s
      PROVE  Closure(s) = s
  <2>1. MoreSinks(s) \subseteq s
    BY <1>4
  <2>2. QED
    BY <2>1 DEF Closure
<1>5. QED
  BY <1>1, <1>3, <1>4

\* Whatever is computed step by step from a set of facts is its closure: a set of
\* which this were false, and that misses as few facts as possible, would not grow.
LEMMA GrowthReachesClosure ==
    ASSUME ProgramTyped, NEW g, Grows(g), NEW s \in SUBSET Facts
    PROVE  g[s] = Closure(s)
<1>. DEFINE wrong == {t \in SUBSET Facts : g[t] # Closure(t)}
            missing == {Facts \ t : t \in wrong}
<1>1. SUFFICES ASSUME wrong # {} PROVE FALSE
  BY <1>1
<1>2. missing \subseteq FiniteSubsetsOf(Facts) /\ missing # {}
  <2>1. \A t \in wrong : Facts \ t \in SUBSET Facts
    OBVIOUS
  <2>2. \A t \in wrong : IsFiniteSet(Facts \ t)
    BY <2>1, FactsFinite, FS_Subset
  <2>3. missing \subseteq FiniteSubsetsOf(Facts)
    BY <2>1, <2>2 DEF FiniteSubsetsOf
  <2>4. missing # {}
    BY <1>1
  <2>5. QED
    BY <2>3, <2>4
<1>3. IsWellFoundedOn(StrictSubsetOrdering(Facts), FiniteSubsetsOf(Facts))
  BY FS_StrictSubsetOrderingWellFounded
<1>4. PICK m \in missing : \A n \in missing : ~(<<n, m>> \in StrictSubsetOrdering(Facts))
  BY <1>2, <1>3, WFMin
<1>5. PICK t \in wrong : m = Facts \ t
  BY <1>4
<1>6. PICK u : u = t \cup MoreSinks(t)
  OBVIOUS
<1>7. u \in SUBSET Facts /\ Closure(u) = Closure(t) /\ (u = t => Closure(t) = t)
  BY <1>5, <1>6, ClosureGrows
<1>8. g[t] = IF u = t THEN t ELSE g[u]
  BY <1>5, <1>6 DEF Grows
<1>9. u # t /\ u \in wrong
  BY <1>5, <1>7, <1>8
<1>10. Facts \ u \in missing /\ <<Facts \ u, m>> \in StrictSubsetOrdering(Facts)
  BY <1>5, <1>6, <1>7, <1>9 DEF StrictSubsetOrdering
<1>11. QED
  BY <1>4, <1>10

\* Sinks is what its comment says, the least set closed under MoreSinks.
LEMMA SinksAreClosure ==
    ASSUME ProgramTyped
    PROVE  Sinks = Closure({})
<1>. DEFINE closures == [s \in SUBSET Facts |-> Closure(s)]
<1>1. Grows(closures)
  <2>1. \A s \in SUBSET Facts :
            closures[s] = IF s \cup MoreSinks(s) = s THEN s ELSE closures[s \cup MoreSinks(s)]
    BY ClosureGrows
  <2>2. QED
    BY <2>1 DEF Grows
<1>. HIDE DEF closures
<1>. DEFINE h == CHOOSE k : Grows(k)
<1>2. Grows(h)
  BY <1>1
<1>3. Sinks = h[{}]
  BY DEF Sinks, Grows
<1>. HIDE DEF h
<1>4. QED
  BY <1>2, <1>3, GrowthReachesClosure

\* Whatever set of facts is closed under MoreSinks, it has everything in Sinks.
LEMMA SinksLeast ==
    ASSUME ProgramTyped, NEW C \in SUBSET Facts, MoreSinks(C) \subseteq C
    PROVE  Sinks \subseteq C
BY SinksAreClosure DEF Closure

\* Whatever ends up in heap memory or is returned was permitted to.
LEMMA SinksPermitted ==
    ASSUME IInv, Compiled, AssumptionsHold, NoneReturnsThis
    PROVE  Sinks \subseteq Permitted
<1>1. ProgramTyped
  BY AtTheEnd DEF ProgramTyped
<1>2. Permitted \subseteq Facts
  BY DEF Permitted
<1>3. MoreSinks(Permitted) \subseteq Permitted
  BY PermittedClosed
<1>4. QED
  BY <1>1, <1>2, <1>3, SinksLeast

\* No object on the stack outlives the function that created it, however long the
\* chains of calls through which it is passed on are.
THEOREM FramesAreSafe == FlowSpec => []StackNeverOutlived
<1>1. IInv => StackNeverOutlived
  <2> SUFFICES ASSUME IInv, Compiled, AssumptionsHold, NoneReturnsThis, NEW site \in onStack
               PROVE  SinksOf(Sinks, site[1], Site(site[2])) = {}
    BY DEF StackNeverOutlived
  <2>1. PICK f \in Functions, k \in 1..MaxLength : site = <<f, k>>
    BY DEF IInv, FlowTypeOK
  <2>2. \A x : <<f, Site(k), x>> \notin Sinks
    BY <2>1, SinksPermitted, PermittedFacts, EscapesValues
  <2>3. QED
    BY <2>1, <2>2 DEF SinksOf
<1>2. QED
  BY Invariance, <1>1, PTL

\* No deinitializer lets its instance be kept, whatever it passes the instance to.
THEOREM DeinitializersAreSafe == FlowSpec => []DeinitializedNeverKept
<1>1. IInv => DeinitializedNeverKept
  <2> SUFFICES ASSUME IInv, Compiled, AssumptionsHold, NoneReturnsThis, NEW d \in Deinitializers
               PROVE  <<d, Local("this"), "heap">> \notin Sinks
    BY DEF DeinitializedNeverKept
  <2>1. d \in Functions /\ ~Escapes(d, Local("this"))
    BY AtTheEnd, FunctionsAssumption DEF Functions
  <2>2. QED
    BY <2>1, SinksPermitted, PermittedFacts
<1>2. QED
  BY Invariance, <1>1, PTL

(***************************************************************************)
(* The pass over retains and releases.  What it deleted are pairs of a     *)
(* retain and a later release of the same value, with nothing between them *)
(* that could tell how often an object is referred to.                     *)
(***************************************************************************)

\* What other code runs at: calls, and releases that are kept.
Clearing(c) == c \notin deleted /\ block[c].op \in {"call", "release"}
Deleted(op) == {i \in deleted : block[i].op = op}

\* The types of the state of the pass.
PassTypeOK ==
    /\ block \in Seq(Instructions) /\ scanned \in 0..Len(block)
    /\ retains \in [Registers -> Seq(1..scanned)]
    /\ deleted \in SUBSET (1..scanned)
    /\ \A i \in deleted : block[i].op \in {"retain", "release"} /\ block[i].value \in Registers

\* A retain that can still be paired is kept so far, and nothing after it clears it.
Pairable(v, i) ==
    /\ i \notin deleted /\ block[i].op = "retain" /\ block[i].value = v
    /\ \A c \in 1..scanned : c > i => ~Clearing(c)
Noted(v) == {retains[v][n] : n \in 1..Len(retains[v])}
RetainsPairable ==
    \A v \in Registers :
        /\ \A i \in Noted(v) : Pairable(v, i)
        /\ \A m, n \in 1..Len(retains[v]) : retains[v][m] = retains[v][n] => m = n

\* The releases that were deleted are each paired with a retain of their own.
Pair(i, j) ==
    /\ i < j /\ block[i].value = block[j].value
    /\ \A c \in 1..scanned : ~(i < c /\ c < j /\ Clearing(c))
Pairing(partner) ==
    /\ partner \in [Deleted("release") -> Deleted("retain")]
    /\ \A i \in Deleted("retain") : \E j \in Deleted("release") : partner[j] = i
    /\ \A j, k \in Deleted("release") : partner[j] = partner[k] => j = k
    /\ \A j \in Deleted("release") : Pair(partner[j], j)

\* The pairs of an object the first n instructions have begun and not ended.
Open(partner, o, n) ==
    {j \in Deleted("release") : partner[j] <= n /\ n < j /\ objectOf[block[j].value] = o}

\* The types of the execution.
ExecutionTypeOK ==
    /\ objectOf \in [Registers -> Objects]
    /\ executed \in 0..Len(block) /\ (executed # 0 => scanned = Len(block))
    /\ owned \in [Objects -> Nat] /\ optimized \in [Objects -> Nat]
    /\ elsewhere \in [Objects -> Nat]

\* The executions differ by one reference for each pair that is open; while one is, there
\* is another reference to its object.
Balanced(partner) ==
    \A o \in Objects :
        /\ owned[o] = optimized[o] + Cardinality(Open(partner, o, executed))
        /\ Open(partner, o, executed) # {} => optimized[o] + elsewhere[o] > 0

RedundantInv ==
    /\ PassTypeOK /\ RetainsPairable /\ ExecutionTypeOK /\ ~differed
    /\ \E partner : Pairing(partner) /\ Balanced(partner)

(* Positions of the block that were looked at hold instructions.           *)
LEMMA InstructionTypes ==
    ASSUME PassTypeOK, NEW i \in 1..Len(block)
    PROVE  /\ block[i].op \in {"retain", "release", "use", "call"}
           /\ block[i].op # "call" => block[i].value \in Registers
<1>1. block[i] \in Instructions
    BY DEF PassTypeOK
<1>. QED BY <1>1 DEF Instructions

(* Sequences over a set are sequences over a larger one.                   *)
LEMMA SeqSubset ==
    ASSUME NEW S, NEW T, S \subseteq T, NEW q \in Seq(S)
    PROVE  q \in Seq(T) /\ Len(q) \in Nat
<1>1. q \in [1..Len(q) -> S] /\ Len(q) \in Nat
    OBVIOUS
<1>2. q \in [1..Len(q) -> T]
    BY <1>1
<1>. QED BY <1>1, <1>2

(* The elements of a sequence, and those before the last one.              *)
LEMMA Elements ==
    ASSUME NEW S, NEW q \in Seq(S)
    PROVE  Len(q) \in Nat /\ \A n \in 1..Len(q) : q[n] \in S
OBVIOUS
LEMMA BeforeLast ==
    ASSUME NEW S, NEW q \in Seq(S), q # <<>>
    PROVE  /\ Len(q) \in 1..Len(q) /\ Len(q) - 1 \in Nat
           /\ SubSeq(q, 1, Len(q) - 1) \in Seq(S)
           /\ Len(SubSeq(q, 1, Len(q) - 1)) = Len(q) - 1
           /\ \A n \in 1..(Len(q) - 1) : SubSeq(q, 1, Len(q) - 1)[n] = q[n]
<1>1. Len(q) \in Nat /\ Len(q) # 0
    OBVIOUS
<1>. PICK l \in Nat : l = Len(q) - 1
    BY <1>1
<1>2. 1..l \subseteq 1..Len(q)
    BY <1>1
<1>3. SubSeq(q, 1, l) = [n \in 1..l |-> q[n]]
    BY <1>1
<1>4. SubSeq(q, 1, l) \in Seq(S) /\ Len(SubSeq(q, 1, l)) = l
    BY <1>2, <1>3, Elements
<1>. QED BY <1>1, <1>3, <1>4

(* Nothing is paired and executed at first.                                *)
LEMMA RedundantStarts == RedundantInit => RedundantInv
<1>. SUFFICES ASSUME RedundantInit PROVE RedundantInv
    OBVIOUS
<1>1. PICK n \in 0..MaxBlock : block \in [1..n -> Instructions]
    BY DEF RedundantInit
<1>2. n \in Nat
    BY MaxBlockAssumption
<1>3. block \in Seq(Instructions) /\ Len(block) \in Nat
    BY <1>1, <1>2
<1>4. scanned = 0 /\ deleted = {} /\ retains = [v \in Registers |-> <<>>]
    BY DEF RedundantInit, NoRetains
<1>5. PassTypeOK
    BY <1>3, <1>4 DEF PassTypeOK
<1>6. RetainsPairable
    BY <1>4 DEF RetainsPairable, Noted
<1>7. ExecutionTypeOK /\ ~differed
    BY <1>3, <1>4 DEF ExecutionTypeOK, RedundantInit
<1>8. Deleted("release") = {} /\ Deleted("retain") = {}
    BY <1>4 DEF Deleted
<1>. DEFINE none == [j \in {} |-> 0]
<1>9. Pairing(none)
    BY <1>8 DEF Pairing
<1>. HIDE DEF none
<1>10. Balanced(none)
    <2>. SUFFICES ASSUME NEW o \in Objects
                  PROVE  /\ owned[o] = optimized[o] + Cardinality(Open(none, o, executed))
                         /\ Open(none, o, executed) = {}
        BY DEF Balanced
    <2>1. Open(none, o, executed) = {}
        BY <1>8 DEF Open
    <2>2. owned[o] = optimized[o] /\ optimized[o] \in Nat
        BY <1>7 DEF RedundantInit, ExecutionTypeOK
    <2>3. Cardinality(Open(none, o, executed)) = 0
        BY <2>1, FS_EmptySet
    <2>. QED BY <2>1, <2>2, <2>3
<1>. QED BY <1>5, <1>6, <1>7, <1>9, <1>10 DEF RedundantInv

(* Before the first instruction no pair is open.                           *)
LEMMA NothingOpen ==
    ASSUME PassTypeOK, NEW partner, Pairing(partner), NEW o
    PROVE  Open(partner, o, 0) = {}
<1>1. \A j \in Deleted("release") : partner[j] \in 1..scanned
    BY DEF Pairing, Deleted, PassTypeOK
<1>. QED BY <1>1 DEF Open

(* Any pairing is balanced while the pass goes over the block.             *)
LEMMA BalancedBefore ==
    ASSUME RedundantInv, transformBlock, PassTypeOK', NEW partner, Pairing(partner)'
    PROVE  ExecutionTypeOK' /\ ~differed' /\ Balanced(partner)'
<1>1. /\ UNCHANGED <<block, objectOf, executed, owned, optimized, elsewhere, differed>>
      /\ scanned < Len(block) /\ scanned' = scanned + 1
    BY DEF transformBlock, executionVars
<1>2. executed = 0
    BY <1>1 DEF RedundantInv, ExecutionTypeOK, PassTypeOK
<1>3. ExecutionTypeOK' /\ ~differed'
    BY <1>1, <1>2 DEF RedundantInv, ExecutionTypeOK
<1>4. PICK old : Pairing(old) /\ Balanced(old)
    BY DEF RedundantInv
<1>5. ASSUME NEW o \in Objects
      PROVE  owned[o] = optimized[o]
    <2>1. Open(old, o, executed) = {}
        BY <1>2, <1>4, NothingOpen DEF RedundantInv
    <2>2. optimized[o] \in Nat
        BY DEF RedundantInv, ExecutionTypeOK
    <2>3. Cardinality(Open(old, o, executed)) = 0
        BY <2>1, FS_EmptySet
    <2>4. owned[o] = optimized[o] + Cardinality(Open(old, o, executed))
        BY <1>4 DEF Balanced
    <2>. QED BY <2>2, <2>3, <2>4
<1>6. \A j \in Deleted("release")' : partner[j] \in 1..scanned'
    BY DEF Pairing, Deleted, PassTypeOK
<1>7. ASSUME NEW o \in Objects
      PROVE  Open(partner, o, executed)' = {}
    BY <1>1, <1>2, <1>6 DEF Open
<1>8. Balanced(partner)'
    <2>. SUFFICES ASSUME NEW o \in Objects
                  PROVE  /\ owned'[o] = optimized'[o] + Cardinality(Open(partner, o, executed)')
                         /\ Open(partner, o, executed)' = {}
        BY DEF Balanced
    <2>1. owned'[o] = optimized'[o] /\ optimized'[o] \in Nat
        BY <1>1, <1>5 DEF RedundantInv, ExecutionTypeOK
    <2>. QED BY <1>7, <2>1, FS_EmptySet
<1>. QED BY <1>3, <1>8

(* A retain is noted until something clears it.                            *)
LEMMA RetainScanned ==
    ASSUME RedundantInv, transformBlock, ScanRetain
    PROVE  RedundantInv'
<1>. PICK s \in 1..Len(block) : s = scanned + 1
    BY DEF transformBlock, RedundantInv, PassTypeOK
<1>0. block[s].op = "retain" /\ scanned \in Nat
    BY DEF ScanRetain, Scanning, RedundantInv, PassTypeOK
<1>. PICK v \in Registers : v = block[s].value
    BY <1>0, InstructionTypes DEF RedundantInv
<1>1. /\ scanned' = s /\ block' = block /\ deleted' = deleted
      /\ retains' = [retains EXCEPT ![v] = Append(@, s)]
    BY DEF transformBlock, ScanRetain, Scanning
<1>2. 1..scanned' = (1..scanned) \cup {s} /\ s \notin 1..scanned
    BY <1>0, <1>1
<1>3. deleted \in SUBSET (1..scanned) /\ retains \in [Registers -> Seq(1..scanned)]
    BY DEF RedundantInv, PassTypeOK
<1>4. \A w \in Registers : retains'[w] = IF w = v THEN Append(retains[v], s) ELSE retains[w]
    BY <1>1, <1>3
<1>5. \A w \in Registers : retains[w] \in Seq(1..scanned') /\ Len(retains[w]) \in Nat
    BY <1>2, <1>3, SeqSubset
<1>6. PassTypeOK'
    <2>1. retains' \in [Registers -> Seq(1..scanned')]
        BY <1>1, <1>2, <1>3, <1>4, <1>5
    <2>2. deleted' \in SUBSET (1..scanned') /\ scanned' \in 0..Len(block')
        BY <1>0, <1>1, <1>2, <1>3
    <2>. QED BY <1>1, <2>1, <2>2 DEF RedundantInv, PassTypeOK
<1>7. \A c : Clearing(c)' <=> Clearing(c)
    BY <1>1 DEF Clearing
<1>8. ~Clearing(s)
    BY <1>0 DEF Clearing
<1>9. ASSUME NEW w, NEW i \in 1..scanned, Pairable(w, i)
      PROVE  Pairable(w, i)'
    <2>. SUFFICES ASSUME NEW c \in 1..scanned', c > i
                  PROVE  ~Clearing(c)'
        BY <1>1, <1>9 DEF Pairable
    <2>. QED BY <1>2, <1>7, <1>8, <1>9 DEF Pairable
<1>10. Pairable(v, s)'
    BY <1>0, <1>1, <1>2, <1>3 DEF Pairable
<1>11. RetainsPairable'
    <2>. SUFFICES ASSUME NEW w \in Registers
                  PROVE  /\ \A i \in Noted(w)' : Pairable(w, i)'
                         /\ \A m, n \in 1..Len(retains'[w]) : retains'[w][m] = retains'[w][n] => m = n
        BY DEF RetainsPairable
    <2>1. \A m, n \in 1..Len(retains[w]) : retains[w][m] = retains[w][n] => m = n
        BY DEF RedundantInv, RetainsPairable
    <2>2. \A n \in 1..Len(retains[w]) : retains[w][n] \in 1..scanned
        <3>1. retains[w] \in Seq(1..scanned)
            BY <1>3
        <3>. QED BY <3>1, Elements
    <2>3. \A i \in Noted(w) : Pairable(w, i)'
        BY <1>9, <2>2 DEF RedundantInv, RetainsPairable, Noted
    <2>4. CASE w = v
        <3>1. retains'[v] = Append(retains[v], s) /\ Len(retains'[v]) = Len(retains[v]) + 1
              /\ Len(retains[v]) \in Nat
            BY <1>1, <1>3, <1>4
        <3>2. \A n \in 1..Len(retains[v]) : retains'[v][n] = retains[v][n]
            BY <1>1, <1>3, <3>1
        <3>3. retains'[v][Len(retains[v]) + 1] = s
            BY <1>1, <1>3, <3>1
        <3>4. Noted(v)' = Noted(v) \cup {s}
            <4>1. 1..Len(retains'[v]) = (1..Len(retains[v])) \cup {Len(retains[v]) + 1}
                BY <3>1
            <4>2. Noted(v)' = {retains'[v][n] : n \in 1..Len(retains'[v])}
                BY DEF Noted
            <4>3. ASSUME NEW i
                  PROVE  i \in Noted(v)' <=> i \in Noted(v) \cup {s}
                <5>1. i \in Noted(v)' <=> \E n \in 1..Len(retains'[v]) : i = retains'[v][n]
                    BY <4>2
                <5>2. i \in Noted(v) <=> \E n \in 1..Len(retains[v]) : i = retains[v][n]
                    BY DEF Noted
                <5>3. i = s <=> i = retains'[v][Len(retains[v]) + 1]
                    BY <3>3
                <5>4. i \in Noted(v)' <=>
                          \/ \E n \in 1..Len(retains[v]) : i = retains'[v][n]
                          \/ i = retains'[v][Len(retains[v]) + 1]
                    BY <4>1, <5>1, Zenon
                <5>5. (\E n \in 1..Len(retains[v]) : i = retains'[v][n]) <=> i \in Noted(v)
                    BY <3>2, <5>2
                <5>. QED BY <5>3, <5>4, <5>5
            <4>. QED BY <4>3
        <3>5. \A i \in Noted(w)' : Pairable(w, i)'
            BY <1>10, <2>3, <2>4, <3>4
        <3>6. ASSUME NEW m \in 1..Len(retains'[v]), NEW n \in 1..Len(retains'[v]),
                     retains'[v][m] = retains'[v][n]
              PROVE  m = n
            <4>1. \A k \in 1..Len(retains[v]) : retains'[v][k] # s
                BY <1>2, <2>2, <2>4, <3>2
            <4>2. /\ m \in 1..Len(retains[v]) \/ m = Len(retains[v]) + 1
                  /\ n \in 1..Len(retains[v]) \/ n = Len(retains[v]) + 1
                BY <3>1, <3>6
            <4>. QED BY <2>1, <2>4, <3>2, <3>3, <3>6, <4>1, <4>2
        <3>. QED BY <2>4, <3>5, <3>6
    <2>5. CASE w # v
        <3>1. retains'[w] = retains[w]
            BY <1>4, <2>5
        <3>2. Noted(w)' = Noted(w)
            BY <3>1 DEF Noted
        <3>. QED BY <2>1, <2>3, <3>1, <3>2
    <2>. QED BY <2>4, <2>5
<1>12. PICK partner : Pairing(partner) /\ Balanced(partner)
    BY DEF RedundantInv
<1>13. Pairing(partner)'
    <2>1. \A op : Deleted(op)' = Deleted(op)
        BY <1>1 DEF Deleted
    <2>2. \A i, j : Pair(i, j) => Pair(i, j)'
        BY <1>0, <1>1, <1>2, <1>7, <1>8 DEF Pair
    <2>. QED BY <1>12, <2>1, <2>2 DEF Pairing
<1>. QED BY <1>6, <1>11, <1>13, BalancedBefore DEF RedundantInv

(* What is passed over leaves the pairs alone, and so does what clears all *)
(* retains, as they are not paired any more.                               *)
LEMMA OtherScanned ==
    ASSUME RedundantInv, transformBlock, ScanOther
    PROVE  RedundantInv'
<1>. PICK s \in 1..Len(block) : s = scanned + 1
    BY DEF transformBlock, RedundantInv, PassTypeOK
<1>1. /\ scanned' = s /\ block' = block /\ scanned \in Nat
      /\ deleted' = deleted
      /\ block[s].op \in {"use", "call", "release"}
      /\ (retains' = retains /\ block[s].op = "use") \/ retains' = NoRetains
    BY DEF transformBlock, ScanOther, Scanning, WithoutCounterpart, Clears, RedundantInv, PassTypeOK
<1>2. 1..scanned' = (1..scanned) \cup {s} /\ s \notin 1..scanned
    BY <1>1
<1>3. deleted \in SUBSET (1..scanned) /\ retains \in [Registers -> Seq(1..scanned)]
    BY DEF RedundantInv, PassTypeOK
<1>4. PassTypeOK'
    <2>1. retains' \in [Registers -> Seq(1..scanned')]
        <3>1. CASE retains' = retains
            <4>1. \A w \in Registers : retains[w] \in Seq(1..scanned')
                BY <1>2, <1>3, SeqSubset
            <4>. QED BY <1>3, <3>1, <4>1
        <3>2. CASE retains' = NoRetains
            BY <3>2 DEF NoRetains
        <3>. QED BY <1>1, <3>1, <3>2
    <2>2. deleted' \in SUBSET (1..scanned') /\ scanned' \in 0..Len(block')
        BY <1>1, <1>2, <1>3
    <2>. QED BY <1>1, <2>1, <2>2 DEF RedundantInv, PassTypeOK
<1>5. \A c : Clearing(c)' <=> Clearing(c)
    BY <1>1 DEF Clearing
<1>6. RetainsPairable'
    <2>1. CASE retains' = retains /\ block[s].op = "use"
        <3>1. ~Clearing(s)
            BY <2>1 DEF Clearing
        <3>2. ASSUME NEW w \in Registers, NEW i \in Noted(w)
              PROVE  Pairable(w, i)'
            <4>1. Pairable(w, i)
                BY DEF RedundantInv, RetainsPairable
            <4>. SUFFICES ASSUME NEW c \in 1..scanned', c > i
                          PROVE  ~Clearing(c)'
                BY <1>1, <4>1 DEF Pairable
            <4>. QED BY <1>2, <1>5, <3>1, <4>1 DEF Pairable
        <3>3. \A w \in Registers : Noted(w)' = Noted(w)
            BY <2>1 DEF Noted
        <3>. QED BY <2>1, <3>2, <3>3 DEF RedundantInv, RetainsPairable
    <2>2. CASE retains' = NoRetains
        BY <2>2 DEF RetainsPairable, NoRetains, Noted
    <2>. QED BY <1>1, <2>1, <2>2
<1>7. PICK partner : Pairing(partner) /\ Balanced(partner)
    BY DEF RedundantInv
<1>8. Pairing(partner)'
    <2>1. \A op : Deleted(op)' = Deleted(op)
        BY <1>1 DEF Deleted
    <2>2. \A i, j \in 1..scanned : Pair(i, j) => Pair(i, j)'
        BY <1>1, <1>2, <1>5 DEF Pair
    <2>3. \A j \in Deleted("release") : j \in 1..scanned /\ partner[j] \in 1..scanned
        BY <1>3, <1>7 DEF Pairing, Deleted
    <2>4. \A j \in Deleted("release") : Pair(partner[j], j)'
        BY <1>7, <2>2, <2>3 DEF Pairing
    <2>. QED BY <1>7, <2>1, <2>4 DEF Pairing
<1>. QED BY <1>4, <1>6, <1>8, BalancedBefore DEF RedundantInv

(* A release is paired with the last retain that was noted.                *)
LEMMA CounterpartScanned ==
    ASSUME RedundantInv, transformBlock, ScanCounterpart
    PROVE  RedundantInv'
<1>. PICK s \in 1..Len(block) : s = scanned + 1
    BY DEF transformBlock, RedundantInv, PassTypeOK
<1>0. block[s].op = "release" /\ scanned \in Nat
    BY DEF ScanCounterpart, Scanning, RedundantInv, PassTypeOK
<1>. PICK v \in Registers : v = block[s].value
    BY <1>0, InstructionTypes DEF RedundantInv
<1>1. retains[v] \in Seq(1..scanned) /\ retains[v] # <<>>
    BY DEF ScanCounterpart, Scanning, RedundantInv, PassTypeOK
<1>. PICK l \in 1..Len(retains[v]) : l = Len(retains[v])
    BY <1>1, BeforeLast
<1>. PICK i \in 1..scanned : i = retains[v][l]
    BY <1>1, Elements
<1>2. /\ scanned' = s /\ block' = block /\ deleted' = deleted \cup {i, s}
      /\ retains' = [retains EXCEPT ![v] = SubSeq(@, 1, l - 1)]
    BY DEF transformBlock, ScanCounterpart, Scanning, Last, Front
<1>3. 1..scanned' = (1..scanned) \cup {s} /\ s \notin 1..scanned /\ i < s
    BY <1>0, <1>2
<1>4. deleted \in SUBSET (1..scanned) /\ retains \in [Registers -> Seq(1..scanned)]
    BY DEF RedundantInv, PassTypeOK
<1>5. Pairable(v, i)
    BY DEF RedundantInv, RetainsPairable, Noted
<1>6. \A w \in Registers : retains'[w] = IF w = v THEN SubSeq(retains[v], 1, l - 1) ELSE retains[w]
    BY <1>2, <1>4
<1>7. /\ SubSeq(retains[v], 1, l - 1) \in Seq(1..scanned)
      /\ Len(SubSeq(retains[v], 1, l - 1)) = l - 1 /\ l - 1 \in Nat
      /\ \A n \in 1..(l - 1) : SubSeq(retains[v], 1, l - 1)[n] = retains[v][n]
    <2>1. PICK q \in Seq(1..scanned) : q = retains[v]
        BY <1>1
    <2>2. q # <<>>
        BY <1>1, <2>1
    <2>3. /\ SubSeq(q, 1, Len(q) - 1) \in Seq(1..scanned)
          /\ Len(SubSeq(q, 1, Len(q) - 1)) = Len(q) - 1 /\ Len(q) - 1 \in Nat
          /\ \A n \in 1..(Len(q) - 1) : SubSeq(q, 1, Len(q) - 1)[n] = q[n]
        BY <2>2, BeforeLast, Zenon
    <2>4. l = Len(q)
        BY <2>1
    <2>. QED BY <2>1, <2>3, <2>4
<1>8. PassTypeOK'
    <2>1. \A w \in Registers : retains'[w] \in Seq(1..scanned')
        <3>1. \A w \in Registers : retains'[w] \in Seq(1..scanned)
            BY <1>4, <1>6, <1>7
        <3>. QED BY <1>3, <3>1, SeqSubset
    <2>2. retains' \in [Registers -> Seq(1..scanned')]
        BY <1>2, <1>4, <2>1
    <2>3. deleted' \in SUBSET (1..scanned') /\ scanned' \in 0..Len(block')
        <3>1. deleted' \subseteq 1..scanned'
            BY <1>2, <1>3, <1>4
        <3>2. Len(block) \in Nat /\ s \in 0..Len(block)
            BY DEF RedundantInv, PassTypeOK
        <3>. QED BY <1>2, <3>1, <3>2
    <2>4. \A j \in deleted' : block'[j].op \in {"retain", "release"} /\ block'[j].value \in Registers
        <3>1. \A j \in deleted : block[j].op \in {"retain", "release"} /\ block[j].value \in Registers
            BY DEF RedundantInv, PassTypeOK
        <3>2. block[i].op = "retain" /\ block[i].value = v
            BY <1>5 DEF Pairable
        <3>3. \A j \in deleted' : j \in deleted \/ j = i \/ j = s
            BY <1>2
        <3>4. \A j : j \in deleted \/ j = i \/ j = s =>
                         block[j].op \in {"retain", "release"} /\ block[j].value \in Registers
            BY <1>0, <3>1, <3>2
        <3>. QED BY <1>2, <3>3, <3>4
    <2>. QED BY <1>2, <2>2, <2>3, <2>4 DEF RedundantInv, PassTypeOK
<1>9. \A c \in 1..scanned' : Clearing(c)' => Clearing(c) /\ c \in 1..scanned
    BY <1>2, <1>3 DEF Clearing
<1>10. RetainsPairable'
    <2>. SUFFICES ASSUME NEW w \in Registers
                  PROVE  /\ \A k \in Noted(w)' : Pairable(w, k)'
                         /\ \A m, n \in 1..Len(retains'[w]) : retains'[w][m] = retains'[w][n] => m = n
        BY DEF RetainsPairable
    <2>1. \A m, n \in 1..Len(retains[w]) : retains[w][m] = retains[w][n] => m = n
        BY DEF RedundantInv, RetainsPairable
    <2>2. Noted(w)' \subseteq Noted(w) \ {i}
        <3>. SUFFICES ASSUME NEW n \in 1..Len(retains'[w])
                      PROVE  retains'[w][n] \in Noted(w) /\ retains'[w][n] # i
            <4>1. Noted(w)' = {retains'[w][n] : n \in 1..Len(retains'[w])}
                BY DEF Noted
            <4>. QED BY <4>1
        <3>1. CASE w = v
            <4>0. retains'[w] = SubSeq(retains[v], 1, l - 1)
                BY <1>6, <3>1
            <4>1. n \in 1..(l - 1) /\ retains'[w][n] = retains[v][n]
                BY <1>7, <4>0
            <4>2. n \in 1..l /\ n # l
                BY <4>1
            <4>. QED BY <2>1, <3>1, <4>1, <4>2 DEF Noted
        <3>2. CASE w # v
            <4>1. retains'[w][n] \in Noted(w) /\ retains'[w] = retains[w]
                BY <1>6, <3>2 DEF Noted
            <4>2. \A k \in Noted(w) : block[k].value = w
                BY DEF RedundantInv, RetainsPairable, Pairable
            <4>3. block[i].value = v
                BY <1>5 DEF Pairable
            <4>. QED BY <3>2, <4>1, <4>2, <4>3
        <3>. QED BY <3>1, <3>2
    <2>3. ASSUME NEW k \in Noted(w), k # i
          PROVE  Pairable(w, k)'
        <3>1. Pairable(w, k)
            BY DEF RedundantInv, RetainsPairable
        <3>2. k \notin deleted'
            BY <1>0, <1>2, <2>3, <3>1 DEF Pairable
        <3>. QED BY <1>2, <1>9, <3>1, <3>2 DEF Pairable
    <2>4. ASSUME NEW m \in 1..Len(retains'[w]), NEW n \in 1..Len(retains'[w]),
                 retains'[w][m] = retains'[w][n]
          PROVE  m = n
        <3>1. CASE w = v
            <4>1. m \in 1..(l - 1) /\ n \in 1..(l - 1) /\ retains[v][m] = retains[v][n]
                <5>0. retains'[w] = SubSeq(retains[v], 1, l - 1)
                    BY <1>6, <3>1
                <5>1. /\ Len(retains'[w]) = l - 1
                      /\ \A z \in 1..(l - 1) : retains'[w][z] = retains[v][z]
                    BY <1>7, <5>0
                <5>2. m \in 1..(l - 1) /\ n \in 1..(l - 1)
                    BY <5>1
                <5>. QED BY <2>4, <5>1, <5>2
            <4>2. m \in 1..l /\ n \in 1..l
                BY <4>1
            <4>. QED BY <2>1, <3>1, <4>1, <4>2
        <3>2. CASE w # v
            BY <1>6, <2>1, <2>4, <3>2
        <3>. QED BY <3>1, <3>2
    <2>. QED BY <2>2, <2>3, <2>4
<1>11. PICK old : Pairing(old) /\ Balanced(old)
    BY DEF RedundantInv
<1>12. /\ Deleted("release")' = Deleted("release") \cup {s} /\ s \notin Deleted("release")
       /\ Deleted("retain")' = Deleted("retain") \cup {i} /\ i \notin Deleted("retain")
    <2>1. block[i].op = "retain" /\ i \notin deleted /\ s \notin deleted /\ block' = block
        BY <1>2, <1>3, <1>4, <1>5 DEF Pairable
    <2>2. Deleted("release")' = Deleted("release") \cup {s} /\ s \notin Deleted("release")
        BY <1>0, <1>2, <2>1 DEF Deleted
    <2>3. Deleted("retain")' = Deleted("retain") \cup {i} /\ i \notin Deleted("retain")
        BY <1>0, <1>2, <2>1 DEF Deleted
    <2>. QED BY <2>2, <2>3
<1>. DEFINE partner == [j \in Deleted("release") \cup {s} |-> IF j = s THEN i ELSE old[j]]
<1>13. /\ partner[s] = i /\ \A j \in Deleted("release") : partner[j] = old[j]
       /\ DOMAIN partner = Deleted("release")'
    BY <1>12
<1>14. old \in [Deleted("release") -> Deleted("retain")]
    BY <1>11 DEF Pairing
<1>15. partner \in [Deleted("release")' -> Deleted("retain")']
    BY <1>12, <1>14
<1>. HIDE DEF partner
<1>16. \A k \in Deleted("retain")' : \E j \in Deleted("release")' : partner[j] = k
    <2>. SUFFICES ASSUME NEW k \in Deleted("retain")'
                  PROVE  \E j \in Deleted("release")' : partner[j] = k
        OBVIOUS
    <2>1. CASE k = i
        BY <1>12, <1>13, <2>1
    <2>2. CASE k \in Deleted("retain")
        <3>1. PICK j \in Deleted("release") : old[j] = k
            BY <1>11, <2>2 DEF Pairing
        <3>. QED BY <1>12, <1>13, <3>1
    <2>. QED BY <1>12, <2>1, <2>2
<1>17. \A j, k \in Deleted("release")' : partner[j] = partner[k] => j = k
    <2>. SUFFICES ASSUME NEW j \in Deleted("release")', NEW k \in Deleted("release")',
                         partner[j] = partner[k]
                  PROVE  j = k
        OBVIOUS
    <2>1. \A m \in Deleted("release") : partner[m] # i
        BY <1>12, <1>13, <1>14
    <2>2. CASE j \in Deleted("release") /\ k \in Deleted("release")
        BY <1>11, <1>13, <2>2 DEF Pairing
    <2>. QED BY <1>12, <1>13, <2>1, <2>2
<1>18. \A j \in Deleted("release")' : \A k : k = partner[j] => Pair(k, j)'
    <2>. SUFFICES ASSUME NEW j \in Deleted("release")', NEW k, k = partner[j]
                  PROVE  Pair(k, j)'
        OBVIOUS
    <2>1. CASE j = s
        <3>1. k = i
            BY <1>13, <2>1
        <3>2. \A c \in 1..scanned' : ~(i < c /\ c < s /\ Clearing(c)')
            BY <1>5, <1>9 DEF Pairable
        <3>. QED BY <1>2, <1>3, <1>5, <2>1, <3>1, <3>2 DEF Pair, Pairable
    <2>2. CASE j \in Deleted("release")
        <3>1. Pair(k, j)
            BY <1>11, <1>13, <2>2 DEF Pairing
        <3>. QED BY <1>2, <1>9, <3>1 DEF Pair
    <2>. QED BY <1>12, <2>1, <2>2
<1>. PICK new : new = partner
    OBVIOUS
<1>19. Pairing(new)'
    BY <1>15, <1>16, <1>17, <1>18 DEF Pairing
<1>. QED BY <1>8, <1>10, <1>19, BalancedBefore DEF RedundantInv

(* The pass establishes what the executions rely on.                       *)
LEMMA PassStep ==
    ASSUME RedundantInv, transformBlock
    PROVE  RedundantInv'
BY RetainScanned, CounterpartScanned, OtherScanned DEF transformBlock

(* The execution changes nothing the pass decided.                         *)
LEMMA ExecutionKeepsPass ==
    ASSUME PassTypeOK, RetainsPairable, NEW partner, Pairing(partner),
           UNCHANGED passVars, UNCHANGED objectOf
    PROVE  /\ PassTypeOK' /\ RetainsPairable' /\ Pairing(partner)'
           /\ \A o, n : Open(partner, o, n)' = Open(partner, o, n)
<1>1. UNCHANGED <<block, scanned, retains, deleted>>
    BY DEF passVars
<1>2. \A c : Clearing(c)' <=> Clearing(c)
    BY <1>1 DEF Clearing
<1>3. \A op : Deleted(op)' = Deleted(op)
    BY <1>1 DEF Deleted
<1>4. PassTypeOK'
    BY <1>1 DEF PassTypeOK
<1>5. RetainsPairable'
    <2>1. \A v, i : Pairable(v, i)' <=> Pairable(v, i)
        BY <1>1, <1>2 DEF Pairable
    <2>2. \A v : Noted(v)' = Noted(v)
        BY <1>1 DEF Noted
    <2>. QED BY <1>1, <2>1, <2>2 DEF RetainsPairable
<1>6. Pairing(partner)'
    <2>1. \A i, j : Pair(i, j)' <=> Pair(i, j)
        BY <1>1, <1>2 DEF Pair
    <2>. QED BY <1>3, <2>1 DEF Pairing
<1>7. \A o, n : Open(partner, o, n)' = Open(partner, o, n)
    BY <1>1, <1>3 DEF Open
<1>. QED BY <1>4, <1>5, <1>6, <1>7

(* Both parts of a pair are instructions that were deleted.                *)
LEMMA PairedDeleted ==
    ASSUME PassTypeOK, NEW partner, Pairing(partner), NEW j \in Deleted("release")
    PROVE  /\ j \in deleted /\ j \in 1..scanned /\ j \in Nat /\ block[j].op = "release"
           /\ partner[j] \in deleted /\ partner[j] \in 1..scanned /\ partner[j] \in Nat
           /\ block[partner[j]].op = "retain" /\ Pair(partner[j], j)
<1>1. j \in deleted /\ block[j].op = "release"
    BY DEF Deleted
<1>2. partner[j] \in Deleted("retain") /\ Pair(partner[j], j)
    BY DEF Pairing
<1>3. partner[j] \in deleted /\ block[partner[j]].op = "retain"
    BY <1>2 DEF Deleted
<1>4. \A i \in deleted : i \in 1..scanned /\ i \in Nat
    BY DEF PassTypeOK
<1>. QED BY <1>1, <1>2, <1>3, <1>4

(* The pairs that are open are finitely many.                              *)
LEMMA OpenFinite ==
    ASSUME PassTypeOK, NEW partner, NEW o, NEW n
    PROVE  IsFiniteSet(Open(partner, o, n)) /\ Cardinality(Open(partner, o, n)) \in Nat
<1>1. IsFiniteSet(1..scanned)
    BY FS_Interval DEF PassTypeOK
<1>2. Open(partner, o, n) \subseteq 1..scanned
    BY DEF Open, Deleted, PassTypeOK
<1>. QED BY <1>1, <1>2, FS_Subset, FS_CardinalityType

(* No pair is open when other code runs: a pair does not span it.          *)
LEMMA ClosedAtClearing ==
    ASSUME PassTypeOK, NEW partner, Pairing(partner), NEW o,
           NEW e \in 1..scanned, Clearing(e)
    PROVE  Open(partner, o, e - 1) = {} /\ Open(partner, o, e) = {}
<1>1. ASSUME NEW j \in Deleted("release")
      PROVE  ~(partner[j] <= e /\ e <= j)
    <2>1. j \in deleted /\ partner[j] \in deleted /\ Pair(partner[j], j)
          /\ j \in Nat /\ partner[j] \in Nat
        BY PairedDeleted
    <2>2. j # e /\ partner[j] # e
        BY <2>1 DEF Clearing
    <2>3. ~(partner[j] < e /\ e < j)
        BY <2>1 DEF Pair
    <2>. QED BY <2>1, <2>2, <2>3
<1>2. \A j \in Deleted("release") : j \in Nat /\ partner[j] \in Nat
    BY PairedDeleted
<1>. QED BY <1>1, <1>2 DEF Open

(* An instruction that is no deleted retain or release begins and ends no  *)
(* pair.                                                                   *)
LEMMA OpenKept ==
    ASSUME PassTypeOK, NEW partner, Pairing(partner), NEW o,
           NEW e \in 1..scanned, e \notin deleted
    PROVE  Open(partner, o, e) = Open(partner, o, e - 1)
<1>1. \A j \in Deleted("release") :
          /\ j # e /\ partner[j] # e /\ j \in Nat /\ partner[j] \in Nat
    BY PairedDeleted
<1>2. \A j \in Deleted("release") :
          (partner[j] <= e /\ e < j) <=> (partner[j] <= e - 1 /\ e - 1 < j)
    BY <1>1
<1>. QED BY <1>2 DEF Open

(* A deleted retain begins one pair, of its object.                        *)
LEMMA RetainOpens ==
    ASSUME PassTypeOK, NEW partner, Pairing(partner),
           NEW e \in 1..scanned, e \in deleted, block[e].op = "retain"
    PROVE  \E j : /\ j \notin Open(partner, objectOf[block[e].value], e - 1)
                  /\ Open(partner, objectOf[block[e].value], e) =
                         Open(partner, objectOf[block[e].value], e - 1) \cup {j}
                  /\ \A o : o # objectOf[block[e].value] =>
                         Open(partner, o, e) = Open(partner, o, e - 1)
<1>1. PICK j \in Deleted("release") : partner[j] = e
    BY DEF Pairing, Deleted
<1>2. /\ e < j /\ block[j].value = block[e].value
      /\ \A k \in Deleted("release") : k # j => partner[k] # e
    BY <1>1 DEF Pairing, Pair
<1>3. \A k \in Deleted("release") : k # e /\ k \in Nat /\ partner[k] \in Nat
    BY PairedDeleted
<1>4. \A k \in Deleted("release") :
          (partner[k] <= e /\ e < k) <=> (partner[k] <= e - 1 /\ e - 1 < k) \/ k = j
    BY <1>1, <1>2, <1>3
<1>5. ~(partner[j] <= e - 1)
    BY <1>1
<1>6. j \notin Open(partner, objectOf[block[e].value], e - 1)
    BY <1>5 DEF Open
<1>7. Open(partner, objectOf[block[e].value], e) =
          Open(partner, objectOf[block[e].value], e - 1) \cup {j}
    BY <1>2, <1>4 DEF Open
<1>8. ASSUME NEW o, o # objectOf[block[e].value]
      PROVE  Open(partner, o, e) = Open(partner, o, e - 1)
    BY <1>2, <1>4, <1>8 DEF Open
<1>. QED BY <1>6, <1>7, <1>8

(* A deleted release ends one pair, of its object.                         *)
LEMMA ReleaseCloses ==
    ASSUME PassTypeOK, NEW partner, Pairing(partner),
           NEW e \in 1..scanned, e \in deleted, block[e].op = "release"
    PROVE  /\ e \in Open(partner, objectOf[block[e].value], e - 1)
           /\ Open(partner, objectOf[block[e].value], e) =
                  Open(partner, objectOf[block[e].value], e - 1) \ {e}
           /\ \A o : o # objectOf[block[e].value] =>
                  Open(partner, o, e) = Open(partner, o, e - 1)
<1>1. e \in Deleted("release") /\ partner[e] \in Nat /\ partner[e] < e
    <2>1. e \in Deleted("release")
        BY DEF Deleted
    <2>. QED BY <2>1, PairedDeleted DEF Pair
<1>2. \A k \in Deleted("release") : partner[k] # e /\ k \in Nat /\ partner[k] \in Nat
    BY PairedDeleted
<1>3. \A k \in Deleted("release") :
          (partner[k] <= e /\ e < k) <=> (partner[k] <= e - 1 /\ e - 1 < k) /\ k # e
    BY <1>1, <1>2
<1>4. e \in Open(partner, objectOf[block[e].value], e - 1)
    BY <1>1 DEF Open
<1>5. Open(partner, objectOf[block[e].value], e) =
          Open(partner, objectOf[block[e].value], e - 1) \ {e}
    BY <1>3 DEF Open
<1>6. ASSUME NEW o, o # objectOf[block[e].value]
      PROVE  Open(partner, o, e) = Open(partner, o, e - 1)
    BY <1>1, <1>3, <1>6 DEF Open
<1>. QED BY <1>4, <1>5, <1>6

(* What a step of the executions does to the references must agree with    *)
(* what it does to the pairs.                                              *)
LEMMA ExecutionStep ==
    ASSUME RedundantInv, NEW op, Executing(op),
           NEW partner, Pairing(partner), Balanced(partner),
           owned' \in [Objects -> Nat], optimized' \in [Objects -> Nat],
           elsewhere' \in [Objects -> Nat], ~differed',
           \A o \in Objects :
               /\ owned'[o] = optimized'[o] + Cardinality(Open(partner, o, executed + 1))
               /\ Open(partner, o, executed + 1) # {} => optimized'[o] + elsewhere'[o] > 0
    PROVE  RedundantInv'
<1>1. /\ executed' = executed + 1 /\ UNCHANGED passVars /\ objectOf' = objectOf
      /\ scanned = Len(block) /\ executed < Len(block)
    BY DEF Executing
<1>2. UNCHANGED <<block, scanned>>
    BY <1>1 DEF passVars
<1>3. /\ PassTypeOK' /\ RetainsPairable' /\ Pairing(partner)'
      /\ \A o, n : Open(partner, o, n)' = Open(partner, o, n)
    BY <1>1, ExecutionKeepsPass DEF RedundantInv
<1>4. ExecutionTypeOK'
    <2>1. executed' \in 0..Len(block')
        BY <1>1, <1>2 DEF RedundantInv, ExecutionTypeOK, PassTypeOK
    <2>. QED BY <1>1, <1>2, <2>1 DEF RedundantInv, ExecutionTypeOK
<1>5. Balanced(partner)'
    <2>. SUFFICES ASSUME NEW o \in Objects
                  PROVE  /\ owned'[o] = optimized'[o] + Cardinality(Open(partner, o, executed)')
                         /\ Open(partner, o, executed)' # {} => optimized'[o] + elsewhere'[o] > 0
        BY DEF Balanced
    <2>1. Open(partner, o, executed)' = Open(partner, o, executed + 1)
        <3>1. PICK n : n = executed + 1
            OBVIOUS
        <3>2. Open(partner, o, executed)' = Open(partner, o, n)'
            BY <1>1, <3>1 DEF Open
        <3>. QED BY <1>3, <3>1, <3>2
    <2>. QED BY <2>1
<1>. QED BY <1>3, <1>4, <1>5 DEF RedundantInv

(* The next instruction, and what is known of it.                          *)
LEMMA ExecutionFacts ==
    ASSUME RedundantInv, NEW op, Executing(op), NEW partner, Pairing(partner), Balanced(partner)
    PROVE  /\ executed + 1 \in 1..scanned /\ (executed + 1) - 1 = executed
           /\ block[executed + 1].op = op
           /\ op # "call" => block[executed + 1].value \in Registers /\ Operand \in Objects
           /\ \A o \in Objects :
                  /\ owned[o] \in Nat /\ optimized[o] \in Nat /\ elsewhere[o] \in Nat
                  /\ IsFiniteSet(Open(partner, o, executed))
                  /\ Cardinality(Open(partner, o, executed)) \in Nat
                  /\ (Open(partner, o, executed) = {}) <=> (owned[o] = optimized[o])
                  /\ owned[o] = optimized[o] + Cardinality(Open(partner, o, executed))
                  /\ Open(partner, o, executed) # {} => optimized[o] + elsewhere[o] > 0
<1>1. /\ executed + 1 \in 1..scanned /\ (executed + 1) - 1 = executed
      /\ executed + 1 \in 1..Len(block) /\ block[executed + 1].op = op
    BY DEF RedundantInv, PassTypeOK, ExecutionTypeOK, Executing
<1>2. op # "call" => block[executed + 1].value \in Registers /\ Operand \in Objects
    BY <1>1, InstructionTypes DEF RedundantInv, ExecutionTypeOK, Operand
<1>3. ASSUME NEW o \in Objects
      PROVE  /\ owned[o] \in Nat /\ optimized[o] \in Nat /\ elsewhere[o] \in Nat
             /\ IsFiniteSet(Open(partner, o, executed))
             /\ Cardinality(Open(partner, o, executed)) \in Nat
             /\ (Open(partner, o, executed) = {}) <=> (owned[o] = optimized[o])
             /\ owned[o] = optimized[o] + Cardinality(Open(partner, o, executed))
             /\ Open(partner, o, executed) # {} => optimized[o] + elsewhere[o] > 0
    <2>1. owned[o] \in Nat /\ optimized[o] \in Nat /\ elsewhere[o] \in Nat
        BY DEF RedundantInv, ExecutionTypeOK
    <2>2. /\ owned[o] = optimized[o] + Cardinality(Open(partner, o, executed))
          /\ Open(partner, o, executed) # {} => optimized[o] + elsewhere[o] > 0
        BY DEF Balanced
    <2>3. IsFiniteSet(Open(partner, o, executed)) /\ Cardinality(Open(partner, o, executed)) \in Nat
        BY OpenFinite DEF RedundantInv
    <2>4. Open(partner, o, executed) = {} <=> Cardinality(Open(partner, o, executed)) = 0
        BY <2>3, FS_EmptySet
    <2>5. Cardinality(Open(partner, o, executed)) = 0 <=> owned[o] = optimized[o]
        BY <2>1, <2>2, <2>3
    <2>. QED BY <2>1, <2>2, <2>3, <2>4, <2>5
<1>. QED BY <1>1, <1>2, <1>3

(* A retain that was deleted opens a pair of an object that exists.        *)
LEMMA RetainExecuted ==
    ASSUME RedundantInv, Retain
    PROVE  RedundantInv'
<1>1. PICK partner : Pairing(partner) /\ Balanced(partner)
    BY DEF RedundantInv
<1>2. Executing("retain") /\ UNCHANGED <<elsewhere, differed>>
    BY DEF Retain
<1>. PICK e \in 1..scanned : e = executed + 1
    BY <1>1, <1>2, ExecutionFacts
<1>. PICK x \in Objects : x = objectOf[block[e].value]
    BY <1>1, <1>2, ExecutionFacts DEF Operand
<1>3. /\ owned' = [owned EXCEPT ![x] = @ + 1] /\ owned[x] + elsewhere[x] > 0
      /\ optimized' = IF e \notin deleted THEN [optimized EXCEPT ![x] = @ + 1] ELSE optimized
    BY DEF Retain, Operand, Exists, Kept
<1>4. /\ owned \in [Objects -> Nat] /\ optimized \in [Objects -> Nat]
      /\ elsewhere' \in [Objects -> Nat] /\ ~differed'
    BY <1>2 DEF RedundantInv, ExecutionTypeOK
<1>5. owned' \in [Objects -> Nat] /\ optimized' \in [Objects -> Nat]
    BY <1>3, <1>4
<1>6. PassTypeOK /\ block[e].op = "retain" /\ executed = e - 1
    BY <1>1, <1>2, ExecutionFacts DEF RedundantInv
<1>7. ASSUME NEW o \in Objects
      PROVE  /\ owned'[o] = optimized'[o] + Cardinality(Open(partner, o, e))
             /\ Open(partner, o, e) # {} => optimized'[o] + elsewhere'[o] > 0
    <2>1. /\ owned[o] \in Nat /\ optimized[o] \in Nat /\ elsewhere[o] \in Nat
          /\ IsFiniteSet(Open(partner, o, executed))
          /\ Cardinality(Open(partner, o, executed)) \in Nat
          /\ (Open(partner, o, executed) = {}) <=> (owned[o] = optimized[o])
          /\ owned[o] = optimized[o] + Cardinality(Open(partner, o, executed))
          /\ Open(partner, o, executed) # {} => optimized[o] + elsewhere[o] > 0
        BY <1>1, <1>2, ExecutionFacts
    <2>2. CASE e \notin deleted
        <3>1. Open(partner, o, e) = Open(partner, o, executed)
            BY <1>1, <1>6, <2>2, OpenKept
        <3>2. CASE o = x
            <4>1. owned'[o] = owned[o] + 1 /\ optimized'[o] = optimized[o] + 1
                BY <1>3, <1>4, <2>2, <3>2
            <4>. QED BY <1>2, <2>1, <3>1, <4>1
        <3>3. CASE o # x
            <4>1. owned'[o] = owned[o] /\ optimized'[o] = optimized[o]
                BY <1>3, <1>4, <2>2, <3>3
            <4>. QED BY <1>2, <2>1, <3>1, <4>1
        <3>. QED BY <3>2, <3>3
    <2>3. CASE e \in deleted
        <3>1. \E j : /\ j \notin Open(partner, x, executed)
                     /\ Open(partner, x, e) = Open(partner, x, executed) \cup {j}
                     /\ \A y : y # x => Open(partner, y, e) = Open(partner, y, executed)
            BY <1>1, <1>6, <2>3, RetainOpens
        <3>2. optimized' = optimized
            BY <1>3, <2>3
        <3>3. CASE o = x
            <4>1. owned'[o] = owned[o] + 1
                BY <1>3, <1>4, <3>3
            <4>2. Cardinality(Open(partner, o, e)) = Cardinality(Open(partner, o, executed)) + 1
                <5>1. PICK S : S = Open(partner, o, executed)
                    OBVIOUS
                <5>2. PICK j : j \notin S /\ Open(partner, o, e) = S \cup {j}
                    BY <3>1, <3>3, <5>1
                <5>3. Cardinality(S \cup {j}) = Cardinality(S) + 1
                    BY <2>1, <5>1, <5>2, FS_AddElement
                <5>. QED BY <5>1, <5>2, <5>3
            <4>3. optimized[o] + elsewhere[o] > 0
                BY <1>3, <2>1, <3>3
            <4>. QED BY <1>2, <2>1, <3>2, <4>1, <4>2, <4>3
        <3>4. CASE o # x
            <4>1. owned'[o] = owned[o] /\ Open(partner, o, e) = Open(partner, o, executed)
                BY <1>3, <1>4, <3>1, <3>4
            <4>. QED BY <1>2, <2>1, <3>2, <4>1
        <3>. QED BY <3>3, <3>4
    <2>. QED BY <2>2, <2>3
<1>. QED BY <1>1, <1>2, <1>4, <1>5, <1>7, ExecutionStep

(* Other code gives up references that exist.                              *)
LEMMA OtherCodeTypes ==
    ASSUME ExecutionTypeOK, OtherCode
    PROVE  elsewhere' \in [Objects -> Nat]
<1>1. CASE UNCHANGED elsewhere
    BY <1>1 DEF ExecutionTypeOK
<1>2. CASE \E o \in Objects : elsewhere[o] > 0 /\ elsewhere' = [elsewhere EXCEPT ![o] = @ - 1]
    <2>1. PICK o \in Objects : elsewhere[o] > 0 /\ elsewhere' = [elsewhere EXCEPT ![o] = @ - 1]
        BY <1>2
    <2>2. elsewhere \in [Objects -> Nat] /\ elsewhere[o] - 1 \in Nat
        BY <2>1 DEF ExecutionTypeOK
    <2>. QED BY <2>1, <2>2
<1>. QED BY <1>1, <1>2 DEF OtherCode

(* When other code runs the executions agree, and no pair is open after.   *)
LEMMA AgreeAtClearing ==
    ASSUME RedundantInv, NEW op, Executing(op), NEW partner, Pairing(partner), Balanced(partner),
           Clearing(executed + 1)
    PROVE  owned = optimized /\ \A o \in Objects : Open(partner, o, executed + 1) = {}
<1>. PICK e \in 1..scanned : e = executed + 1 /\ e - 1 = executed
    BY ExecutionFacts
<1>1. \A o \in Objects : Open(partner, o, e - 1) = {} /\ Open(partner, o, e) = {}
    BY ClosedAtClearing DEF RedundantInv
<1>2. \A o \in Objects : owned[o] = optimized[o]
    BY <1>1, ExecutionFacts
<1>3. owned = optimized
    BY <1>2 DEF RedundantInv, ExecutionTypeOK
<1>. QED BY <1>1, <1>3

(* Executions that agree after a step and have no open pair are balanced.  *)
LEMMA AgreeAfter ==
    ASSUME RedundantInv, NEW op, Executing(op), NEW partner, Pairing(partner), Balanced(partner),
           owned' \in [Objects -> Nat], optimized' = owned',
           elsewhere' \in [Objects -> Nat], ~differed',
           \A o \in Objects : Open(partner, o, executed + 1) = {}
    PROVE  RedundantInv'
<1>1. Cardinality({}) = 0
    BY FS_EmptySet
<1>2. \A o \in Objects : owned'[o] \in Nat
    OBVIOUS
<1>3. ASSUME NEW o \in Objects
      PROVE  /\ owned'[o] = optimized'[o] + Cardinality(Open(partner, o, executed + 1))
             /\ Open(partner, o, executed + 1) # {} => optimized'[o] + elsewhere'[o] > 0
    <2>1. Open(partner, o, executed + 1) = {}
        OBVIOUS
    <2>2. Cardinality(Open(partner, o, executed + 1)) = 0
        BY <1>1, <2>1
    <2>. QED BY <1>2, <2>1, <2>2
<1>. QED BY <1>3, ExecutionStep

(* A release that was deleted ends a pair: another reference is left.      *)
LEMMA ReleaseExecuted ==
    ASSUME RedundantInv, Release
    PROVE  RedundantInv'
<1>1. PICK partner : Pairing(partner) /\ Balanced(partner)
    BY DEF RedundantInv
<1>2. Executing("release")
    BY DEF Release
<1>. PICK e \in 1..scanned : e = executed + 1
    BY <1>1, <1>2, ExecutionFacts
<1>. PICK x \in Objects : x = objectOf[block[e].value]
    BY <1>1, <1>2, ExecutionFacts DEF Operand
<1>3. /\ owned' = [owned EXCEPT ![x] = @ - 1] /\ owned[x] > 0
      /\ optimized' = IF e \notin deleted THEN [optimized EXCEPT ![x] = @ - 1] ELSE optimized
      /\ IF owned'[x] + elsewhere[x] = 0
         THEN OtherCode /\ differed' = (differed \/ owned' # optimized')
         ELSE UNCHANGED elsewhere
              /\ differed' = (differed \/ Gone(owned', elsewhere) # Gone(optimized', elsewhere))
    BY DEF Release, Operand, Kept
<1>4. /\ owned \in [Objects -> Nat] /\ optimized \in [Objects -> Nat]
      /\ elsewhere \in [Objects -> Nat] /\ ~differed
    BY DEF RedundantInv, ExecutionTypeOK
<1>5. owned' \in [Objects -> Nat]
    <2>1. owned[x] - 1 \in Nat
        BY <1>3, <1>4
    <2>. QED BY <1>3, <1>4, <2>1
<1>6. PassTypeOK /\ block[e].op = "release" /\ executed = e - 1
    BY <1>1, <1>2, ExecutionFacts DEF RedundantInv
<1>7. elsewhere' \in [Objects -> Nat]
    BY <1>3, <1>4, OtherCodeTypes DEF RedundantInv
<1>8. CASE e \notin deleted
    <2>1. owned = optimized /\ \A o \in Objects : Open(partner, o, executed + 1) = {}
        BY <1>1, <1>2, <1>6, <1>8, AgreeAtClearing DEF Clearing
    <2>2. optimized' = owned'
        BY <1>3, <1>8, <2>1
    <2>3. ~differed'
        BY <1>3, <1>4, <2>2
    <2>. QED BY <1>1, <1>2, <1>5, <1>7, <2>1, <2>2, <2>3, AgreeAfter
<1>9. CASE e \in deleted
    <2>1. /\ e \in Open(partner, x, executed)
          /\ Open(partner, x, e) = Open(partner, x, executed) \ {e}
          /\ \A o : o # x => Open(partner, o, e) = Open(partner, o, executed)
        BY <1>1, <1>6, <1>9, ReleaseCloses
    <2>2. optimized' = optimized
        BY <1>3, <1>9
    <2>3. ASSUME NEW o \in Objects
          PROVE  /\ owned'[o] = optimized[o] + Cardinality(Open(partner, o, e))
                 /\ Open(partner, o, e) # {} => optimized[o] + elsewhere[o] > 0
                 /\ o = x => optimized[o] + elsewhere[o] > 0
                 /\ owned'[o] \in Nat /\ optimized[o] \in Nat /\ elsewhere[o] \in Nat
                 /\ Cardinality(Open(partner, o, e)) \in Nat
        <3>1. /\ owned[o] \in Nat /\ optimized[o] \in Nat /\ elsewhere[o] \in Nat
              /\ IsFiniteSet(Open(partner, o, executed))
              /\ Cardinality(Open(partner, o, executed)) \in Nat
              /\ owned[o] = optimized[o] + Cardinality(Open(partner, o, executed))
              /\ Open(partner, o, executed) # {} => optimized[o] + elsewhere[o] > 0
            BY <1>1, <1>2, ExecutionFacts
        <3>2. CASE o = x
            <4>1. owned'[o] = owned[o] - 1
                BY <1>3, <1>4, <3>2
            <4>2. Cardinality(Open(partner, o, e)) = Cardinality(Open(partner, o, executed)) - 1
                <5>1. PICK S : S = Open(partner, o, executed)
                    OBVIOUS
                <5>2. e \in S /\ Open(partner, o, e) = S \ {e}
                    BY <2>1, <3>2, <5>1
                <5>3. Cardinality(S \ {e}) = Cardinality(S) - 1
                    BY <3>1, <5>1, <5>2, FS_RemoveElement
                <5>. QED BY <5>1, <5>2, <5>3
            <4>3. optimized[o] + elsewhere[o] > 0
                BY <2>1, <3>1, <3>2
            <4>4. Cardinality(Open(partner, o, e)) \in Nat
                BY <1>6, OpenFinite
            <4>. QED BY <1>5, <3>1, <4>1, <4>2, <4>3, <4>4
        <3>3. CASE o # x
            <4>1. owned'[o] = owned[o]
                BY <1>3, <1>4, <3>3
            <4>2. Open(partner, o, e) = Open(partner, o, executed)
                BY <2>1, <3>3
            <4>. QED BY <3>1, <3>3, <4>1, <4>2
        <3>. QED BY <3>2, <3>3
    <2>4. owned'[x] + elsewhere[x] # 0
        BY <2>3
    <2>5. ASSUME NEW o \in Objects
          PROVE  owned'[o] + elsewhere[o] = 0 <=> optimized[o] + elsewhere[o] = 0
        <3>1. CASE Open(partner, o, e) = {}
            <4>1. Cardinality(Open(partner, o, e)) = 0
                BY <3>1, FS_EmptySet
            <4>2. owned'[o] = optimized[o]
                <5>1. owned'[o] = optimized[o] + Cardinality(Open(partner, o, e))
                    BY <2>3
                <5>. QED BY <2>3, <4>1, <5>1
            <4>. QED BY <4>2
        <3>2. CASE Open(partner, o, e) # {}
            <4>1. optimized[o] + elsewhere[o] > 0
                BY <2>3, <3>2
            <4>2. owned'[o] = optimized[o] + Cardinality(Open(partner, o, e))
                BY <2>3
            <4>3. /\ owned'[o] \in Nat /\ optimized[o] \in Nat /\ elsewhere[o] \in Nat
                  /\ Cardinality(Open(partner, o, e)) \in Nat
                BY <2>3
            <4>. QED BY <4>1, <4>2, <4>3
        <3>. QED BY <3>1, <3>2
    <2>6. Gone(owned', elsewhere) = Gone(optimized', elsewhere)
        BY <2>2, <2>5 DEF Gone
    <2>7. UNCHANGED elsewhere /\ ~differed'
        BY <1>3, <1>4, <2>4, <2>6
    <2>8. optimized' \in [Objects -> Nat]
        BY <1>4, <2>2
    <2>. QED BY <1>1, <1>2, <1>5, <1>7, <2>2, <2>3, <2>7, <2>8, ExecutionStep
<1>. QED BY <1>8, <1>9

(* An object that is used is there: a pair that is open leaves a reference.*)
LEMMA UseExecuted ==
    ASSUME RedundantInv, Use
    PROVE  RedundantInv'
<1>1. PICK partner : Pairing(partner) /\ Balanced(partner)
    BY DEF RedundantInv
<1>2. Executing("use") /\ UNCHANGED <<owned, optimized, elsewhere>>
    BY DEF Use
<1>. PICK e \in 1..scanned : e = executed + 1
    BY <1>1, <1>2, ExecutionFacts
<1>3. PassTypeOK /\ block[e].op = "use" /\ executed = e - 1 /\ Operand \in Objects
    BY <1>1, <1>2, ExecutionFacts DEF RedundantInv
<1>4. e \notin deleted
    BY <1>3 DEF PassTypeOK
<1>5. owned[Operand] + elsewhere[Operand] > 0
    BY DEF Use, Exists
<1>6. optimized[Operand] + elsewhere[Operand] > 0
    BY <1>1, <1>2, <1>3, <1>5, ExecutionFacts
<1>7. ~differed'
    BY <1>6 DEF Use, Exists, RedundantInv
<1>8. /\ owned' \in [Objects -> Nat] /\ optimized' \in [Objects -> Nat]
      /\ elsewhere' \in [Objects -> Nat]
    BY <1>2 DEF RedundantInv, ExecutionTypeOK
<1>9. ASSUME NEW o \in Objects
      PROVE  /\ owned'[o] = optimized'[o] + Cardinality(Open(partner, o, e))
             /\ Open(partner, o, e) # {} => optimized'[o] + elsewhere'[o] > 0
    <2>1. Open(partner, o, e) = Open(partner, o, executed)
        BY <1>1, <1>3, <1>4, OpenKept
    <2>. QED BY <1>1, <1>2, <2>1, ExecutionFacts
<1>. QED BY <1>1, <1>2, <1>7, <1>8, <1>9, ExecutionStep

(* A call finds as many references in both executions.                     *)
LEMMA CallExecuted ==
    ASSUME RedundantInv, Call
    PROVE  RedundantInv'
<1>1. PICK partner : Pairing(partner) /\ Balanced(partner)
    BY DEF RedundantInv
<1>2. /\ Executing("call") /\ UNCHANGED <<owned, optimized>>
      /\ OtherCode /\ differed' = (differed \/ owned # optimized)
    BY DEF Call
<1>3. executed + 1 \in 1..scanned /\ block[executed + 1].op = "call"
    BY <1>1, <1>2, ExecutionFacts
<1>4. Clearing(executed + 1)
    <2>1. \A i \in deleted : block[i].op \in {"retain", "release"}
        BY DEF RedundantInv, PassTypeOK
    <2>. QED BY <1>3, <2>1 DEF Clearing
<1>5. owned = optimized /\ \A o \in Objects : Open(partner, o, executed + 1) = {}
    BY <1>1, <1>2, <1>4, AgreeAtClearing
<1>6. ~differed' /\ optimized' = owned'
    BY <1>2, <1>5 DEF RedundantInv
<1>7. owned' \in [Objects -> Nat] /\ elsewhere' \in [Objects -> Nat]
    BY <1>2, OtherCodeTypes DEF RedundantInv, ExecutionTypeOK
<1>. QED BY <1>1, <1>2, <1>5, <1>6, <1>7, AgreeAfter

(* Nothing changes if nothing happens.                                     *)
LEMMA RedundantStutters ==
    ASSUME RedundantInv, UNCHANGED redundantVars
    PROVE  RedundantInv'
<1>1. UNCHANGED passVars /\ UNCHANGED executionVars
    BY DEF redundantVars
<1>2. /\ UNCHANGED <<block, scanned>>
      /\ UNCHANGED <<objectOf, executed, owned, optimized, elsewhere, differed>>
    BY <1>1 DEF passVars, executionVars
<1>3. PICK partner : Pairing(partner) /\ Balanced(partner)
    BY DEF RedundantInv
<1>4. /\ PassTypeOK' /\ RetainsPairable' /\ Pairing(partner)'
      /\ \A o, n : Open(partner, o, n)' = Open(partner, o, n)
    BY <1>1, <1>2, <1>3, ExecutionKeepsPass DEF RedundantInv
<1>5. ExecutionTypeOK' /\ ~differed'
    BY <1>2 DEF RedundantInv, ExecutionTypeOK
<1>6. Balanced(partner)'
    <2>1. ASSUME NEW o
          PROVE  Open(partner, o, executed)' = Open(partner, o, executed)
        <3>1. PICK n : n = executed
            OBVIOUS
        <3>2. Open(partner, o, executed)' = Open(partner, o, n)'
            BY <1>2, <3>1 DEF Open
        <3>. QED BY <1>4, <3>1, <3>2
    <2>. QED BY <1>2, <1>3, <2>1 DEF Balanced
<1>. QED BY <1>4, <1>5, <1>6 DEF RedundantInv

(* What the pass deletes are pairs, and the executions differ by the pairs *)
(* that are open, each of which leaves another reference.                  *)
THEOREM RedundantInvariant == RedundantSpec => []RedundantInv
<1>1. RedundantInv /\ [RedundantNext]_redundantVars => RedundantInv'
    BY PassStep, RetainExecuted, ReleaseExecuted, UseExecuted, CallExecuted, RedundantStutters
    DEF RedundantNext
<1>. QED BY <1>1, RedundantStarts, PTL DEF RedundantSpec

(* A block does what it did before RedundantReferenceCountingPass, for any *)
(* block, any values, also if several are the same object, and whatever    *)
(* references other code gives up.                                         *)
THEOREM RemovalIsUnobservable == RedundantSpec => []RemovalUnobservable
<1>1. RedundantInv => RemovalUnobservable
    <2>. SUFFICES ASSUME RedundantInv PROVE RemovalUnobservable
        OBVIOUS
    <2>1. PICK partner : Pairing(partner) /\ Balanced(partner)
        BY DEF RedundantInv
    <2>2. ASSUME executed = Len(block), NEW o \in Objects
          PROVE  owned[o] = optimized[o]
        <3>1. \A j \in Deleted("release") : j \in 1..scanned /\ partner[j] \in Nat
            BY <2>1, PairedDeleted DEF RedundantInv
        <3>2. Open(partner, o, executed) = {}
            BY <2>2, <3>1 DEF Open, RedundantInv, PassTypeOK
        <3>3. Cardinality(Open(partner, o, executed)) = 0
            BY <3>2, FS_EmptySet
        <3>4. optimized[o] \in Nat /\ owned[o] = optimized[o] + Cardinality(Open(partner, o, executed))
            BY <2>1 DEF Balanced, RedundantInv, ExecutionTypeOK
        <3>. QED BY <3>3, <3>4
    <2>3. executed = Len(block) => owned = optimized
        BY <2>2 DEF RedundantInv, ExecutionTypeOK
    <2>. QED BY <2>3 DEF RedundantInv, RemovalUnobservable
<1>. QED BY <1>1, RedundantInvariant, PTL
=============================================================================
