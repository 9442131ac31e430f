-------------------- MODULE InitializerCompilationProofs --------------------
(***************************************************************************)
(* Proofs about InitializerCompilation, for bodies of any length and       *)
(* nesting, with any variables: whatever the analyser says has certainly   *)
(* occurred has occurred on every path of the generated code, so that only *)
(* variables that have a value are released, instances are only returned   *)
(* with all their variables set, and no path runs past the code.           *)
(***************************************************************************)
EXTENDS InitializerCompilation, SequenceTheorems, TLAPS

AnyLocal == {VariableInit(id) : id \in Nat}
Anything == AnyLocal \cup Instance \cup {Returned, CalledSuperInitializer}
Ended    == [certain : SUBSET Anything, potential : SUBSET Anything]
Branches == [certain : SUBSET Anything, potential : SUBSET Anything, branches : SUBSET Ended]
BlockType == [kind : {"function", "then", "else", "value", "error", "loop"}, alive : BOOLEAN, start : Nat,
              exits : SUBSET Nat, first : Nat, next : Nat]
Instructions == [op : {"set", "super", "superOrRaise", "return", "raise", "never", "branch", "leave", "jump"},
                 incidents : SUBSET (Anything \ {Returned}), releases : SUBSET Anything, target : Nat,
                 certain : SUBSET (Anything \ {Returned})]

(***************************************************************************)
(* The code as a graph                                                     *)
(***************************************************************************)

\* Where execution continues, and what has occurred then.
Falls(i) == i.op \in {"set", "super", "superOrRaise", "branch", "leave"}
Jumps(i) == i.op \in {"branch", "jump"}
After(i) == IF i.op = "leave" THEN i.certain \ i.releases
            ELSE IF Jumps(i) THEN i.certain ELSE i.certain \cup i.incidents

\* What has occurred at a place of the code c, the next one included, where facts have.
Fact(c, facts, n) == IF n = Len(c) + 1 THEN facts ELSE c[n].certain

\* What an instruction needs: it releases only what was set.
Sound(i) ==
    /\ i.op = "leave" => i.releases \subseteq i.certain
    /\ i.op \in {"raise", "superOrRaise"} => i.releases \cap Own \subseteq i.certain
    /\ i.op = "return" => Own \cup {CalledSuperInitializer} \subseteq i.certain

\* However a place is reached, what is certain there has occurred.  The targets of open
\* instructions are not known yet.
Consistent(c, facts, open) ==
    /\ \A n \in 1..Len(c) :
           /\ Sound(c[n])
           /\ Falls(c[n]) => Fact(c, facts, n + 1) \subseteq After(c[n])
           /\ Jumps(c[n]) /\ n \notin open => /\ c[n].target \in 1..(Len(c) + 1)
                                              /\ Fact(c, facts, c[n].target) \subseteq After(c[n])
    /\ Fact(c, facts, 1) = {}

(***************************************************************************)
(* The analysis                                                            *)
(***************************************************************************)

\* What has certainly occurred according to the first branches.
Outer(p, n) == UNION {p[m].certain : m \in 1..n}
Facts(p) == Outer(p, Len(p))

Open(bs) == UNION {{bs[n].start} \cup bs[n].exits : n \in 1..Len(bs)}

Types(c, p, bs, known) ==
    /\ p \in Seq(Branches) /\ bs \in Seq(BlockType) /\ known \subseteq AnyLocal
    /\ Len(p) = Len(bs) /\ Len(bs) > 0
    /\ c \in Seq(Instructions)

\* The instructions that lead past the n-th block or behind its structure, from where its branch
\* began (what outer knows) and where the branches before it ended.
Led(c, block, n, outer, ended) ==
    /\ block.kind = "function" <=> n = 1
    /\ block.kind \in {"function", "else", "error"} => block.start = 0
    /\ n = 1 => block.exits = {}
    /\ block.alive <=> Returned \notin outer
    /\ block.kind = "loop" /\ block.alive => block.start # 0
    /\ block.start # 0 => /\ block.start \in 1..Len(c)
                          /\ c[block.start].op = "branch" /\ c[block.start].certain = outer
    /\ \A e \in block.exits :
           /\ e \in 1..Len(c) /\ c[e].op = "jump"
           /\ \E b \in ended : Returned \notin b.certain /\ outer \cup b.certain \subseteq c[e].certain

Pending(c, p, bs) == \A n \in 1..Len(bs) : Led(c, bs[n], n, Outer(p, n - 1), p[n - 1].branches)

\* The local variables that branches know are those of their blocks and of the blocks around
\* them; the scopes of ended branches were left.
Below(incidents, id) == \A v \in incidents : \A i \in Nat : v = VariableInit(i) => i < id

Confined(branch, block) ==
    /\ block.first <= block.next
    /\ block.kind \in {"value", "error"} => block.first < block.next
    /\ Below(branch.certain \cup branch.potential, block.next)
    /\ \A b \in branch.branches : Below(b.certain \cup b.potential, block.next)

Scoped(p, bs) ==
    /\ \A n \in 1..Len(bs) : Confined(p[n], bs[n])
    /\ \A m, n \in 1..Len(bs) : m < n => bs[m].next <= bs[n].first
    /\ \A n \in 1..Len(bs) : n # 1 => bs[n].first = bs[n - 1].next

\* A local variable of the memory flow analysis was set on some path.
Remembered(p, known) ==
    \A v \in known : \E n \in 1..Len(p) : v \in p[n].potential \cup PotentialIncidents(p[n].branches)

Nested(c, p, bs, known) ==
    Types(c, p, bs, known) /\ Pending(c, p, bs) /\ Scoped(p, bs) /\ Remembered(p, known)

Analysed(c, p, bs, known) ==
    /\ Nested(c, p, bs, known)
    /\ Consistent(c, Facts(p), Open(bs))
    /\ p[Len(p)].branches = {}

AnalyseInv == Analysed(code, paths, blocks, memory) /\ pc = 1 /\ happened = {}

\* Execution never gets to the end, and what is certain at its place has occurred.
RunInv ==
    \E n \in Nat :
        /\ Len(code) = n + 1 /\ pc \in 1..n
        /\ \A m \in 1..n :
               /\ code[m].op \in {"set", "super", "superOrRaise", "return", "raise", "never", "branch", "leave", "jump"}
               /\ Sound(code[m])
               /\ Falls(code[m]) => m + 1 \in 1..n /\ code[m + 1].certain \subseteq After(code[m])
               /\ Jumps(code[m]) => code[m].target \in 1..n /\ code[code[m].target].certain \subseteq After(code[m])
        /\ code[pc].certain \subseteq happened

BodyInv == (phase = "analyse" => AnalyseInv) /\ (phase = "run" => RunInv) /\ phase \in {"analyse", "run", "done"}

(***************************************************************************)
(* Branches                                                                *)
(***************************************************************************)

\* A sequence with one more element.
LEMMA AppendFacts ==
    ASSUME NEW S, NEW seq \in Seq(S), NEW e \in S
    PROVE  /\ Len(seq) \in Nat
           /\ Append(seq, e) \in Seq(S)
           /\ Len(Append(seq, e)) = Len(seq) + 1
           /\ \A i \in 1..Len(seq) : Append(seq, e)[i] = seq[i]
           /\ Append(seq, e)[Len(seq) + 1] = e
  OBVIOUS

\* A sequence without its last element.
LEMMA FrontFacts ==
    ASSUME NEW S, NEW seq \in Seq(S), seq # <<>>
    PROVE  LET front == SubSeq(seq, 1, Len(seq) - 1)
           IN  /\ Len(seq) \in Nat \ {0}
               /\ front \in Seq(S)
               /\ Len(front) = Len(seq) - 1
               /\ \A i \in 1..(Len(seq) - 1) : front[i] = seq[i]
<1> DEFINE front == SubSeq(seq, 1, Len(seq) - 1)
<1>1. Len(seq) \in Nat /\ Len(seq) > 0 /\ \A i \in 1..Len(seq) : seq[i] \in S
  BY EmptySeq, LenProperties
<1>2. /\ front \in Seq(S)
      /\ Len(front) = IF 1 <= Len(seq) - 1 THEN Len(seq) - 1 - 1 + 1 ELSE 0
      /\ \A i \in 1..(Len(seq) - 1 - 1 + 1) : front[i] = seq[1 + i - 1]
  <2>1. \A i \in 1..(Len(seq) - 1) : seq[i] \in S
    BY <1>1
  <2>2. Len(seq) - 1 \in Int /\ 1 \in Int
    BY <1>1
  <2>3. QED
    BY <2>1, <2>2, SubSeqProperties
<1>3. \A n, m : n \in Nat /\ n > 0 /\ m = (IF 1 <= n - 1 THEN n - 1 - 1 + 1 ELSE 0) => m = n - 1
  OBVIOUS
<1>4. ASSUME NEW i \in 1..(Len(seq) - 1)
      PROVE  front[i] = seq[i]
  <2>1. i \in 1..(Len(seq) - 1 - 1 + 1) /\ 1 + i - 1 = i
    BY <1>1
  <2>2. QED
    BY <1>2, <2>1
<1>5. Len(front) = Len(seq) - 1
  BY <1>1, <1>2, <1>3
<1>6. Len(seq) \in Nat \ {0}
  BY <1>1
<1>7. QED
  BY <1>2, <1>4, <1>5, <1>6

\* A sequence with another last element.
LEMMA LastReplaced ==
    ASSUME NEW S, NEW seq \in Seq(S), Len(seq) > 0, NEW e \in S
    PROVE  LET n == Len(seq)
               new == [seq EXCEPT ![n] = e]
           IN  /\ n \in Nat \ {0} /\ n \in 1..n
               /\ new \in Seq(S) /\ Len(new) = n
               /\ \A m \in 1..n : m # n => new[m] = seq[m]
               /\ new[n] = e
<1>1. Len(seq) \in Nat \ {0} /\ Len(seq) \in 1..Len(seq)
  BY LenProperties
<1>2. QED
  BY <1>1, ExceptSeq

\* Incidents are recorded in the last branch.
LEMMA RecordFacts ==
    ASSUME NEW p \in Seq(Branches), Len(p) > 0, NEW incidents \in SUBSET Anything
    PROVE  LET n == Len(p)
               q == Record(p, incidents)
           IN  /\ n \in Nat \ {0} /\ n \in 1..n
               /\ q \in Seq(Branches) /\ Len(q) = n
               /\ \A m \in 1..n : m # n => q[m] = p[m]
               /\ q[n].certain = p[n].certain \cup incidents
               /\ q[n].potential = p[n].potential \cup incidents
               /\ q[n].branches = p[n].branches
<1> DEFINE n == Len(p)
           e == [p[n] EXCEPT !.certain = @ \cup incidents, !.potential = @ \cup incidents]
<1>1. n \in Nat \ {0} /\ n \in 1..n /\ p[n] \in Branches
  BY LenProperties, ElementOfSeq
<1>2. /\ e \in Branches /\ e.certain = p[n].certain \cup incidents /\ e.potential = p[n].potential \cup incidents
      /\ e.branches = p[n].branches
  BY <1>1 DEF Branches
<1>3. Record(p, incidents) = [p EXCEPT ![n] = e]
  BY <1>1 DEF Record, Branches
<1> HIDE DEF e
<1>4. QED
  BY <1>1, <1>2, <1>3, LastReplaced

\* Variables are forgotten in the last branch.
LEMMA ForgetFacts ==
    ASSUME NEW p \in Seq(Branches), Len(p) > 0, NEW incidents
    PROVE  LET n == Len(p)
               q == ForgetVariables(p, incidents)
           IN  /\ n \in Nat \ {0} /\ n \in 1..n
               /\ q \in Seq(Branches) /\ Len(q) = n
               /\ \A m \in 1..n : m # n => q[m] = p[m]
               /\ q[n].certain = p[n].certain \ incidents
               /\ q[n].potential = p[n].potential \ incidents
               /\ q[n].branches = p[n].branches
<1> DEFINE n == Len(p)
           e == [p[n] EXCEPT !.certain = @ \ incidents, !.potential = @ \ incidents]
<1>1. n \in Nat \ {0} /\ n \in 1..n /\ p[n] \in Branches
  BY LenProperties, ElementOfSeq
<1>2. /\ e \in Branches /\ e.certain = p[n].certain \ incidents /\ e.potential = p[n].potential \ incidents
      /\ e.branches = p[n].branches
  BY <1>1 DEF Branches
<1>3. ForgetVariables(p, incidents) = [p EXCEPT ![n] = e]
  BY <1>1 DEF ForgetVariables, Branches
<1> HIDE DEF e
<1>4. QED
  BY <1>1, <1>2, <1>3, LastReplaced

\* A branch ends in the one around it.
LEMMA EndBranchFacts ==
    ASSUME NEW p \in Seq(Branches), Len(p) > 1
    PROVE  LET n == Len(p)
               q == EndBranch(p)
           IN  /\ n \in Nat /\ n - 1 \in Nat \ {0} /\ n - 1 \in 1..(n - 1)
               /\ q \in Seq(Branches) /\ Len(q) = n - 1
               /\ \A m \in 1..(n - 1) : /\ q[m].certain = p[m].certain
                                        /\ q[m].potential = p[m].potential
                                        /\ m # n - 1 => q[m] = p[m]
               /\ q[n - 1].branches = p[n - 1].branches \cup
                      {[certain |-> p[n].certain, potential |-> p[n].potential]}
<1> DEFINE n == Len(p)
           b == [certain |-> p[n].certain, potential |-> p[n].potential]
           front == SubSeq(p, 1, n - 1)
           e == [front[n - 1] EXCEPT !.branches = @ \cup {b}]
<1>0. n \in Nat /\ n > 1 /\ p # <<>>
  BY LenProperties, EmptySeq
<1>1. n \in Nat /\ n - 1 \in Nat \ {0} /\ n - 1 \in 1..(n - 1) /\ n - 1 \in 1..n /\ n \in 1..n /\ p # <<>>
  <2>1. \A k \in Nat : k > 1 => k - 1 \in Nat \ {0} /\ k - 1 \in 1..(k - 1) /\ k - 1 \in 1..k /\ k \in 1..k
    OBVIOUS
  <2>2. QED
    BY <1>0, <2>1
<1>2. /\ front \in Seq(Branches) /\ Len(front) = n - 1
      /\ \A i \in 1..(n - 1) : front[i] = p[i]
  BY <1>1, FrontFacts
<1>3. p[n] \in Branches /\ p[n - 1] \in Branches
  BY <1>1, ElementOfSeq
<1>4. b \in Ended
  BY <1>3 DEF Branches, Ended
<1>5. front[n - 1] = p[n - 1]
  BY <1>1, <1>2
<1> HIDE DEF front, b
<1>6. /\ e \in Branches /\ e.certain = p[n - 1].certain /\ e.potential = p[n - 1].potential
      /\ e.branches = p[n - 1].branches \cup {b}
  BY <1>3, <1>4, <1>5 DEF Branches
<1>7. EndBranch(p) = [front EXCEPT ![n - 1] = e]
  BY <1>1, <1>2 DEF EndBranch, front, b
<1> HIDE DEF e
<1>8. /\ EndBranch(p) \in Seq(Branches) /\ Len(EndBranch(p)) = n - 1
      /\ \A m \in 1..(n - 1) : m # n - 1 => EndBranch(p)[m] = p[m]
      /\ EndBranch(p)[n - 1] = e
  <2>1. Len(front) > 0
    BY <1>1, <1>2
  <2>2. QED
    BY <1>1, <1>2, <1>6, <1>7, <2>1, LastReplaced
<1>9. QED
  BY <1>1, <1>6, <1>8 DEF b

(***************************************************************************)
(* Incidents                                                               *)
(***************************************************************************)

\* Incidents of different kinds are different, and so are those of different local variables.
LEMMA IncidentFacts ==
    /\ Returned \notin AnyLocal \cup Instance \cup {CalledSuperInitializer}
    /\ \A v \in Instance \cup {Returned, CalledSuperInitializer} : \A i \in Nat : v # VariableInit(i)
    /\ \A i, j \in Nat : VariableInit(i) = VariableInit(j) => i = j
    /\ Own \cap AnyLocal = {}
<1>1. \A v : <<"Returned">> # <<"InstanceVarInit", v>> /\ <<"CalledSuperInitializer">> # <<"InstanceVarInit", v>>
  OBVIOUS
<1>2. \A i : /\ <<"Returned">> # <<"VariableInit", i>> /\ <<"CalledSuperInitializer">> # <<"VariableInit", i>>
  OBVIOUS
<1>3. \A i, v : <<"VariableInit", i>> # <<"InstanceVarInit", v>>
  OBVIOUS
<1>4. <<"Returned">> # <<"CalledSuperInitializer">>
  OBVIOUS
<1>5. \A i, j : <<"VariableInit", i>> = <<"VariableInit", j>> => i = j
  OBVIOUS
<1>6. QED
  BY <1>1, <1>2, <1>3, <1>4, <1>5
     DEF AnyLocal, Instance, Own, Inherited, Returned, CalledSuperInitializer, VariableInit, InstanceVarInit

(***************************************************************************)
(* The graph of the code                                                   *)
(***************************************************************************)

\* Where something returned before, nothing leads.
LEMMA Unreached ==
    ASSUME NEW c \in Seq(Instructions), NEW facts, NEW open, Consistent(c, facts, open), Returned \in facts
    PROVE  /\ Len(c) \in Nat \ {0}
           /\ \A n \in 1..Len(c) : /\ Falls(c[n]) => n # Len(c)
                                   /\ Jumps(c[n]) /\ n \notin open => c[n].target # Len(c) + 1
<1>1. Len(c) \in Nat
  BY LenProperties
<1>2. \A n \in 1..Len(c) : Returned \notin After(c[n])
  <2> TAKE n \in 1..Len(c)
  <2>1. c[n] \in Instructions
    BY ElementOfSeq
  <2>2. QED
    BY <2>1 DEF Instructions, After
<1>3. Fact(c, facts, Len(c) + 1) = facts
  BY DEF Fact
<1>4. Len(c) # 0
  <2> SUFFICES ASSUME Len(c) = 0
               PROVE  FALSE
    OBVIOUS
  <2>1. Fact(c, facts, 1) = facts
    BY DEF Fact
  <2>2. QED
    BY <2>1 DEF Consistent
<1>5. QED
  BY <1>1, <1>2, <1>3, <1>4 DEF Consistent

\* So anything may be said about it.
LEMMA DeadConsistent ==
    ASSUME NEW c \in Seq(Instructions), NEW facts, NEW open, Consistent(c, facts, open), Returned \in facts, NEW new
    PROVE  Consistent(c, new, open)
<1>1. /\ Len(c) \in Nat \ {0}
      /\ \A n \in 1..Len(c) : /\ Falls(c[n]) => n # Len(c)
                              /\ Jumps(c[n]) /\ n \notin open => c[n].target # Len(c) + 1
  BY Unreached
<1>2. \A n \in 1..Len(c) : Fact(c, new, n) = Fact(c, facts, n)
  BY <1>1 DEF Fact
<1>3. \A n \in 1..Len(c) :
           /\ Sound(c[n])
           /\ Falls(c[n]) => Fact(c, new, n + 1) \subseteq After(c[n])
           /\ Jumps(c[n]) /\ n \notin open => /\ c[n].target \in 1..(Len(c) + 1)
                                              /\ Fact(c, new, c[n].target) \subseteq After(c[n])
  <2> TAKE n \in 1..Len(c)
  <2>1. Sound(c[n])
    BY DEF Consistent
  <2>2. Falls(c[n]) => Fact(c, new, n + 1) \subseteq After(c[n])
    <3>1. Falls(c[n]) => n + 1 \in 1..Len(c)
      BY <1>1
    <3>2. QED
      BY <1>2, <3>1 DEF Consistent
  <2>3. Jumps(c[n]) /\ n \notin open => /\ c[n].target \in 1..(Len(c) + 1)
                                        /\ Fact(c, new, c[n].target) \subseteq After(c[n])
    <3> SUFFICES ASSUME Jumps(c[n]) /\ n \notin open
                 PROVE  /\ c[n].target \in 1..(Len(c) + 1)
                        /\ Fact(c, new, c[n].target) \subseteq After(c[n])
      OBVIOUS
    <3>1. c[n].target \in 1..(Len(c) + 1) /\ Fact(c, facts, c[n].target) \subseteq After(c[n])
      BY DEF Consistent
    <3>2. c[n].target \in 1..Len(c)
      BY <1>1, <3>1
    <3>3. QED
      BY <1>2, <3>1, <3>2
  <2>4. QED
    BY <2>1, <2>2, <2>3
<1>4. Fact(c, new, 1) = {}
  <2>1. 1 \in 1..Len(c)
    BY <1>1
  <2>2. QED
    BY <1>2, <2>1 DEF Consistent
<1>5. QED
  BY <1>3, <1>4 DEF Consistent

\* Less may be said, and more may be open.
LEMMA WeakerConsistent ==
    ASSUME NEW c, Len(c) \in Nat, NEW facts, NEW open, Consistent(c, facts, open), NEW new, new \subseteq facts,
           NEW more, \A n \in 1..Len(c) : n \in open => n \in more
    PROVE  Consistent(c, new, more)
<1>1. \A n : Fact(c, new, n) \subseteq Fact(c, facts, n)
  BY DEF Fact
<1>2. QED
  BY <1>1 DEF Consistent

\* One instruction more.
LEMMA AppendConsistent ==
    ASSUME NEW c \in Seq(Instructions), NEW facts, NEW open, Consistent(c, facts, open),
           NEW i \in Instructions, NEW new, Sound(i), i.certain \subseteq facts,
           Falls(i) => new \subseteq After(i),
           Jumps(i) => \/ Len(c) + 1 \in open
                       \/ i.target \in 1..Len(c) /\ c[i.target].certain \subseteq After(i)
    PROVE  Consistent(Append(c, i), new, open)
<1> DEFINE d == Append(c, i)
           k == Len(c)
<1>1. /\ k \in Nat /\ Len(d) = k + 1 /\ d \in Seq(Instructions)
      /\ \A n \in 1..k : d[n] = c[n]
      /\ d[k + 1] = i
  BY AppendFacts
<1> HIDE DEF d
<1>2. \A n \in 1..(k + 1) : Fact(d, new, n) \subseteq Fact(c, facts, n)
  <2> TAKE n \in 1..(k + 1)
  <2>1. CASE n = k + 1
    <3>1. Fact(d, new, n) = i.certain /\ Fact(c, facts, n) = facts
      BY <1>1, <2>1 DEF Fact
    <3>2. QED
      BY <3>1
  <2>2. CASE n # k + 1
    <3>1. n \in 1..k /\ n # k + 1 /\ n # k + 1 + 1
      BY <1>1, <2>2
    <3>2. Fact(d, new, n) = c[n].certain /\ Fact(c, facts, n) = c[n].certain
      BY <1>1, <3>1 DEF Fact
    <3>3. QED
      BY <3>2
  <2>3. QED
    BY <2>1, <2>2
<1>3. Fact(d, new, 1) = {}
  <2>1. 1 \in 1..(k + 1)
    BY <1>1
  <2>2. QED
    BY <1>2, <2>1 DEF Consistent
<1>4. ASSUME NEW n \in 1..k
      PROVE  /\ Sound(d[n])
             /\ Falls(d[n]) => Fact(d, new, n + 1) \subseteq After(d[n])
             /\ Jumps(d[n]) /\ n \notin open => /\ d[n].target \in 1..(Len(d) + 1)
                                                /\ Fact(d, new, d[n].target) \subseteq After(d[n])
  <2>1. d[n] = c[n] /\ n + 1 \in 1..(k + 1)
    BY <1>1
  <2>2. \A t : t \in 1..(k + 1) => t \in 1..(Len(d) + 1)
    BY <1>1
  <2>3. QED
    BY <1>2, <2>1, <2>2 DEF Consistent
<1>5. /\ Sound(d[k + 1])
      /\ Falls(d[k + 1]) => Fact(d, new, k + 1 + 1) \subseteq After(d[k + 1])
      /\ Jumps(d[k + 1]) /\ k + 1 \notin open => /\ d[k + 1].target \in 1..(Len(d) + 1)
                                                 /\ Fact(d, new, d[k + 1].target) \subseteq After(d[k + 1])
  <2>1. Fact(d, new, k + 1 + 1) = new
    BY <1>1 DEF Fact
  <2>2. \A t \in 1..k : Fact(d, new, t) = c[t].certain /\ t \in 1..(Len(d) + 1)
    BY <1>1 DEF Fact
  <2>3. QED
    BY <1>1, <2>1, <2>2
<1>6. \A n \in 1..Len(d) : n \in 1..k \/ n = k + 1
  BY <1>1
<1>7. QED
  BY <1>3, <1>4, <1>5, <1>6 DEF Consistent, d

\* Open instructions may lead to the end of the code.
MayPatch(c, facts, open, sources, left) ==
    /\ c \in Seq(Instructions) /\ Consistent(c, facts, open)
    /\ \A n \in 1..Len(c) : n \in sources /\ Jumps(c[n]) => facts \subseteq After(c[n])
    /\ \A n \in 1..Len(c) : n \in open => n \in left \/ n \in sources

\* They do.
LEMMA PatchConsistent ==
    ASSUME NEW c, NEW facts, NEW open, NEW sources, NEW left, MayPatch(c, facts, open, sources, left),
           NEW d, d = Patch(c, sources, Len(c) + 1)
    PROVE  /\ d \in Seq(Instructions) /\ Len(d) = Len(c)
           /\ \A n \in 1..Len(c) : d[n].op = c[n].op /\ d[n].certain = c[n].certain
           /\ Consistent(d, facts, left)
<1> USE DEF MayPatch
<1>1. Len(c) \in Nat /\ DOMAIN c = 1..Len(c) /\ \A n \in 1..Len(c) : c[n] \in Instructions
  BY LenProperties, ElementOfSeq
<1>2. ASSUME NEW n \in 1..Len(c)
      PROVE  /\ d[n] \in Instructions
             /\ d[n].op = c[n].op /\ d[n].certain = c[n].certain /\ d[n].incidents = c[n].incidents
             /\ d[n].releases = c[n].releases
             /\ d[n].target = IF n \in sources THEN Len(c) + 1 ELSE c[n].target
  <2>1. d[n] = IF n \in sources THEN [c[n] EXCEPT !.target = Len(c) + 1] ELSE c[n]
    BY <1>1 DEF Patch
  <2>2. c[n] \in Instructions
    BY <1>1
  <2>3. QED
    BY <1>1, <2>1, <2>2 DEF Instructions
<1>3. d \in Seq(Instructions) /\ Len(d) = Len(c)
  <2>1. d = [n \in 1..Len(c) |-> d[n]]
    BY <1>1 DEF Patch
  <2>2. QED
    BY <1>1, <1>2, <2>1, IsASeq
<1>4. \A n : n \in 1..(Len(c) + 1) => Fact(d, facts, n) = Fact(c, facts, n)
  BY <1>1, <1>2, <1>3 DEF Fact
<1>5. Fact(d, facts, 1) = {}
  <2>1. 1 \in 1..(Len(c) + 1)
    BY <1>1
  <2>2. QED
    BY <1>4, <2>1 DEF Consistent
<1>6. ASSUME NEW n \in 1..Len(c)
      PROVE  /\ Sound(d[n])
             /\ Falls(d[n]) => Fact(d, facts, n + 1) \subseteq After(d[n])
             /\ Jumps(d[n]) /\ n \notin left => /\ d[n].target \in 1..(Len(d) + 1)
                                                /\ Fact(d, facts, d[n].target) \subseteq After(d[n])
  <2>1. After(d[n]) = After(c[n]) /\ (Sound(c[n]) => Sound(d[n])) /\ (Falls(d[n]) => Falls(c[n]))
        /\ (Jumps(d[n]) => Jumps(c[n]))
    BY <1>2 DEF After, Sound, Falls, Jumps
  <2>2. n + 1 \in 1..(Len(c) + 1) /\ Len(c) + 1 \in 1..(Len(c) + 1)
    BY <1>1
  <2>3. Fact(c, facts, Len(c) + 1) = facts
    BY DEF Fact
  <2>4. Sound(d[n])
    BY <2>1 DEF Consistent
  <2>5. Falls(d[n]) => Fact(d, facts, n + 1) \subseteq After(d[n])
    BY <1>4, <2>1, <2>2 DEF Consistent
  <2>6. Jumps(d[n]) /\ n \notin left => /\ d[n].target \in 1..(Len(d) + 1)
                                        /\ Fact(d, facts, d[n].target) \subseteq After(d[n])
    <3> SUFFICES ASSUME Jumps(d[n]), n \notin left
                 PROVE  /\ d[n].target \in 1..(Len(d) + 1)
                        /\ Fact(d, facts, d[n].target) \subseteq After(d[n])
      OBVIOUS
    <3>1. CASE n \in sources
      <4>1. d[n].target = Len(c) + 1
        BY <1>2, <3>1
      <4>2. QED
        BY <1>3, <1>4, <2>1, <2>2, <2>3, <3>1, <4>1
    <3>2. CASE n \notin sources
      <4>1. n \notin open /\ d[n].target = c[n].target
        BY <1>2, <3>2
      <4>2. c[n].target \in 1..(Len(c) + 1) /\ Fact(c, facts, c[n].target) \subseteq After(c[n])
        BY <2>1, <4>1 DEF Consistent
      <4>3. QED
        BY <1>3, <1>4, <2>1, <4>1, <4>2
    <3>3. QED
      BY <3>1, <3>2
  <2>7. QED
    BY <2>4, <2>5, <2>6
<1>7. Consistent(d, facts, left)
  BY <1>3, <1>5, <1>6 DEF Consistent
<1>8. QED
  BY <1>2, <1>3, <1>7

(***************************************************************************)
(* What the branches know                                                  *)
(***************************************************************************)

\* The branches up to one know what those before it and it know.
LEMMA OuterFacts ==
    ASSUME NEW p, NEW n \in Nat
    PROVE  /\ Outer(p, n + 1) = Outer(p, n) \cup p[n + 1].certain
           /\ Outer(p, 0) = {}
           /\ \A k \in Nat : k <= n => Outer(p, k) \subseteq Outer(p, n)
           /\ \A q : (\A k \in 1..n : q[k].certain = p[k].certain) => Outer(q, n) = Outer(p, n)
<1>1. \A k : k \in 1..(n + 1) <=> k \in 1..n \/ k = n + 1
  OBVIOUS
<1>2. \A k : k \notin 1..0
  OBVIOUS
<1>3. \A k \in Nat : k <= n => 1..k \subseteq 1..n
  OBVIOUS
<1>4. Outer(p, n + 1) = Outer(p, n) \cup p[n + 1].certain
  BY <1>1 DEF Outer
<1>5. Outer(p, 0) = {}
  BY <1>2 DEF Outer
<1>6. \A k \in Nat : k <= n => Outer(p, k) \subseteq Outer(p, n)
  BY <1>3 DEF Outer
<1>7. \A q : (\A k \in 1..n : q[k].certain = p[k].certain) => Outer(q, n) = Outer(p, n)
  BY DEF Outer
<1>8. QED
  BY <1>4, <1>5, <1>6, <1>7

\* What all branches know is known after some branch.
LEMMA FactsType ==
    ASSUME NEW p \in Seq(Branches), NEW n \in 0..Len(p)
    PROVE  Outer(p, n) \subseteq Anything
<1>1. \A m \in 1..n : p[m].certain \subseteq Anything
  <2> TAKE m \in 1..n
  <2>1. m \in 1..Len(p)
    BY LenProperties
  <2>2. p[m] \in Branches
    BY <2>1, ElementOfSeq
  <2>3. QED
    BY <2>2 DEF Branches
<1>2. QED
  BY <1>1 DEF Outer

\* What is below one bound is below a greater one.
LEMMA BelowGreater ==
    ASSUME NEW incidents, NEW id \in Nat, NEW greater \in Nat, id <= greater, Below(incidents, id)
    PROVE  Below(incidents, greater)
  BY DEF Below

(***************************************************************************)
(* Statements                                                              *)
(***************************************************************************)

\* Code that continues other code, targets aside.
Extends(c, d) == Len(c) <= Len(d) /\ \A m \in 1..Len(c) : d[m].op = c[m].op /\ d[m].certain = c[m].certain

\* Instructions lead past a block as long as the block, the branches around it and the instructions
\* stay.
LEMMA LedKept ==
    ASSUME NEW c, NEW d, Len(c) \in Nat, Len(d) \in Nat, Extends(c, d), NEW old, NEW block, NEW n, NEW outer, NEW ended,
           NEW new, Led(c, old, n, outer, ended), n # 1 => ended \subseteq new,
           block.kind = old.kind, block.alive = old.alive, block.start = old.start, block.exits = old.exits
    PROVE  Led(d, block, n, outer, new)
<1>1. \A e \in 1..Len(c) : e \in 1..Len(d) /\ d[e].op = c[e].op /\ d[e].certain = c[e].certain
  BY DEF Extends
<1>2. \A e \in block.exits :
          /\ e \in 1..Len(d) /\ d[e].op = "jump"
          /\ \E b \in new : Returned \notin b.certain /\ outer \cup b.certain \subseteq d[e].certain
  <2> TAKE e \in block.exits
  <2>1. n # 1 /\ e \in 1..Len(c) /\ c[e].op = "jump"
    BY DEF Led
  <2>2. \E b \in ended : Returned \notin b.certain /\ outer \cup b.certain \subseteq c[e].certain
    BY DEF Led
  <2>3. QED
    BY <1>1, <2>1, <2>2
<1>3. block.start # 0 => /\ block.start \in 1..Len(d)
                         /\ d[block.start].op = "branch" /\ d[block.start].certain = outer
  BY <1>1 DEF Led
<1>4. QED
  BY <1>2, <1>3 DEF Led

\* The instructions that lead past a block or behind its structure.
LEMMA OpenElements ==
    ASSUME NEW bs, NEW x
    PROVE  x \in Open(bs) <=> \E m \in 1..Len(bs) : x = bs[m].start \/ x \in bs[m].exits
BY DEF Open

\* A statement records incidents in the last branch, may declare a variable in the last block and
\* adds to the code.
LEMMA StatementAnalysed ==
    ASSUME NEW c, NEW p, NEW bs, NEW known, Analysed(c, p, bs, known),
           NEW incidents \in SUBSET Anything,
           NEW d \in Seq(Instructions), Len(c) <= Len(d), \A m \in 1..Len(c) : d[m] = c[m],
           Consistent(d, Facts(p) \cup incidents, Open(bs)),
           NEW new \in SUBSET AnyLocal, new \subseteq known \cup incidents,
           NEW next \in Nat, bs[Len(bs)].next <= next, Below(incidents, next)
    PROVE  Analysed(d, Record(p, incidents), [bs EXCEPT ![Len(bs)].next = next], new)
<1> DEFINE n == Len(p)
           q == Record(p, incidents)
           last == [bs[n] EXCEPT !.next = next]
           cs == [bs EXCEPT ![n] = last]
<1>1. /\ p \in Seq(Branches) /\ bs \in Seq(BlockType) /\ Len(bs) = n /\ n > 0
      /\ c \in Seq(Instructions)
  BY DEF Analysed, Nested, Types
<1>2. /\ n \in Nat \ {0} /\ n \in 1..n /\ Len(c) \in Nat /\ Len(d) \in Nat
      /\ \A m \in 1..n : bs[m] \in BlockType /\ p[m] \in Branches
  BY <1>1, LenProperties, ElementOfSeq
<1>3. /\ q \in Seq(Branches) /\ Len(q) = n
      /\ \A m \in 1..n : m # n => q[m] = p[m]
      /\ q[n].certain = p[n].certain \cup incidents
      /\ q[n].potential = p[n].potential \cup incidents
      /\ q[n].branches = p[n].branches
  BY <1>1, RecordFacts
<1>4. last \in BlockType /\ last.kind = bs[n].kind /\ last.alive = bs[n].alive /\ last.start = bs[n].start
      /\ last.exits = bs[n].exits /\ last.first = bs[n].first /\ last.next = next
  BY <1>2 DEF BlockType
<1>5. [bs EXCEPT ![Len(bs)].next = next] = cs
  BY <1>1
<1> HIDE DEF q, last
<1>6. /\ cs \in Seq(BlockType) /\ Len(cs) = n
      /\ \A m \in 1..n : /\ m # n => cs[m] = bs[m]
                         /\ cs[m].kind = bs[m].kind /\ cs[m].alive = bs[m].alive /\ cs[m].start = bs[m].start
                         /\ cs[m].exits = bs[m].exits /\ cs[m].first = bs[m].first
      /\ cs[n].next = next
  <2>1. cs \in Seq(BlockType) /\ Len(cs) = n /\ cs[n] = last /\ \A m \in 1..n : m # n => cs[m] = bs[m]
    BY <1>1, <1>4, LastReplaced
  <2>2. QED
    BY <1>4, <2>1
<1> HIDE DEF cs
<1>7. \A k \in 0..(n - 1) : Outer(q, k) = Outer(p, k)
  <2> TAKE k \in 0..(n - 1)
  <2>1. k \in Nat /\ \A m \in 1..k : m \in 1..n /\ m # n
    BY <1>2
  <2>2. \A m \in 1..k : q[m].certain = p[m].certain
    BY <1>3, <2>1
  <2>3. QED
    BY <2>1, <2>2, OuterFacts
<1>8. Facts(q) = Facts(p) \cup incidents
  <2>1. n - 1 \in Nat /\ n - 1 \in 0..(n - 1) /\ n - 1 + 1 = n
    BY <1>2
  <2>2. Outer(q, n) = Outer(q, n - 1) \cup q[n].certain /\ Outer(p, n) = Outer(p, n - 1) \cup p[n].certain
    <3>1. PICK k \in Nat : k = n - 1 /\ k + 1 = n
      BY <2>1
    <3>2. Outer(q, k + 1) = Outer(q, k) \cup q[k + 1].certain /\ Outer(p, k + 1) = Outer(p, k) \cup p[k + 1].certain
      BY OuterFacts
    <3>3. QED
      BY <3>1, <3>2
  <2>3. Facts(q) = Outer(q, n) /\ Facts(p) = Outer(p, n)
    BY <1>3 DEF Facts
  <2>4. QED
    BY <1>3, <1>7, <2>1, <2>2, <2>3
<1>9. Open(cs) = Open(bs)
  <2>1. Len(cs) = n /\ Len(bs) = n
    BY <1>1, <1>6
  <2>2. ASSUME NEW x
        PROVE  x \in Open(cs) <=> x \in Open(bs)
    <3>1. x \in Open(cs) <=> \E m \in 1..n : x = cs[m].start \/ x \in cs[m].exits
      BY <2>1, OpenElements
    <3>2. x \in Open(bs) <=> \E m \in 1..n : x = bs[m].start \/ x \in bs[m].exits
      BY <2>1, OpenElements
    <3>3. \A m \in 1..n : cs[m].start = bs[m].start /\ cs[m].exits = bs[m].exits
      BY <1>6
    <3>4. QED
      BY <3>1, <3>2, <3>3
  <2>3. QED
    BY <2>2
<1>10. Types(d, q, cs, new)
  BY <1>2, <1>3, <1>6 DEF Types
<1>11. Pending(d, q, cs)
  <2> SUFFICES ASSUME NEW m \in 1..n
               PROVE  Led(d, cs[m], m, Outer(q, m - 1), q[m - 1].branches)
    BY <1>6 DEF Pending
  <2>1. Led(c, bs[m], m, Outer(p, m - 1), p[m - 1].branches)
    BY <1>1 DEF Analysed, Nested, Pending
  <2>2. m - 1 \in 0..(n - 1) /\ (m # 1 => m - 1 \in 1..n /\ m - 1 # n)
    BY <1>2
  <2>3. Outer(q, m - 1) = Outer(p, m - 1)
    BY <1>7, <2>2
  <2>4. m # 1 => q[m - 1].branches = p[m - 1].branches
    BY <1>3, <2>2
  <2>5. Extends(c, d) /\ Len(c) \in Nat /\ Len(d) \in Nat
    BY <1>2 DEF Extends
  <2>6. cs[m].kind = bs[m].kind /\ cs[m].alive = bs[m].alive /\ cs[m].start = bs[m].start /\ cs[m].exits = bs[m].exits
    BY <1>6
  <2>7. QED
    BY <2>1, <2>3, <2>4, <2>5, <2>6, LedKept
<1>12. Scoped(q, cs)
  <2>1. /\ \A m \in 1..n : Confined(p[m], bs[m])
        /\ \A l, m \in 1..n : l < m => bs[l].next <= bs[m].first
        /\ \A m \in 1..n : m # 1 => bs[m].first = bs[m - 1].next
    BY <1>1 DEF Analysed, Nested, Scoped
  <2>2. bs[n].next \in Nat /\ bs[n].first \in Nat /\ bs[n].next <= next
    BY <1>1, <1>2 DEF BlockType
  <2>3. /\ bs[n].first <= bs[n].next
        /\ bs[n].kind \in {"value", "error"} => bs[n].first < bs[n].next
        /\ Below(p[n].certain \cup p[n].potential, bs[n].next)
        /\ p[n].branches = {}
    BY <1>1, <1>2, <2>1 DEF Confined, Analysed
  <2>4. Below(q[n].certain \cup q[n].potential, next)
    <3>1. Below(p[n].certain \cup p[n].potential, next)
      BY <1>2, <2>2, <2>3, BelowGreater
    <3>2. QED
      BY <1>3, <3>1 DEF Below
  <2>5. bs[n].first <= next /\ (bs[n].kind \in {"value", "error"} => bs[n].first < next)
    <3>1. \A i, j, k \in Nat : j <= k => (i <= j => i <= k) /\ (i < j => i < k)
      OBVIOUS
    <3>2. QED
      BY <2>2, <2>3, <3>1
  <2>6. \A m \in 1..n : Confined(q[m], cs[m])
    <3> TAKE m \in 1..n
    <3>1. CASE m = n
      BY <1>3, <1>6, <2>3, <2>4, <2>5, <3>1 DEF Confined
    <3>2. CASE m # n
      BY <1>3, <1>6, <2>1, <3>2
    <3>3. QED
      BY <3>1, <3>2
  <2>7. \A l, m \in 1..n : l < m => cs[l].next <= cs[m].first
    <3> TAKE l, m \in 1..n
    <3>1. l < m => l # n
      BY <1>2
    <3>2. QED
      BY <1>6, <2>1, <3>1
  <2>8. \A m \in 1..n : m # 1 => cs[m].first = cs[m - 1].next
    <3> TAKE m \in 1..n
    <3>1. m # 1 => m - 1 \in 1..n /\ m - 1 # n
      BY <1>2
    <3>2. QED
      BY <1>6, <2>1, <3>1
  <2>9. QED
    BY <1>3, <1>6, <2>6, <2>7, <2>8 DEF Scoped
<1>13. Remembered(q, new)
  <2> SUFFICES ASSUME NEW v \in new
               PROVE  \E m \in 1..n : v \in q[m].potential \cup PotentialIncidents(q[m].branches)
    BY <1>3 DEF Remembered
  <2>1. CASE v \in incidents
    BY <1>2, <1>3, <2>1
  <2>2. CASE v \in known
    <3>1. PICK m \in 1..n : v \in p[m].potential \cup PotentialIncidents(p[m].branches)
      BY <1>1, <2>2 DEF Analysed, Nested, Remembered
    <3>2. q[m].branches = p[m].branches /\ p[m].potential \subseteq q[m].potential
      BY <1>3
    <3>3. QED
      BY <3>1, <3>2
  <2>3. QED
    BY <2>1, <2>2
<1>14. QED
  <2>1. q[Len(q)].branches = {} /\ Consistent(d, Facts(q), Open(cs))
    BY <1>1, <1>3, <1>8, <1>9 DEF Analysed
  <2>2. QED
    BY <1>5, <1>10, <1>11, <1>12, <1>13, <2>1 DEF Analysed, Nested, q

\* The code with one more instruction, written with concatenation.
LEMMA ConcatOne ==
    ASSUME NEW S, NEW seq \in Seq(S), NEW e \in S
    PROVE  seq \o <<e>> = Append(seq, e) /\ seq \o <<>> = seq
  OBVIOUS

\* Whether statements are generated, what is certain and potential, in terms of the branches.
LEMMA AnalyserAnswers ==
    ASSUME AnalyseInv
    PROVE  /\ \A i : Certainly(i) <=> i \in Facts(paths)
           /\ Alive <=> Returned \notin Facts(paths)
           /\ Facts(paths) \subseteq Anything
           /\ Alive => Facts(paths) \in SUBSET (Anything \ {Returned})
           /\ \A op, incidents, releases :
                  /\ Instruction(op, incidents, releases).op = op
                  /\ Instruction(op, incidents, releases).incidents = incidents
                  /\ Instruction(op, incidents, releases).releases = releases
                  /\ Instruction(op, incidents, releases).certain = Facts(paths)
           /\ \A op \in {"set", "super", "superOrRaise", "return", "raise", "never", "branch", "leave", "jump"} :
              \A incidents \in SUBSET (Anything \ {Returned}), releases \in SUBSET Anything :
                  Alive => Instruction(op, incidents, releases) \in Instructions
<1>1. \A i : Certainly(i) <=> i \in Facts(paths)
  BY DEF Certainly, HasCertainly, Facts, Outer
<1>2. Facts(paths) \subseteq Anything
  <2>1. paths \in Seq(Branches)
    BY DEF AnalyseInv, Analysed, Nested, Types
  <2>2. Len(paths) \in 0..Len(paths)
    BY <2>1, LenProperties
  <2>3. QED
    BY <2>1, <2>2, FactsType DEF Facts
<1>3. Alive <=> Returned \notin Facts(paths)
  BY <1>1 DEF Alive
<1>4. Alive => Facts(paths) \in SUBSET (Anything \ {Returned})
  BY <1>2, <1>3
<1>5. \A op, incidents, releases :
          Instruction(op, incidents, releases) =
              [op |-> op, incidents |-> incidents, releases |-> releases, target |-> 0, certain |-> Facts(paths)]
  BY DEF Instruction, InstructionAt, Facts, Outer
<1>6. \A op \in {"set", "super", "superOrRaise", "return", "raise", "never", "branch", "leave", "jump"} :
      \A incidents \in SUBSET (Anything \ {Returned}), releases \in SUBSET Anything :
          Alive => Instruction(op, incidents, releases) \in Instructions
  BY <1>4, <1>5 DEF Instructions
<1>7. QED
  BY <1>1, <1>2, <1>3, <1>4, <1>5, <1>6

\* The variables of the model are incidents.
LEMMA VariableFacts ==
    /\ Locals \subseteq AnyLocal
    /\ Locals \cup Instance \subseteq Anything \ {Returned}
    /\ AnyLocal \subseteq Anything \ {Returned}
    /\ CalledSuperInitializer \in Anything \ {Returned}
<1>1. Locals \subseteq AnyLocal
  BY BoundsAssumption DEF Locals, Local, AnyLocal
<1>2. QED
  BY <1>1, IncidentFacts DEF Anything

\* A statement that generates one instruction.
LEMMA StatementStep ==
    ASSUME AnalyseInv, NEW incidents \in SUBSET Anything, NEW i,
           paths' = Record(paths, incidents), Emit(<<i>>),
           Alive => /\ i \in Instructions /\ Sound(i) /\ i.certain = Facts(paths) /\ ~ Jumps(i)
                    /\ Falls(i) => i.op # "leave" /\ incidents \subseteq i.incidents,
           memory' \subseteq memory \cup (incidents \cap AnyLocal),
           NEW next \in Nat, Block.next <= next, Below(incidents, next),
           blocks' = [blocks EXCEPT ![Len(blocks)].next = next],
           pc' = pc, happened' = happened
    PROVE  AnalyseInv'
<1>1. /\ Analysed(code, paths, blocks, memory)
      /\ code \in Seq(Instructions) /\ memory \in SUBSET AnyLocal
      /\ Consistent(code, Facts(paths), Open(blocks))
  BY DEF AnalyseInv, Analysed, Nested, Types
<1>2. memory' \in SUBSET AnyLocal /\ memory' \subseteq memory \cup incidents
  BY <1>1
<1>3. /\ code' \in Seq(Instructions) /\ Len(code) <= Len(code')
      /\ \A m \in 1..Len(code) : code'[m] = code[m]
      /\ Consistent(code', Facts(paths) \cup incidents, Open(blocks))
  <2>1. CASE Alive
    <3>1. code' = Append(code, i)
      BY <1>1, <2>1, ConcatOne DEF Emit
    <3>2. /\ Len(code) \in Nat /\ code' \in Seq(Instructions) /\ Len(code') = Len(code) + 1
          /\ \A m \in 1..Len(code) : code'[m] = code[m]
      BY <1>1, <2>1, <3>1, AppendFacts
    <3>3. Falls(i) => Facts(paths) \cup incidents \subseteq After(i)
      BY <2>1 DEF After
    <3>4. Consistent(code', Facts(paths) \cup incidents, Open(blocks))
      BY <1>1, <2>1, <3>1, <3>3, AppendConsistent
    <3>5. Len(code) <= Len(code')
      BY <3>2
    <3>6. QED
      BY <3>2, <3>4, <3>5
  <2>2. CASE ~ Alive
    <3>1. code' = code /\ Returned \in Facts(paths)
      BY <2>2, AnalyserAnswers DEF Emit
    <3>2. Consistent(code', Facts(paths) \cup incidents, Open(blocks))
      BY <1>1, <3>1, DeadConsistent
    <3>3. Len(code) <= Len(code')
      BY <1>1, <3>1, LenProperties
    <3>4. QED
      BY <1>1, <3>1, <3>2, <3>3
  <2>3. QED
    BY <2>1, <2>2
<1>4. blocks[Len(blocks)].next <= next
  BY DEF Block
<1>5. Analysed(code', Record(paths, incidents), [blocks EXCEPT ![Len(blocks)].next = next], memory')
  BY <1>1, <1>2, <1>3, <1>4, StatementAnalysed
<1>6. QED
  BY <1>5 DEF AnalyseInv

\* The last block.
LEMMA BlockFacts ==
    ASSUME AnalyseInv
    PROVE  /\ Block \in BlockType /\ Len(blocks) \in Nat \ {0} /\ Len(blocks) \in 1..Len(blocks)
           /\ blocks = [blocks EXCEPT ![Len(blocks)].next = Block.next]
           /\ Block.first <= Block.next /\ Block.first \in Nat /\ Block.next \in Nat
<1>1. blocks \in Seq(BlockType) /\ Len(blocks) > 0
  BY DEF AnalyseInv, Analysed, Nested, Types
<1>2. /\ Block \in BlockType /\ Len(blocks) \in Nat \ {0} /\ Len(blocks) \in 1..Len(blocks)
  BY <1>1, LenProperties, ElementOfSeq DEF Block
<1>3. [Block EXCEPT !.next = Block.next] = Block
  BY <1>2 DEF BlockType
<1>4. blocks = [blocks EXCEPT ![Len(blocks)].next = Block.next]
  <2>1. [blocks EXCEPT ![Len(blocks)].next = Block.next] = [blocks EXCEPT ![Len(blocks)] = Block]
    BY <1>3 DEF Block
  <2>2. blocks = [m \in 1..Len(blocks) |-> blocks[m]]
    BY <1>1, SeqDef
  <2>3. QED
    BY <2>1, <2>2 DEF Block
<1>5. Block.first <= Block.next
  BY <1>2 DEF AnalyseInv, Analysed, Nested, Scoped, Confined, Block
<1>6. QED
  BY <1>2, <1>4, <1>5 DEF BlockType

\* A declaration.
LEMMA DeclareStep ==
    ASSUME AnalyseInv, NEW optional \in BOOLEAN, Declare(optional)
    PROVE  AnalyseInv'
<1> DEFINE declared == IF optional THEN {VariableInit(Block.next)} ELSE {}
           i == Instruction("set", declared, {})
<1>1. /\ paths' = Record(paths, declared) /\ Know(declared)
      /\ Emit(IF optional THEN <<i>> ELSE <<>>)
      /\ blocks' = [blocks EXCEPT ![Len(blocks)].next = @ + 1]
      /\ pc' = pc /\ happened' = happened
  BY DEF Declare, Statement
<1>2. Block.next \in Nat /\ Block.next + 1 \in Nat /\ Block.next <= Block.next + 1
  BY BlockFacts
<1>3. declared \subseteq AnyLocal /\ declared \in SUBSET (Anything \ {Returned}) /\ declared \in SUBSET Anything
  <2>1. declared \subseteq AnyLocal
    BY <1>2 DEF AnyLocal
  <2>2. QED
    BY <2>1, VariableFacts
<1>4. Below(declared, Block.next + 1)
  <2> SUFFICES ASSUME NEW v \in declared, NEW j \in Nat, v = VariableInit(j)
               PROVE  j < Block.next + 1
    BY DEF Below
  <2>1. v = VariableInit(Block.next)
    OBVIOUS
  <2>2. j = Block.next
    BY <1>2, <2>1, IncidentFacts
  <2>3. QED
    BY <1>2, <2>2
<1>5. blocks' = [blocks EXCEPT ![Len(blocks)].next = Block.next + 1]
  BY <1>1 DEF Block
<1>6. memory' \subseteq memory \cup (declared \cap AnyLocal)
  BY <1>1, <1>3 DEF Know
<1> HIDE DEF declared
<1>7. CASE optional
  <2>1. i.op = "set" /\ i.incidents = declared /\ i.certain = Facts(paths)
    BY AnalyserAnswers
  <2>2. Alive => i \in Instructions
    <3>1. {} \in SUBSET Anything
      OBVIOUS
    <3>2. QED
      BY <1>3, <3>1, AnalyserAnswers
  <2>3. Emit(<<i>>)
    BY <1>1, <1>7
  <2> HIDE DEF i
  <2>4. Sound(i) /\ ~ Jumps(i)
    BY <2>1 DEF Sound, Jumps
  <2>5. QED
    BY <1>1, <1>2, <1>3, <1>4, <1>5, <1>6, <2>1, <2>2, <2>3, <2>4, StatementStep
<1>8. CASE ~ optional
  <2>1. declared = {}
    BY <1>8 DEF declared
  <2>2. Analysed(code, paths, blocks, memory) /\ Types(code, paths, blocks, memory)
    BY DEF AnalyseInv, Analysed, Nested
  <2>3. code' = code /\ code \in Seq(Instructions) /\ Len(code) \in Nat
    <3>1. code \in Seq(Instructions)
      BY <2>2 DEF Types
    <3>2. code \o <<>> = code
      BY <3>1
    <3>3. QED
      BY <1>1, <1>8, <3>1, <3>2, LenProperties DEF Emit
  <2>4. Consistent(code', Facts(paths) \cup declared, Open(blocks))
    <3>1. Facts(paths) \cup declared = Facts(paths)
      BY <2>1
    <3>2. QED
      BY <2>2, <2>3, <3>1 DEF Analysed
  <2>5. memory' \in SUBSET AnyLocal /\ memory' \subseteq memory \cup declared
    BY <1>6, <2>2 DEF Types
  <2>6. code' \in Seq(Instructions) /\ Len(code) <= Len(code') /\ \A m \in 1..Len(code) : code'[m] = code[m]
    BY <2>3
  <2>7. blocks[Len(blocks)].next <= Block.next + 1
    BY <1>2 DEF Block
  <2>8. Analysed(code', Record(paths, declared), [blocks EXCEPT ![Len(blocks)].next = Block.next + 1], memory')
    BY <1>2, <1>3, <1>4, <2>2, <2>4, <2>5, <2>6, <2>7, StatementAnalysed
  <2>9. QED
    BY <1>1, <1>5, <2>8 DEF AnalyseInv
<1>9. QED
  BY <1>7, <1>8

\* An assignment.
LEMMA AssignStep ==
    ASSUME AnalyseInv, NEW v, Assign(v)
    PROVE  AnalyseInv'
<1> DEFINE i == Instruction("set", {v}, Overwritten(v))
<1>1. /\ paths' = Record(paths, {v}) /\ Know({v} \cap Locals) /\ Emit(<<i>>)
      /\ v \in Local(0 .. Block.next - 1) \cup Instance
      /\ blocks' = blocks /\ pc' = pc /\ happened' = happened
  BY DEF Assign, Statement
<1>2. Block.next \in Nat /\ blocks' = [blocks EXCEPT ![Len(blocks)].next = Block.next] /\ Block.next <= Block.next
  BY <1>1, BlockFacts
<1>3. v \in Anything \ {Returned}
  <2>1. Local(0 .. Block.next - 1) \subseteq AnyLocal
    BY <1>2 DEF Local, AnyLocal
  <2>2. QED
    BY <1>1, <2>1, VariableFacts
<1>4. Below({v}, Block.next)
  <2> SUFFICES ASSUME NEW j \in Nat, v = VariableInit(j)
               PROVE  j < Block.next
    BY DEF Below
  <2>1. v \in Local(0 .. Block.next - 1)
    BY <1>1, IncidentFacts
  <2>2. PICK k \in 0 .. Block.next - 1 : v = VariableInit(k)
    BY <2>1 DEF Local
  <2>3. k \in Nat /\ k < Block.next
    BY <1>2
  <2>4. QED
    BY <2>2, <2>3, IncidentFacts
<1>5. memory' \subseteq memory \cup ({v} \cap AnyLocal)
  BY <1>1, VariableFacts DEF Know
<1>6. Alive => i \in Instructions
  <2>1. {v} \in SUBSET (Anything \ {Returned}) /\ Overwritten(v) \in SUBSET Anything
    BY <1>3 DEF Overwritten
  <2>2. QED
    BY <2>1, AnalyserAnswers
<1>7. i.op = "set" /\ i.incidents = {v} /\ i.certain = Facts(paths)
  BY AnalyserAnswers
<1> HIDE DEF i
<1>8. Sound(i) /\ ~ Jumps(i)
  BY <1>7 DEF Sound, Jumps
<1>9. {v} \in SUBSET Anything
  BY <1>3
<1>10. QED
  BY <1>1, <1>2, <1>4, <1>5, <1>6, <1>7, <1>8, <1>9, StatementStep

\* A statement that sets no local variable.
LEMMA OtherStep ==
    ASSUME AnalyseInv, NEW incidents, incidents \cap AnyLocal = {}, incidents \in SUBSET Anything, NEW i,
           paths' = Record(paths, incidents), Emit(<<i>>),
           Alive => /\ i \in Instructions /\ Sound(i) /\ i.certain = Facts(paths) /\ ~ Jumps(i)
                    /\ Falls(i) => i.op # "leave" /\ incidents \subseteq i.incidents,
           UNCHANGED <<blocks, memory, pc, happened>>
    PROVE  AnalyseInv'
<1>1. Block.next \in Nat /\ blocks' = [blocks EXCEPT ![Len(blocks)].next = Block.next] /\ Block.next <= Block.next
  BY BlockFacts
<1>2. Below(incidents, Block.next)
  BY DEF Below, AnyLocal
<1>3. memory' \subseteq memory \cup (incidents \cap AnyLocal)
  OBVIOUS
<1>4. pc' = pc /\ happened' = happened
  OBVIOUS
<1>5. QED
  BY <1>1, <1>2, <1>3, <1>4, StatementStep

\* The variables an initializer that raises releases are certainly set.
LEMMA AbortFacts ==
    ASSUME AnalyseInv, CanAbort
    PROVE  /\ memory \cup Aborted \in SUBSET Anything
           /\ (memory \cup Aborted) \cap Own \subseteq Facts(paths)
<1>1. memory \subseteq AnyLocal
  BY DEF AnalyseInv, Analysed, Nested, Types
<1>2. Aborted \subseteq Instance /\ Aborted \subseteq Facts(paths)
  BY AnalyserAnswers DEF Aborted, CanAbort
<1>3. QED
  BY <1>1, <1>2, IncidentFacts, VariableFacts

\* The call of the superinitializer.
LEMMA SuperStep ==
    ASSUME AnalyseInv, NEW errorProne \in BOOLEAN, CallSuper(errorProne)
    PROVE  AnalyseInv'
<1> DEFINE incidents == {CalledSuperInitializer} \cup Inherited
           op == IF errorProne THEN "superOrRaise" ELSE "super"
           releases == IF errorProne THEN memory \cup Aborted ELSE {}
           i == Instruction(op, incidents, releases)
<1>1. /\ paths' = Record(paths, incidents) /\ Emit(<<i>>)
      /\ errorProne => CanAbort
      /\ UNCHANGED <<blocks, memory, pc, happened>>
  BY DEF CallSuper, Statement
<1>2. incidents \in SUBSET (Anything \ {Returned}) /\ incidents \in SUBSET Anything /\ incidents \cap AnyLocal = {}
  <2>1. Inherited \subseteq Instance
    BY DEF Instance
  <2>2. CalledSuperInitializer \notin AnyLocal /\ Instance \cap AnyLocal = {}
    BY IncidentFacts DEF AnyLocal
  <2>3. QED
    BY <2>1, <2>2, VariableFacts
<1>3. releases \in SUBSET Anything /\ (errorProne => releases \cap Own \subseteq Facts(paths))
  BY <1>1, AbortFacts
<1>4. op \in {"set", "super", "superOrRaise", "return", "raise", "never", "branch", "leave", "jump"}
  OBVIOUS
<1>5. op \in {"super", "superOrRaise"} /\ (op = "superOrRaise" => errorProne)
  OBVIOUS
<1> HIDE DEF op, incidents, releases
<1>6. Alive => i \in Instructions
  BY <1>2, <1>3, <1>4, AnalyserAnswers
<1>7. i.op = op /\ i.incidents = incidents /\ i.certain = Facts(paths) /\ i.releases = releases
  BY AnalyserAnswers
<1> HIDE DEF i
<1>8. Sound(i) /\ ~ Jumps(i)
  BY <1>3, <1>5, <1>7 DEF Sound, Jumps
<1>9. i.op # "leave"
  BY <1>5, <1>7
<1>10. QED
  BY <1>1, <1>2, <1>6, <1>7, <1>8, <1>9, OtherStep

\* A statement after which execution does not continue.
LEMMA EndingStep ==
    ASSUME AnalyseInv, NEW op \in {"return", "raise", "never"}, NEW releases \in SUBSET Anything,
           op = "raise" => releases \cap Own \subseteq Facts(paths),
           op = "return" => Own \cup {CalledSuperInitializer} \subseteq Facts(paths),
           paths' = Record(paths, {Returned}),
           Emit(<<Instruction(op, {}, releases)>>),
           UNCHANGED <<blocks, memory, pc, happened>>
    PROVE  AnalyseInv'
<1> DEFINE i == Instruction(op, {}, releases)
<1>1. {Returned} \in SUBSET Anything /\ {Returned} \cap AnyLocal = {}
  BY IncidentFacts DEF Anything
<1>2. Alive => i \in Instructions
  <2>1. {} \in SUBSET (Anything \ {Returned})
    OBVIOUS
  <2>2. QED
    BY <2>1, AnalyserAnswers
<1>3. i.op = op /\ i.certain = Facts(paths) /\ i.releases = releases
  BY AnalyserAnswers
<1> HIDE DEF i
<1>4. Sound(i) /\ ~ Jumps(i) /\ ~ Falls(i)
  BY <1>3 DEF Sound, Jumps, Falls
<1>5. Emit(<<i>>)
  BY DEF i
<1>6. QED
  BY <1>1, <1>2, <1>3, <1>4, <1>5, OtherStep

\* An initialized instance.
LEMMA InitializedFacts ==
    ASSUME AnalyseInv, Initialized
    PROVE  Own \cup {CalledSuperInitializer} \subseteq Facts(paths)
  BY AnalyserAnswers DEF Initialized

\* The other statements of a body.
LEMMA StatementsStep ==
    ASSUME AnalyseInv, Return \/ Raise \/ CallNeverReturning
    PROVE  AnalyseInv'
<1>1. memory \in SUBSET Anything /\ {} \in SUBSET Anything
  BY VariableFacts DEF AnalyseInv, Analysed, Nested, Types
<1>2. CASE Return
  <2>1. /\ Initialized /\ paths' = Record(paths, {Returned})
        /\ Emit(<<Instruction("return", {}, memory)>>) /\ UNCHANGED <<blocks, memory, pc, happened>>
    BY <1>2 DEF Return, Statement
  <2>2. QED
    BY <1>1, <2>1, InitializedFacts, EndingStep
<1>3. CASE Raise
  <2>1. /\ CanAbort /\ paths' = Record(paths, {Returned})
        /\ Emit(<<Instruction("raise", {}, memory \cup Aborted)>>) /\ UNCHANGED <<blocks, memory, pc, happened>>
    BY <1>3 DEF Raise, Statement
  <2>2. QED
    BY <2>1, AbortFacts, EndingStep
<1>4. CASE CallNeverReturning
  <2>1. /\ paths' = Record(paths, {Returned})
        /\ Emit(<<Instruction("never", {}, {})>>) /\ UNCHANGED <<blocks, memory, pc, happened>>
    BY <1>4 DEF CallNeverReturning, Statement
  <2>2. QED
    BY <1>1, <2>1, EndingStep
<1>5. QED
  BY <1>2, <1>3, <1>4

(***************************************************************************)
(* Blocks                                                                  *)
(***************************************************************************)

\* A branch that only knows the variable of its block.
Fresh(variable) == [certain |-> variable, potential |-> variable, branches |-> {}]

\* A block may begin inside of another one, with a variable of its own or without.
MayBegin(c, p, bs, known, d, variable, new, block) ==
    /\ Nested(c, p, bs, known)
    /\ d \in Seq(Instructions) /\ Extends(c, d)
    /\ variable \in SUBSET AnyLocal /\ new \subseteq known \cup variable
    /\ block \in BlockType /\ block.kind # "function" /\ block.first = bs[Len(bs)].next
    /\ Led(d, block, Len(p) + 1, Facts(p), p[Len(p)].branches)
    /\ Confined(Fresh(variable), block)

\* It has begun.
LEMMA BlockBegun ==
    ASSUME NEW c, NEW p, NEW bs, NEW known, NEW d, NEW variable, NEW new, NEW block,
           MayBegin(c, p, bs, known, d, variable, new, block),
           NEW q, q = Record(BeginBranch(p), variable), NEW cs, cs = Append(bs, block)
    PROVE  Nested(d, q, cs, new) /\ q[Len(q)].branches = {} /\ Facts(q) = Facts(p) \cup variable
<1> DEFINE n == Len(p)
           r == BeginBranch(p)
<1> USE DEF MayBegin
<1>1. /\ p \in Seq(Branches) /\ bs \in Seq(BlockType) /\ Len(bs) = n /\ n > 0
      /\ c \in Seq(Instructions) /\ known \subseteq AnyLocal
  BY DEF Nested, Types
<1>2. n \in Nat \ {0} /\ n \in 1..n /\ Len(c) \in Nat /\ Len(d) \in Nat
  BY <1>1, LenProperties
<1>3. NewBranch \in Branches /\ NewBranch.certain = {} /\ NewBranch.potential = {} /\ NewBranch.branches = {}
  BY DEF NewBranch, Branches
<1>4. /\ r \in Seq(Branches) /\ Len(r) = n + 1
      /\ \A m \in 1..n : r[m] = p[m]
      /\ r[n + 1] = NewBranch
  <2> HIDE DEF r
  <2>1. r = Append(p, NewBranch)
    BY DEF BeginBranch, r
  <2>2. QED
    BY <1>1, <1>3, <2>1, AppendFacts
<1>0. q = Record(r, variable)
  OBVIOUS
<1> HIDE DEF r
<1>5. variable \in SUBSET Anything
  BY DEF Anything
<1>6. /\ q \in Seq(Branches) /\ Len(q) = n + 1
      /\ \A m \in 1..n : q[m] = p[m]
      /\ q[n + 1].certain = variable /\ q[n + 1].potential = variable /\ q[n + 1].branches = {}
  <2>1. /\ q \in Seq(Branches) /\ Len(q) = Len(r)
        /\ \A m \in 1..Len(r) : m # Len(r) => q[m] = r[m]
        /\ q[Len(r)].certain = r[Len(r)].certain \cup variable
        /\ q[Len(r)].potential = r[Len(r)].potential \cup variable
        /\ q[Len(r)].branches = r[Len(r)].branches
    <3>1. Len(r) > 0
      BY <1>2, <1>4
    <3> DEFINE s == Record(r, variable)
    <3>2. /\ s \in Seq(Branches) /\ Len(s) = Len(r)
          /\ \A m \in 1..Len(r) : m # Len(r) => s[m] = r[m]
          /\ s[Len(r)].certain = r[Len(r)].certain \cup variable
          /\ s[Len(r)].potential = r[Len(r)].potential \cup variable
          /\ s[Len(r)].branches = r[Len(r)].branches
      BY <1>4, <1>5, <3>1, RecordFacts
    <3>3. q = s
      BY <1>0
    <3> HIDE DEF s
    <3>4. QED
      BY <3>2, <3>3
  <2>2. \A m \in 1..n : m \in 1..(n + 1) /\ m # n + 1
    BY <1>2
  <2>3. \A m \in 1..n : q[m] = p[m]
    BY <1>4, <2>1, <2>2
  <2>4. q[n + 1].certain = variable /\ q[n + 1].potential = variable /\ q[n + 1].branches = {}
    BY <1>3, <1>4, <2>1
  <2>5. QED
    BY <1>4, <2>1, <2>3, <2>4
<1>7. /\ cs \in Seq(BlockType) /\ Len(cs) = n + 1
      /\ \A m \in 1..n : cs[m] = bs[m]
      /\ cs[n + 1] = block
  BY <1>1, AppendFacts
<1>8. \A k \in 0..n : Outer(q, k) = Outer(p, k)
  <2> TAKE k \in 0..n
  <2>1. k \in Nat /\ \A m \in 1..k : m \in 1..n
    BY <1>2
  <2>2. \A m \in 1..k : q[m].certain = p[m].certain
    BY <1>6, <2>1
  <2>3. QED
    BY <2>1, <2>2, OuterFacts
<1>9. Facts(q) = Facts(p) \cup variable
  <2>1. Outer(q, n + 1) = Outer(q, n) \cup q[n + 1].certain
    BY <1>2, OuterFacts
  <2>2. n \in 0..n
    BY <1>2
  <2>3. QED
    BY <1>6, <1>8, <2>1, <2>2 DEF Facts
<1>10. new \subseteq AnyLocal
  BY <1>1
<1>11. \A m \in 1..(n + 1) : m \in 1..n \/ m = n + 1
  BY <1>2
<1>12. Types(d, q, cs, new)
  <2>1. n + 1 > 0
    BY <1>2
  <2>2. QED
    BY <1>6, <1>7, <1>10, <2>1 DEF Types
<1>13. Pending(d, q, cs)
  <2>1. ASSUME NEW m \in 1..n
        PROVE  Led(d, cs[m], m, Outer(q, m - 1), q[m - 1].branches)
    <3>1. Led(c, bs[m], m, Outer(p, m - 1), p[m - 1].branches)
      BY <1>1 DEF Nested, Pending
    <3>2. m - 1 \in 0..n /\ (m # 1 => m - 1 \in 1..n)
      BY <1>2
    <3>3. Outer(q, m - 1) = Outer(p, m - 1) /\ (m # 1 => q[m - 1].branches = p[m - 1].branches) /\ cs[m] = bs[m]
      BY <1>6, <1>7, <1>8, <3>2
    <3>4. QED
      BY <1>2, <3>1, <3>3, LedKept
  <2>2. Led(d, cs[n + 1], n + 1, Outer(q, n + 1 - 1), q[n + 1 - 1].branches)
    <3>1. n + 1 - 1 = n /\ n \in 0..n
      BY <1>2
    <3>2. Outer(q, n) = Facts(p) /\ q[n].branches = p[n].branches
      BY <1>2, <1>6, <1>8, <3>1 DEF Facts
    <3>3. QED
      BY <1>7, <3>1, <3>2
  <2>3. QED
    BY <1>7, <1>11, <2>1, <2>2 DEF Pending
<1>14. Scoped(q, cs)
  <2>1. /\ \A m \in 1..n : Confined(p[m], bs[m])
        /\ \A l, m \in 1..n : l < m => bs[l].next <= bs[m].first
        /\ \A m \in 1..n : m # 1 => bs[m].first = bs[m - 1].next
    BY <1>1 DEF Nested, Scoped
  <2>2. \A m \in 1..n : bs[m] \in BlockType /\ bs[m].first \in Nat /\ bs[m].next \in Nat
    <3>1. \A m \in 1..n : bs[m] \in BlockType
      BY <1>1, ElementOfSeq
    <3>2. QED
      BY <3>1 DEF BlockType
  <2>3. \A m \in 1..(n + 1) : Confined(q[m], cs[m])
    <3>1. Confined(q[n + 1], block)
      BY <1>6 DEF Confined, Fresh
    <3>2. QED
      BY <1>6, <1>7, <1>11, <2>1, <3>1
  <2>4. ASSUME NEW l \in 1..(n + 1), NEW m \in 1..(n + 1), l < m
        PROVE  cs[l].next <= cs[m].first
    <3>1. l \in 1..n
      BY <1>2, <2>4
    <3>2. CASE m \in 1..n
      BY <1>7, <2>1, <2>4, <3>1, <3>2
    <3>3. CASE m = n + 1
      <4>1. cs[m].first = bs[n].next
        BY <1>1, <1>7, <3>3
      <4>2. CASE l = n
        BY <1>2, <1>7, <2>2, <3>1, <4>1, <4>2
      <4>3. CASE l # n
        <5>1. l < n
          BY <1>2, <3>1, <4>3
        <5>2. bs[l].next <= bs[n].first /\ bs[n].first <= bs[n].next
          BY <1>2, <2>1, <3>1, <5>1 DEF Confined
        <5>3. \A i, j, k \in Nat : i <= j /\ j <= k => i <= k
          OBVIOUS
        <5>4. QED
          BY <1>2, <1>7, <2>2, <3>1, <4>1, <5>2, <5>3
      <4>4. QED
        BY <4>2, <4>3
    <3>4. QED
      BY <1>11, <3>2, <3>3
  <2>5. ASSUME NEW m \in 1..(n + 1), m # 1
        PROVE  cs[m].first = cs[m - 1].next
    <3>1. m - 1 \in 1..n /\ (m = n + 1 => m - 1 = n)
      BY <1>2, <2>5
    <3>2. CASE m \in 1..n
      BY <1>7, <2>1, <2>5, <3>1, <3>2
    <3>3. CASE m = n + 1
      BY <1>1, <1>7, <3>1, <3>3
    <3>4. QED
      BY <1>11, <3>2, <3>3
  <2>6. QED
    BY <1>7, <2>3, <2>4, <2>5 DEF Scoped
<1>15. Remembered(q, new)
  <2> SUFFICES ASSUME NEW v \in new
               PROVE  \E m \in 1..(n + 1) : v \in q[m].potential \cup PotentialIncidents(q[m].branches)
    BY <1>6 DEF Remembered
  <2>1. CASE v \in variable
    <3>1. n + 1 \in 1..(n + 1)
      BY <1>2
    <3>2. QED
      BY <1>6, <2>1, <3>1
  <2>2. CASE v \in known
    <3>1. PICK m \in 1..n : v \in p[m].potential \cup PotentialIncidents(p[m].branches)
      BY <1>1, <2>2 DEF Nested, Remembered
    <3>2. m \in 1..(n + 1) /\ q[m] = p[m]
      BY <1>2, <1>6
    <3>3. QED
      BY <3>1, <3>2
  <2>3. QED
    BY <2>1, <2>2
<1>16. q[Len(q)].branches = {}
  BY <1>6
<1>17. QED
  BY <1>9, <1>12, <1>13, <1>14, <1>15, <1>16 DEF Nested

\* The local variables of the last block: no branch around it knows them, and those the memory flow
\* analysis remembers were set on some path through the block.
LEMMA ScopeFacts ==
    ASSUME NEW c, NEW p, NEW bs, NEW known, Nested(c, p, bs, known), p[Len(p)].branches = {}
    PROVE  LET n == Len(p)
               locals == Local(bs[n].first .. bs[n].next - 1)
           IN  /\ locals \subseteq AnyLocal
               /\ \A m \in 1..(n - 1) : /\ p[m].certain \cap locals = {} /\ p[m].potential \cap locals = {}
                                        /\ \A b \in p[m].branches : b.potential \cap locals = {}
               /\ Outer(p, n - 1) \cap locals = {}
               /\ known \cap locals \subseteq p[n].potential
               /\ n > 1 => Below((p[n].certain \cup p[n].potential) \ locals, bs[n - 1].next)
<1> DEFINE n == Len(p)
           locals == Local(bs[n].first .. bs[n].next - 1)
<1>1. /\ p \in Seq(Branches) /\ bs \in Seq(BlockType) /\ Len(bs) = n /\ n > 0
  BY DEF Nested, Types
<1>2. n \in Nat \ {0} /\ n \in 1..n
  BY <1>1, LenProperties
<1>3. \A m \in 1..n : bs[m].first \in Nat /\ bs[m].next \in Nat
  <2>1. \A m \in 1..n : bs[m] \in BlockType
    BY <1>1, ElementOfSeq
  <2>2. QED
    BY <2>1 DEF BlockType
<1>4. \A id \in bs[n].first .. bs[n].next - 1 : id \in Nat /\ bs[n].first <= id /\ id < bs[n].next
  BY <1>2, <1>3
<1>5. locals \subseteq AnyLocal
  BY <1>4 DEF Local, AnyLocal
<1>6. ASSUME NEW m \in 1..(n - 1), NEW incidents, Below(incidents, bs[m].next)
      PROVE  incidents \cap locals = {}
  <2> SUFFICES ASSUME NEW v \in incidents, v \in locals
               PROVE  FALSE
    OBVIOUS
  <2>1. PICK id \in bs[n].first .. bs[n].next - 1 : v = VariableInit(id)
    BY DEF Local
  <2>2. id \in Nat /\ bs[n].first <= id
    BY <1>4
  <2>3. id < bs[m].next
    BY <1>6, <2>1, <2>2 DEF Below
  <2>4. m \in 1..n /\ m < n
    BY <1>2
  <2>5. bs[m].next <= bs[n].first
    BY <1>1, <1>2, <2>4 DEF Nested, Scoped
  <2>6. \A i, j, k \in Nat : ~ (i < j /\ j <= k /\ k <= i)
    OBVIOUS
  <2>7. QED
    BY <1>2, <1>3, <2>2, <2>3, <2>4, <2>5, <2>6
<1>7. ASSUME NEW m \in 1..(n - 1)
      PROVE  /\ p[m].certain \cap locals = {} /\ p[m].potential \cap locals = {}
             /\ \A b \in p[m].branches : b.potential \cap locals = {}
  <2>1. m \in 1..n
    BY <1>2
  <2>2. Confined(p[m], bs[m])
    BY <1>1, <2>1 DEF Nested, Scoped
  <2>3. (p[m].certain \cup p[m].potential) \cap locals = {}
    BY <1>6, <2>2 DEF Confined
  <2>4. \A b \in p[m].branches : (b.certain \cup b.potential) \cap locals = {}
    BY <1>6, <2>2 DEF Confined
  <2>5. QED
    BY <2>3, <2>4
<1>8. Outer(p, n - 1) \cap locals = {}
  BY <1>7 DEF Outer
<1>9. ASSUME NEW v \in known, v \in locals
      PROVE  v \in p[n].potential
  <2>1. PICK m \in 1..n : v \in p[m].potential \cup PotentialIncidents(p[m].branches)
    BY <1>1 DEF Nested, Remembered
  <2>2. CASE m = n
    BY <2>1, <2>2 DEF PotentialIncidents
  <2>3. CASE m # n
    <3>1. m \in 1..(n - 1)
      BY <1>2, <2>3
    <3>2. QED
      BY <1>7, <1>9, <2>1, <3>1 DEF PotentialIncidents
  <2>4. QED
    BY <2>2, <2>3
<1>10. ASSUME n > 1
       PROVE  Below((p[n].certain \cup p[n].potential) \ locals, bs[n - 1].next)
  <2> SUFFICES ASSUME NEW v \in (p[n].certain \cup p[n].potential) \ locals, NEW i \in Nat, v = VariableInit(i)
               PROVE  i < bs[n - 1].next
    BY DEF Below
  <2>1. i < bs[n].next
    <3>1. Below(p[n].certain \cup p[n].potential, bs[n].next)
      BY <1>1, <1>2 DEF Nested, Scoped, Confined
    <3>2. QED
      BY <3>1 DEF Below
  <2>2. i \notin bs[n].first .. bs[n].next - 1
    BY DEF Local
  <2>3. bs[n].first = bs[n - 1].next
    <3>1. n # 1
      BY <1>10
    <3>2. QED
      BY <1>1, <1>2, <3>1 DEF Nested, Scoped
  <2>4. \A f, x \in Nat : i < x /\ i \notin f .. x - 1 => i < f
    OBVIOUS
  <2>5. QED
    BY <1>2, <1>3, <2>1, <2>2, <2>3, <2>4
<1>11. QED
  BY <1>5, <1>7, <1>8, <1>9, <1>10

\* What an ended branch knows whose scope was left.
LeftOf(b, branch, locals) == b.certain = branch.certain \ locals /\ b.potential = branch.potential \ locals

\* The branch of a block that is left has ended in the branch around it.
LEMMA BranchLeft ==
    ASSUME NEW p \in Seq(Branches), Len(p) > 1, NEW locals, NEW q, q = EndBranch(ForgetVariables(p, locals))
    PROVE  /\ Len(p) \in Nat /\ Len(p) - 1 \in Nat \ {0} /\ Len(p) - 1 \in 1..(Len(p) - 1)
           /\ q \in Seq(Branches) /\ Len(q) = Len(p) - 1
           /\ \A m \in 1..(Len(p) - 1) : /\ q[m].certain = p[m].certain
                                         /\ q[m].potential = p[m].potential
                                         /\ m # Len(p) - 1 => q[m] = p[m]
           /\ p[Len(p) - 1].branches \subseteq q[Len(p) - 1].branches
           /\ \E b \in q[Len(p) - 1].branches :
                  LeftOf(b, p[Len(p)], locals)
           /\ \A b \in q[Len(p) - 1].branches :
                  \/ b \in p[Len(p) - 1].branches
                  \/ LeftOf(b, p[Len(p)], locals)
           /\ \A k \in 0..(Len(p) - 1) : Outer(q, k) = Outer(p, k)
           /\ Facts(q) = Outer(p, Len(p) - 1)
<1> DEFINE n == Len(p)
           r == ForgetVariables(p, locals)
<1>1. n \in Nat /\ n > 1
  BY LenProperties
<1>2. n - 1 \in Nat \ {0} /\ n - 1 \in 1..(n - 1) /\ n - 1 \in 1..n
  <2>1. \A k \in Nat : k > 1 => k - 1 \in Nat \ {0} /\ k - 1 \in 1..(k - 1) /\ k - 1 \in 1..k
    OBVIOUS
  <2>2. QED
    BY <1>1, <2>1
<1>3. \A m \in 1..(n - 1) : m \in 1..n /\ m # n
  BY <1>1
<1>4. /\ r \in Seq(Branches) /\ Len(r) = n
      /\ \A m \in 1..n : m # n => r[m] = p[m]
      /\ r[n].certain = p[n].certain \ locals
      /\ r[n].potential = p[n].potential \ locals
  <2>1. n > 0
    BY <1>1
  <2>2. QED
    BY <2>1, ForgetFacts
<1>5. q = EndBranch(r)
  OBVIOUS
<1> HIDE DEF r
<1>6. /\ q \in Seq(Branches) /\ Len(q) = n - 1
      /\ \A m \in 1..(n - 1) : /\ q[m].certain = p[m].certain
                               /\ q[m].potential = p[m].potential
                               /\ m # n - 1 => q[m] = p[m]
      /\ p[n - 1].branches \subseteq q[n - 1].branches
      /\ \E b \in q[n - 1].branches : LeftOf(b, p[n], locals)
      /\ \A b \in q[n - 1].branches :
             \/ b \in p[n - 1].branches
             \/ LeftOf(b, p[n], locals)
  <2>1. Len(r) > 1 /\ r \in Seq(Branches)
    BY <1>4
  <2> DEFINE ended == [certain |-> r[Len(r)].certain, potential |-> r[Len(r)].potential]
             s == EndBranch(r)
  <2>2. /\ s \in Seq(Branches) /\ Len(s) = Len(r) - 1
        /\ \A m \in 1..(Len(r) - 1) : /\ s[m].certain = r[m].certain
                                      /\ s[m].potential = r[m].potential
                                      /\ m # Len(r) - 1 => s[m] = r[m]
        /\ s[Len(r) - 1].branches = r[Len(r) - 1].branches \cup {ended}
    BY <2>1, EndBranchFacts, Zenon
  <2>3. \A m \in 1..(n - 1) : r[m] = p[m]
    BY <1>3, <1>4
  <2>4. LeftOf(ended, p[n], locals)
    BY <1>4 DEF LeftOf
  <2> HIDE DEF ended, s
  <2>5. q = s
    BY <1>5 DEF s
  <2>6. Len(r) = n
    BY <1>4
  <2>7. q \in Seq(Branches) /\ Len(q) = n - 1
    BY <2>2, <2>5, <2>6
  <2>8. \A m \in 1..(n - 1) :
            /\ q[m].certain = r[m].certain
            /\ q[m].potential = r[m].potential
            /\ m # n - 1 => q[m] = r[m]
    BY <2>2, <2>5, <2>6
  <2>9. \A m \in 1..(n - 1) :
            /\ q[m].certain = p[m].certain
            /\ q[m].potential = p[m].potential
            /\ m # n - 1 => q[m] = p[m]
    BY <2>3, <2>8
  <2>10. q[n - 1].branches = p[n - 1].branches \cup {ended}
    <3>1. q[n - 1].branches = r[n - 1].branches \cup {ended}
      BY <2>2, <2>5, <2>6
    <3>2. r[n - 1] = p[n - 1]
      BY <1>2, <2>3
    <3>3. QED
      BY <3>1, <3>2
  <2>11. p[n - 1].branches \subseteq q[n - 1].branches
    BY <2>10
  <2>12. \E b \in q[n - 1].branches : LeftOf(b, p[n], locals)
    BY <2>4, <2>10
  <2>13. \A b \in q[n - 1].branches : b \in p[n - 1].branches \/ LeftOf(b, p[n], locals)
    BY <2>4, <2>10
  <2>14. QED
    BY <2>7, <2>9, <2>11, <2>12, <2>13, Zenon
<1>7. \A k \in 0..(n - 1) : Outer(q, k) = Outer(p, k)
  <2> TAKE k \in 0..(n - 1)
  <2>1. k \in Nat /\ \A m \in 1..k : m \in 1..(n - 1)
    BY <1>1
  <2>2. \A m \in 1..k : q[m].certain = p[m].certain
    BY <1>6, <2>1
  <2>3. QED
    BY <2>1, <2>2, OuterFacts
<1>8. Facts(q) = Outer(p, n - 1)
  <2>1. n - 1 \in 0..(n - 1)
    BY <1>2
  <2>2. QED
    BY <1>6, <1>7, <2>1 DEF Facts
<1>9. QED
  BY <1>1, <1>2, <1>6, <1>7, <1>8

\* A block is left.
LEMMA BlockLeft ==
    ASSUME NEW c, NEW p, NEW bs, NEW known, Nested(c, p, bs, known), p[Len(p)].branches = {}, Len(p) > 1,
           NEW d \in Seq(Instructions), Extends(c, d),
           NEW locals, locals = Local(bs[Len(p)].first .. bs[Len(p)].next - 1),
           NEW q, q = EndBranch(ForgetVariables(p, locals))
    PROVE  Nested(d, q, SubSeq(bs, 1, Len(bs) - 1), known \ locals)
<1> DEFINE n == Len(p)
           cs == SubSeq(bs, 1, Len(bs) - 1)
<1>1. /\ p \in Seq(Branches) /\ bs \in Seq(BlockType) /\ Len(bs) = n /\ n > 0
      /\ c \in Seq(Instructions) /\ known \subseteq AnyLocal
  BY DEF Nested, Types
<1>2. n \in Nat \ {0} /\ n \in 1..n /\ Len(c) \in Nat /\ Len(d) \in Nat
  BY <1>1, LenProperties
<1>3. n - 1 \in Nat \ {0} /\ n - 1 \in 1..(n - 1)
  BY <1>1, BranchLeft
<1>4. \A m \in 1..(n - 1) : m \in 1..n /\ m # n
  BY <1>2
<1>6. /\ q \in Seq(Branches) /\ Len(q) = n - 1
      /\ \A m \in 1..(n - 1) : /\ q[m].certain = p[m].certain
                               /\ q[m].potential = p[m].potential
                               /\ m # n - 1 => q[m] = p[m]
      /\ p[n - 1].branches \subseteq q[n - 1].branches
      /\ \E b \in q[n - 1].branches : LeftOf(b, p[n], locals)
      /\ \A b \in q[n - 1].branches :
             \/ b \in p[n - 1].branches
             \/ LeftOf(b, p[n], locals)
  BY <1>1, BranchLeft
<1>7. cs \in Seq(BlockType) /\ Len(cs) = n - 1 /\ \A m \in 1..(n - 1) : cs[m] = bs[m]
  <2>1. bs # <<>>
    BY <1>1, EmptySeq
  <2>2. QED
    BY <1>1, <2>1, FrontFacts
<1> HIDE DEF cs
<1>8. \A k \in 0..(n - 1) : Outer(q, k) = Outer(p, k)
  BY <1>1, BranchLeft
<1>10. /\ \A m \in 1..(n - 1) : /\ p[m].certain \cap locals = {} /\ p[m].potential \cap locals = {}
                                /\ \A b \in p[m].branches : b.potential \cap locals = {}
       /\ known \cap locals \subseteq p[n].potential
       /\ Below((p[n].certain \cup p[n].potential) \ locals, bs[n - 1].next)
  BY <1>1, ScopeFacts
<1>11. Types(d, q, cs, known \ locals)
  <2>1. n - 1 > 0
    BY <1>3
  <2>2. QED
    BY <1>1, <1>6, <1>7, <2>1 DEF Types
<1>12. Pending(d, q, cs)
  <2>1. ASSUME NEW m \in 1..(n - 1)
        PROVE  Led(d, cs[m], m, Outer(q, m - 1), q[m - 1].branches)
    <3>1. Led(c, bs[m], m, Outer(p, m - 1), p[m - 1].branches)
      BY <1>1, <1>4 DEF Nested, Pending
    <3>2. m - 1 \in 0..(n - 1) /\ (m # 1 => m - 1 \in 1..(n - 1) /\ m - 1 # n - 1)
      BY <1>2
    <3>3. Outer(q, m - 1) = Outer(p, m - 1) /\ (m # 1 => q[m - 1].branches = p[m - 1].branches) /\ cs[m] = bs[m]
      BY <1>6, <1>7, <1>8, <3>2
    <3>4. QED
      BY <1>2, <3>1, <3>3, LedKept
  <2>2. QED
    BY <1>7, <2>1 DEF Pending
<1>13. Scoped(q, cs)
  <2>1. /\ \A m \in 1..n : Confined(p[m], bs[m])
        /\ \A l, m \in 1..n : l < m => bs[l].next <= bs[m].first
        /\ \A m \in 1..n : m # 1 => bs[m].first = bs[m - 1].next
    BY <1>1 DEF Nested, Scoped
  <2>2. ASSUME NEW m \in 1..(n - 1)
        PROVE  Confined(q[m], cs[m])
    <3>1. Confined(p[m], bs[m]) /\ cs[m] = bs[m]
      BY <1>4, <1>7, <2>1
    <3>2. CASE m # n - 1
      BY <1>6, <3>1, <3>2
    <3>3. CASE m = n - 1
      <4>1. \A b : LeftOf(b, p[n], locals) =>
                Below(b.certain \cup b.potential, bs[m].next)
        BY <1>10, <3>3 DEF Below, LeftOf
      <4>2. \A b \in q[m].branches : Below(b.certain \cup b.potential, bs[m].next)
        BY <1>6, <3>1, <3>3, <4>1 DEF Confined
      <4>3. QED
        BY <1>6, <3>1, <4>2 DEF Confined
    <3>4. QED
      BY <3>2, <3>3
  <2>3. \A l, m \in 1..(n - 1) : l < m => cs[l].next <= cs[m].first
    BY <1>4, <1>7, <2>1
  <2>4. \A m \in 1..(n - 1) : m # 1 => cs[m].first = cs[m - 1].next
    <3> TAKE m \in 1..(n - 1)
    <3>1. m # 1 => m - 1 \in 1..(n - 1)
      BY <1>2
    <3>2. QED
      BY <1>4, <1>7, <2>1, <3>1
  <2>5. QED
    BY <1>7, <2>2, <2>3, <2>4 DEF Scoped
<1>14. Remembered(q, known \ locals)
  <2> SUFFICES ASSUME NEW v \in known, v \notin locals
               PROVE  \E m \in 1..(n - 1) : v \in q[m].potential \cup PotentialIncidents(q[m].branches)
    BY <1>6 DEF Remembered
  <2>1. PICK m \in 1..n : v \in p[m].potential \cup PotentialIncidents(p[m].branches)
    BY <1>1 DEF Nested, Remembered
  <2>2. CASE m = n
    <3>1. v \in p[n].potential
      BY <2>1, <2>2 DEF PotentialIncidents
    <3>2. \E b \in q[n - 1].branches : v \in b.potential
      BY <1>6, <3>1 DEF LeftOf
    <3>3. v \in PotentialIncidents(q[n - 1].branches)
      BY <3>2 DEF PotentialIncidents
    <3>4. QED
      BY <1>3, <3>3
  <2>3. CASE m # n
    <3>1. m \in 1..(n - 1)
      BY <1>2, <2>3
    <3>2. p[m].branches \subseteq q[m].branches /\ p[m].potential = q[m].potential
      BY <1>6, <3>1
    <3>3. v \in q[m].potential \cup PotentialIncidents(q[m].branches)
      BY <2>1, <3>2 DEF PotentialIncidents
    <3>4. QED
      BY <3>1, <3>3
  <2>4. QED
    BY <2>2, <2>3
<1>15. QED
  BY <1>11, <1>12, <1>13, <1>14 DEF Nested, cs

\* The branches of a structure are finished, with what they all know.
FinishedWith(p, certain, q) ==
    /\ certain \subseteq UNION {b.certain : b \in p[Len(p)].branches}
    /\ q \in Seq(Branches) /\ Len(q) = Len(p)
    /\ \A m \in 1..Len(p) : m # Len(p) => q[m] = p[m]
    /\ q[Len(p)].certain = p[Len(p)].certain \cup certain
    /\ q[Len(p)].potential = p[Len(p)].potential \cup PotentialIncidents(p[Len(p)].branches)
    /\ q[Len(p)].branches = {}

\* The branch around them knows it then.
LEMMA BranchesFinished ==
    ASSUME NEW c, NEW p, NEW bs, NEW known, Nested(c, p, bs, known), NEW certain, NEW q, FinishedWith(p, certain, q)
    PROVE  Nested(c, q, bs, known) /\ \A i : i \in Facts(q) <=> i \in Facts(p) \/ i \in certain
<1> DEFINE n == Len(p)
<1> USE DEF FinishedWith
<1>1. /\ p \in Seq(Branches) /\ bs \in Seq(BlockType) /\ Len(bs) = n /\ n > 0
      /\ c \in Seq(Instructions) /\ known \subseteq AnyLocal
  BY DEF Nested, Types
<1>2. n \in Nat \ {0} /\ n \in 1..n /\ Len(c) \in Nat
  BY <1>1, LenProperties
<1>3. \A k \in 0..(n - 1) : Outer(q, k) = Outer(p, k)
  <2> TAKE k \in 0..(n - 1)
  <2>1. k \in Nat /\ \A m \in 1..k : m \in 1..n /\ m # n
    BY <1>2
  <2>2. \A m \in 1..k : q[m].certain = p[m].certain
    BY <2>1
  <2>3. QED
    BY <2>1, <2>2, OuterFacts
<1>4. Facts(q) = Facts(p) \cup certain
  <2>1. n - 1 \in Nat /\ n - 1 \in 0..(n - 1) /\ n - 1 + 1 = n
    BY <1>2
  <2>2. \A s, k : k \in Nat => Outer(s, k + 1) = Outer(s, k) \cup s[k + 1].certain
    BY OuterFacts
  <2>3. Outer(q, n) = Outer(q, n - 1) \cup q[n].certain /\ Outer(p, n) = Outer(p, n - 1) \cup p[n].certain
    BY <2>1, <2>2
  <2>4. QED
    BY <1>3, <2>1, <2>3 DEF Facts
<1>5. Types(c, q, bs, known)
  BY <1>1 DEF Types
<1>6. Pending(c, q, bs)
  <2>1. ASSUME NEW m \in 1..n
        PROVE  Led(c, bs[m], m, Outer(q, m - 1), q[m - 1].branches)
    <3>1. Led(c, bs[m], m, Outer(p, m - 1), p[m - 1].branches)
      BY <1>1 DEF Nested, Pending
    <3>2. m - 1 \in 0..(n - 1) /\ (m # 1 => m - 1 \in 1..n /\ m - 1 # n)
      BY <1>2
    <3>3. Outer(q, m - 1) = Outer(p, m - 1) /\ (m # 1 => q[m - 1].branches = p[m - 1].branches)
      BY <1>3, <3>2
    <3>4. Extends(c, c)
      BY <1>2 DEF Extends
    <3>5. QED
      BY <1>2, <3>1, <3>3, <3>4, LedKept
  <2>2. QED
    BY <1>1, <2>1 DEF Pending
<1>7. Scoped(q, bs)
  <2>1. ASSUME NEW m \in 1..n
        PROVE  Confined(q[m], bs[m])
    <3>1. Confined(p[m], bs[m])
      BY <1>1 DEF Nested, Scoped
    <3>2. CASE m # n
      BY <3>1, <3>2
    <3>3. CASE m = n
      <4>1. q[m].certain \subseteq p[m].certain \cup UNION {b.certain : b \in p[m].branches}
        BY <3>3
      <4>2. q[m].potential = p[m].potential \cup UNION {b.potential : b \in p[m].branches}
        BY <3>3 DEF PotentialIncidents
      <4>3. Below(q[m].certain \cup q[m].potential, bs[m].next)
        BY <3>1, <4>1, <4>2 DEF Confined, Below
      <4>4. QED
        BY <3>1, <3>3, <4>3 DEF Confined
    <3>4. QED
      BY <3>2, <3>3
  <2>2. QED
    BY <1>1, <2>1 DEF Scoped, Nested
<1>8. Remembered(q, known)
  <2> SUFFICES ASSUME NEW v \in known
               PROVE  \E m \in 1..n : v \in q[m].potential \cup PotentialIncidents(q[m].branches)
    BY DEF Remembered
  <2>1. PICK m \in 1..n : v \in p[m].potential \cup PotentialIncidents(p[m].branches)
    BY <1>1 DEF Nested, Remembered
  <2>2. CASE m = n
    BY <2>1, <2>2
  <2>3. CASE m # n
    BY <2>1, <2>3
  <2>4. QED
    BY <2>2, <2>3
<1>9. QED
  BY <1>4, <1>5, <1>6, <1>7, <1>8 DEF Nested

\* The code with one or two more instructions, written with concatenation.
LEMMA ConcatTwo ==
    ASSUME NEW S, NEW seq \in Seq(S), NEW e \in S, NEW f \in S
    PROVE  /\ seq \o (<<>> \o <<e>>) = Append(seq, e)
           /\ seq \o (<<e>> \o <<>>) = Append(seq, e)
           /\ seq \o (<<>> \o <<>>) = seq
           /\ seq \o (<<e>> \o <<f>>) = Append(Append(seq, e), f)
<1>1. <<>> \o <<e>> = <<e>> /\ <<e>> \o <<>> = <<e>> /\ <<>> \o <<>> = <<>>
  OBVIOUS
<1>2. seq \o <<e>> = Append(seq, e) /\ seq \o <<>> = seq
  BY ConcatOne
<1>3. Append(seq, e) \in Seq(S)
  BY AppendFacts
<1>4. Append(seq, e) \o <<f>> = Append(Append(seq, e), f)
  BY <1>3, ConcatOne
<1>5. seq \o (<<e>> \o <<f>>) = (seq \o <<e>>) \o <<f>>
  <2>1. <<e>> \in Seq(S) /\ <<f>> \in Seq(S)
    OBVIOUS
  <2>2. QED
    BY <2>1, ConcatAssociative
<1>6. QED
  BY <1>1, <1>2, <1>4, <1>5

\* At the end of a block that does not return, the variables of its scope are released, and
\* execution jumps elsewhere.
LEMMA LeavingFacts ==
    ASSUME AnalyseInv, CheckScope, Len(blocks) > 1
    PROVE  LET left == code \o Leaving
           IN  /\ left \in Seq(Instructions) /\ Extends(code, left)
               /\ \A new : Consistent(left, new, Open(blocks) \cup Exits(left))
               /\ \A e \in Exits(left) : \/ e \in Block.exits
                                         \/ /\ e = Len(left) /\ Len(left) > 0 /\ Alive
                                            /\ left[e].op = "jump" /\ left[e].certain = Facts(paths) \ BlockLocals
<1> DEFINE n == Len(paths)
           left == code \o Leaving
           open == Open(blocks) \cup Exits(left)
           facts == Facts(paths) \ BlockLocals
<1>1. /\ paths \in Seq(Branches) /\ Len(blocks) = n /\ n > 0 /\ code \in Seq(Instructions)
      /\ memory \subseteq AnyLocal
      /\ Nested(code, paths, blocks, memory) /\ paths[n].branches = {}
      /\ Consistent(code, Facts(paths), Open(blocks))
  BY DEF AnalyseInv, Analysed, Nested, Types
<1>2. n \in Nat \ {0} /\ n \in 1..n /\ Len(code) \in Nat /\ n - 1 \in Nat /\ n - 1 + 1 = n
  BY <1>1, LenProperties
<1>3. Block = blocks[n] /\ Block \in BlockType
  BY <1>1, BlockFacts DEF Block
<1>4. /\ BlockLocals \subseteq AnyLocal
      /\ Outer(paths, n - 1) \cap BlockLocals = {}
      /\ memory \cap BlockLocals \subseteq paths[n].potential
  BY <1>1, <1>3, ScopeFacts DEF BlockLocals
<1>5. Facts(paths) = Outer(paths, n - 1) \cup paths[n].certain
  <2>1. \A s, k : k \in Nat => Outer(s, k + 1) = Outer(s, k) \cup s[k + 1].certain
    BY OuterFacts
  <2>2. QED
    BY <1>2, <2>1 DEF Facts
<1>6. Facts(PoppedScope) = facts
  <2> DEFINE q == PoppedScope
  <2>1. Len(q) = n /\ (\A m \in 1..n : m # n => q[m] = paths[m]) /\ q[n].certain = paths[n].certain \ BlockLocals
    BY <1>1, ForgetFacts DEF PoppedScope
  <2> HIDE DEF q
  <2>2. Outer(q, n - 1) = Outer(paths, n - 1)
    <3>1. \A k \in Nat : \A m \in 1..(k - 1) : m \in 1..k /\ m # k
      OBVIOUS
    <3>2. \A m \in 1..(n - 1) : m \in 1..n /\ m # n
      BY <1>2, <3>1
    <3>3. \A m \in 1..(n - 1) : q[m].certain = paths[m].certain
      BY <2>1, <3>2
    <3>4. \A s, t, k : k \in Nat /\ (\A m \in 1..k : t[m].certain = s[m].certain) => Outer(t, k) = Outer(s, k)
      BY OuterFacts
    <3>5. QED
      BY <1>2, <3>3, <3>4
  <2>3. Outer(q, n) = Outer(q, n - 1) \cup q[n].certain
    <3>1. \A s, k : k \in Nat => Outer(s, k + 1) = Outer(s, k) \cup s[k + 1].certain
      BY OuterFacts
    <3>2. QED
      BY <1>2, <3>1
  <2>4. Facts(q) = facts
    BY <1>4, <1>5, <2>1, <2>2, <2>3 DEF Facts
  <2>5. QED
    BY <2>4 DEF q
<1>7. memory \cap BlockLocals \subseteq Facts(paths)
  <2>1. \A v \in memory \cap BlockLocals : Potentially(v)
    BY <1>2, <1>4 DEF Potentially, HasPotentially
  <2>2. QED
    BY <2>1, AnalyserAnswers DEF CheckScope
<1>8. CASE ~ Alive
  <2>1. left = code
    BY <1>1, <1>8, ConcatOne DEF Leaving
  <2>2. Exits(left) = Block.exits
    BY <1>8 DEF Exits
  <2>3. Returned \in Facts(paths)
    BY <1>8, AnalyserAnswers
  <2>4. \A new : Consistent(code, new, Open(blocks))
    BY <1>1, <2>3, DeadConsistent
  <2>5. \A new : Consistent(code, new, open)
    BY <1>2, <2>4, WeakerConsistent
  <2>6. Extends(code, code)
    BY <1>2 DEF Extends
  <2>7. QED
    BY <1>1, <2>1, <2>2, <2>5, <2>6
<1>9. CASE Alive
  <2> DEFINE leave == Instruction("leave", {}, memory \cap BlockLocals)
             before == InstructionAt(PoppedScope, "jump", {}, {})
             jump == [before EXCEPT !.target = Block.start]
             none == memory \cap BlockLocals = {}
             prior == IF none THEN code ELSE Append(code, leave)
  <2>1. /\ jump \in Instructions /\ jump.op = "jump" /\ jump.certain = facts /\ jump.incidents = {}
        /\ jump.target = Block.start
    <3>1. before = [op |-> "jump", incidents |-> {}, releases |-> {}, target |-> 0, certain |-> facts]
      BY <1>6 DEF InstructionAt, Facts, Outer
    <3>2. facts \in SUBSET (Anything \ {Returned})
      BY <1>9, AnalyserAnswers
    <3>3. Block.start \in Nat
      BY <1>3 DEF BlockType
    <3> HIDE DEF facts
    <3>4. QED
      BY <3>1, <3>2, <3>3 DEF Instructions
  <2>2. /\ leave \in Instructions /\ leave.op = "leave" /\ leave.certain = Facts(paths)
        /\ leave.releases = memory \cap BlockLocals
    <3>1. memory \cap BlockLocals \in SUBSET Anything /\ {} \in SUBSET (Anything \ {Returned})
      BY <1>1, VariableFacts
    <3>2. QED
      BY <1>9, <3>1, AnalyserAnswers
  <2>3. left = Append(prior, jump)
    <3> HIDE DEF leave, jump
    <3>1. Leaving = (IF none THEN <<>> ELSE <<leave>>) \o <<jump>>
      BY <1>9 DEF Leaving, leave, jump
    <3>2. CASE none
      <4>1. left = code \o (<<>> \o <<jump>>)
        BY <3>1, <3>2
      <4>2. QED
        BY <1>1, <2>1, <3>2, <4>1, ConcatTwo
    <3>3. CASE ~ none
      <4>1. left = code \o (<<leave>> \o <<jump>>)
        BY <3>1, <3>3
      <4>2. QED
        BY <1>1, <2>1, <2>2, <3>3, <4>1, ConcatTwo
    <3>4. QED
      BY <3>2, <3>3
  <2> HIDE DEF leave, jump, left
  <2>4. Consistent(code, Facts(paths), open)
    BY <1>1, <1>2, WeakerConsistent
  <2>5. /\ prior \in Seq(Instructions) /\ Len(prior) \in Nat /\ Extends(code, prior)
        /\ Consistent(prior, facts, open)
        /\ \A m \in 1..Len(code) : m \in 1..Len(prior) /\ prior[m] = code[m]
    <3>1. CASE none
      <4>1. Consistent(code, facts, open)
        BY <1>2, <2>4, WeakerConsistent
      <4>2. Extends(code, code)
        BY <1>2 DEF Extends
      <4>3. QED
        BY <1>1, <1>2, <3>1, <4>1, <4>2
    <3>2. CASE ~ none
      <4>1. prior = Append(code, leave)
        BY <3>2
      <4>2. /\ prior \in Seq(Instructions) /\ Len(prior) = Len(code) + 1
            /\ \A m \in 1..Len(code) : prior[m] = code[m]
        BY <1>1, <2>2, <4>1, AppendFacts
      <4>3. Sound(leave) /\ ~ Jumps(leave) /\ facts \subseteq After(leave)
        BY <1>7, <2>2 DEF Sound, Jumps, After
      <4> HIDE DEF facts, open, prior
      <4>4. Consistent(prior, facts, open)
        BY <1>1, <2>2, <2>4, <4>1, <4>3, AppendConsistent
      <4>5. Extends(code, prior)
        BY <1>2, <4>2 DEF Extends
      <4>6. \A m \in 1..Len(code) : m \in 1..Len(prior)
        BY <1>2, <4>2
      <4>7. QED
        BY <1>2, <4>2, <4>4, <4>5, <4>6
    <3>3. QED
      BY <3>1, <3>2
  <2> HIDE DEF prior
  <2>6. /\ left \in Seq(Instructions) /\ Len(left) = Len(prior) + 1 /\ left[Len(left)] = jump
        /\ \A m \in 1..Len(prior) : left[m] = prior[m]
    BY <2>1, <2>3, <2>5, AppendFacts
  <2>7. Extends(code, left)
    <3>1. Len(code) <= Len(left)
      BY <1>2, <2>5, <2>6 DEF Extends
    <3>2. QED
      BY <2>5, <2>6, <3>1 DEF Extends
  <2>8. \/ Len(prior) + 1 \in open
        \/ jump.target \in 1..Len(prior) /\ prior[jump.target].certain \subseteq After(jump)
    <3>1. CASE Block.kind # "loop"
      BY <1>9, <2>6, <3>1 DEF Exits
    <3>2. CASE Block.kind = "loop"
      <4>1. Led(code, Block, n, Outer(paths, n - 1), paths[n - 1].branches)
        BY <1>1, <1>2, <1>3 DEF Nested, Pending
      <4>2. Returned \notin Outer(paths, n - 1)
        BY <1>5, <1>9, AnalyserAnswers
      <4>3. Block.start \in 1..Len(code) /\ code[Block.start].certain = Outer(paths, n - 1)
        BY <3>2, <4>1, <4>2 DEF Led
      <4>4. Outer(paths, n - 1) \subseteq facts
        BY <1>4, <1>5
      <4>5. After(jump) = facts
        BY <2>1 DEF After
      <4>6. QED
        BY <2>1, <2>5, <4>3, <4>4, <4>5
    <3>3. QED
      BY <3>1, <3>2
  <2>9. \A new : Consistent(left, new, open)
    <3> TAKE new
    <3>1. Sound(jump) /\ ~ Falls(jump)
      BY <2>1 DEF Sound, Falls
    <3> HIDE DEF facts, open
    <3>2. QED
      BY <2>1, <2>3, <2>5, <2>8, <3>1, AppendConsistent
  <2>10. \A e \in Exits(left) : \/ e \in Block.exits
                                \/ /\ e = Len(left) /\ Len(left) > 0 /\ Alive
                                   /\ left[e].op = "jump" /\ left[e].certain = facts
    <3>1. Len(left) > 0
      BY <2>5, <2>6
    <3>2. \A e \in Exits(left) : e \in Block.exits \/ e = Len(left)
      BY DEF Exits
    <3>3. QED
      BY <1>9, <2>1, <2>6, <3>1, <3>2
  <2>11. QED
    BY <2>6, <2>7, <2>9, <2>10 DEF left
<1>10. QED
  BY <1>8, <1>9

\* Which instructions are open when a block begins or has ended.
LEMMA OpenFacts ==
    ASSUME NEW bs \in Seq(BlockType)
    PROVE  /\ \A block \in BlockType : Open(Append(bs, block)) = Open(bs) \cup {block.start} \cup block.exits
           /\ bs # <<>> => Open(bs) = Open(SubSeq(bs, 1, Len(bs) - 1)) \cup {bs[Len(bs)].start} \cup bs[Len(bs)].exits
<1>1. ASSUME NEW cs, NEW k \in Nat, Len(cs) = k + 1, NEW ds, Len(ds) = k, \A m \in 1..k : cs[m] = ds[m]
      PROVE  Open(cs) = Open(ds) \cup {cs[k + 1].start} \cup cs[k + 1].exits
  <2>1. \A m : m \in 1..(k + 1) <=> m \in 1..k \/ m = k + 1
    OBVIOUS
  <2>2. QED
    BY <1>1, <2>1 DEF Open
<1>2. ASSUME NEW block \in BlockType
      PROVE  Open(Append(bs, block)) = Open(bs) \cup {block.start} \cup block.exits
  <2> DEFINE cs == Append(bs, block)
  <2>1. Len(bs) \in Nat /\ Len(cs) = Len(bs) + 1 /\ (\A m \in 1..Len(bs) : cs[m] = bs[m]) /\ cs[Len(bs) + 1] = block
    BY AppendFacts
  <2> HIDE DEF cs
  <2>2. Open(cs) = Open(bs) \cup {cs[Len(bs) + 1].start} \cup cs[Len(bs) + 1].exits
    BY <1>1, <2>1
  <2>3. QED
    BY <2>1, <2>2 DEF cs
<1>3. ASSUME bs # <<>>
      PROVE  Open(bs) = Open(SubSeq(bs, 1, Len(bs) - 1)) \cup {bs[Len(bs)].start} \cup bs[Len(bs)].exits
  <2> DEFINE ds == SubSeq(bs, 1, Len(bs) - 1)
             k == Len(bs) - 1
  <2>1. Len(bs) \in Nat \ {0} /\ Len(ds) = k /\ \A m \in 1..k : ds[m] = bs[m]
    BY <1>3, FrontFacts
  <2> HIDE DEF ds
  <2>2. k \in Nat /\ Len(bs) = k + 1
    BY <2>1
  <2> HIDE DEF k
  <2>3. Open(bs) = Open(ds) \cup {bs[k + 1].start} \cup bs[k + 1].exits
    BY <1>1, <2>1, <2>2
  <2>4. QED
    BY <2>2, <2>3 DEF ds
<1>4. QED
  BY <1>2, <1>3

\* Code continued twice.
LEMMA ExtendsTwice ==
    ASSUME NEW c, NEW d, NEW e, Len(c) \in Nat, Len(d) \in Nat, Len(e) \in Nat, Extends(c, d), Extends(d, e)
    PROVE  Extends(c, e)
<1>1. \A m \in 1..Len(c) : m \in 1..Len(d)
  BY DEF Extends
<1>2. QED
  BY <1>1 DEF Extends

\* A block has ended, and its structure not yet.
LEMMA BlockEnded ==
    ASSUME AnalyseInv, CheckScope, Block.kind # "function"
    PROVE  LET left == code \o Leaving
               q == EndBranch(PoppedScope)
               front == SubSeq(blocks, 1, Len(blocks) - 1)
               outer == Outer(paths, Len(paths) - 1)
           IN  /\ left \in Seq(Instructions) /\ Extends(code, left)
               /\ \A d \in Seq(Instructions) : Extends(code, d) => Nested(d, q, front, KnownAfterScope)
               /\ Facts(q) = outer /\ Len(q) = Len(paths) - 1
               /\ \A new : Consistent(left, new, Open(front) \cup {Block.start} \cup Exits(left))
               /\ Block.start # 0 => /\ Block.start \in 1..Len(left)
                                     /\ left[Block.start].op = "branch" /\ left[Block.start].certain = outer
               /\ \A e \in Exits(left) :
                      /\ e \in 1..Len(left) /\ left[e].op = "jump"
                      /\ \E b \in q[Len(q)].branches :
                             Returned \notin b.certain /\ outer \cup b.certain \subseteq left[e].certain
<1> DEFINE n == Len(paths)
           left == code \o Leaving
           q == EndBranch(PoppedScope)
           front == SubSeq(blocks, 1, Len(blocks) - 1)
           outer == Outer(paths, n - 1)
<1>1. /\ paths \in Seq(Branches) /\ blocks \in Seq(BlockType) /\ Len(blocks) = n /\ n > 0 /\ code \in Seq(Instructions)
      /\ Nested(code, paths, blocks, memory) /\ paths[n].branches = {}
  BY DEF AnalyseInv, Analysed, Nested, Types
<1>2. n \in Nat \ {0} /\ n \in 1..n /\ Len(code) \in Nat
  BY <1>1, LenProperties
<1>3. Block = blocks[n] /\ Block \in BlockType
  BY <1>1, BlockFacts DEF Block
<1>4. Led(code, Block, n, outer, paths[n - 1].branches)
  BY <1>1, <1>2, <1>3 DEF Nested, Pending
<1>5. n > 1
  <2>1. n # 1
    BY <1>4 DEF Led
  <2>2. \A k \in Nat \ {0} : k # 1 => k > 1
    OBVIOUS
  <2>3. QED
    BY <1>2, <2>1, <2>2
<1>6. /\ \A d \in Seq(Instructions) : Extends(code, d) => Nested(d, q, front, KnownAfterScope)
      /\ Len(q) = n - 1 /\ Facts(q) = outer
      /\ paths[n - 1].branches \subseteq q[n - 1].branches
      /\ \E b \in q[n - 1].branches : LeftOf(b, paths[n], BlockLocals)
  <2>1. /\ BlockLocals = Local(blocks[n].first .. blocks[n].next - 1)
        /\ PoppedScope = ForgetVariables(paths, BlockLocals) /\ KnownAfterScope = memory \ BlockLocals
    BY <1>3 DEF BlockLocals, PoppedScope, KnownAfterScope
  <2>2. Extends(code, code)
    BY <1>2 DEF Extends
  <2>3. /\ Len(q) = n - 1 /\ Facts(q) = outer
        /\ paths[n - 1].branches \subseteq q[n - 1].branches
        /\ \E b \in q[n - 1].branches : LeftOf(b, paths[n], BlockLocals)
    BY <1>1, <1>5, <2>1, BranchLeft
  <2>4. \A d \in Seq(Instructions) : Extends(code, d) => Nested(d, q, front, KnownAfterScope)
    BY <1>1, <1>5, <2>1, BlockLeft
  <2>5. QED
    BY <2>3, <2>4
<1>7. /\ left \in Seq(Instructions) /\ Extends(code, left)
      /\ \A new : Consistent(left, new, Open(blocks) \cup Exits(left))
      /\ \A e \in Exits(left) : \/ e \in Block.exits
                                \/ /\ e = Len(left) /\ Len(left) > 0 /\ Alive
                                   /\ left[e].op = "jump" /\ left[e].certain = Facts(paths) \ BlockLocals
  BY <1>1, <1>5, LeavingFacts
<1> HIDE DEF q, left, front
<1>8. Open(blocks) = Open(front) \cup {Block.start} \cup Block.exits
  <2>1. blocks # <<>>
    BY <1>1, EmptySeq
  <2>2. QED
    BY <1>1, <1>3, <2>1, OpenFacts DEF front
<1>9. \A new : Consistent(left, new, Open(front) \cup {Block.start} \cup Exits(left))
  <2>1. Open(blocks) \cup Exits(left) = Open(front) \cup {Block.start} \cup Exits(left)
    BY <1>8 DEF Exits
  <2>2. QED
    BY <1>7, <2>1
<1>10. Len(left) \in Nat /\ \A m \in 1..Len(code) : m \in 1..Len(left) /\ left[m].op = code[m].op /\ left[m].certain = code[m].certain
  <2>1. Len(left) \in Nat
    BY <1>7, LenProperties
  <2>2. QED
    BY <1>2, <1>7, <2>1 DEF Extends
<1>11. Block.start # 0 => /\ Block.start \in 1..Len(left)
                          /\ left[Block.start].op = "branch" /\ left[Block.start].certain = outer
  BY <1>4, <1>10 DEF Led
<1>12. Facts(paths) = outer \cup paths[n].certain /\ outer \cap BlockLocals = {}
  <2>1. \A s, k : k \in Nat => Outer(s, k + 1) = Outer(s, k) \cup s[k + 1].certain
    BY OuterFacts
  <2>2. n - 1 \in Nat /\ n - 1 + 1 = n
    BY <1>2
  <2>3. Facts(paths) = outer \cup paths[n].certain
    BY <2>1, <2>2 DEF Facts
  <2>4. outer \cap BlockLocals = {}
    BY <1>1, <1>3, ScopeFacts DEF BlockLocals
  <2>5. QED
    BY <2>3, <2>4
<1>13. ASSUME NEW e \in Exits(left)
       PROVE  /\ e \in 1..Len(left) /\ left[e].op = "jump"
              /\ \E b \in q[Len(q)].branches :
                     Returned \notin b.certain /\ outer \cup b.certain \subseteq left[e].certain
  <2>1. CASE e \in Block.exits
    <3>1. /\ e \in 1..Len(code) /\ code[e].op = "jump"
          /\ \E b \in paths[n - 1].branches : Returned \notin b.certain /\ outer \cup b.certain \subseteq code[e].certain
      BY <1>4, <2>1 DEF Led
    <3>2. QED
      BY <1>6, <1>10, <3>1
  <2>2. CASE e = Len(left) /\ Len(left) > 0 /\ Alive /\ left[e].op = "jump" /\ left[e].certain = Facts(paths) \ BlockLocals
    <3>1. e \in 1..Len(left)
      BY <1>10, <2>2
    <3>2. Returned \notin Facts(paths)
      BY <2>2, AnalyserAnswers
    <3>3. PICK b \in q[Len(q)].branches : b.certain = paths[n].certain \ BlockLocals
      BY <1>6 DEF LeftOf
    <3>4. Returned \notin b.certain /\ outer \cup b.certain \subseteq left[e].certain
      BY <1>12, <2>2, <3>2, <3>3
    <3>5. QED
      BY <2>2, <3>1, <3>3, <3>4
  <2>3. QED
    BY <1>7, <2>1, <2>2
<1>14. QED
  BY <1>6, <1>7, <1>9, <1>11, <1>13 DEF q, left, front

\* The place before a block, whose instructions may stay open.
MayOpen(c, p, kind, variable, more) ==
    /\ c \in Seq(Instructions) /\ Facts(p) \in SUBSET (Anything \ {Returned})
    /\ Consistent(c, Facts(p), more) /\ variable \in SUBSET AnyLocal
    /\ kind \in {"then", "loop", "value"} => Len(c) + 1 \in more

\* The instructions the block begins with.
LEMMA OpeningFacts ==
    ASSUME NEW c, NEW p, NEW kind, NEW variable, NEW more, MayOpen(c, p, kind, variable, more),
           NEW e, e = c \o Opening(kind, p, variable)
    PROVE  /\ e \in Seq(Instructions) /\ Extends(c, e)
           /\ \A facts : facts \subseteq Facts(p) \cup variable => Consistent(e, facts, more)
           /\ kind \in {"then", "loop", "value"} =>
                  Len(c) + 1 \in 1..Len(e) /\ e[Len(c) + 1].op = "branch" /\ e[Len(c) + 1].certain = Facts(p)
<1> DEFINE branch == InstructionAt(p, "branch", {}, {})
           set == InstructionAt(p, "set", variable, {})
           branches == kind \in {"then", "loop", "value"}
           prior == IF branches THEN Append(c, branch) ELSE c
           d == IF variable = {} THEN prior ELSE Append(prior, set)
<1> USE DEF MayOpen
<1>1. /\ branch \in Instructions /\ branch.op = "branch" /\ branch.certain = Facts(p) /\ branch.incidents = {}
      /\ set \in Instructions /\ set.op = "set" /\ set.certain = Facts(p) /\ set.incidents = variable
  <2>1. variable \in SUBSET (Anything \ {Returned})
    BY VariableFacts
  <2>2. \A op, incidents : InstructionAt(p, op, incidents, {}) =
            [op |-> op, incidents |-> incidents, releases |-> {}, target |-> 0, certain |-> Facts(p)]
    BY DEF InstructionAt, Facts, Outer
  <2>3. QED
    BY <2>1, <2>2 DEF Instructions
<1>2. c \o Opening(kind, p, variable) = d
  <2> HIDE DEF branch, set
  <2>1. Opening(kind, p, variable) = (IF branches THEN <<branch>> ELSE <<>>) \o (IF variable = {} THEN <<>> ELSE <<set>>)
    BY DEF Opening, branch, set
  <2>2. CASE branches /\ variable = {}
    <3>1. Opening(kind, p, variable) = <<branch>> \o <<>>
      BY <2>1, <2>2
    <3>2. c \o (<<branch>> \o <<>>) = Append(c, branch)
      BY <1>1, ConcatTwo
    <3>3. QED
      BY <2>2, <3>1, <3>2
  <2>3. CASE branches /\ variable # {}
    <3>1. Opening(kind, p, variable) = <<branch>> \o <<set>>
      BY <2>1, <2>3
    <3>2. c \o (<<branch>> \o <<set>>) = Append(Append(c, branch), set)
      BY <1>1, ConcatTwo
    <3>3. QED
      BY <2>3, <3>1, <3>2
  <2>4. CASE ~ branches /\ variable = {}
    <3>1. Opening(kind, p, variable) = <<>> \o <<>>
      BY <2>1, <2>4
    <3>2. QED
      BY <1>1, <2>4, <3>1, ConcatTwo
  <2>5. CASE ~ branches /\ variable # {}
    <3>1. Opening(kind, p, variable) = <<>> \o <<set>>
      BY <2>1, <2>5
    <3>2. QED
      BY <1>1, <2>5, <3>1, ConcatTwo
  <2>6. QED
    BY <2>2, <2>3, <2>4, <2>5
<1> HIDE DEF branch, set
<1>3. Len(c) \in Nat
  BY LenProperties
<1>4. Consistent(c, Facts(p), more)
  OBVIOUS
<1>5. Sound(branch) /\ Sound(set) /\ ~ Jumps(set) /\ After(branch) = Facts(p) /\ After(set) = Facts(p) \cup variable
  BY <1>1 DEF Sound, Jumps, After
<1>6. /\ prior \in Seq(Instructions) /\ Len(prior) \in Nat /\ Extends(c, prior) /\ Consistent(prior, Facts(p), more)
      /\ branches => Len(c) + 1 \in 1..Len(prior) /\ prior[Len(c) + 1] = branch
  <2>1. CASE branches
    <3>1. /\ prior \in Seq(Instructions) /\ Len(prior) = Len(c) + 1
          /\ (\A m \in 1..Len(c) : prior[m] = c[m]) /\ prior[Len(c) + 1] = branch
      BY <1>1, <2>1, AppendFacts
    <3>2. Consistent(prior, Facts(p), more)
      <4>1. prior = Append(c, branch)
        BY <2>1
      <4> HIDE DEF prior
      <4>2. QED
        BY <1>1, <1>4, <1>5, <2>1, <4>1, AppendConsistent
    <3> HIDE DEF prior
    <3>3. Extends(c, prior)
      BY <1>3, <3>1 DEF Extends
    <3>4. Len(c) + 1 \in 1..Len(prior) /\ Len(prior) \in Nat
      BY <1>3, <3>1
    <3>5. QED
      BY <3>1, <3>2, <3>3, <3>4
  <2>2. CASE ~ branches
    BY <1>3, <1>4, <2>2 DEF Extends
  <2>3. QED
    BY <2>1, <2>2
<1> HIDE DEF prior
<1>7. /\ d \in Seq(Instructions) /\ Len(d) \in Nat /\ Extends(prior, d) /\ Consistent(d, Facts(p) \cup variable, more)
      /\ \A m \in 1..Len(prior) : m \in 1..Len(d) /\ d[m] = prior[m]
  <2>1. CASE variable = {}
    <3>1. d = prior /\ Facts(p) \cup variable = Facts(p)
      BY <2>1
    <3>2. Extends(prior, prior)
      BY <1>6 DEF Extends
    <3> HIDE DEF d
    <3>3. QED
      BY <1>6, <3>1, <3>2
  <2>2. CASE variable # {}
    <3>1. d = Append(prior, set)
      BY <2>2
    <3> HIDE DEF d
    <3>2. d \in Seq(Instructions) /\ Len(d) = Len(prior) + 1 /\ \A m \in 1..Len(prior) : d[m] = prior[m]
      BY <1>1, <1>6, <3>1, AppendFacts
    <3>3. Consistent(d, Facts(p) \cup variable, more)
      BY <1>1, <1>5, <1>6, <3>1, AppendConsistent
    <3>4. \A m \in 1..Len(prior) : m \in 1..Len(d)
      BY <1>6, <3>2
    <3>5. Extends(prior, d) /\ Len(d) \in Nat
      BY <1>6, <3>2 DEF Extends
    <3>6. QED
      BY <3>2, <3>3, <3>4, <3>5
  <2>3. QED
    BY <2>1, <2>2
<1> HIDE DEF d
<1>8. Extends(c, d)
  BY <1>3, <1>6, <1>7, ExtendsTwice
<1>9. branches => Len(c) + 1 \in 1..Len(d) /\ d[Len(c) + 1].op = "branch" /\ d[Len(c) + 1].certain = Facts(p)
  BY <1>1, <1>6, <1>7
<1>10. \A facts : facts \subseteq Facts(p) \cup variable => Consistent(d, facts, more)
  <2>1. \A k : k \in more => k \in more
    OBVIOUS
  <2>2. QED
    BY <1>7, <2>1, WeakerConsistent
<1>11. e = d
  BY <1>2
<1>12. QED
  BY <1>7, <1>8, <1>9, <1>10, <1>11

\* A block that only has the variable of an error handler.
LEMMA HandlerFacts ==
    ASSUME NEW kind, NEW first \in Nat, NEW variable, variable = HandlerVariable(kind, first),
           NEW block, block.kind = kind, block.first = first,
           block.next = IF kind \in {"value", "error"} THEN first + 1 ELSE first
    PROVE  variable \in SUBSET AnyLocal /\ block.next \in Nat /\ Confined(Fresh(variable), block)
<1>1. block.next \in Nat /\ first <= block.next /\ (kind \in {"value", "error"} => first < block.next)
  OBVIOUS
<1>2. variable \in SUBSET AnyLocal
  BY DEF HandlerVariable, AnyLocal
<1>3. Below(variable \cup variable, block.next)
  <2> SUFFICES ASSUME NEW v \in variable, NEW i \in Nat, v = VariableInit(i)
               PROVE  i < block.next
    BY DEF Below
  <2>1. kind \in {"value", "error"} /\ v = VariableInit(first)
    BY DEF HandlerVariable
  <2>2. i = first
    BY <2>1, IncidentFacts
  <2>3. QED
    BY <1>1, <2>1, <2>2
<1>4. Confined(Fresh(variable), block)
  BY <1>1, <1>3 DEF Confined, Fresh
<1>5. QED
  BY <1>1, <1>2, <1>4

\* A control flow structure begins.
LEMMA BeginStep ==
    ASSUME AnalyseInv, NEW kind \in DOMAIN FirstBlock, Begin(kind)
    PROVE  AnalyseInv'
<1> DEFINE first == FirstBlock[kind]
           variable == HandlerVariable(first, Block.next)
           start == IF Alive THEN Len(code) + 1 ELSE 0
           block == NewBlock(first, Alive, start, {}, Block.next)
           more == Open(blocks) \cup {start}
           ending == code \o Opening(first, paths, variable)
<1>1. /\ blocks' = Append(blocks, block) /\ paths' = Record(BeginBranch(paths), variable)
      /\ Know(variable) /\ Emit(Opening(first, paths, variable))
      /\ pc' = pc /\ happened' = happened
  BY DEF Begin, Statement
<1>2. first \in {"then", "value", "loop"}
  BY DEF FirstBlock
<1> HIDE DEF first
<1>3. /\ code \in Seq(Instructions) /\ Nested(code, paths, blocks, memory) /\ paths[Len(paths)].branches = {}
      /\ Consistent(code, Facts(paths), Open(blocks)) /\ memory \subseteq AnyLocal
      /\ blocks \in Seq(BlockType) /\ Len(paths) = Len(blocks)
  BY DEF AnalyseInv, Analysed, Nested, Types
<1>4. Len(code) \in Nat /\ start \in Nat /\ Block.next \in Nat /\ Len(blocks) \in Nat \ {0} /\ Alive \in BOOLEAN
  <2>1. Len(code) \in Nat
    BY <1>3, LenProperties
  <2>2. QED
    BY <2>1, BlockFacts DEF Alive
<1>5. /\ block \in BlockType /\ block.kind = first /\ block.alive = Alive /\ block.start = start
      /\ block.exits = {} /\ block.first = Block.next
      /\ variable \in SUBSET AnyLocal /\ Confined(Fresh(variable), block)
  <2> DEFINE next == IF first \in {"value", "error"} THEN Block.next + 1 ELSE Block.next
  <2>1. block = [kind |-> first, alive |-> Alive, start |-> start, exits |-> {}, first |-> Block.next, next |-> next]
    BY DEF NewBlock
  <2> HIDE DEF start, block, next
  <2>2. /\ block.kind = first /\ block.alive = Alive /\ block.start = start
        /\ block.exits = {} /\ block.first = Block.next /\ block.next = next
    BY <2>1
  <2>3. variable \in SUBSET AnyLocal /\ block.next \in Nat /\ Confined(Fresh(variable), block)
    BY <1>4, <2>2, HandlerFacts DEF next
  <2>4. block \in BlockType
    BY <1>2, <1>4, <2>1, <2>2, <2>3 DEF BlockType
  <2>5. QED
    BY <2>2, <2>3, <2>4
<1> HIDE DEF block, variable
<1>6. /\ code' \in Seq(Instructions) /\ Extends(code, code')
      /\ Consistent(code', Facts(paths) \cup variable, more)
      /\ Alive => /\ Len(code) + 1 \in 1..Len(code') /\ code'[Len(code) + 1].op = "branch"
                  /\ code'[Len(code) + 1].certain = Facts(paths)
  <2>1. CASE Alive
    <3>1. Facts(paths) \in SUBSET (Anything \ {Returned})
      BY <2>1, AnalyserAnswers
    <3>2. Open(blocks) \subseteq more /\ Len(code) + 1 \in more
      BY <2>1
    <3>3. code' = ending
      BY <1>1, <2>1 DEF Emit
    <3>4. Consistent(code, Facts(paths), more)
      BY <1>3, <1>4, WeakerConsistent
    <3>5. MayOpen(code, paths, first, variable, more)
      BY <1>3, <1>5, <3>1, <3>2, <3>4 DEF MayOpen
    <3>6. ending = code \o Opening(first, paths, variable) /\ first \in {"then", "loop", "value"}
      BY <1>2
    <3> HIDE DEF more, ending
    <3>7. /\ ending \in Seq(Instructions) /\ Extends(code, ending)
          /\ Consistent(ending, Facts(paths) \cup variable, more)
          /\ Len(code) + 1 \in 1..Len(ending) /\ ending[Len(code) + 1].op = "branch"
          /\ ending[Len(code) + 1].certain = Facts(paths)
      <4>1. ending \in Seq(Instructions)
        BY <3>5, <3>6, OpeningFacts
      <4>2. Extends(code, ending)
        BY <3>5, <3>6, OpeningFacts
      <4>3. \A facts : facts \subseteq Facts(paths) \cup variable => Consistent(ending, facts, more)
        BY <3>5, <3>6, OpeningFacts
      <4>4. Len(code) + 1 \in 1..Len(ending) /\ ending[Len(code) + 1].op = "branch"
        BY <3>5, <3>6, OpeningFacts
      <4>5. ending[Len(code) + 1].certain = Facts(paths)
        BY <3>5, <3>6, OpeningFacts
      <4>6. QED
        BY <4>1, <4>2, <4>3, <4>4, <4>5
    <3>8. QED
      BY <3>3, <3>7
  <2>2. CASE ~ Alive
    <3>1. code' = code /\ Returned \in Facts(paths)
      BY <1>1, <2>2, AnalyserAnswers DEF Emit
    <3>2. Consistent(code, Facts(paths) \cup variable, Open(blocks))
      BY <1>3, <3>1, DeadConsistent
    <3>3. Consistent(code, Facts(paths) \cup variable, more)
      BY <1>4, <3>2, WeakerConsistent
    <3>4. Extends(code, code)
      BY <1>4 DEF Extends
    <3>5. QED
      BY <1>3, <2>2, <3>1, <3>3, <3>4
  <2>3. QED
    BY <2>1, <2>2
<1>7. Led(code', block, Len(paths) + 1, Facts(paths), paths[Len(paths)].branches)
  <2>1. Len(paths) + 1 # 1
    BY <1>3, <1>4
  <2>2. Alive <=> Returned \notin Facts(paths)
    BY AnalyserAnswers
  <2>3. Len(code) + 1 # 0
    BY <1>4
  <2>4. QED
    BY <1>2, <1>5, <1>6, <2>1, <2>2, <2>3 DEF Led
<1>8. memory' \subseteq memory \cup variable
  BY <1>1 DEF Know
<1>9. block.kind # "function" /\ block.first = blocks[Len(blocks)].next
  BY <1>2, <1>5 DEF Block
<1>10. /\ Nested(code', paths', blocks', memory')
       /\ paths'[Len(paths')].branches = {}
       /\ Facts(paths') = Facts(paths) \cup variable
  <2> HIDE DEF start
  <2>1. MayBegin(code, paths, blocks, memory, code', variable, memory', block)
    BY <1>3, <1>5, <1>6, <1>7, <1>8, <1>9 DEF MayBegin
  <2>2. paths' = Record(BeginBranch(paths), variable) /\ blocks' = Append(blocks, block)
    BY <1>1
  <2>3. Nested(code', paths', blocks', memory')
    BY <2>1, <2>2, BlockBegun
  <2>4. paths'[Len(paths')].branches = {}
    BY <2>1, <2>2, BlockBegun
  <2>5. Facts(paths') = Facts(paths) \cup variable
    BY <2>1, <2>2, BlockBegun
  <2>6. QED
    BY <2>3, <2>4, <2>5
<1>11. Open(blocks') = more
  <2>1. Open(Append(blocks, block)) = Open(blocks) \cup {block.start} \cup block.exits
    BY <1>3, <1>5, OpenFacts
  <2>2. QED
    BY <1>1, <1>5, <2>1
<1>12. Analysed(code', paths', blocks', memory')
  BY <1>6, <1>10, <1>11 DEF Analysed
<1>13. QED
  BY <1>1, <1>12 DEF AnalyseInv

\* The next block of a structure.
LEMMA NextBlockStep ==
    ASSUME AnalyseInv, NEW kind \in {"then", "else", "error"}, NextBlock(kind)
    PROVE  AnalyseInv'
<1> DEFINE left == code \o Leaving
           q == EndBranch(PoppedScope)
           front == SubSeq(blocks, 1, Len(blocks) - 1)
           outer == Outer(paths, Len(paths) - 1)
           begin == Len(left) + 1
           variable == HandlerVariable(kind, Block.first)
           start == IF Block.alive /\ kind = "then" THEN begin ELSE 0
           block == NewBlock(kind, Block.alive, start, Exits(left), Block.first)
           patched == Patch(left, Branching(Block.start), begin)
           more == Open(front) \cup {start} \cup Exits(left)
<1>1. /\ CheckScope /\ kind \in Followers(Block.kind)
      /\ paths' = Record(BeginBranch(q), variable)
      /\ blocks' = [blocks EXCEPT ![Len(blocks)] = block]
      /\ memory' = KnownAfterScope \cup (IF Block.alive THEN variable ELSE {})
      /\ code' = IF Block.alive THEN patched \o Opening(kind, q, variable) ELSE code
      /\ pc' = pc /\ happened' = happened
  BY DEF NextBlock
<1>2. Block.kind # "function"
  BY <1>1 DEF Followers
<1>3. /\ paths \in Seq(Branches) /\ blocks \in Seq(BlockType) /\ Len(blocks) = Len(paths) /\ Len(paths) > 0
      /\ code \in Seq(Instructions) /\ Nested(code, paths, blocks, memory) /\ paths[Len(paths)].branches = {}
      /\ Consistent(code, Facts(paths), Open(blocks))
  BY DEF AnalyseInv, Analysed, Nested, Types
<1>4. Len(paths) \in Nat \ {0} /\ Len(paths) \in 1..Len(paths) /\ Len(code) \in Nat
  BY <1>3, LenProperties
<1>5. Block = blocks[Len(paths)] /\ Block \in BlockType /\ Block.first \in Nat /\ Block.alive \in BOOLEAN
  BY <1>3, BlockFacts DEF Block, BlockType
<1>6. Led(code, Block, Len(paths), outer, paths[Len(paths) - 1].branches)
  BY <1>3, <1>4, <1>5 DEF Nested, Pending
<1>7. Len(paths) # 1 /\ Len(paths) - 1 \in Nat \ {0}
  <2>1. Len(paths) # 1
    BY <1>2, <1>6 DEF Led
  <2>2. QED
    BY <1>4, <2>1
<1>8. /\ left \in Seq(Instructions) /\ Extends(code, left)
      /\ \A d \in Seq(Instructions) : Extends(code, d) => Nested(d, q, front, KnownAfterScope)
      /\ Facts(q) = outer /\ Len(q) = Len(paths) - 1
      /\ \A new : Consistent(left, new, Open(front) \cup {Block.start} \cup Exits(left))
      /\ Block.start # 0 => /\ Block.start \in 1..Len(left)
                            /\ left[Block.start].op = "branch" /\ left[Block.start].certain = outer
      /\ \A e \in Exits(left) :
             /\ e \in 1..Len(left) /\ left[e].op = "jump"
             /\ \E b \in q[Len(q)].branches :
                    Returned \notin b.certain /\ outer \cup b.certain \subseteq left[e].certain
  BY <1>1, <1>2, BlockEnded
<1>9. Len(left) \in Nat /\ begin \in Nat \ {0}
  BY <1>8, LenProperties
<1>10. outer \subseteq Facts(paths) /\ outer \subseteq Anything
  <2>1. \A k \in Nat : k <= Len(paths) => Outer(paths, k) \subseteq Outer(paths, Len(paths))
    BY <1>4, OuterFacts
  <2>2. Len(paths) - 1 <= Len(paths)
    BY <1>4
  <2>3. QED
    BY <1>7, <2>1, <2>2, AnalyserAnswers DEF Facts
<1>11. /\ block.kind = kind /\ block.alive = Block.alive /\ block.start = start /\ block.exits = Exits(left)
       /\ block.first = Block.first /\ block \in BlockType
       /\ variable \in SUBSET AnyLocal /\ Confined(Fresh(variable), block)
  <2> DEFINE next == IF kind \in {"value", "error"} THEN Block.first + 1 ELSE Block.first
  <2>1. block = [kind |-> kind, alive |-> Block.alive, start |-> start, exits |-> Exits(left),
                 first |-> Block.first, next |-> next]
    BY DEF NewBlock
  <2>2. start \in Nat /\ Exits(left) \in SUBSET Nat
    <3>1. \A e \in 1..Len(left) : e \in Nat
      BY <1>9
    <3>2. QED
      BY <1>8, <1>9, <3>1
  <2> HIDE DEF start, block, next, left, variable
  <2>3. /\ block.kind = kind /\ block.alive = Block.alive /\ block.start = start
        /\ block.exits = Exits(left) /\ block.first = Block.first /\ block.next = next
    BY <2>1
  <2>4. variable \in SUBSET AnyLocal /\ block.next \in Nat /\ Confined(Fresh(variable), block)
    BY <1>5, <2>3, HandlerFacts DEF next, variable
  <2>5. block \in BlockType
    BY <1>5, <2>1, <2>2, <2>3, <2>4 DEF BlockType
  <2>6. QED
    BY <2>3, <2>4, <2>5
<1> HIDE DEF block, variable, q, front
<1>12. Block.alive <=> Returned \notin outer
  BY <1>6 DEF Led
<1>13. /\ code' \in Seq(Instructions) /\ Extends(left, code')
       /\ Consistent(code', outer \cup variable, more)
       /\ start # 0 => /\ start \in 1..Len(code') /\ code'[start].op = "branch" /\ code'[start].certain = outer
  <2>1. CASE Block.alive
    <3>1. \A n \in 1..Len(left) : n \in Branching(Block.start) /\ Jumps(left[n]) => outer \subseteq After(left[n])
      BY <1>8 DEF Branching, After
    <3>2. Consistent(left, outer, Open(front) \cup {Block.start} \cup Exits(left))
      BY <1>8
    <3>3. \A n \in 1..Len(left) : n \in Open(front) \cup {Block.start} \cup Exits(left) =>
              n \in more \/ n \in Branching(Block.start)
      <4>1. \A n \in 1..Len(left) : n > 0
        OBVIOUS
      <4>2. QED
        BY <4>1 DEF Branching
    <3> HIDE DEF left, more, outer
    <3>4. /\ patched \in Seq(Instructions) /\ Len(patched) = Len(left)
          /\ \A n \in 1..Len(left) : patched[n].op = left[n].op /\ patched[n].certain = left[n].certain
          /\ Consistent(patched, outer, more)
      <4> DEFINE open == Open(front) \cup {Block.start} \cup Exits(left)
      <4> HIDE DEF open
      <4>1. MayPatch(left, outer, open, Branching(Block.start), more)
        BY <1>8, <3>1, <3>2, <3>3 DEF MayPatch, open
      <4>2. patched = Patch(left, Branching(Block.start), Len(left) + 1)
        OBVIOUS
      <4> HIDE DEF patched
      <4>3. patched \in Seq(Instructions) /\ Len(patched) = Len(left)
        BY <4>1, <4>2, PatchConsistent
      <4>4. \A n \in 1..Len(left) : patched[n].op = left[n].op /\ patched[n].certain = left[n].certain
        BY <4>1, <4>2, PatchConsistent
      <4>5. Consistent(patched, outer, more)
        BY <4>1, <4>2, PatchConsistent
      <4>6. QED
        BY <4>3, <4>4, <4>5
    <3> HIDE DEF patched
    <3>5. outer \in SUBSET (Anything \ {Returned})
      BY <1>10, <1>12, <2>1
    <3>6. kind \in {"then", "loop", "value"} => Len(patched) + 1 \in more
      BY <2>1, <3>4 DEF more
    <3>7. MayOpen(patched, q, kind, variable, more)
      BY <1>8, <1>11, <3>4, <3>5, <3>6 DEF MayOpen
    <3>8. code' = patched \o Opening(kind, q, variable)
      BY <1>1, <2>1
    <3>9. code' \in Seq(Instructions)
      BY <3>7, <3>8, OpeningFacts
    <3>10. Extends(patched, code')
      BY <3>7, <3>8, OpeningFacts
    <3>11. Consistent(code', outer \cup variable, more)
      <4>1. Consistent(patched \o Opening(kind, q, variable), outer \cup variable, more)
        <5>1. outer \cup variable \subseteq Facts(q) \cup variable
          BY <1>8
        <5>2. QED
          BY <3>7, <5>1, OpeningFacts, ZenonT(30)
      <4>2. QED
        BY <3>8, <4>1
    <3>12. kind = "then" => begin \in 1..Len(code') /\ code'[begin].op = "branch"
      <4>1. kind = "then" => Len(patched) + 1 \in 1..Len(code')
        BY <3>7, <3>8, OpeningFacts
      <4>2. kind = "then" => code'[Len(patched) + 1].op = "branch"
        BY <3>7, <3>8, OpeningFacts
      <4>3. Len(patched) + 1 = begin
        BY <3>4
      <4>4. QED
        BY <4>1, <4>2, <4>3
    <3>13. kind = "then" => code'[begin].certain = outer
      <4>1. kind \in {"then", "loop", "value"} => code'[Len(patched) + 1].certain = Facts(q)
        BY <3>7, <3>8, OpeningFacts
      <4>2. kind = "then" => kind \in {"then", "loop", "value"}
        OBVIOUS
      <4>3. QED
        BY <1>8, <3>4, <4>1, <4>2
    <3>14. Extends(left, code')
      <4>1. Extends(left, patched)
        BY <1>9, <3>4 DEF Extends
      <4>2. Len(code') \in Nat
        BY <3>9, LenProperties
      <4>3. QED
        BY <1>9, <3>4, <3>10, <4>1, <4>2, ExtendsTwice
    <3>15. QED
      BY <2>1, <3>9, <3>11, <3>12, <3>13, <3>14
  <2>2. CASE ~ Block.alive
    <3>1. Returned \in Facts(paths) /\ code' = code
      BY <1>1, <1>10, <1>12, <2>2
    <3>2. left = code
      <4>1. ~ Alive
        BY <3>1, AnalyserAnswers
      <4>2. QED
        BY <1>3, <4>1, ConcatOne DEF Leaving
    <3>3. \A new : Consistent(code, new, Open(front) \cup {Block.start} \cup Exits(left))
      BY <1>8, <3>2
    <3>4. Block.start = 0
      <4>1. ASSUME Block.start \in 1..Len(code), code[Block.start].certain = outer
            PROVE  FALSE
        <5>1. code[Block.start] \in Instructions
          BY <1>3, <4>1, ElementOfSeq
        <5>2. QED
          BY <1>12, <2>2, <4>1, <5>1 DEF Instructions
      <4>2. QED
        BY <1>8, <3>2, <4>1
    <3>5. Consistent(code, outer \cup variable, more)
      <4>1. \A k \in 1..Len(code) : k \in Open(front) \cup {Block.start} \cup Exits(left) => k \in more
        BY <2>2, <3>4
      <4> HIDE DEF more, outer, left
      <4>2. Consistent(code, outer \cup variable, Open(front) \cup {Block.start} \cup Exits(left))
        BY <3>3
      <4>3. QED
        BY <1>4, <4>1, <4>2, WeakerConsistent
    <3>6. Extends(code, code) /\ start = 0
      BY <1>4, <2>2 DEF Extends
    <3>7. QED
      BY <1>3, <3>1, <3>2, <3>5, <3>6
  <2>3. QED
    BY <1>5, <2>1, <2>2
<1> HIDE DEF left, more, start, outer
<1>14. Len(code') \in Nat /\ Extends(code, code')
  <2>1. Len(code') \in Nat
    BY <1>13, LenProperties
  <2>2. QED
    BY <1>4, <1>8, <1>9, <1>13, <2>1, ExtendsTwice
<1>15. Led(code', block, Len(q) + 1, Facts(q), q[Len(q)].branches)
  <2>1. Len(q) + 1 # 1
    BY <1>7, <1>8
  <2>2. \A e \in 1..Len(left) : e \in 1..Len(code') /\ code'[e].op = left[e].op /\ code'[e].certain = left[e].certain
    BY <1>9, <1>13, <1>14 DEF Extends
  <2>3. kind \in {"else", "error"} => start = 0
    BY DEF start
  <2>4. block.alive <=> Returned \notin Facts(q)
    BY <1>8, <1>11, <1>12
  <2>5. block.start # 0 => /\ block.start \in 1..Len(code')
                           /\ code'[block.start].op = "branch" /\ code'[block.start].certain = Facts(q)
    BY <1>8, <1>11, <1>13
  <2>6. \A e \in block.exits :
            /\ e \in 1..Len(code') /\ code'[e].op = "jump"
            /\ \E b \in q[Len(q)].branches :
                   Returned \notin b.certain /\ Facts(q) \cup b.certain \subseteq code'[e].certain
    BY <1>8, <1>11, <2>2
  <2>7. QED
    BY <1>11, <2>1, <2>3, <2>4, <2>5, <2>6 DEF Led
<1>16. blocks' = Append(front, block) /\ block.first = front[Len(front)].next
  <2>1. /\ front \in Seq(BlockType) /\ Len(front) = Len(blocks) - 1
        /\ \A m \in 1..(Len(blocks) - 1) : front[m] = blocks[m]
    <3>1. blocks # <<>>
      BY <1>3, EmptySeq
    <3>2. QED
      BY <1>3, <3>1, FrontFacts DEF front
  <2>2. \A m, n \in 1..Len(blocks) : n # 1 => blocks[n].first = blocks[n - 1].next
    BY <1>3 DEF Nested, Scoped
  <2>3. block.first = front[Len(front)].next
    <3>1. Len(blocks) - 1 \in 1..(Len(blocks) - 1)
      BY <1>3, <1>4, <1>7
    <3>2. QED
      BY <1>3, <1>4, <1>5, <1>7, <1>11, <2>1, <2>2, <3>1
  <2>4. blocks' = Append(front, block)
    <3> DEFINE x == [blocks EXCEPT ![Len(blocks)] = block]
               y == Append(front, block)
    <3>1. /\ x \in Seq(BlockType) /\ Len(x) = Len(blocks) /\ x[Len(blocks)] = block
          /\ \A m \in 1..Len(blocks) : m # Len(blocks) => x[m] = blocks[m]
      BY <1>3, <1>11, LastReplaced
    <3>2. /\ y \in Seq(BlockType) /\ Len(y) = Len(front) + 1 /\ y[Len(front) + 1] = block
          /\ \A m \in 1..Len(front) : y[m] = front[m]
      BY <1>11, <2>1, AppendFacts
    <3> HIDE DEF x, y
    <3>3. Len(front) + 1 = Len(blocks) /\ \A m \in 1..Len(blocks) : m = Len(blocks) \/ m \in 1..Len(front)
      BY <1>3, <1>4, <2>1
    <3>4. Len(x) = Len(y)
      BY <3>1, <3>2, <3>3
    <3>5. \A m \in 1..Len(x) : x[m] = y[m]
      <4> TAKE m \in 1..Len(x)
      <4>1. m \in 1..Len(blocks)
        BY <3>1
      <4>2. CASE m = Len(blocks)
        BY <3>1, <3>2, <3>3, <4>2
      <4>3. CASE m # Len(blocks)
        BY <2>1, <3>1, <3>2, <3>3, <4>1, <4>3
      <4>4. QED
        BY <4>2, <4>3
    <3>6. x = y
      BY <3>1, <3>2, <3>4, <3>5, SeqEqual
    <3>7. QED
      BY <1>1, <3>6 DEF x, y
  <2>5. QED
    BY <2>3, <2>4
<1>17. memory' \subseteq KnownAfterScope \cup variable
  BY <1>1
<1>18. MayBegin(code', q, front, KnownAfterScope, code', variable, memory', block)
  <2>1. Nested(code', q, front, KnownAfterScope)
    BY <1>8, <1>13, <1>14
  <2>2. Extends(code', code')
    BY <1>14 DEF Extends
  <2>3. block.kind # "function"
    BY <1>11
  <2>4. QED
    BY <1>11, <1>13, <1>15, <1>16, <1>17, <2>1, <2>2, <2>3 DEF MayBegin
<1>19. paths' = Record(BeginBranch(q), variable) /\ blocks' = Append(front, block)
  BY <1>1, <1>16
<1>20. Nested(code', paths', blocks', memory')
  BY <1>18, <1>19, BlockBegun
<1>21. paths'[Len(paths')].branches = {}
  BY <1>18, <1>19, BlockBegun
<1>22. Facts(paths') = outer \cup variable
  <2>1. Facts(paths') = Facts(q) \cup variable
    BY <1>18, <1>19, BlockBegun
  <2>2. QED
    BY <1>8, <2>1
<1>23. Open(blocks') = more
  <2>1. front \in Seq(BlockType)
    BY <1>18 DEF MayBegin, Nested, Types
  <2>2. Open(Append(front, block)) = Open(front) \cup {block.start} \cup block.exits
    BY <1>11, <2>1, OpenFacts
  <2>3. QED
    BY <1>11, <1>16, <2>2 DEF more
<1>24. Analysed(code', paths', blocks', memory')
  BY <1>13, <1>20, <1>21, <1>22, <1>23 DEF Analysed
<1>25. QED
  BY <1>1, <1>24 DEF AnalyseInv

\* What the branches of a structure are finished with.
LEMMA FinishFacts ==
    ASSUME NEW p \in Seq(Branches), Len(p) > 0, NEW q, NEW certain,
           \/ q = FinishMutualExclusiveBranches(p) /\ certain = CertainIncidents(p[Len(p)].branches)
           \/ q = FinishUncertainBranches(p) /\ certain = {}
    PROVE  /\ FinishedWith(p, certain, q)
           /\ \A b \in p[Len(p)].branches : Returned \notin b.certain => certain \subseteq b.certain
<1> DEFINE n == Len(p)
           branches == p[n].branches
           potential == p[n].potential \cup PotentialIncidents(branches)
           all == p[n].certain \cup certain
           e == [p[n] EXCEPT !.certain = all, !.potential = potential, !.branches = {}]
<1>1. p \in Seq(Branches) /\ n > 0 /\ n \in Nat /\ n \in 1..n /\ p[n] \in Branches
  BY LenProperties, ElementOfSeq
<1>2. branches \subseteq Ended /\ p[n].certain \subseteq Anything /\ p[n].potential \subseteq Anything
  BY <1>1 DEF Branches
<1>3. CertainIncidents(branches) \subseteq UNION {b.certain : b \in branches}
  BY DEF CertainIncidents, IntersectCertain, Continuing
<1>4. \A b \in branches : Returned \notin b.certain => CertainIncidents(branches) \subseteq b.certain
  BY DEF CertainIncidents, IntersectCertain, Continuing
<1>5. certain \subseteq UNION {b.certain : b \in branches}
  BY <1>3
<1>6. potential \subseteq Anything /\ p[n].certain \cup certain \subseteq Anything
  BY <1>2, <1>5 DEF Ended, PotentialIncidents
<1>7. q = [p EXCEPT ![n] = e]
  <2>1. CASE q = FinishMutualExclusiveBranches(p) /\ certain = CertainIncidents(branches)
    <3>1. q = [p EXCEPT ![n].certain = @ \cup CertainIncidents(branches),
                        ![n].potential = @ \cup PotentialIncidents(branches),
                        ![n].branches = {}]
      BY <2>1 DEF FinishMutualExclusiveBranches
    <3>2. QED
      BY <1>1, <2>1, <3>1 DEF Branches
  <2>2. CASE q = FinishUncertainBranches(p) /\ certain = {}
    <3>1. q = [p EXCEPT ![n].potential = @ \cup PotentialIncidents(branches), ![n].branches = {}]
      BY <2>2 DEF FinishUncertainBranches
    <3>2. all = p[n].certain
      BY <2>2
    <3> HIDE DEF all
    <3>3. QED
      BY <1>1, <3>1, <3>2 DEF Branches
  <2>3. QED
    BY <2>1, <2>2
<1>8. e \in Branches /\ e.certain = p[n].certain \cup certain /\ e.potential = potential /\ e.branches = {}
  <2> HIDE DEF potential
  <2>1. QED
    BY <1>1, <1>6 DEF Branches
<1> HIDE DEF e
<1>9. q \in Seq(Branches) /\ Len(q) = n /\ (\A m \in 1..n : m # n => q[m] = p[m]) /\ q[n] = e
  BY <1>1, <1>7, <1>8, LastReplaced
<1>10. FinishedWith(p, certain, q)
  BY <1>5, <1>8, <1>9 DEF FinishedWith
<1>11. QED
  BY <1>4, <1>10

\* The end of a structure.
LEMMA EndStructureStep ==
    ASSUME AnalyseInv, EndStructure
    PROVE  AnalyseInv'
<1> DEFINE left == code \o Leaving
           q == EndBranch(PoppedScope)
           front == SubSeq(blocks, 1, Len(blocks) - 1)
           outer == Outer(paths, Len(paths) - 1)
           sources == Branching(Block.start) \cup Exits(left)
           certain == IF Block.kind \in {"else", "error"} THEN CertainIncidents(q[Len(q)].branches) ELSE {}
           open == Open(front) \cup {Block.start} \cup Exits(left)
           facts == outer \cup certain
<1>1. /\ CheckScope /\ Block.kind \in {"then", "else", "error", "loop"}
      /\ code' = Patch(left, sources, Len(left) + 1)
      /\ paths' = Finished(q) /\ memory' = KnownAfterScope /\ blocks' = front
      /\ pc' = pc /\ happened' = happened
  BY DEF EndStructure
<1>2. Block.kind # "function"
  BY <1>1
<1>3. /\ blocks \in Seq(BlockType) /\ code \in Seq(Instructions) /\ Len(blocks) = Len(paths)
      /\ Len(blocks) \in Nat \ {0} /\ Len(blocks) \in 1..Len(blocks)
      /\ Nested(code, paths, blocks, memory)
  BY BlockFacts DEF AnalyseInv, Analysed, Nested, Types
<1>4. Block = blocks[Len(blocks)]
  BY DEF Block
<1>5. Led(code, Block, Len(paths), outer, paths[Len(paths) - 1].branches)
  BY <1>3, <1>4 DEF Nested, Pending
<1>6. Block.kind \in {"else", "error"} => Block.start = 0
  BY <1>5 DEF Led
<1>7. /\ left \in Seq(Instructions) /\ Extends(code, left)
      /\ \A d \in Seq(Instructions) : Extends(code, d) => Nested(d, q, front, KnownAfterScope)
      /\ Facts(q) = outer
      /\ \A new : Consistent(left, new, open)
      /\ Block.start # 0 => /\ Block.start \in 1..Len(left)
                            /\ left[Block.start].op = "branch" /\ left[Block.start].certain = outer
      /\ \A e \in Exits(left) :
             /\ e \in 1..Len(left) /\ left[e].op = "jump"
             /\ \E b \in q[Len(q)].branches :
                    Returned \notin b.certain /\ outer \cup b.certain \subseteq left[e].certain
  BY <1>1, <1>2, BlockEnded
<1>8. Len(left) \in Nat /\ Len(code) \in Nat
  BY <1>3, <1>7, LenProperties
<1> HIDE DEF left, q, front, outer
<1>9. \/ paths' = FinishMutualExclusiveBranches(q) /\ certain = CertainIncidents(q[Len(q)].branches)
      \/ paths' = FinishUncertainBranches(q) /\ certain = {}
  BY <1>1 DEF Finished
<1>10. Nested(code, q, front, KnownAfterScope)
  <2>1. Extends(code, code)
    BY <1>8 DEF Extends
  <2>2. QED
    BY <1>3, <1>7, <2>1
<1>11. /\ FinishedWith(q, certain, paths')
       /\ \A b \in q[Len(q)].branches : Returned \notin b.certain => certain \subseteq b.certain
  <2> HIDE DEF certain
  <2>1. q \in Seq(Branches) /\ Len(q) > 0
    BY <1>10 DEF Nested, Types
  <2>2. QED
    BY <1>9, <2>1, FinishFacts
<1>12. MayPatch(left, facts, open, sources, Open(front))
  <2>1. \A n \in 1..Len(left) : n \in sources => facts \subseteq After(left[n])
    <3> SUFFICES ASSUME NEW n \in 1..Len(left), n \in sources
                 PROVE  facts \subseteq After(left[n])
      OBVIOUS
    <3>1. CASE n \in Exits(left)
      <4>1. /\ left[n].op = "jump"
            /\ \E b \in q[Len(q)].branches :
                    Returned \notin b.certain /\ outer \cup b.certain \subseteq left[n].certain
        BY <1>7, <3>1
      <4>2. left[n].certain \subseteq After(left[n])
        BY <4>1 DEF After
      <4> HIDE DEF certain
      <4>3. QED
        BY <1>11, <4>1, <4>2
    <3>2. CASE n \in Branching(Block.start)
      <4>1. n = Block.start /\ Block.start # 0
        BY <3>2 DEF Branching
      <4>2. certain = {}
        BY <1>6, <4>1
      <4>3. left[n].op = "branch" /\ left[n].certain = outer
        BY <1>7, <4>1
      <4> HIDE DEF certain
      <4>4. QED
        BY <4>2, <4>3 DEF After
    <3>3. QED
      BY <3>1, <3>2
  <2>2. \A n \in 1..Len(left) : n \in open => n \in Open(front) \/ n \in sources
    <3>1. \A n \in 1..Len(left) : n > 0
      OBVIOUS
    <3>2. QED
      BY <3>1 DEF Branching
  <2>3. Consistent(left, facts, open)
    BY <1>7
  <2> HIDE DEF facts, open, sources
  <2>4. QED
    BY <1>7, <2>1, <2>2, <2>3 DEF MayPatch
<1> HIDE DEF facts, open, sources, certain
<1>13. code' = Patch(left, sources, Len(left) + 1)
  BY <1>1
<1>14. code' \in Seq(Instructions) /\ Len(code') = Len(left)
  BY <1>12, <1>13, PatchConsistent
<1>15. \A n \in 1..Len(left) : code'[n].op = left[n].op /\ code'[n].certain = left[n].certain
  BY <1>12, <1>13, PatchConsistent
<1>16. Consistent(code', facts, Open(front))
  BY <1>12, <1>13, PatchConsistent
<1>17. Nested(code', q, front, KnownAfterScope)
  <2>1. Extends(left, code')
    BY <1>8, <1>14, <1>15 DEF Extends
  <2>2. Extends(code, code')
    BY <1>7, <1>8, <1>14, <2>1, ExtendsTwice
  <2>3. QED
    BY <1>7, <1>14, <2>2
<1>18. Nested(code', paths', front, KnownAfterScope)
  BY <1>11, <1>17, BranchesFinished
<1>19. paths'[Len(paths')].branches = {}
  BY <1>11 DEF FinishedWith
<1>20. Facts(paths') = facts
  <2>1. \A i : i \in Facts(paths') <=> i \in Facts(q) \/ i \in certain
    BY <1>11, <1>17, BranchesFinished
  <2>2. QED
    BY <1>7, <2>1 DEF facts
<1>21. Analysed(code', paths', blocks', memory')
  BY <1>1, <1>16, <1>18, <1>19, <1>20 DEF Analysed
<1>22. QED
  BY <1>1, <1>21 DEF AnalyseInv

(***************************************************************************)
(* The body and its execution                                              *)
(***************************************************************************)

\* Code that nothing leaves except by a return can be run.
LEMMA CodeRuns ==
    ASSUME NEW c \in Seq(Instructions), NEW facts, NEW open, Consistent(c, facts, open), Returned \in facts,
           \A m \in 1..Len(c) : m \notin open
    PROVE  /\ Len(c) \in Nat \ {0} /\ c[1].certain = {}
           /\ \A m \in 1..Len(c) :
                  /\ c[m] \in Instructions /\ Sound(c[m])
                  /\ Falls(c[m]) => m + 1 \in 1..Len(c) /\ c[m + 1].certain \subseteq After(c[m])
                  /\ Jumps(c[m]) => c[m].target \in 1..Len(c) /\ c[c[m].target].certain \subseteq After(c[m])
<1>1. /\ Len(c) \in Nat \ {0}
      /\ \A n \in 1..Len(c) : /\ Falls(c[n]) => n # Len(c)
                              /\ Jumps(c[n]) /\ n \notin open => c[n].target # Len(c) + 1
  BY Unreached
<1>2. \A n \in 1..Len(c) : Fact(c, facts, n) = c[n].certain
  BY <1>1 DEF Fact
<1>3. c[1].certain = {}
  <2>1. 1 \in 1..Len(c)
    BY <1>1
  <2>2. QED
    BY <1>2, <2>1 DEF Consistent
<1>4. ASSUME NEW m \in 1..Len(c)
      PROVE  /\ c[m] \in Instructions /\ Sound(c[m])
             /\ Falls(c[m]) => m + 1 \in 1..Len(c) /\ c[m + 1].certain \subseteq After(c[m])
             /\ Jumps(c[m]) => c[m].target \in 1..Len(c) /\ c[c[m].target].certain \subseteq After(c[m])
  <2>1. c[m] \in Instructions
    BY ElementOfSeq
  <2>2. Falls(c[m]) => m + 1 \in 1..Len(c)
    BY <1>1
  <2>3. Falls(c[m]) => Fact(c, facts, m + 1) \subseteq After(c[m])
    BY DEF Consistent
  <2>4. Jumps(c[m]) => c[m].target \in 1..(Len(c) + 1) /\ Fact(c, facts, c[m].target) \subseteq After(c[m])
    BY DEF Consistent
  <2>5. Jumps(c[m]) => c[m].target \in 1..Len(c)
    BY <1>1, <2>4
  <2>6. Sound(c[m])
    BY DEF Consistent
  <2>7. QED
    BY <1>2, <2>1, <2>2, <2>3, <2>4, <2>5, <2>6
<1>5. QED
  BY <1>1, <1>3, <1>4

\* At the end of the body, every path has returned or returns then.
LEMMA EndBodyStep ==
    ASSUME AnalyseInv, EndBody
    PROVE  RunInv'
<1> DEFINE return == Instruction("return", {}, memory)
           end == InstructionAt(<<>>, "end", {}, {})
           body == code \o (IF Alive THEN <<return>> ELSE <<>>)
           open == Open(blocks)
<1>1. /\ Block.kind = "function" /\ (Certainly(Returned) \/ Initialized)
      /\ code' = body \o <<end>> /\ pc' = pc /\ happened' = happened
  BY DEF EndBody
<1>2. /\ blocks \in Seq(BlockType) /\ code \in Seq(Instructions) /\ Len(blocks) = Len(paths) /\ memory \subseteq AnyLocal
      /\ Len(blocks) \in Nat \ {0} /\ Len(blocks) \in 1..Len(blocks)
      /\ Nested(code, paths, blocks, memory) /\ Consistent(code, Facts(paths), open)
      /\ pc = 1 /\ happened = {}
  BY BlockFacts DEF AnalyseInv, Analysed, Nested, Types
<1>3. \A m : m \in open => m = 0
  <2>1. Led(code, Block, Len(blocks), Outer(paths, Len(blocks) - 1), paths[Len(blocks) - 1].branches)
    BY <1>2 DEF Nested, Pending, Block
  <2>2. Len(blocks) = 1 /\ Block.start = 0 /\ Block.exits = {}
    BY <1>1, <2>1 DEF Led
  <2>3. \A n \in 1..Len(blocks) : blocks[n] = Block
    BY <2>2 DEF Block
  <2>4. QED
    BY <2>2, <2>3 DEF Open
<1>4. body \in Seq(Instructions) /\ Consistent(body, {Returned}, open)
  <2>1. CASE Alive
    <3>1. return \in Instructions
      <4>1. {} \in SUBSET (Anything \ {Returned}) /\ memory \in SUBSET Anything
        BY <1>2, VariableFacts
      <4>2. QED
        BY <2>1, <4>1, AnalyserAnswers
    <3>2. return.op = "return" /\ return.certain = Facts(paths)
      BY AnalyserAnswers
    <3> HIDE DEF return, open
    <3>3. ~ Certainly(Returned)
      BY <2>1 DEF Alive
    <3>4. Own \cup {CalledSuperInitializer} \subseteq Facts(paths)
      BY <1>1, <3>3, InitializedFacts
    <3>5. Sound(return) /\ ~ Falls(return) /\ ~ Jumps(return) /\ return.certain \subseteq Facts(paths)
      BY <3>2, <3>4 DEF Sound, Falls, Jumps
    <3>6. body = Append(code, return)
      BY <1>2, <2>1, <3>1, ConcatOne
    <3>7. Append(code, return) \in Seq(Instructions)
      BY <1>2, <3>1, AppendFacts
    <3>8. Consistent(Append(code, return), {Returned}, open)
      BY <1>2, <3>1, <3>5, AppendConsistent
    <3>9. QED
      BY <3>6, <3>7, <3>8
  <2>2. CASE ~ Alive
    <3>1. body = code
      BY <1>2, <2>2, ConcatOne
    <3>2. Returned \in Facts(paths)
      BY <2>2, AnalyserAnswers
    <3> HIDE DEF open, body
    <3>3. Consistent(code, {Returned}, open)
      BY <1>2, <3>2, DeadConsistent
    <3>4. QED
      BY <1>2, <3>1, <3>3
  <2>3. QED
    BY <2>1, <2>2
<1> HIDE DEF body, end, open
<1>5. \A m \in 1..Len(body) : m \notin open
  <2>1. \A m \in 1..Len(body) : m # 0
    OBVIOUS
  <2>2. QED
    BY <1>3, <2>1
<1>6. Returned \in {Returned}
  OBVIOUS
<1>7. /\ Len(body) \in Nat \ {0} /\ body[1].certain = {}
      /\ \A m \in 1..Len(body) :
             /\ body[m] \in Instructions /\ Sound(body[m])
             /\ Falls(body[m]) => m + 1 \in 1..Len(body) /\ body[m + 1].certain \subseteq After(body[m])
             /\ Jumps(body[m]) => body[m].target \in 1..Len(body) /\ body[body[m].target].certain \subseteq After(body[m])
  BY <1>4, <1>5, <1>6, CodeRuns
<1>8. Len(code') = Len(body) + 1 /\ \A m \in 1..Len(body) : code'[m] = body[m]
  <2> DEFINE S == Instructions \cup {end}
  <2>1. body \in Seq(S)
    <3>1. \A m \in 1..Len(body) : body[m] \in S
      BY <1>7
    <3>2. body = [m \in 1..Len(body) |-> body[m]]
      BY <1>4, SeqDef
    <3>3. QED
      BY <1>7, <3>1, <3>2, IsASeq
  <2>2. end \in S
    OBVIOUS
  <2> HIDE DEF S
  <2>3. body \o <<end>> = Append(body, end)
    BY <2>1, <2>2, ConcatOne
  <2>4. QED
    BY <1>1, <2>1, <2>2, <2>3, AppendFacts
<1>9. \A m \in 1..Len(body) :
          /\ code'[m].op \in {"set", "super", "superOrRaise", "return", "raise", "never", "branch", "leave", "jump"}
          /\ Sound(code'[m])
          /\ Falls(code'[m]) => m + 1 \in 1..Len(body) /\ code'[m + 1].certain \subseteq After(code'[m])
          /\ Jumps(code'[m]) => code'[m].target \in 1..Len(body) /\ code'[code'[m].target].certain \subseteq After(code'[m])
  <2> TAKE m \in 1..Len(body)
  <2>1. code'[m] = body[m] /\ body[m].op \in {"set", "super", "superOrRaise", "return", "raise", "never", "branch", "leave", "jump"}
    BY <1>7, <1>8 DEF Instructions
  <2>2. QED
    BY <1>7, <1>8, <2>1
<1>10. 1 \in 1..Len(body) /\ code'[1].certain = {}
  BY <1>7, <1>8
<1>11. QED
  BY <1>1, <1>2, <1>7, <1>8, <1>9, <1>10 DEF RunInv

\* A step of the execution.
LEMMA RunStep ==
    ASSUME RunInv, Set \/ Branch \/ Jump \/ Leave
    PROVE  RunInv'
<1>1. PICK n \in Nat :
          /\ Len(code) = n + 1 /\ pc \in 1..n
          /\ \A m \in 1..n :
                 /\ code[m].op \in {"set", "super", "superOrRaise", "return", "raise", "never", "branch", "leave", "jump"}
                 /\ Sound(code[m])
                 /\ Falls(code[m]) => m + 1 \in 1..n /\ code[m + 1].certain \subseteq After(code[m])
                 /\ Jumps(code[m]) => code[m].target \in 1..n /\ code[code[m].target].certain \subseteq After(code[m])
          /\ code[pc].certain \subseteq happened
  BY DEF RunInv
<1>2. code' = code
  BY DEF Set, Branch, Jump, Leave
<1>3. pc' \in 1..n /\ code[pc'].certain \subseteq happened'
  <2>1. CASE Set
    <3>1. /\ code[pc].op \in {"set", "super", "superOrRaise"}
          /\ happened' = happened \cup code[pc].incidents /\ pc' = pc + 1
      BY <2>1 DEF Set, Running, Now
    <3>2. Falls(code[pc]) /\ After(code[pc]) = code[pc].certain \cup code[pc].incidents
      BY <3>1 DEF Falls, Jumps, After
    <3>3. QED
      BY <1>1, <3>1, <3>2
  <2>2. CASE Leave
    <3>1. code[pc].op = "leave" /\ happened' = happened \ code[pc].releases /\ pc' = pc + 1
      BY <2>2 DEF Leave, Running, Now
    <3>2. Falls(code[pc]) /\ After(code[pc]) = code[pc].certain \ code[pc].releases
      BY <3>1 DEF Falls, Jumps, After
    <3>3. QED
      BY <1>1, <3>1, <3>2
  <2>3. CASE Branch
    <3>1. code[pc].op = "branch" /\ happened' = happened /\ pc' \in {pc + 1, code[pc].target}
      BY <2>3 DEF Branch, Running, Now
    <3>2. Falls(code[pc]) /\ Jumps(code[pc])
      BY <3>1 DEF Falls, Jumps
    <3>3. After(code[pc]) \subseteq happened
      BY <1>1, <3>1, <3>2 DEF After
    <3>4. QED
      BY <1>1, <3>1, <3>2, <3>3
  <2>4. CASE Jump
    <3>1. code[pc].op = "jump" /\ happened' = happened /\ pc' = code[pc].target
      BY <2>4 DEF Jump, Running, Now
    <3>2. Jumps(code[pc])
      BY <3>1 DEF Jumps
    <3>3. After(code[pc]) \subseteq happened
      BY <1>1, <3>1, <3>2 DEF After
    <3>4. QED
      BY <1>1, <3>1, <3>2, <3>3
  <2>5. QED
    BY <2>1, <2>2, <2>3, <2>4
<1>4. QED
  BY <1>1, <1>2, <1>3 DEF RunInv

\* A class whose body is not yet analysed has no code.
LEMMA BodyInvInitially ==
    ASSUME Init
    PROVE  BodyInv
<1>1. /\ phase = "analyse" /\ paths = <<NewBranch>> /\ blocks = <<NoBlock>> /\ memory = {} /\ code = <<>>
      /\ pc = 1 /\ happened = {}
  BY DEF Init
<1>2. NewBranch \in Branches /\ NewBranch.certain = {} /\ NewBranch.potential = {} /\ NewBranch.branches = {}
  BY DEF NewBranch, Branches
<1>3. /\ NoBlock \in BlockType /\ NoBlock.kind = "function" /\ NoBlock.alive /\ NoBlock.start = 0
      /\ NoBlock.exits = {} /\ NoBlock.first = 0 /\ NoBlock.next = 0
  BY DEF NoBlock, NewBlock, BlockType
<1>4. /\ Len(paths) = 1 /\ paths[1].certain = {} /\ paths[1].potential = {} /\ paths[1].branches = {}
      /\ paths \in Seq(Branches)
  <2> HIDE DEF NewBranch
  <2>1. QED
    BY <1>1, <1>2
<1>5. Len(blocks) = 1 /\ blocks[1] = NoBlock /\ blocks \in Seq(BlockType)
  <2> HIDE DEF NoBlock
  <2>1. QED
    BY <1>1, <1>3
<1>6. Len(code) = 0 /\ code \in Seq(Instructions)
  BY <1>1
<1>7. \A m : m \notin Outer(paths, 0) /\ m \notin Outer(paths, 1)
  BY <1>4 DEF Outer
<1>8. Facts(paths) = {} /\ Outer(paths, 0) = {}
  BY <1>4, <1>7 DEF Facts
<1>9. Types(code, paths, blocks, memory)
  BY <1>1, <1>4, <1>5, <1>6 DEF Types
<1>10. Pending(code, paths, blocks)
  <2>1. Led(code, blocks[1], 1, Outer(paths, 0), paths[0].branches)
    BY <1>3, <1>5, <1>8 DEF Led
  <2>2. QED
    BY <1>5, <2>1 DEF Pending
<1>11. Scoped(paths, blocks)
  <2>1. Confined(paths[1], blocks[1])
    BY <1>3, <1>4, <1>5 DEF Confined, Below
  <2>2. QED
    BY <1>4, <1>5, <2>1 DEF Scoped
<1>12. Consistent(code, Facts(paths), Open(blocks))
  BY <1>6, <1>8 DEF Consistent, Fact
<1>13. Remembered(paths, memory)
  BY <1>1 DEF Remembered
<1>14. AnalyseInv
  BY <1>1, <1>4, <1>9, <1>10, <1>11, <1>12, <1>13 DEF AnalyseInv, Analysed, Nested
<1>15. QED
  BY <1>1, <1>14 DEF BodyInv

\* Every step of the analysis and of the execution keeps the invariant.
LEMMA BodyInvKept ==
    ASSUME BodyInv, [Next]_vars
    PROVE  BodyInv'
<1>1. CASE /\ phase = "analyse"
           /\ \/ \E optional \in BOOLEAN : Declare(optional)
              \/ \E v \in Locals \cup Instance : Assign(v)
              \/ \E errorProne \in BOOLEAN : CallSuper(errorProne)
              \/ Return \/ Raise \/ CallNeverReturning
              \/ \E kind \in DOMAIN FirstBlock : Begin(kind)
              \/ \E kind \in {"then", "else", "error"} : NextBlock(kind)
              \/ EndStructure
  <2>1. AnalyseInv
    BY <1>1 DEF BodyInv
  <2>2. AnalyseInv'
    <3>1. CASE \E optional \in BOOLEAN : Declare(optional)
      BY <2>1, <3>1, DeclareStep
    <3>2. CASE \E v \in Locals \cup Instance : Assign(v)
      BY <2>1, <3>2, AssignStep
    <3>3. CASE \E errorProne \in BOOLEAN : CallSuper(errorProne)
      BY <2>1, <3>3, SuperStep
    <3>4. CASE Return \/ Raise \/ CallNeverReturning
      BY <2>1, <3>4, StatementsStep
    <3>5. CASE \E kind \in DOMAIN FirstBlock : Begin(kind)
      BY <2>1, <3>5, BeginStep
    <3>6. CASE \E kind \in {"then", "else", "error"} : NextBlock(kind)
      BY <2>1, <3>6, NextBlockStep
    <3>7. CASE EndStructure
      BY <2>1, <3>7, EndStructureStep
    <3>8. QED
      BY <1>1, <3>1, <3>2, <3>3, <3>4, <3>5, <3>6, <3>7
  <2>3. phase' = "analyse"
    BY <1>1 DEF Declare, Assign, CallSuper, Return, Raise, CallNeverReturning, Begin, NextBlock, EndStructure, Statement
  <2>4. QED
    BY <2>2, <2>3 DEF BodyInv
<1>2. CASE EndBody
  <2>1. phase = "analyse" /\ phase' = "run"
    BY <1>2 DEF EndBody
  <2>2. RunInv'
    BY <1>2, <2>1, EndBodyStep DEF BodyInv
  <2>3. QED
    BY <2>1, <2>2 DEF BodyInv
<1>3. CASE Set \/ Branch \/ Jump \/ Leave
  <2>1. phase = "run" /\ phase' = "run"
    BY <1>3 DEF Set, Branch, Jump, Leave, Running
  <2>2. RunInv'
    BY <1>3, <2>1, RunStep DEF BodyInv
  <2>3. QED
    BY <2>1, <2>2 DEF BodyInv
<1>4. CASE Exit
  BY <1>4 DEF Exit, BodyInv
<1>5. CASE UNCHANGED vars
  BY <1>5 DEF BodyInv, vars, AnalyseInv, RunInv
<1>6. QED
  <2>1. CASE phase = "analyse"
    BY <1>1, <1>2, <1>3, <1>4, <1>5, <2>1 DEF Next
  <2>2. CASE phase # "analyse"
    <3>1. \/ EndBody \/ Set \/ Branch \/ Jump \/ Leave \/ Exit \/ UNCHANGED vars
      BY <2>2 DEF Next, Declare, Assign, CallSuper, Return, Raise, CallNeverReturning, Begin, NextBlock,
                  EndStructure, Statement
    <3>2. QED
      BY <1>2, <1>3, <1>4, <1>5, <3>1
  <2>3. QED
    BY <2>1, <2>2

\* The invariant of the analysis and of the execution.
LEMMA BodyInvHolds == Spec => []BodyInv
<1>1. Init => BodyInv
  BY BodyInvInitially
<1>2. BodyInv /\ [Next]_vars => BodyInv'
  BY BodyInvKept
<1>3. QED
  BY <1>1, <1>2, PTL DEF Spec

\* What the invariant says about the instruction that is executed next.
LEMMA RunFacts ==
    ASSUME BodyInv, phase = "run"
    PROVE  Sound(Now) /\ Now.certain \subseteq happened /\ Now.op # "end"
<1>1. PICK n \in Nat :
          /\ pc \in 1..n
          /\ \A m \in 1..n :
                 /\ code[m].op \in {"set", "super", "superOrRaise", "return", "raise", "never", "branch", "leave", "jump"}
                 /\ Sound(code[m])
          /\ code[pc].certain \subseteq happened
  BY DEF BodyInv, RunInv
<1>2. QED
  BY <1>1 DEF Now

(***************************************************************************)
(* The properties                                                          *)
(***************************************************************************)

\* On every path through the generated code, loops repeated however often, what the PathAnalyser
\* answered "certainly" about has occurred: uninitalizedError, wasInitialized_ and checkThisUse
\* never let a variable or 👇 through too early.
THEOREM CertainlyMeansHappened == Spec => []CertainHappened
<1>1. BodyInv => CertainHappened
  BY RunFacts DEF CertainHappened
<1>2. QED
  BY <1>1, BodyInvHolds, PTL

\* The code generated for the end of a scope (MFFunctionAnalyser::releaseVariables), which ignores
\* the paths, releases only local variables that have a value.
THEOREM ScopesReleaseWhatWasSet == Spec => []ScopesReleaseInitialized
<1>1. BodyInv => ScopesReleaseInitialized
  <2>1. SUFFICES ASSUME BodyInv, Running({"leave"})
                 PROVE  Now.releases \subseteq happened
    BY DEF ScopesReleaseInitialized
  <2>2. Sound(Now) /\ Now.certain \subseteq happened /\ Now.op = "leave"
    BY <2>1, RunFacts DEF Running
  <2>3. QED
    BY <2>2 DEF Sound
<1>2. QED
  BY <1>1, BodyInvHolds, PTL

\* An initializer that raises, or whose superinitializer does, releases only instance variables of
\* its class that have a value (ErrorSelfDestructing).
THEOREM AbortsReleaseWhatWasSet == Spec => []AbortsReleaseInitialized
<1>1. BodyInv => AbortsReleaseInitialized
  <2>1. SUFFICES ASSUME BodyInv, Running({"raise", "superOrRaise"})
                 PROVE  Now.releases \cap Own \subseteq happened
    BY DEF AbortsReleaseInitialized
  <2>2. Sound(Now) /\ Now.certain \subseteq happened /\ Now.op \in {"raise", "superOrRaise"}
    BY <2>1, RunFacts DEF Running
  <2>3. QED
    BY <2>2 DEF Sound
<1>2. QED
  BY <1>1, BodyInvHolds, PTL

\* Whatever return of an initializer is executed, all variables of the class have a value and the
\* superinitializer was called (analyseInitializationRequirements).
THEOREM ReturnsAreInitialized == Spec => []ReturnsInitialized
<1>1. BodyInv => ReturnsInitialized
  <2>1. SUFFICES ASSUME BodyInv, Running({"return"})
                 PROVE  Own \cup {CalledSuperInitializer} \subseteq happened
    BY DEF ReturnsInitialized
  <2>2. Sound(Now) /\ Now.certain \subseteq happened /\ Now.op = "return"
    BY <2>1, RunFacts DEF Running
  <2>3. QED
    BY <2>2 DEF Sound
<1>2. QED
  BY <1>1, BodyInvHolds, PTL

\* A body of which the analyser believes that every path returns has no path that runs past its code.
THEOREM BodiesReturn == Spec => []NeverFallsThrough
<1>1. BodyInv => NeverFallsThrough
  BY RunFacts DEF NeverFallsThrough, Running
<1>2. QED
  BY <1>1, BodyInvHolds, PTL
=============================================================================
