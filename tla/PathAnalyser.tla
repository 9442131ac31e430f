---------------------------- MODULE PathAnalyser ----------------------------
(***************************************************************************)
(* Compiler/Analysis/PathAnalyser: which incidents certainly and which     *)
(* potentially occur on the paths through a function.  The analyser is the *)
(* stack of the branches being analysed, the main branch first and         *)
(* currentBranch_ last; a branch keeps the branches that ended in it until *)
(* the control flow structure they belong to is finished.                  *)
(***************************************************************************)
EXTENDS Integers, Sequences

Returned               == <<"Returned">>
CalledSuperInitializer == <<"CalledSuperInitializer">>
VariableInit(id)       == <<"VariableInit", id>>
InstanceVarInit(id)    == <<"InstanceVarInit", id>>

NewBranch == [certain |-> {}, potential |-> {}, branches |-> {}]

Record(p, incidents) ==
  [p EXCEPT ![Len(p)].certain = @ \cup incidents, ![Len(p)].potential = @ \cup incidents]

BeginBranch(p) == Append(p, NewBranch)

EndBranch(p) ==
  LET ended == [certain |-> p[Len(p)].certain, potential |-> p[Len(p)].potential]
  IN  [SubSeq(p, 1, Len(p) - 1) EXCEPT ![Len(p) - 1].branches = @ \cup {ended}]

HasCertainly(p, incident)   == \E n \in 1 .. Len(p) : incident \in p[n].certain
HasPotentially(p, incident) == \E n \in 1 .. Len(p) : incident \in p[n].potential

(* A bug: what occurred in any of the branches counts as certain. *)
IntersectsAny(branches) == UNION {b.certain : b \in branches}

IntersectCertain(branches) ==
  {i \in UNION {b.certain : b \in branches} : \A b \in branches : i \in b.certain}

(* After a branch that returned, execution does not continue: only the     *)
(* other branches tell whether the instance is initialized.                *)
Continuing(branches) == {b \in branches : Returned \notin b.certain}

CertainIncidents(branches) ==
  IntersectCertain(branches) \cup
    {i \in IntersectCertain(Continuing(branches)) : i[1] \in {"InstanceVarInit", "CalledSuperInitializer"}}

PotentialIncidents(branches) == UNION {b.potential : b \in branches}

FinishMutualExclusiveBranches(p) ==
  LET branches == p[Len(p)].branches
  IN  [p EXCEPT ![Len(p)].certain = @ \cup CertainIncidents(branches),
                ![Len(p)].potential = @ \cup PotentialIncidents(branches),
                ![Len(p)].branches = {}]

(* A bug: branches that need not be executed are treated as if one was. *)
FinishAsExclusive(p) == FinishMutualExclusiveBranches(p)

FinishUncertainBranches(p) ==
  [p EXCEPT ![Len(p)].potential = @ \cup PotentialIncidents(p[Len(p)].branches), ![Len(p)].branches = {}]

ForgetVariables(p, incidents) ==
  [p EXCEPT ![Len(p)].certain = @ \ incidents, ![Len(p)].potential = @ \ incidents]

=============================================================================
