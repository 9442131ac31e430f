----------------------- MODULE InitializerCompilation -----------------------
(***************************************************************************)
(* How the compiler decides, in the body of a class initializer, which     *)
(* variables have a value, and whether the program it generates agrees.    *)
(*                                                                         *)
(* Phase "analyse": the statements of a body are analysed one by one, in   *)
(* any order the grammar allows.  A statement runs the semantic analysis   *)
(* (AST*::analyse with the PathAnalyser and the SemanticScoper), the       *)
(* memory flow analysis (MFFunctionAnalyser), which visits the same        *)
(* statements in the same order, and emits its code.  A statement the      *)
(* compiler rejects is not enabled.                                        *)
(* Phase "run": the emitted code is executed, every branch either way.     *)
(*                                                                         *)
(* Variables are of managed types.  What is left out: values, closures,    *)
(* optional bindings, for-in (a repeat after a declaration).               *)
(***************************************************************************)
EXTENDS PathAnalyser, FiniteSets

CONSTANTS OwnVariables,        \* the instance variables the class declares
          InheritedVariables,  \* those its superclass declares
          Kinds,               \* the kinds of statements in the body
          MaxStatements,       \* bound: statements in the body
          MaxVariables,        \* bound: local variables at a time
          MaxDepth             \* bound: nested blocks

ASSUME BoundsAssumption ==
  MaxStatements \in Nat /\ MaxVariables \in Nat /\ MaxDepth \in Nat

VARIABLES phase,       \* "analyse", "run" or "done"
          paths,       \* PathAnalyser
          blocks,      \* the blocks being analysed with their scopes, innermost last
          memory,      \* MFFunctionAnalyser::scope_: the local variables known to have a value
          statements,  \* how many statements were analysed
          code,        \* the instructions generated
          pc, happened \* the execution: its place and what occurred (and which variables have a value)

vars     == <<phase, paths, blocks, memory, statements, code, pc, happened>>
analysis == <<paths, blocks, memory, statements>>

Own           == {InstanceVarInit(v) : v \in OwnVariables}
Inherited     == {InstanceVarInit(v) : v \in InheritedVariables}
Instance      == Own \cup Inherited
Local(ids)    == {VariableInit(id) : id \in ids}
Locals        == Local(0 .. MaxVariables - 1)
Incidents     == Locals \cup Instance \cup {Returned, CalledSuperInitializer}

Block == blocks[Len(blocks)]
BlockLocals == Local(Block.first .. Block.next - 1)

Certainly(i)   == HasCertainly(paths, i)
Potentially(i) == HasPotentially(paths, i)

(* ASTBlock::analyse: from the first statement after a certain return, the *)
(* statements of a block are analysed but not generated (stop_).           *)
Alive == ~ Certainly(Returned)

----------------------------------------------------------------------------
(* Instructions *)

(* certain is what the analyser would answer about the place before it. *)
InstructionAt(p, op, incidents, releases) ==
  [op |-> op, incidents |-> incidents, releases |-> releases, target |-> 0,
   certain |-> UNION {p[n].certain : n \in 1 .. Len(p)}]

Instruction(op, incidents, releases) == InstructionAt(paths, op, incidents, releases)

Emit(instructions) == code' = IF Alive THEN code \o instructions ELSE code

Know(variables) == memory' = IF Alive THEN memory \cup variables ELSE memory

Statement(kind) ==
  /\ phase = "analyse"
  /\ kind \in Kinds
  /\ statements < MaxStatements
  /\ statements' = statements + 1
  /\ UNCHANGED <<phase, pc, happened>>

----------------------------------------------------------------------------
(* Statements *)

(* An optional variable has a value, none, from its declaration. *)
Declare(optional) ==
  /\ Statement("declare")
  /\ Block.next < MaxVariables
  /\ LET declared == IF optional THEN {VariableInit(Block.next)} ELSE {}
     IN  /\ paths' = Record(paths, declared)
         /\ Know(declared)
         /\ Emit(IF optional THEN <<Instruction("set", declared, {})>> ELSE <<>>)
  /\ blocks' = [blocks EXCEPT ![Len(blocks)].next = @ + 1]

(* The variable of an error handler's block is a constant. *)
Constants == {VariableInit(b.first) : b \in {blocks[n] : n \in {n \in 1 .. Len(blocks) : blocks[n].kind \in {"value", "error"}}}}

(* wasInitialized_: the old value is released if there certainly is one. *)
Overwritten(v) == IF Certainly(v) THEN {v} ELSE {}

Assign(v) ==
  /\ Statement("assign")
  /\ v \in (Local(0 .. Block.next - 1) \ Constants) \cup Instance
  /\ paths' = Record(paths, {v})
  /\ Know({v} \cap Locals)
  /\ Emit(<<Instruction("set", {v}, Overwritten(v))>>)
  /\ UNCHANGED blocks

(* ErrorSelfDestructing::analyseInstanceVariables: an initializer that     *)
(* raises releases the instance variables that were set; whether they were *)
(* must not depend on the path.                                            *)
(* A bug: it is not checked that they were set on all paths. *)
AbortsAnyway == TRUE

CanAbort == \A v \in Instance : Potentially(v) => Certainly(v)

Aborted == {v \in Instance : Potentially(v)}

(* ASTSuper::analyseSuperInit.  If the superinitializer raises, so does    *)
(* this initializer.                                                       *)
CallSuper(errorProne) ==
  /\ Statement("super")
  /\ ~ Potentially(CalledSuperInitializer)
  /\ \A v \in Own : Certainly(v)
  /\ errorProne => CanAbort
  /\ paths' = Record(paths, {CalledSuperInitializer} \cup Inherited)
  /\ Emit(<<Instruction(IF errorProne THEN "superOrRaise" ELSE "super", {CalledSuperInitializer} \cup Inherited,
                        IF errorProne THEN memory \cup Aborted ELSE {})>>)
  /\ UNCHANGED <<blocks, memory>>

(* A bug: ↩️↩️ and the end do not require the superinitializer call. *)
InitializedExceptSuper == \A v \in Own : Certainly(v)

Initialized == Certainly(CalledSuperInitializer) /\ \A v \in Own : Certainly(v)

(* ↩️↩️: the variables known to have a value are released, those of all     *)
(* scopes (MFFunctionAnalyser::releaseAllVariables).                       *)
Return ==
  /\ Statement("return")
  /\ Initialized
  /\ paths' = Record(paths, {Returned})
  /\ Emit(<<Instruction("return", {}, memory)>>)
  /\ UNCHANGED <<blocks, memory>>

Raise ==
  /\ Statement("raise")
  /\ CanAbort
  /\ paths' = Record(paths, {Returned})
  /\ Emit(<<Instruction("raise", {}, memory \cup Aborted)>>)
  /\ UNCHANGED <<blocks, memory>>

(* A call of a function that never returns. *)
CallNeverReturning ==
  /\ Statement("call")
  /\ paths' = Record(paths, {Returned})
  /\ Emit(<<Instruction("never", {}, {})>>)
  /\ UNCHANGED <<blocks, memory>>

----------------------------------------------------------------------------
(* Blocks.  start is the branch instruction that leads past the block if   *)
(* it is not executed (0: there is none), and exits the jumps behind the   *)
(* whole structure.                                                        *)

NewBlock(kind, alive, start, exits, first) ==
  [kind |-> kind, alive |-> alive, start |-> start, exits |-> exits, first |-> first,
   next |-> IF kind \in {"value", "error"} THEN first + 1 ELSE first]

(* The variable of an error handler's block holds the value or the error. *)
HandlerVariable(kind, first) == IF kind \in {"value", "error"} THEN {VariableInit(first)} ELSE {}

(* What a block of the kind begins with in branch p. *)
Opening(kind, p, variable) ==
  (IF kind \in {"then", "loop", "value"} THEN <<InstructionAt(p, "branch", {}, {})>> ELSE <<>>) \o
  (IF variable = {} THEN <<>> ELSE <<InstructionAt(p, "set", variable, {})>>)

FirstBlock == [if |-> "then", handler |-> "value", repeat |-> "loop"]

Begin(kind) ==
  /\ Statement(kind)
  /\ Len(blocks) <= MaxDepth
  /\ LET block == FirstBlock[kind]
         variable == HandlerVariable(block, Block.next)
     IN  /\ variable \subseteq Locals
         /\ blocks' = Append(blocks, NewBlock(block, Alive, IF Alive THEN Len(code) + 1 ELSE 0, {}, Block.next))
         /\ paths' = Record(BeginBranch(paths), variable)
         /\ Know(variable)
         /\ Emit(Opening(block, paths, variable))

(* A bug: a local variable may be set on some paths only. *)
UncheckedScope == TRUE

(* Scope::checkScope: a local variable is set on all paths or on none. *)
CheckScope == \A v \in BlockLocals : Potentially(v) => Certainly(v)

PoppedScope == ForgetVariables(paths, BlockLocals)

(* A bug: the scope of the block is left without forgetting its variables. *)
KnownWithScope == memory

KnownAfterScope == memory \ BlockLocals

(* MFFunctionAnalyser::releaseVariables and the jump at the end of a block *)
(* that does not certainly return.                                         *)
Leaving ==
  IF ~ Alive THEN <<>>
  ELSE (IF memory \cap BlockLocals = {} THEN <<>> ELSE <<Instruction("leave", {}, memory \cap BlockLocals)>>)
       \o <<[InstructionAt(PoppedScope, "jump", {}, {}) EXCEPT !.target = Block.start]>>

(* The jumps behind the structure, if left is the code up to the block's end. *)
Exits(left) == IF Block.kind = "loop" \/ ~ Alive THEN Block.exits ELSE Block.exits \cup {Len(left)}

Patch(left, sources, target) ==
  [n \in DOMAIN left |-> IF n \in sources THEN [left[n] EXCEPT !.target = target] ELSE left[n]]

Branching(start) == IF start > 0 THEN {start} ELSE {}

(* A further condition, 🙅, or the error block of a handler. *)
Followers(kind) == CASE kind = "then" -> {"then", "else"} [] kind = "value" -> {"error"} [] OTHER -> {}

NextBlock(kind) ==
  /\ phase = "analyse" /\ kind \in Followers(Block.kind)
  /\ kind = "then" => statements < MaxStatements
  /\ CheckScope
  /\ LET left     == code \o Leaving
         begin    == Len(left) + 1
         ended    == EndBranch(PoppedScope)
         variable == HandlerVariable(kind, Block.first)
     IN  /\ paths' = Record(BeginBranch(ended), variable)
         /\ blocks' = [blocks EXCEPT ![Len(blocks)] =
                        NewBlock(kind, Block.alive, IF Block.alive /\ kind = "then" THEN begin ELSE 0,
                                 Exits(left), Block.first)]
         /\ memory' = KnownAfterScope \cup (IF Block.alive THEN variable ELSE {})
         /\ code' = IF Block.alive THEN Patch(left, Branching(Block.start), begin) \o Opening(kind, ended, variable)
                    ELSE code
  /\ statements' = IF kind = "then" THEN statements + 1 ELSE statements
  /\ UNCHANGED <<phase, pc, happened>>

Finished(p) == IF Block.kind \in {"else", "error"} THEN FinishMutualExclusiveBranches(p) ELSE FinishUncertainBranches(p)

EndStructure ==
  /\ phase = "analyse" /\ Block.kind \in {"then", "else", "error", "loop"}
  /\ CheckScope
  /\ LET left == code \o Leaving
     IN  code' = Patch(left, Branching(Block.start) \cup Exits(left), Len(left) + 1)
  /\ paths' = Finished(EndBranch(PoppedScope))
  /\ memory' = KnownAfterScope
  /\ blocks' = SubSeq(blocks, 1, Len(blocks) - 1)
  /\ UNCHANGED <<phase, statements, pc, happened>>

----------------------------------------------------------------------------
(* FunctionAnalyser::analyse *)

NoBlock == NewBlock("function", TRUE, 0, {}, 0)

Init ==
  /\ phase = "analyse" /\ paths = <<NewBranch>> /\ blocks = <<NoBlock>>
  /\ memory = {} /\ statements = 0 /\ code = <<>>
  /\ pc = 1 /\ happened = {}

(* The end of the body: analyseInitializationRequirements, analyseReturn,  *)
(* which appends the return of the instance unless every path returned,    *)
(* and the end of the outermost scope.  The instruction "end" stands for   *)
(* running past the code.                                                  *)
EndBody ==
  /\ phase = "analyse" /\ Block.kind = "function"
  /\ Certainly(Returned) \/ Initialized
  /\ CheckScope
  /\ code' = code \o (IF Alive THEN <<Instruction("return", {}, memory)>> ELSE <<>>)
                  \o <<InstructionAt(<<>>, "end", {}, {})>>
  /\ phase' = "run"
  /\ paths' = <<NewBranch>> /\ blocks' = <<NoBlock>> /\ memory' = {} /\ statements' = 0
  /\ UNCHANGED <<pc, happened>>

----------------------------------------------------------------------------
(* Execution *)

Now == code[pc]
Running(ops) == phase = "run" /\ Now.op \in ops

Set ==
  /\ Running({"set", "super", "superOrRaise"})
  /\ happened' = happened \cup Now.incidents /\ pc' = pc + 1
  /\ UNCHANGED <<phase, code, analysis>>

Branch ==
  /\ Running({"branch"})
  /\ pc' \in {pc + 1, Now.target}
  /\ UNCHANGED <<phase, code, happened, analysis>>

Jump ==
  /\ Running({"jump"})
  /\ pc' = Now.target
  /\ UNCHANGED <<phase, code, happened, analysis>>

Leave ==
  /\ Running({"leave"})
  /\ happened' = happened \ Now.releases /\ pc' = pc + 1
  /\ UNCHANGED <<phase, code, analysis>>

Exit ==
  /\ Running({"return", "raise", "never", "superOrRaise"})
  /\ phase' = "done"
  /\ UNCHANGED <<code, pc, happened, analysis>>

Next ==
  \/ \E optional \in BOOLEAN : Declare(optional)
  \/ \E v \in Locals \cup Instance : Assign(v)
  \/ \E errorProne \in BOOLEAN : CallSuper(errorProne)
  \/ Return \/ Raise \/ CallNeverReturning
  \/ \E kind \in DOMAIN FirstBlock : Begin(kind)
  \/ \E kind \in {"then", "else", "error"} : NextBlock(kind)
  \/ EndStructure \/ EndBody
  \/ Set \/ Branch \/ Jump \/ Leave \/ Exit

Spec == Init /\ [][Next]_vars

----------------------------------------------------------------------------
(* Properties *)

(* What the analyser says has certainly occurred has occurred, on every    *)
(* path that reaches the place, however often loops were repeated: no      *)
(* variable is read, and no old value released, before one was set, and 👇 *)
(* is not used before the superinitializer returned (uninitalizedError,    *)
(* checkThisUse, wasInitialized_).                                         *)
CertainHappened == phase = "run" => Now.certain \ {Returned} \subseteq happened

(* At the end of a scope only variables that have a value are released     *)
(* (the memory flow analysis, which ignores paths, releases every variable *)
(* that was set somewhere).                                                *)
ScopesReleaseInitialized == Running({"leave"}) => Now.releases \subseteq happened

(* An initializer that raises releases only instance variables that have a *)
(* value.                                                                  *)
AbortsReleaseInitialized == Running({"raise", "superOrRaise"}) => Now.releases \cap Own \subseteq happened

(* An instance is only returned with all its variables set and after the   *)
(* superinitializer was called.                                            *)
ReturnsInitialized == Running({"return"}) => Own \cup {CalledSuperInitializer} \subseteq happened

(* Execution never reaches the end of a body without a return.             *)
NeverFallsThrough == ~ Running({"end"})

(* Any exit releases only local variables that have a value.               *)
ExitsReleaseInitialized ==
  Running({"return", "raise", "superOrRaise"}) => Now.releases \cap Locals \subseteq happened

=============================================================================
