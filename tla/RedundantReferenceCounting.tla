--------------------- MODULE RedundantReferenceCounting ---------------------
(***************************************************************************)
(* The pass that removes retains and releases which undo each other        *)
(* (Generation/ReferenceCountingPasses.cpp:                                *)
(* RedundantReferenceCountingPass).                                        *)
(*                                                                         *)
(* The pass goes over the instructions of a block; then the block as it    *)
(* was and the block as it is now are executed side by side.  Two values   *)
(* of the block can be the same object.  References to an object are held  *)
(* by the block or elsewhere; a call, and the deinitializer of an object   *)
(* the block releases, can find out whether a reference is the only one    *)
(* and give up references held elsewhere.                                  *)
(***************************************************************************)
EXTENDS Naturals, SequencesExt

CONSTANTS
    Registers,      \* the values of the block that are retained and released
    Objects,
    MaxBlock        \* bound: the instructions of the block

ASSUME MaxBlockAssumption == MaxBlock \in Nat

VARIABLES
    block,          \* the instructions
    scanned,        \* how many of them transformBlock has looked at
    retains,        \* retains: of each value, those no release was found for
    deleted,        \* toBeDeleted_
    objectOf,       \* the object each value is
    executed,       \* how many instructions were executed
    owned,          \* the references to each object the block holds...
    optimized,      \* ...and those it holds after the pass
    elsewhere,      \* the references held elsewhere
    differed        \* someone could tell the difference

passVars == <<block, scanned, retains, deleted>>
executionVars == <<objectOf, executed, owned, optimized, elsewhere, differed>>
redundantVars == <<passVars, executionVars>>

Instructions == {[op |-> op, value |-> v] : op \in {"retain", "release", "use"}, v \in Registers} \cup {[op |-> "call"]}

-----------------------------------------------------------------------------
(***************************************************************************)
(* The pass                                                                *)
(***************************************************************************)
NoRetains == [v \in Registers |-> <<>>]
Scanning == block[scanned + 1]

ScanRetain ==
    LET v == Scanning.value IN
    /\ Scanning.op = "retain"
    /\ retains' = [retains EXCEPT ![v] = Append(@, scanned + 1)]
    /\ UNCHANGED deleted

\* findCounterpart
ScanCounterpart ==
    LET v == Scanning.value IN
    /\ Scanning.op = "release" /\ retains[v] # <<>>
    /\ deleted' = deleted \cup {Last(retains[v]), scanned + 1}
    /\ retains' = [retains EXCEPT ![v] = Front(@)]

\* Other instructions than calls are passed over; a release without a counterpart is a
\* call like any other.
WithoutCounterpart == Scanning.op = "release" /\ retains[Scanning.value] = <<>>
OnlyOtherCalls == Scanning.op = "call"
Clears == Scanning.op = "call" \/ WithoutCounterpart

ScanOther ==
    /\ Scanning.op \in {"use", "call"} \/ WithoutCounterpart
    /\ retains' = IF Clears THEN NoRetains ELSE retains
    /\ UNCHANGED deleted

transformBlock ==
    /\ scanned < Len(block)
    /\ scanned' = scanned + 1
    /\ ScanRetain \/ ScanCounterpart \/ ScanOther
    /\ UNCHANGED <<block, executionVars>>

-----------------------------------------------------------------------------
(***************************************************************************)
(* Executing the block                                                     *)
(***************************************************************************)
Exists(holds, o) == holds[o] + elsewhere[o] > 0
Executing(op) ==
    /\ scanned = Len(block) /\ executed < Len(block)
    /\ block[executed + 1].op = op
    /\ executed' = executed + 1
    /\ UNCHANGED <<passVars, objectOf>>
Operand == objectOf[block[executed + 1].value]
Kept == executed + 1 \notin deleted

Retain ==
    /\ Executing("retain")
    /\ Exists(owned, Operand)
    /\ owned' = [owned EXCEPT ![Operand] = @ + 1]
    /\ optimized' = IF Kept THEN [optimized EXCEPT ![Operand] = @ + 1] ELSE optimized
    /\ UNCHANGED <<elsewhere, differed>>

\* What other code can do: it gives up one of the references held elsewhere, or none.
OtherCode ==
    \/ UNCHANGED elsewhere
    \/ \E o \in Objects : elsewhere[o] > 0 /\ elsewhere' = [elsewhere EXCEPT ![o] = @ - 1]

\* The objects of which nothing is left.
Gone(holds, rest) == {o \in Objects : holds[o] + rest[o] = 0}

\* The block releases what it holds.  If that was the last reference, a deinitializer runs,
\* which finds the same references as it would without the pass.
Release ==
    /\ Executing("release")
    /\ owned[Operand] > 0
    /\ owned' = [owned EXCEPT ![Operand] = @ - 1]
    /\ optimized' = IF Kept THEN [optimized EXCEPT ![Operand] = @ - 1] ELSE optimized
    /\ IF owned'[Operand] + elsewhere[Operand] = 0
       THEN OtherCode /\ differed' = (differed \/ owned' # optimized')
       ELSE UNCHANGED elsewhere
            /\ differed' = (differed \/ Gone(owned', elsewhere) # Gone(optimized', elsewhere))

Use ==
    /\ Executing("use")
    /\ Exists(owned, Operand)
    /\ differed' = (differed \/ ~Exists(optimized, Operand))
    /\ UNCHANGED <<owned, optimized, elsewhere>>

Call ==
    /\ Executing("call")
    /\ differed' = (differed \/ owned # optimized)
    /\ OtherCode
    /\ UNCHANGED <<owned, optimized>>

-----------------------------------------------------------------------------
RedundantInit ==
    /\ \E n \in 0..MaxBlock : block \in [1..n -> Instructions]
    /\ scanned = 0
    /\ retains = NoRetains
    /\ deleted = {}
    /\ objectOf \in [Registers -> Objects]
    /\ executed = 0
    /\ owned \in [Objects -> 0..1]
    /\ elsewhere \in [Objects -> 0..1]
    /\ optimized = owned
    /\ differed = FALSE

RedundantNext == transformBlock \/ Retain \/ Release \/ Use \/ Call

RedundantSpec == RedundantInit /\ [][RedundantNext]_redundantVars

\* A block does what it did before the pass: every object that is used is there, objects go
\* at the same instructions, and whoever is called finds as many references.  That holds
\* also if two values are the same object, or deinitializers give up further references.
RemovalUnobservable ==
    /\ ~differed
    /\ executed = Len(block) => owned = optimized
=============================================================================
