----------------------------- MODULE MCProgress -----------------------------
(***************************************************************************)
(* What must eventually happen: messages that arrive in pieces are taken,  *)
(* the requests they contain are answered, and objects of a program that   *)
(* nothing refers to are freed; a behaviour exercises one of them.         *)
(***************************************************************************)
EXTENDS MCLanguageServer, Transport

Newline == <<"r", "n">>
LengthHeader(digits) == <<"C", "L">> \o digits \o Newline \o Newline
Message(digits, body) == [text |-> LengthHeader(digits) \o body, result |-> body]
Broken(text) == [text |-> text, result |-> Invalid]

(* A body that is a field name, one after another field of the header; no  *)
(* length, a length that is no number or too large, two lengths, a header  *)
(* that is too long.                                                       *)
MCParts ==
    {Message(<<"1">>, <<"x">>),
     Message(<<"2">>, <<"C", "L">>),
     Message(<<"0">>, <<>>),
     [text |-> <<"x">> \o Newline \o LengthHeader(<<"1">>) \o <<"n">>, result |-> <<"n">>],
     Broken(<<"x">> \o Newline \o Newline \o <<"x">>),
     Broken(LengthHeader(<<"1", "x">>) \o <<"x", "r">>),
     Broken(LengthHeader(<<>>) \o <<"r", "C">>),
     Broken(LengthHeader(<<"1", "0">>) \o <<"C">>),
     Broken(<<"C", "L", "1">> \o Newline \o LengthHeader(<<"1">>) \o <<"x">>),
     Broken([i \in 1..12 |-> "x"] \o Newline \o Newline)}

CONSTANTS Threads, HeapObjects, Memories, Locals, Refs, WeakRefs, t1, t2
VARIABLES phase, strong, weak, block, target, holder, weakTo, teardown, deleting, acquiring

countingVars == <<phase, strong, weak, block, target, holder, weakTo, teardown, deleting, acquiring>>
Counting == INSTANCE ReferenceCounting

\* ReferenceCounting's property, of the behaviours that exercise it.
EventuallyFreed == Counting!EventuallyFreed

VARIABLE focus

MCInit ==
    /\ Init /\ TransportInit /\ Counting!Init
    /\ focus \in {"requests", "transport", "counting"}
    /\ focus # "requests" => disk[a] = a0
    /\ focus # "transport" => sent = <<>>
Session(A) == focus = "requests" /\ A /\ UNCHANGED <<transportVars, countingVars, focus>>
Stream(A) == focus = "transport" /\ A /\ UNCHANGED <<vars, countingVars, focus>>
Program(A) == focus = "counting" /\ A /\ UNCHANGED <<vars, transportVars, focus>>

MCNext == Session(Next) \/ Stream(TransportNext) \/ Program(Counting!Next)

(* The fairness of the three modules.  As a behaviour exercises one of     *)
(* them, what is strongly fair in one of them and in another can be one    *)
(* condition, which saves TLC most of its work.                            *)
MCFairness ==
    LET all == <<vars, transportVars, countingVars, focus>>
        Checked(root) == Session(\E rs \in SUBSET scheduled : root \in rs /\ runChecks(rs))
        Acquires(t) == Program(Counting!AcquireSucceeds(t))
        Returns(t) == Program(Counting!DeinitReturns(t))
    IN  /\ \A root \in Files : WF_all(Session(CheckDue(root)))
        /\ WF_all(Stream(takeMessage))
        /\ \A t \in Threads : WF_all(Program(Counting!ReleaseStep(t) \/ Counting!AcquireStep(t)))
        /\ SF_all(Checked(a) \/ Acquires(t1))
        /\ SF_all(Checked(b) \/ Acquires(t2))
        /\ SF_all(Checked(c) \/ Returns(t1))
        /\ SF_all(Stream(Arrive) \/ Returns(t2))

MCSpec == MCInit /\ [][MCNext]_<<vars, transportVars, countingVars, focus>> /\ MCFairness
=============================================================================
