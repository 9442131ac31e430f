--------------------------- MODULE LanguageServer ---------------------------
(***************************************************************************)
(* The session of the language server (LanguageServer/Server.cpp): the     *)
(* open documents, the root file of each, the checks that are scheduled,   *)
(* the analyses they produce, the diagnostics the client shows, and the    *)
(* requests that wait for a check.                                         *)
(*                                                                         *)
(* A package is named by its root file.  A file's text is a model value;   *)
(* the properties depend on what it includes and on which text an analysis *)
(* saw.  What the compiler finds (which files have diagnostics, whether it *)
(* came as far as analysing function bodies, which files it read before an *)
(* error stopped it) is a free choice.  Time is abstracted: any scheduled  *)
(* check may come due.                                                     *)
(***************************************************************************)
EXTENDS Integers, Sequences, FiniteSets, Relation, SequencesExt

CONSTANTS
    Files,          \* canonical paths
    TextsOf,        \* [Files -> sets of texts]: what a file may contain
    IncludesOf,     \* [texts -> SUBSET Files]: Checker::includes
    Candidates,     \* [Files -> Seq(Files)]: the files in which an includer is looked for, nearest first
    Requests,       \* ids of requests, each is sent once
    Outcomes,       \* SUBSET BOOLEAN: whether analyses come as far as the function bodies
    Diagnosable,    \* SUBSET Files: the files for which analyses may have diagnostics
    MaxOpen,        \* bound on the documents that are open at a time
    None

Texts == UNION {TextsOf[f] : f \in Files}

\* What the server keeps of a check: whether function bodies were analysed, the files
\* with diagnostics, the files it read, and the texts of the package's open documents.
Analysis == [analysed : BOOLEAN, diagnostics : SUBSET Files, files : SUBSET Files,
             texts : [Files -> Texts \cup {None}]]

ASSUME TextsAssumption ==
    /\ TextsOf \in [Files -> SUBSET Texts]
    /\ \A t \in Texts : IncludesOf[t] \in SUBSET Files
    /\ \A f \in Files : Candidates[f] \in Seq(Files)
    /\ Outcomes \subseteq BOOLEAN
ASSUME NoneAssumption == None \notin Files \cup Texts \cup Analysis

VARIABLES
    session,    \* initialized_ and shutdown_: "started", "initialized", "shutdown"; "exited" after run() returns
    disk,       \* [Files -> Texts]
    overlays,   \* [Files -> Texts or None]: documents_ and overlays_, the open documents
    roots,      \* [Files -> Files or None]: roots_
    scheduled,  \* SUBSET Files: the keys of scheduled_
    due,        \* the rest of the list of roots runChecks goes through
    analyses,   \* [Files -> Analysis or None]: analyses_
    parsed,     \* SUBSET Files: the keys of parsedAnalyses_
    published,  \* [Files -> SUBSET Files]: published_
    shown,      \* [Files -> SUBSET Files]: the client's list for a file, as the roots whose diagnostics are in it
    deferred,   \* [Files -> SUBSET Requests]: deferred_
    about,      \* [Requests -> Files or None]: the document of a received request
    answers,    \* [Requests -> Nat]: how often a request was answered
    failed      \* SUBSET Files: roots whose last check threw (for the properties only)

packageVars == <<scheduled, analyses, parsed, published, shown, failed>>
vars == <<session, disk, overlays, roots, scheduled, due, analyses, parsed, published, shown,
          deferred, about, answers, failed>>

OpenFiles == {f \in Files : overlays[f] # None}
OpenRoots(rs) == {rs[f] : f \in Files} \ {None}

----------------------------------------------------------------------------
(* Checker: which file includes which, and the root file of a document.    *)

\* What the server reads of each file: the open document, or else the disk (Checker::read).
Contents == [Files -> Texts]
read(ov, dk) == [f \in Files |-> IF ov[f] # None THEN ov[f] ELSE dk[f]]

\* The nearest file that includes f, or None.
includer(text, f) ==
    LET found == {i \in DOMAIN Candidates[f] :
                    Candidates[f][i] # f /\ f \in IncludesOf[text[Candidates[f][i]]]}
    IN IF found = {} THEN None
       ELSE Candidates[f][CHOOSE i \in found : \A j \in found : i <= j]

\* root is the end of the chain of includers of f, which stops at a file without
\* an includer or where it would visit a file again.
IsRootFile(text, f, root) ==
    \E n \in 1..Cardinality(Files) : \E chain \in [1..n -> Files] :
        /\ chain[1] = f /\ chain[n] = root
        /\ IsInjective(chain)
        /\ \A i \in 1..(n - 1) : chain[i + 1] = includer(text, chain[i])
        /\ includer(text, root) \in {None} \cup {chain[i] : i \in 1..n}
rootFile[text \in Contents, f \in Files] == CHOOSE root \in Files : IsRootFile(text, f, root)

\* The files a compilation of root reads when no error stops it.
Package[text \in Contents, root \in Files] ==
    LET included == ReflexiveTransitiveClosure([f, g \in Files |-> g \in IncludesOf[text[f]]], Files)
    IN {f \in Files : included[root, f]}

\* Following includers ends in exactly one file, whatever the files contain.
ASSUME RootFileAssumption == rootFile \in [Contents \X Files -> Files] /\ Package \in [Contents \X Files -> SUBSET Files]

----------------------------------------------------------------------------
(* What the handlers share.                                                *)

\* Mutant: the diagnostics of an open file are those of every package that includes it.
publishAllDiagnostics(paths) ==
    shown' = [f \in Files |->
        IF f \in paths
        THEN {r \in Files : analyses'[r] # None /\ f \in analyses'[r].diagnostics}
        ELSE shown[f]]

\* The client's lists after publishDiagnostics(paths): those of an open file are those
\* of the analysis of its root, those of another file are those of all analyses.
publishDiagnostics(paths) ==
    shown' = [f \in Files |->
        IF f \in paths
        THEN {r \in Files : /\ analyses'[r] # None
                            /\ f \in analyses'[r].diagnostics
                            /\ roots'[f] # None => r = roots'[f]}
        ELSE shown[f]]

\* Mutant: a request that waits again is answered as well.
answerDeferredTwice(done, now) ==
    LET waiting == UNION {deferred[r] : r \in done}
        Again(q, r) == q \in waiting /\ roots'[about[q]] = r /\ r \in scheduled'
    IN /\ deferred' = [r \in Files |-> (IF r \in done THEN {} ELSE deferred[r])
                                       \cup {q \in Requests : Again(q, r)}]
       /\ answers' = [q \in Requests |-> IF q \in now \cup waiting THEN answers[q] + 1 ELSE answers[q]]

\* answerDeferred for each root in done, while the requests in now are answered
\* without waiting: a request is answered unless its document's package has a pending
\* check again, then it waits for that one.
answerDeferred(done, now) ==
    LET waiting == UNION {deferred[r] : r \in done}
        Again(q, r) == q \in waiting /\ roots'[about[q]] = r /\ r \in scheduled'
    IN /\ deferred' = [r \in Files |-> (IF r \in done THEN {} ELSE deferred[r])
                                       \cup {q \in Requests : Again(q, r)}]
       /\ answers' = [q \in Requests |->
             IF q \in now \/ (q \in waiting /\ ~\E r \in Files : Again(q, r))
             THEN answers[q] + 1 ELSE answers[q]]

\* Mutant: the analysis kept for completion is not dropped.
dropRootsKeepingParsed(dropped) ==
    /\ analyses' = [r \in Files |-> IF r \in dropped THEN None ELSE analyses[r]]
    /\ parsed' = parsed
    /\ failed' = failed \ dropped
    /\ published' = [r \in Files |-> IF r \in dropped THEN {} ELSE published[r]]
    /\ publishDiagnostics(UNION {published[r] : r \in dropped})
    /\ answerDeferred(dropped, {})

\* dropRoot for each root in dropped: its analyses, checks and diagnostics are forgotten.
dropRoots(dropped) ==
    /\ analyses' = [r \in Files |-> IF r \in dropped THEN None ELSE analyses[r]]
    /\ parsed' = parsed \ dropped
    /\ failed' = failed \ dropped
    /\ published' = [r \in Files |-> IF r \in dropped THEN {} ELSE published[r]]
    /\ publishDiagnostics(UNION {published[r] : r \in dropped})
    /\ answerDeferred(dropped, {})

\* updateRoots: the root files of the open documents are found again.
updateRoots ==
    roots' = [f \in Files |-> IF overlays'[f] = None THEN None
                              ELSE rootFile[read(overlays', disk'), f]]

\* Mutant: a root that is new for a document is not scheduled.
rescheduleOldRoots(asked, left) ==
    LET moved == {f \in Files : roots'[f] # None /\ roots'[f] # roots[f]}
        previous == {roots[f] : f \in moved} \ {None}
        dropped == (previous \cup left) \ OpenRoots(roots')
    IN /\ scheduled' = (scheduled \cup previous \cup asked \cup left) \ dropped
       /\ dropRoots(dropped)

\* The roots that are new for a document, and those they replace that are still open,
\* are scheduled; those that no open document belongs to are dropped.  asked are the
\* roots the handler itself schedules, left the root of a closed document.
rescheduleRoots(asked, left) ==
    LET moved == {f \in Files : roots'[f] # None /\ roots'[f] # roots[f]}
        previous == {roots[f] : f \in moved} \ {None}
        touched == {roots'[f] : f \in moved} \cup previous \cup asked \cup left
        dropped == (previous \cup left) \ OpenRoots(roots')
    IN /\ scheduled' = (scheduled \cup touched) \ dropped
       /\ dropRoots(dropped)

\* scheduleRootsContaining: the document's root and the open roots whose last analysis read it.
scheduleRootsContaining(f) == {roots'[f]} \cup
    {r \in OpenRoots(roots') : analyses[r] # None /\ f \in analyses[r].files}

\* Mutant: the last analysis of function bodies is dropped by any new analysis.
KeptBodiesDropped(root, analysed) == parsed \ {root}

\* parsedAnalyses_ after a new analysis of root: an analysis that did not come as far as
\* the function bodies moves the one it replaces there if that one did.
KeptBodies(root, analysed) ==
    IF analysed THEN parsed \ {root}
    ELSE parsed \cup {r \in {root} : analyses[r] # None /\ analyses[r].analysed}

\* check(root): the package is analysed, its diagnostics are published and the requests
\* waiting for it are answered, as are those in now.
check(root, now) ==
    /\ scheduled' = scheduled \ {root}
    /\ UNCHANGED <<session, disk, overlays, roots>>
    /\ \E analysed \in Outcomes, files \in {Package[read(overlays, disk), root]} :
       \E diagnostics \in SUBSET (files \cap Diagnosable) :
          /\ parsed' = KeptBodies(root, analysed)
          /\ analyses' = [analyses EXCEPT ![root] =
                [analysed |-> analysed, diagnostics |-> diagnostics, files |-> files,
                 texts |-> [f \in Files |-> IF roots[f] = root THEN overlays[f] ELSE None]]]
          /\ published' = [published EXCEPT ![root] = diagnostics]
          /\ publishDiagnostics(published[root] \cup diagnostics \cup {f \in Files : roots[f] = root})
    /\ failed' = failed \ {root}
    /\ answerDeferred({root}, now)

\* Mutant: a check that throws answers no waiting request.
checkFailsSilently(root, now) ==
    /\ scheduled' = scheduled \ {root}
    /\ failed' = failed \cup {root}
    /\ UNCHANGED <<session, disk, overlays, roots, analyses, parsed, published, shown>>
    /\ answerDeferred({}, now)

\* A check that throws leaves the previous analysis, but the requests are still answered.
checkFails(root, now) ==
    /\ scheduled' = scheduled \ {root}
    /\ failed' = failed \cup {root}
    /\ UNCHANGED <<session, disk, overlays, roots, analyses, parsed, published, shown>>
    /\ answerDeferred({root}, now)

----------------------------------------------------------------------------
(* Init and the messages of the client.  A message is handled to its end   *)
(* before the next is read; none is read while runChecks goes through the  *)
(* list of roots that are due.                                             *)

Forget(v) == v = [f \in Files |-> None]
Clear(v) == v = [f \in Files |-> {}]

Init ==
    /\ session = "started"
    /\ disk \in [Files -> Texts] /\ \A f \in Files : disk[f] \in TextsOf[f]
    /\ Forget(overlays) /\ Forget(roots) /\ Forget(analyses)
    /\ Clear(published) /\ Clear(shown) /\ Clear(deferred)
    /\ scheduled = {} /\ due = {} /\ parsed = {} /\ failed = {}
    /\ about = [q \in Requests |-> None]
    /\ answers = [q \in Requests |-> 0]

Reading == session # "exited" /\ due = {}
Serving == session = "initialized" /\ due = {}

Initialize ==
    /\ Reading /\ session = "started"
    /\ session' = "initialized"
    /\ UNCHANGED <<disk, overlays, roots, packageVars, due, deferred, about, answers>>

Shutdown ==
    /\ Serving
    /\ session' = "shutdown"
    /\ UNCHANGED <<disk, overlays, roots, packageVars, due, deferred, about, answers>>

\* exit, or the end of the input: the server's memory is gone, and the client forgets its diagnostics.
Exit ==
    /\ Reading
    /\ session' = "exited"
    /\ Forget(overlays') /\ Forget(roots') /\ Forget(analyses')
    /\ Clear(published') /\ Clear(shown') /\ Clear(deferred')
    /\ scheduled' = {} /\ parsed' = {} /\ failed' = {}
    /\ UNCHANGED <<disk, due, about, answers>>

didOpen(f, text) ==
    /\ Serving
    /\ Cardinality(OpenFiles \cup {f}) <= MaxOpen
    /\ overlays' = [overlays EXCEPT ![f] = text]
    /\ UNCHANGED <<session, disk, due, about>>
    /\ updateRoots
    /\ rescheduleRoots({roots'[f]}, {})

didChange(f, text) ==
    /\ Serving /\ overlays[f] # None
    /\ overlays' = [overlays EXCEPT ![f] = text]
    /\ UNCHANGED <<session, disk, due, about>>
    /\ IF IncludesOf[text] # IncludesOf[overlays[f]] THEN updateRoots ELSE roots' = roots
    /\ rescheduleRoots(scheduleRootsContaining(f), {})

\* The editor has written the document to disk before it sends didSave.
didSave(f) ==
    /\ Serving /\ overlays[f] # None
    /\ disk' = [disk EXCEPT ![f] = overlays[f]]
    /\ UNCHANGED <<session, overlays, due, about>>
    /\ updateRoots
    /\ rescheduleRoots(scheduleRootsContaining(f), {})

didClose(f) ==
    /\ Serving
    /\ overlays' = [overlays EXCEPT ![f] = None]
    /\ UNCHANGED <<session, disk, due, about>>
    /\ updateRoots
    /\ rescheduleRoots({}, {roots[f]} \ {None})

\* A closed file changes on disk; the client does not tell.
DiskChanges(f, text) ==
    /\ Serving /\ overlays[f] = None
    /\ disk' = [disk EXCEPT ![f] = text]
    /\ UNCHANGED <<session, overlays, roots, packageVars, due, deferred, about, answers>>

Receive(q, f) == about[q] = None /\ about' = [about EXCEPT ![q] = f]

\* A request before initialize or after shutdown gets an error response.
Refuse(q, f) ==
    /\ Reading /\ session # "initialized"
    /\ Receive(q, f)
    /\ answers' = [answers EXCEPT ![q] = @ + 1]
    /\ UNCHANGED <<session, disk, overlays, roots, packageVars, due, deferred>>

\* semanticTokens and documentSymbols wait for the pending check of the document's package.
Defer(q, f) ==
    /\ Serving
    /\ Receive(q, f)
    /\ roots[f] \in scheduled
    /\ deferred' = [deferred EXCEPT ![roots[f]] = @ \cup {q}]
    /\ UNCHANGED <<session, disk, overlays, roots, packageVars, due, answers>>

\* Without a pending check every request is answered at once; completion always is.
Answer(q, f) ==
    /\ Serving
    /\ Receive(q, f)
    /\ answers' = [answers EXCEPT ![q] = @ + 1]
    /\ UNCHANGED <<session, disk, overlays, roots, packageVars, due, deferred>>

\* hover, definition and docs force the pending check of the document's package.
ForceCheck(q, f) ==
    /\ Serving
    /\ Receive(q, f)
    /\ roots[f] \in scheduled
    /\ check(roots[f], {q}) \/ checkFails(roots[f], {q})
    /\ UNCHANGED due

\* runChecks, when no message came: it makes the list of the roots that are due...
runChecks(rs) ==
    /\ Reading /\ rs # {}
    /\ due' = rs
    /\ UNCHANGED <<session, disk, overlays, roots, packageVars, deferred, about, answers>>

\* ...and checks one after the other.
CheckDue(root) ==
    /\ root \in due
    /\ due' = due \ {root}
    /\ check(root, {}) \/ checkFails(root, {})
    /\ UNCHANGED about

Next ==
    \/ Initialize \/ Shutdown \/ Exit
    \/ \E f \in Files : \E text \in TextsOf[f] :
          didOpen(f, text) \/ didChange(f, text) \/ DiskChanges(f, text)
    \/ \E f \in Files : didSave(f) \/ didClose(f)
    \/ \E q \in Requests, f \in Files : Refuse(q, f) \/ Defer(q, f) \/ Answer(q, f) \/ ForceCheck(q, f)
    \/ \E rs \in SUBSET scheduled : runChecks(rs)
    \/ \E root \in Files : CheckDue(root)

Spec == Init /\ [][Next]_vars

\* A client that pauses gives the scheduled checks their turn.  The time of a scheduled
\* check is never put off, so once it has passed every list of due roots contains it
\* (strong fairness: runChecks cannot be called while it goes through the list).
Fairness == \A root \in Files :
    /\ WF_vars(CheckDue(root))
    /\ SF_vars(\E rs \in SUBSET scheduled : root \in rs /\ runChecks(rs))

FairSpec == Spec /\ Fairness

----------------------------------------------------------------------------
(* Properties.                                                             *)

\* A document has a root while it is open; nothing is kept of, and no check is planned for,
\* a root to which no open document belongs anymore, however roots move and documents close
\* between checks.
ClosedRootsForgotten ==
    /\ \A f \in Files : overlays[f] = None <=> roots[f] = None
    /\ \A r \in Files : r \notin OpenRoots(roots) =>
           /\ r \notin scheduled \cup due \cup parsed \cup failed
           /\ analyses[r] = None /\ published[r] = {} /\ deferred[r] = {}

\* An open document of which no check is pending was analysed as it is in the editor:
\* no change, save or move to another root is missed (unless its last check threw).
OpenFilesCurrent ==
    \A f \in OpenFiles : roots[f] \notin scheduled \cup failed =>
        /\ analyses[roots[f]] # None
        /\ analyses[roots[f]].texts[f] = overlays[f]

\* A request that waits waits for a check that is scheduled.
WaitingIsScheduled == \A r \in Files : deferred[r] # {} => r \in scheduled

\* Every request that was received was answered once, or waits once and was not answered,
\* also when its document moves to another root, is closed, or its check throws.
AnsweredOnce ==
    \A q \in Requests : about[q] # None /\ session # "exited" =>
        answers[q] + Cardinality({r \in Files : q \in deferred[r]}) = 1

\* The client shows no diagnostics of an analysis that was replaced or forgotten, and for an
\* open document without a pending check exactly those of the analysis of its root.
DiagnosticsCurrent ==
    \A f \in Files :
        /\ \A r \in shown[f] : analyses[r] # None /\ f \in analyses[r].diagnostics
        /\ f \in OpenFiles /\ roots[f] \notin scheduled \cup failed =>
              shown[f] = {r \in {roots[f]} : f \in analyses[r].diagnostics}

\* Completion and semantic tokens do not lose the last analysis of function bodies while
\* the package stays open: later analyses that stop at an error keep it.
Usable(r) == analyses[r] # None /\ (analyses[r].analysed \/ r \in parsed)
BodiesKept == [][\A r \in Files : Usable(r) /\ r \in OpenRoots(roots') => Usable(r)']_vars

\* Every request is answered, provided its document does not move between roots forever.
EventuallyAnswered ==
    <>[][roots' = roots]_vars =>
        \A q \in Requests : (about[q] # None) ~> (answers[q] = 1 \/ session = "exited")

\* What Server.hpp says of publishDiagnostics: the diagnostics of a file that is not open
\* are those of all analyses.
ClosedFilesShowAll ==
    \A f \in Files \ OpenFiles :
        shown[f] = {r \in Files : analyses[r] # None /\ f \in analyses[r].diagnostics}

=============================================================================
