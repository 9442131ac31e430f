------------------------ MODULE LanguageServerProofs ------------------------
(***************************************************************************)
(* Proofs about LanguageServer, for any files, texts and requests: a       *)
(* request that waits waits for a scheduled check, and every request is    *)
(* answered once or waits once; nothing is kept of a root without an open  *)
(* document, no change of an open document is missed, the client shows the *)
(* diagnostics of the analyses that exist, and no usable analysis is lost. *)
(* And about Transport, for any messages and broken ones, however they are *)
(* cut: the messages are received, in their order and whole.               *)
(***************************************************************************)
EXTENDS LanguageServer, FiniteSetTheorems, Transport, Integers, SequenceTheorems, WellFoundedInduction, TLAPS

\* The part of the type invariant that the requests depend on.
RequestTypes ==
    /\ overlays \in [Files -> Texts \cup {None}]
    /\ disk \in [Files -> Texts]
    /\ roots \in [Files -> Files \cup {None}]
    /\ \A f \in Files : overlays[f] = None <=> roots[f] = None
    /\ due \subseteq scheduled /\ scheduled \subseteq Files
    /\ deferred \in [Files -> SUBSET Requests]
    /\ about \in [Requests -> Files \cup {None}]
    /\ answers \in [Requests -> Nat]

\* A request waits at one root and was not answered, or was answered and waits nowhere;
\* one that was not received does neither.
Waits(q) == \E r \in Files : q \in deferred[r]
Settled(q) ==
    /\ \A r, s \in Files : q \in deferred[r] /\ q \in deferred[s] => r = s
    /\ answers[q] = IF about[q] # None /\ ~Waits(q) THEN 1 ELSE 0
    /\ about[q] = None => ~Waits(q)
RequestsSettled == \A q \in Requests : Settled(q)

\* What any step keeps while the server runs.
Inv ==
    /\ RequestTypes
    /\ WaitingIsScheduled
    /\ session # "exited" => RequestsSettled
    /\ session = "exited" => due = {}

\* answerDeferred keeps the requests settled if the roots in done are not scheduled
\* afterwards, the other scheduled roots still are, and the requests in now are new.
LEMMA AnswerStep ==
    ASSUME RequestTypes, WaitingIsScheduled, RequestsSettled,
           roots' \in [Files -> Files \cup {None}], about' \in [Requests -> Files \cup {None}],
           NEW done \in SUBSET Files, NEW now \in SUBSET Requests,
           done \cap scheduled' = {}, scheduled \ done \subseteq scheduled',
           \A q \in now : about[q] = None /\ about'[q] # None,
           \A q \in Requests \ now : about'[q] = about[q],
           answerDeferred(done, now)
    PROVE  /\ deferred' \in [Files -> SUBSET Requests]
           /\ answers' \in [Requests -> Nat]
           /\ WaitingIsScheduled'
           /\ RequestsSettled'
<1> DEFINE waiting == UNION {deferred[r] : r \in done}
           Again(q, r) == q \in waiting /\ roots'[about[q]] = r /\ r \in scheduled'
<1>1. /\ deferred' = [r \in Files |-> (IF r \in done THEN {} ELSE deferred[r])
                                      \cup {q \in Requests : Again(q, r)}]
      /\ answers' = [q \in Requests |->
            IF q \in now \/ (q \in waiting /\ ~\E r \in Files : Again(q, r))
            THEN answers[q] + 1 ELSE answers[q]]
  BY DEF answerDeferred
<1>2. \A q \in Requests : q \in waiting <=> \E r \in done : q \in deferred[r]
  OBVIOUS
<1>3. \A q \in Requests, r \in Files :
          q \in deferred'[r] <=> \/ r \notin done /\ q \in deferred[r]
                                 \/ Again(q, r)
  BY <1>1
<1>4. deferred' \in [Files -> SUBSET Requests]
  BY <1>1 DEF RequestTypes
<1>5. answers' \in [Requests -> Nat]
  BY <1>1 DEF RequestTypes
<1>6. WaitingIsScheduled'
  <2> SUFFICES ASSUME NEW r \in Files, NEW q \in Requests, q \in deferred'[r]
               PROVE  r \in scheduled'
    BY <1>4 DEF WaitingIsScheduled
  <2>1. CASE r \notin done /\ q \in deferred[r]
    BY <2>1 DEF WaitingIsScheduled
  <2>2. CASE Again(q, r)
    BY <2>2
  <2> QED
    BY <1>3, <2>1, <2>2
<1> HIDE DEF waiting
<1>7. ASSUME NEW q \in Requests
      PROVE  Settled(q)'
  <2>1. Settled(q)
    BY DEF RequestsSettled
  <2>2. answers'[q] = IF q \in now \/ (q \in waiting /\ ~\E r \in Files : Again(q, r))
                      THEN answers[q] + 1 ELSE answers[q]
    BY <1>1
  <2>3. CASE q \in waiting
    <3>1. PICK r \in done : q \in deferred[r]
      BY <2>3, <1>2
    <3>2. about[q] # None /\ q \notin now /\ about'[q] = about[q] /\ answers[q] = 0
      BY <2>1, <3>1 DEF Settled, Waits
    <3>3. \A s \in Files : q \in deferred'[s] <=> Again(q, s)
      BY <1>3, <2>1, <3>1 DEF Settled
    <3>4. \A s, t \in Files : Again(q, s) /\ Again(q, t) => s = t
      OBVIOUS
    <3>5. Waits(q)' <=> \E s \in Files : Again(q, s)
      BY <3>3 DEF Waits
    <3>6. answers'[q] = IF Waits(q)' THEN 0 ELSE 1
      BY <2>2, <2>3, <3>2, <3>5
    <3> QED
      BY <3>2, <3>3, <3>4, <3>6 DEF Settled
  <2>4. CASE q \notin waiting
    <3>1. \A s \in Files : q \in deferred'[s] <=> q \in deferred[s]
      BY <1>2, <1>3, <2>4
    <3>2. Waits(q)' <=> Waits(q)
      BY <3>1 DEF Waits
    <3>3. CASE q \in now
      <4>1. answers'[q] = answers[q] + 1 /\ answers[q] = 0 /\ ~Waits(q)
        BY <2>1, <2>2, <3>3 DEF Settled
      <4> QED
        BY <2>1, <3>1, <3>2, <3>3, <4>1 DEF Settled
    <3>4. CASE q \notin now
      <4>1. answers'[q] = answers[q] /\ about'[q] = about[q]
        BY <2>2, <2>4, <3>4
      <4> QED
        BY <2>1, <3>1, <3>2, <4>1 DEF Settled
    <3> QED
      BY <3>3, <3>4
  <2> QED
    BY <2>3, <2>4
<1> QED
  BY <1>4, <1>5, <1>6, <1>7 DEF RequestsSettled

\* Handlers of documents end with rescheduleRoots.
LEMMA RescheduleStep ==
    ASSUME Inv, session # "exited", due = {}, UNCHANGED <<session, due, about>>,
           disk' \in [Files -> Texts],
           overlays' \in [Files -> Texts \cup {None}],
           roots' \in [Files -> Files \cup {None}],
           \A f \in Files : overlays'[f] = None <=> roots'[f] = None,
           NEW asked \in SUBSET Files, NEW left \in SUBSET Files,
           rescheduleRoots(asked, left)
    PROVE  Inv'
<1> DEFINE moved == {f \in Files : roots'[f] # None /\ roots'[f] # roots[f]}
           previous == {roots[f] : f \in moved} \ {None}
           touched == {roots'[f] : f \in moved} \cup previous \cup asked \cup left
           dropped == (previous \cup left) \ OpenRoots(roots')
<1>1. scheduled' = (scheduled \cup touched) \ dropped /\ answerDeferred(dropped, {})
  BY DEF rescheduleRoots, dropRoots
<1>2. previous \in SUBSET Files /\ touched \in SUBSET Files
  BY DEF Inv, RequestTypes
<1>3. dropped \in SUBSET Files
  BY <1>2
<1> HIDE DEF previous, touched, dropped
<1>4. about' = about /\ about' \in [Requests -> Files \cup {None}]
  BY DEF Inv, RequestTypes
<1>5. /\ deferred' \in [Files -> SUBSET Requests]
      /\ answers' \in [Requests -> Nat]
      /\ WaitingIsScheduled'
      /\ RequestsSettled'
  <2>1. dropped \cap scheduled' = {} /\ scheduled \ dropped \subseteq scheduled'
    BY <1>1
  <2>2. RequestTypes /\ WaitingIsScheduled /\ RequestsSettled
    BY DEF Inv
  <2> QED
    BY <1>1, <1>3, <1>4, <2>1, <2>2, AnswerStep
<1>6. RequestTypes'
  <2>1. due' = {} /\ scheduled' \subseteq Files
    BY <1>1, <1>2 DEF Inv, RequestTypes
  <2> QED
    BY <1>4, <1>5, <2>1 DEF RequestTypes
<1> QED
  BY <1>5, <1>6 DEF Inv

\* A check, successful or not, of a scheduled root answers the requests that wait for it.
LEMMA CheckStep ==
    ASSUME Inv, session # "exited",
           NEW root \in scheduled, NEW now \in SUBSET Requests,
           about' \in [Requests -> Files \cup {None}],
           \A q \in now : about[q] = None /\ about'[q] # None,
           \A q \in Requests \ now : about'[q] = about[q],
           due' = due \ {root},
           check(root, now) \/ checkFails(root, now)
    PROVE  Inv'
<1>1. /\ scheduled' = scheduled \ {root}
      /\ UNCHANGED <<session, disk, overlays, roots>>
      /\ answerDeferred({root}, now)
  BY DEF check, checkFails
<1>2. RequestTypes /\ WaitingIsScheduled /\ RequestsSettled
  BY DEF Inv
<1>3. /\ {root} \in SUBSET Files
      /\ roots' \in [Files -> Files \cup {None}]
      /\ {root} \cap scheduled' = {} /\ scheduled \ {root} \subseteq scheduled'
  BY <1>1, <1>2 DEF RequestTypes
<1>4. /\ deferred' \in [Files -> SUBSET Requests]
      /\ answers' \in [Requests -> Nat]
      /\ WaitingIsScheduled'
      /\ RequestsSettled'
  BY <1>1, <1>2, <1>3, AnswerStep
<1>5. RequestTypes'
  BY <1>1, <1>2, <1>4 DEF RequestTypes
<1> QED
  BY <1>1, <1>4, <1>5 DEF Inv

\* The root file of an open document is a file.
LEMMA UpdateRootsStep ==
    ASSUME RequestTypes, overlays' \in [Files -> Texts \cup {None}], disk' \in [Files -> Texts],
           updateRoots
    PROVE  /\ roots' \in [Files -> Files \cup {None}]
           /\ \A f \in Files : overlays'[f] = None <=> roots'[f] = None
<1>1. read(overlays', disk') \in Contents
  BY NoneAssumption DEF read, Contents
<1>2. \A f \in Files : rootFile[read(overlays', disk'), f] \in Files
  <2> HIDE DEF rootFile, Contents
  <2> TAKE f \in Files
  <2>1. <<read(overlays', disk'), f>> \in Contents \X Files
    BY <1>1
  <2> QED
    BY <2>1, RootFileAssumption
<1> HIDE DEF rootFile
<1> QED
  BY <1>2, NoneAssumption DEF updateRoots

\* A server without documents satisfies the invariant.
LEMMA InitHolds == Init => Inv
<1> SUFFICES ASSUME Init PROVE Inv
  OBVIOUS
<1>1. RequestTypes
  BY NoneAssumption DEF Init, RequestTypes, Forget, Clear
<1>2. WaitingIsScheduled
  BY DEF Init, WaitingIsScheduled, Clear
<1>3. RequestsSettled
  BY DEF Init, RequestsSettled, Settled, Waits, Clear
<1> QED
  BY <1>1, <1>2, <1>3 DEF Inv, Init

\* Every message and every wait keeps the invariant.
LEMMA NextKeeps == Inv /\ [Next]_vars => Inv'
<1> SUFFICES ASSUME Inv, [Next]_vars PROVE Inv'
  OBVIOUS
<1>1. ASSUME Initialize PROVE Inv'
  BY <1>1 DEF Initialize, Reading, packageVars, Inv, RequestTypes, WaitingIsScheduled, RequestsSettled, Settled, Waits
<1>2. ASSUME Shutdown PROVE Inv'
  BY <1>2 DEF Shutdown, Serving, packageVars, Inv, RequestTypes, WaitingIsScheduled, RequestsSettled, Settled, Waits
<1>3. ASSUME Exit PROVE Inv'
  <2>1. RequestTypes'
    BY <1>3, NoneAssumption DEF Exit, Reading, Forget, Clear, Inv, RequestTypes
  <2>2. WaitingIsScheduled'
    BY <1>3 DEF Exit, Clear, WaitingIsScheduled
  <2> QED
    BY <1>3, <2>1, <2>2 DEF Exit, Reading, Inv
<1>4. ASSUME NEW f \in Files, NEW text \in TextsOf[f], didOpen(f, text)
      PROVE  Inv'
  <2>1. /\ session # "exited" /\ due = {} /\ UNCHANGED <<session, disk, due, about>>
        /\ overlays' = [overlays EXCEPT ![f] = text]
        /\ updateRoots /\ rescheduleRoots({roots'[f]}, {})
    BY <1>4 DEF didOpen, Serving
  <2>2. text \in Texts /\ text # None
    BY NoneAssumption DEF Texts
  <2>3. /\ RequestTypes
        /\ overlays' \in [Files -> Texts \cup {None}] /\ disk' \in [Files -> Texts]
        /\ overlays'[f] # None
    BY <2>1, <2>2 DEF Inv, RequestTypes
  <2>4. /\ roots' \in [Files -> Files \cup {None}]
        /\ \A g \in Files : overlays'[g] = None <=> roots'[g] = None
    BY <2>1, <2>3, UpdateRootsStep
  <2>5. {roots'[f]} \in SUBSET Files /\ {} \in SUBSET Files
    BY <2>3, <2>4
  <2> QED
    BY <2>1, <2>3, <2>4, <2>5, RescheduleStep
<1>5. ASSUME NEW f \in Files, NEW text \in TextsOf[f], didChange(f, text)
      PROVE  Inv'
  <2>1. /\ session # "exited" /\ due = {} /\ UNCHANGED <<session, disk, due, about>>
        /\ overlays[f] # None /\ overlays' = [overlays EXCEPT ![f] = text]
        /\ updateRoots \/ roots' = roots
        /\ rescheduleRoots(scheduleRootsContaining(f), {})
    BY <1>5 DEF didChange, Serving
  <2>2. text \in Texts /\ text # None
    BY NoneAssumption DEF Texts
  <2>3. /\ RequestTypes
        /\ overlays' \in [Files -> Texts \cup {None}] /\ disk' \in [Files -> Texts]
        /\ overlays'[f] # None /\ \A g \in Files : overlays'[g] = None <=> overlays[g] = None
    BY <2>1, <2>2 DEF Inv, RequestTypes
  <2>4. /\ roots' \in [Files -> Files \cup {None}]
        /\ \A g \in Files : overlays'[g] = None <=> roots'[g] = None
    <3>1. CASE updateRoots
      BY <2>3, <3>1, UpdateRootsStep
    <3>2. CASE roots' = roots
      BY <2>3, <3>2 DEF RequestTypes
    <3> QED
      BY <2>1, <3>1, <3>2
  <2>5. scheduleRootsContaining(f) \in SUBSET Files /\ {} \in SUBSET Files
    BY <2>3, <2>4 DEF scheduleRootsContaining, OpenRoots
  <2> QED
    BY <2>1, <2>3, <2>4, <2>5, RescheduleStep
<1>6. ASSUME NEW f \in Files, didSave(f)
      PROVE  Inv'
  <2>1. /\ session # "exited" /\ due = {} /\ UNCHANGED <<session, overlays, due, about>>
        /\ overlays[f] # None /\ disk' = [disk EXCEPT ![f] = overlays[f]]
        /\ updateRoots
        /\ rescheduleRoots(scheduleRootsContaining(f), {})
    BY <1>6 DEF didSave, Serving
  <2>2. /\ RequestTypes
        /\ overlays' \in [Files -> Texts \cup {None}] /\ disk' \in [Files -> Texts]
        /\ overlays'[f] # None
    BY <2>1 DEF Inv, RequestTypes
  <2>3. /\ roots' \in [Files -> Files \cup {None}]
        /\ \A g \in Files : overlays'[g] = None <=> roots'[g] = None
    BY <2>1, <2>2, UpdateRootsStep
  <2>4. scheduleRootsContaining(f) \in SUBSET Files /\ {} \in SUBSET Files
    BY <2>2, <2>3 DEF scheduleRootsContaining, OpenRoots
  <2> QED
    BY <2>1, <2>2, <2>3, <2>4, RescheduleStep
<1>7. ASSUME NEW f \in Files, didClose(f)
      PROVE  Inv'
  <2>1. /\ session # "exited" /\ due = {} /\ UNCHANGED <<session, disk, due, about>>
        /\ overlays' = [overlays EXCEPT ![f] = None]
        /\ updateRoots /\ rescheduleRoots({}, {roots[f]} \ {None})
    BY <1>7 DEF didClose, Serving
  <2>2. /\ RequestTypes
        /\ overlays' \in [Files -> Texts \cup {None}] /\ disk' \in [Files -> Texts]
    BY <2>1 DEF Inv, RequestTypes
  <2>3. /\ roots' \in [Files -> Files \cup {None}]
        /\ \A g \in Files : overlays'[g] = None <=> roots'[g] = None
    BY <2>1, <2>2, UpdateRootsStep
  <2>4. {roots[f]} \ {None} \in SUBSET Files /\ {} \in SUBSET Files
    BY <2>2 DEF RequestTypes
  <2> QED
    BY <2>1, <2>2, <2>3, <2>4, RescheduleStep
<1>8. ASSUME NEW f \in Files, NEW text \in TextsOf[f], DiskChanges(f, text)
      PROVE  Inv'
  <2>1. text \in Texts
    BY DEF Texts
  <2>2. RequestTypes'
    BY <1>8, <2>1 DEF DiskChanges, packageVars, Inv, RequestTypes
  <2> QED
    BY <1>8, <2>2 DEF DiskChanges, packageVars, Inv, WaitingIsScheduled, RequestsSettled, Settled, Waits
<1>9. ASSUME NEW q \in Requests, NEW f \in Files, Refuse(q, f) \/ Answer(q, f)
      PROVE  Inv'
  <2>1. /\ session # "exited"
        /\ UNCHANGED <<session, disk, overlays, roots, scheduled, due, deferred>>
        /\ about[q] = None /\ about' = [about EXCEPT ![q] = f]
        /\ answers' = [answers EXCEPT ![q] = @ + 1]
    BY <1>9 DEF Refuse, Answer, Receive, Reading, Serving, packageVars
  <2>2. RequestTypes /\ WaitingIsScheduled /\ RequestsSettled
    BY <2>1 DEF Inv
  <2>3. RequestTypes' /\ WaitingIsScheduled'
    BY <2>1, <2>2 DEF RequestTypes, WaitingIsScheduled
  <2>4. f # None
    BY NoneAssumption
  <2>5. ASSUME NEW p \in Requests PROVE Settled(p)'
    <3>1. Settled(p) /\ (Waits(p)' <=> Waits(p))
      BY <2>1, <2>2 DEF RequestsSettled, Waits
    <3>2. CASE p = q
      BY <2>1, <2>2, <2>4, <3>1, <3>2 DEF Settled, RequestTypes
    <3>3. CASE p # q
      BY <2>1, <2>2, <3>1, <3>3 DEF Settled, RequestTypes
    <3> QED
      BY <3>2, <3>3
  <2> QED
    BY <2>1, <2>3, <2>5 DEF Inv, RequestsSettled
<1>10. ASSUME NEW q \in Requests, NEW f \in Files, Defer(q, f)
       PROVE  Inv'
  <2>1. /\ session # "exited" /\ roots[f] \in scheduled
        /\ UNCHANGED <<session, disk, overlays, roots, scheduled, due, answers>>
        /\ about[q] = None /\ about' = [about EXCEPT ![q] = f]
        /\ deferred' = [deferred EXCEPT ![roots[f]] = @ \cup {q}]
    BY <1>10 DEF Defer, Receive, Serving, packageVars
  <2>2. RequestTypes /\ WaitingIsScheduled /\ RequestsSettled
    BY <2>1 DEF Inv
  <2>3. roots[f] \in Files /\ f # None
    BY <2>1, <2>2, NoneAssumption DEF RequestTypes
  <2>4. RequestTypes' /\ WaitingIsScheduled'
    BY <2>1, <2>2, <2>3 DEF RequestTypes, WaitingIsScheduled
  <2>5. \A r \in Files, p \in Requests : p \in deferred'[r] <=> p \in deferred[r] \/ (p = q /\ r = roots[f])
    BY <2>1, <2>2, <2>3 DEF RequestTypes
  <2>6. ASSUME NEW p \in Requests PROVE Settled(p)'
    <3>1. Settled(p)
      BY <2>2 DEF RequestsSettled
    <3>2. CASE p = q
      <4>1. ~Waits(q) /\ answers[q] = 0
        BY <2>1, <3>1, <3>2 DEF Settled
      <4>2. \A r \in Files : q \in deferred'[r] <=> r = roots[f]
        BY <2>5, <4>1 DEF Waits
      <4>3. Waits(q)' /\ answers'[q] = 0 /\ about'[q] # None
        BY <2>1, <2>2, <2>3, <4>1, <4>2 DEF Waits, RequestTypes
      <4> QED
        BY <3>2, <4>2, <4>3 DEF Settled
    <3>3. CASE p # q
      <4>1. \A r \in Files : p \in deferred'[r] <=> p \in deferred[r]
        BY <2>5, <3>3
      <4>2. Waits(p)' <=> Waits(p)
        BY <4>1 DEF Waits
      <4>3. answers'[p] = answers[p] /\ about'[p] = about[p]
        BY <2>1, <2>2, <3>3 DEF RequestTypes
      <4> QED
        BY <3>1, <4>1, <4>2, <4>3 DEF Settled
    <3> QED
      BY <3>2, <3>3
  <2> QED
    BY <2>1, <2>4, <2>6 DEF Inv, RequestsSettled
<1>11. ASSUME NEW q \in Requests, NEW f \in Files, ForceCheck(q, f)
       PROVE  Inv'
  <2>1. /\ session # "exited" /\ due = {} /\ due' = {} /\ roots[f] \in scheduled
        /\ about[q] = None /\ about' = [about EXCEPT ![q] = f]
        /\ check(roots[f], {q}) \/ checkFails(roots[f], {q})
    BY <1>11 DEF ForceCheck, Receive, Serving
  <2>2. about \in [Requests -> Files \cup {None}] /\ f # None
    BY NoneAssumption DEF Inv, RequestTypes
  <2>3. /\ about' \in [Requests -> Files \cup {None}]
        /\ \A p \in {q} : about[p] = None /\ about'[p] # None
        /\ \A p \in Requests \ {q} : about'[p] = about[p]
        /\ due' = due \ {roots[f]}
    BY <2>1, <2>2
  <2>4. {q} \in SUBSET Requests
    OBVIOUS
  <2> QED
    BY <2>1, <2>3, <2>4, CheckStep
<1>12. ASSUME NEW rs \in SUBSET scheduled, runChecks(rs)
       PROVE  Inv'
  <2>1. RequestTypes'
    BY <1>12 DEF runChecks, packageVars, Inv, RequestTypes
  <2> QED
    BY <1>12, <2>1 DEF runChecks, Reading, packageVars, Inv, WaitingIsScheduled, RequestsSettled, Settled, Waits
<1>13. ASSUME NEW root \in Files, CheckDue(root)
       PROVE  Inv'
  <2>1. /\ root \in due /\ due' = due \ {root} /\ about' = about
        /\ check(root, {}) \/ checkFails(root, {})
    BY <1>13 DEF CheckDue
  <2>2. root \in scheduled /\ about \in [Requests -> Files \cup {None}]
    BY <2>1 DEF Inv, RequestTypes
  <2>3. session # "exited"
    BY <2>1 DEF Inv
  <2> QED
    BY <2>1, <2>2, <2>3, CheckStep
<1>14. ASSUME UNCHANGED vars PROVE Inv'
  BY <1>14 DEF vars, Inv, RequestTypes, WaitingIsScheduled, RequestsSettled, Settled, Waits
<1> QED
  BY <1>1, <1>2, <1>3, <1>4, <1>5, <1>6, <1>7, <1>8, <1>9, <1>10, <1>11, <1>12, <1>13, <1>14 DEF Next

\* The invariant is inductive, so it holds in every session.
THEOREM RequestInvariance == Spec => []Inv
<1>1. Inv /\ [Next]_vars => Inv'
  BY NextKeeps
<1> QED
  BY <1>1, InitHolds, PTL DEF Spec

\* A request deferred by semanticTokens or documentSymbols never waits for a check that
\* will not come: answerDeferred and updateRoots move it to a root that is scheduled.
THEOREM WaitingScheduled == Spec => []WaitingIsScheduled
<1>1. Inv => WaitingIsScheduled
  BY DEF Inv
<1> QED
  BY <1>1, RequestInvariance, PTL

\* Every request is answered once or waits once, whatever becomes of its document.
THEOREM RequestsAnsweredOnce == Spec => []AnsweredOnce
<1>1. Inv => AnsweredOnce
  <2> SUFFICES ASSUME Inv, NEW q \in Requests, about[q] # None, session # "exited"
               PROVE  answers[q] + Cardinality({r \in Files : q \in deferred[r]}) = 1
    BY DEF AnsweredOnce
  <2>1. Settled(q)
    BY DEF Inv, RequestsSettled
  <2>2. CASE Waits(q)
    <3>1. PICK r \in Files : q \in deferred[r]
      BY <2>2 DEF Waits
    <3>2. {s \in Files : q \in deferred[s]} = {r}
      BY <2>1, <3>1 DEF Settled
    <3>3. answers[q] = 0
      BY <2>1, <2>2 DEF Settled
    <3> QED
      <4>1. Cardinality({r}) = 1
        BY FS_Singleton
      <4> QED
        BY <3>2, <3>3, <4>1
  <2>3. CASE ~Waits(q)
    <3>1. {s \in Files : q \in deferred[s]} = {}
      BY <2>3 DEF Waits
    <3>2. answers[q] = 1
      BY <2>1, <2>3 DEF Settled
    <3> QED
      BY <3>1, <3>2, FS_EmptySet
  <2> QED
    BY <2>2, <2>3
<1> QED
  BY <1>1, RequestInvariance, PTL

----------------------------------------------------------------------------
(* The documents, their roots and their diagnostics.                       *)

\* The part of the type invariant that is about analyses and diagnostics.
SessionTypes ==
    /\ analyses \in [Files -> Analysis \cup {None}]
    /\ published \in [Files -> SUBSET Files]
    /\ shown \in [Files -> SUBSET Files]
    /\ parsed \in SUBSET Files /\ failed \in SUBSET Files

\* The files for which the server remembers to have published diagnostics of a root are those
\* for which the analysis of the root has some.
PublishedKnown ==
    \A r \in Files : published[r] = IF analyses[r] = None THEN {} ELSE analyses[r].diagnostics

\* The inductive invariant.
SessionInv == /\ Inv /\ SessionTypes /\ PublishedKnown
              /\ ClosedRootsForgotten /\ OpenFilesCurrent /\ DiagnosticsCurrent

\* What a handler of documents does: the roots of documents are found again, the roots in
\* dropped are forgotten, among them all that no document belongs to anymore, and a
\* check of every root is scheduled that is new for a document or whose document changed.
Regroups(dropped) ==
    /\ dropped \in SUBSET Files /\ dropped \cap OpenRoots(roots') = {}
    /\ scheduled' \subseteq scheduled \cup OpenRoots(roots') /\ dropped \cap scheduled' = {}
    /\ \A r \in Files : r \in OpenRoots(roots) /\ r \notin OpenRoots(roots') => r \in dropped
    /\ \A f \in Files : overlays'[f] # None /\ roots'[f] \notin scheduled' =>
           /\ roots'[f] = roots[f] /\ overlays'[f] = overlays[f] /\ roots[f] \notin scheduled
    /\ dropRoots(dropped)
    /\ due = {} /\ due' = {}

\* The roots of open documents are files.
LEMMA OpenRootsKnown ==
    ASSUME NEW rs \in [Files -> Files \cup {None}]
    PROVE  OpenRoots(rs) \in SUBSET Files /\ \A f \in Files : rs[f] # None => rs[f] \in OpenRoots(rs)
BY DEF OpenRoots

\* rescheduleRoots regroups the documents, provided the handler asks for a check of the
\* document it changes and names the root of the document it closes.
LEMMA Regrouping ==
    ASSUME Inv, due = {}, due' = due,
           roots' \in [Files -> Files \cup {None}],
           \A f \in Files : overlays'[f] = None <=> roots'[f] = None,
           NEW g \in Files, \A f \in Files \ {g} : overlays'[f] = overlays[f],
           NEW asked \in SUBSET OpenRoots(roots'), NEW left \in SUBSET Files,
           overlays'[g] # None /\ overlays'[g] # overlays[g] => roots'[g] \in asked,
           roots[g] # None /\ overlays'[g] = None => roots[g] \in left,
           rescheduleRoots(asked, left)
    PROVE  \E dropped \in SUBSET Files : Regroups(dropped)
<1> DEFINE moved == {f \in Files : roots'[f] # None /\ roots'[f] # roots[f]}
           previous == {roots[f] : f \in moved} \ {None}
           touched == {roots'[f] : f \in moved} \cup previous \cup asked \cup left
           dropped == (previous \cup left) \ OpenRoots(roots')
<1>1. scheduled' = (scheduled \cup touched) \ dropped /\ dropRoots(dropped)
  BY DEF rescheduleRoots
<1>2. /\ roots \in [Files -> Files \cup {None}]
      /\ \A f \in Files : overlays[f] = None <=> roots[f] = None
  BY DEF Inv, RequestTypes
<1>3. /\ \A f \in Files : roots'[f] # None => roots'[f] \in OpenRoots(roots')
      /\ OpenRoots(roots') \in SUBSET Files
  BY OpenRootsKnown
<1>4. /\ \A f \in Files : roots'[f] # None /\ roots'[f] # roots[f] => roots'[f] \in touched
      /\ \A f \in Files : roots'[f] # None /\ roots'[f] # roots[f] /\ roots[f] # None
             => roots[f] \in previous
      /\ touched \subseteq OpenRoots(roots') \cup previous \cup left
      /\ previous \in SUBSET Files /\ asked \subseteq touched
  BY <1>2, <1>3
<1>5. /\ dropped \in SUBSET Files /\ dropped \cap OpenRoots(roots') = {}
      /\ \A r \in previous \cup left : r \in OpenRoots(roots') \/ r \in dropped
  BY <1>4
<1> HIDE DEF moved, previous, touched, dropped
<1>6. scheduled' \subseteq scheduled \cup OpenRoots(roots') /\ dropped \cap scheduled' = {}
  BY <1>1, <1>4, <1>5
<1>7. ASSUME NEW r \in Files, r \in OpenRoots(roots), r \notin OpenRoots(roots')
      PROVE  r \in dropped
  <2>1. PICK f \in Files : roots[f] = r /\ r # None
    BY <1>7 DEF OpenRoots
  <2>2. roots'[f] # r
    BY <1>3, <1>7, <2>1
  <2>3. CASE roots'[f] # None
    BY <1>4, <1>5, <1>7, <2>1, <2>2, <2>3
  <2>4. CASE roots'[f] = None
    <3>1. overlays'[f] = None /\ overlays[f] # None
      BY <1>2, <2>1, <2>4
    <3>2. f = g
      BY <3>1
    <3> QED
      BY <1>5, <1>7, <2>1, <3>1, <3>2
  <2> QED
    BY <2>3, <2>4
<1>8. ASSUME NEW f \in Files, overlays'[f] # None, roots'[f] \notin scheduled'
      PROVE  roots'[f] = roots[f] /\ overlays'[f] = overlays[f] /\ roots[f] \notin scheduled
  <2>1. roots'[f] # None /\ roots'[f] \in OpenRoots(roots') /\ roots'[f] \notin dropped
    BY <1>3, <1>5, <1>8
  <2>2. roots'[f] \notin scheduled /\ roots'[f] \notin touched
    BY <1>1, <1>8, <2>1
  <2>3. roots'[f] = roots[f]
    BY <1>4, <2>1, <2>2
  <2>4. overlays'[f] = overlays[f]
    BY <1>4, <1>8, <2>2
  <2> QED
    BY <2>2, <2>3, <2>4
<1> QED
  BY <1>1, <1>5, <1>6, <1>7, <1>8 DEF Regroups

\* What dropRoots does to each root and each file.
LEMMA DropFacts ==
    ASSUME SessionTypes, NEW dropped \in SUBSET Files, dropRoots(dropped)
    PROVE  /\ \A r \in Files : /\ analyses'[r] = IF r \in dropped THEN None ELSE analyses[r]
                               /\ published'[r] = IF r \in dropped THEN {} ELSE published[r]
           /\ parsed' = parsed \ dropped /\ failed' = failed \ dropped
           /\ \A f \in Files : shown'[f] =
                  IF \E r \in dropped : f \in published[r]
                  THEN {r \in Files : /\ analyses'[r] # None /\ f \in analyses'[r].diagnostics
                                      /\ roots'[f] # None => r = roots'[f]}
                  ELSE shown[f]
           /\ SessionTypes'
<1> DEFINE paths == UNION {published[r] : r \in dropped}
<1>1. /\ analyses' = [r \in Files |-> IF r \in dropped THEN None ELSE analyses[r]]
      /\ published' = [r \in Files |-> IF r \in dropped THEN {} ELSE published[r]]
      /\ parsed' = parsed \ dropped /\ failed' = failed \ dropped
      /\ publishDiagnostics(paths)
  BY DEF dropRoots
<1>2. \A f \in Files : f \in paths <=> \E r \in dropped : f \in published[r]
  OBVIOUS
<1> HIDE DEF paths
<1>3. shown' = [f \in Files |->
          IF f \in paths
          THEN {r \in Files : /\ analyses'[r] # None /\ f \in analyses'[r].diagnostics
                              /\ roots'[f] # None => r = roots'[f]}
          ELSE shown[f]]
  BY <1>1 DEF publishDiagnostics
<1>4. shown' \in [Files -> SUBSET Files]
  BY <1>3 DEF SessionTypes
<1>5. analyses' \in [Files -> Analysis \cup {None}] /\ published' \in [Files -> SUBSET Files]
  BY <1>1 DEF SessionTypes
<1>6. SessionTypes'
  BY <1>1, <1>4, <1>5 DEF SessionTypes
<1> QED
  BY <1>1, <1>2, <1>3, <1>6

\* Regrouping the open documents under roots keeps the session invariant.
LEMMA RegroupStep ==
    ASSUME SessionInv, Inv', NEW dropped \in SUBSET Files, Regroups(dropped)
    PROVE  SessionInv' /\ \A r \in Files : Usable(r) /\ r \in OpenRoots(roots') => Usable(r)'
<1>1. /\ dropped \cap OpenRoots(roots') = {} /\ due' = {}
      /\ scheduled' \subseteq scheduled \cup OpenRoots(roots') /\ dropped \cap scheduled' = {}
      /\ \A r \in Files : r \in OpenRoots(roots) /\ r \notin OpenRoots(roots') => r \in dropped
      /\ \A f \in Files : overlays'[f] # None /\ roots'[f] \notin scheduled' =>
             /\ roots'[f] = roots[f] /\ overlays'[f] = overlays[f] /\ roots[f] \notin scheduled
      /\ dropRoots(dropped)
  BY DEF Regroups
<1>2. /\ \A r \in Files : /\ analyses'[r] = IF r \in dropped THEN None ELSE analyses[r]
                          /\ published'[r] = IF r \in dropped THEN {} ELSE published[r]
      /\ parsed' = parsed \ dropped /\ failed' = failed \ dropped
      /\ SessionTypes'
  BY <1>1, DropFacts DEF SessionInv
<1>shown. \A f \in Files : shown'[f] =
                  IF \E r \in dropped : f \in published[r]
                  THEN {r \in Files : /\ analyses'[r] # None /\ f \in analyses'[r].diagnostics
                                      /\ roots'[f] # None => r = roots'[f]}
                  ELSE shown[f]
  BY <1>1, DropFacts DEF SessionInv
<1>3. /\ roots' \in [Files -> Files \cup {None}] /\ deferred' \in [Files -> SUBSET Requests]
      /\ \A f \in Files : overlays'[f] = None <=> roots'[f] = None
      /\ \A r \in Files : deferred'[r] # {} => r \in scheduled'
  BY DEF Inv, RequestTypes, WaitingIsScheduled
<1>4. \A f \in Files : overlays'[f] # None => roots'[f] \in OpenRoots(roots') /\ roots'[f] \in Files
  BY <1>3, OpenRootsKnown
<1>5. ASSUME NEW f \in Files, overlays'[f] # None, roots'[f] \notin scheduled' \cup failed'
      PROVE  /\ overlays[f] # None /\ roots[f] = roots'[f] /\ overlays'[f] = overlays[f]
             /\ roots[f] \notin scheduled \cup failed /\ roots[f] \notin dropped
             /\ analyses'[roots'[f]] = analyses[roots[f]]
             /\ analyses[roots[f]] # None /\ analyses[roots[f]].texts[f] = overlays[f]
             /\ shown[f] = {r \in {roots[f]} : f \in analyses[r].diagnostics}
  <2>1. roots'[f] = roots[f] /\ overlays'[f] = overlays[f] /\ roots[f] \notin scheduled
    BY <1>1, <1>5
  <2>2. roots'[f] \notin dropped /\ roots'[f] \in Files
    BY <1>1, <1>4, <1>5
  <2>3. roots[f] \notin failed /\ analyses'[roots'[f]] = analyses[roots[f]]
    BY <1>2, <1>5, <2>1, <2>2
  <2>4. f \in OpenFiles /\ roots[f] \notin scheduled \cup failed
    BY <1>5, <2>1, <2>3 DEF OpenFiles
  <2> QED
    BY <1>5, <2>1, <2>2, <2>3, <2>4 DEF SessionInv, OpenFilesCurrent, DiagnosticsCurrent
<1>6. PublishedKnown'
  BY <1>2 DEF SessionInv, PublishedKnown
<1>7. ClosedRootsForgotten'
  <2>1. ASSUME NEW r \in Files, r \notin OpenRoots(roots')
        PROVE  /\ r \notin scheduled' \cup due' \cup parsed' \cup failed'
               /\ analyses'[r] = None /\ published'[r] = {} /\ deferred'[r] = {}
    <3>1. r \in dropped \/ r \notin OpenRoots(roots)
      BY <1>1, <2>1
    <3>2. r \notin scheduled'
      BY <1>1, <2>1, <3>1 DEF SessionInv, ClosedRootsForgotten
    <3>3. r \notin parsed' \cup failed' /\ analyses'[r] = None /\ published'[r] = {}
      BY <1>2, <3>1 DEF SessionInv, ClosedRootsForgotten
    <3> QED
      BY <1>1, <1>3, <3>2, <3>3
  <2> QED
    BY <1>3, <2>1 DEF ClosedRootsForgotten
<1>8. OpenFilesCurrent'
  BY <1>5 DEF OpenFilesCurrent, OpenFiles
<1>9. ASSUME NEW f \in Files, NEW r \in shown'[f]
      PROVE  analyses'[r] # None /\ f \in analyses'[r].diagnostics
  <2>1. CASE \E s \in dropped : f \in published[s]
    BY <1>shown, <1>9, <2>1
  <2>2. CASE ~\E s \in dropped : f \in published[s]
    <3>1. r \in shown[f] /\ r \in Files
      BY <1>shown, <1>9, <2>2 DEF SessionInv, SessionTypes
    <3>2. analyses[r] # None /\ f \in analyses[r].diagnostics
      BY <3>1 DEF SessionInv, DiagnosticsCurrent
    <3>3. f \in published[r]
      BY <3>1, <3>2 DEF SessionInv, PublishedKnown
    <3> QED
      BY <1>2, <2>2, <3>1, <3>2, <3>3
  <2> QED
    BY <2>1, <2>2
<1>10. ASSUME NEW f \in Files, overlays'[f] # None, roots'[f] \notin scheduled' \cup failed'
       PROVE  shown'[f] = {r \in {roots'[f]} : f \in analyses'[r].diagnostics}
  <2>1. PICK root \in Files : root = roots'[f] /\ root # None
    BY <1>3, <1>4, <1>10
  <2>2. /\ analyses'[root] = analyses[root] /\ analyses[root] # None
        /\ shown[f] = {r \in {root} : f \in analyses[r].diagnostics}
    BY <1>5, <1>10, <2>1
  <2>3. shown'[f] = shown[f] \/ shown'[f] = {r \in Files : /\ analyses'[r] # None
                                                           /\ f \in analyses'[r].diagnostics
                                                           /\ r = root}
    BY <1>shown, <2>1
  <2>4. shown'[f] = {r \in {root} : f \in analyses'[r].diagnostics}
    BY <2>2, <2>3
  <2> QED
    BY <2>1, <2>4
<1>11. DiagnosticsCurrent'
  BY <1>9, <1>10 DEF DiagnosticsCurrent, OpenFiles
<1>12. \A r \in Files : Usable(r) /\ r \in OpenRoots(roots') => Usable(r)'
  BY <1>1, <1>2 DEF Usable
<1> QED
  BY <1>2, <1>6, <1>7, <1>8, <1>11, <1>12 DEF SessionInv

\* What a check, successful or not, does to each root and each file.
CheckKept(root) ==
    /\ \A r \in Files \ {root} : analyses'[r] = analyses[r] /\ published'[r] = published[r]
    /\ \A r \in Files \ {root} : (r \in parsed' <=> r \in parsed) /\ (r \in failed' <=> r \in failed)

\* What a check leaves: an analysis of the current texts, and its diagnostics published and shown.
LEMMA CheckFacts ==
    ASSUME Inv, SessionTypes, NEW root \in Files, NEW now, check(root, now)
    PROVE  /\ CheckKept(root) /\ SessionTypes'
           /\ analyses'[root] # None /\ published'[root] = analyses'[root].diagnostics
           /\ \A f \in Files : roots[f] = root => analyses'[root].texts[f] = overlays[f]
           /\ root \notin failed'
           /\ Usable(root) => analyses'[root].analysed \/ root \in parsed'
           /\ \A f \in Files : shown'[f] =
                  IF f \in published[root] \/ f \in published'[root] \/ roots[f] = root
                  THEN {r \in Files : /\ analyses'[r] # None /\ f \in analyses'[r].diagnostics
                                      /\ roots'[f] # None => r = roots'[f]}
                  ELSE shown[f]
<1> DEFINE pkg == Package[read(overlays, disk), root]
           stored(analysed, diagnostics) ==
                [analysed |-> analysed, diagnostics |-> diagnostics, files |-> pkg,
                 texts |-> [f \in Files |-> IF roots[f] = root THEN overlays[f] ELSE None]]
<1>1. pkg \in SUBSET Files
  <2>1. read(overlays, disk) \in Contents
    BY NoneAssumption DEF read, Contents, Inv, RequestTypes
  <2>2. <<read(overlays, disk), root>> \in Contents \X Files
    BY <2>1
  <2> HIDE DEF Package, Contents
  <2> QED
    BY <2>2, RootFileAssumption, Zenon
<1>2. PICK analysed \in Outcomes, diagnostics \in SUBSET (pkg \cap Diagnosable) :
          /\ parsed' = KeptBodies(root, analysed)
          /\ analyses' = [analyses EXCEPT ![root] = stored(analysed, diagnostics)]
          /\ published' = [published EXCEPT ![root] = diagnostics]
          /\ publishDiagnostics(published[root] \cup diagnostics \cup {f \in Files : roots[f] = root})
  <2> HIDE DEF Package
  <2> QED
    BY Zenon DEF check
<1> HIDE DEF pkg
<1>3. PICK a : a = stored(analysed, diagnostics)
  OBVIOUS
<1>4. /\ a.analysed = analysed /\ a.diagnostics = diagnostics
      /\ \A f \in Files : roots[f] = root => a.texts[f] = overlays[f]
  BY <1>3
<1>5. a \in Analysis /\ a # None
  <2>1. [f \in Files |-> IF roots[f] = root THEN overlays[f] ELSE None] \in [Files -> Texts \cup {None}]
    BY DEF Inv, RequestTypes
  <2>2. a \in Analysis
    BY <1>1, <1>3, <2>1, TextsAssumption DEF Analysis
  <2> QED
    BY <2>2, NoneAssumption
<1> HIDE DEF stored
<1>6. /\ analyses' = [analyses EXCEPT ![root] = a]
      /\ published' = [published EXCEPT ![root] = diagnostics]
      /\ diagnostics \in SUBSET Files
  BY <1>1, <1>2, <1>3
<1>7. /\ analyses'[root] = a /\ published'[root] = diagnostics
      /\ \A r \in Files \ {root} : analyses'[r] = analyses[r] /\ published'[r] = published[r]
  BY <1>6 DEF SessionTypes
<1>8. /\ parsed' = KeptBodies(root, analysed) /\ failed' = failed \ {root}
      /\ UNCHANGED roots
  BY <1>2 DEF check
<1>9. shown' = [f \in Files |->
          IF f \in published[root] \/ f \in diagnostics \/ roots[f] = root
          THEN {r \in Files : /\ analyses'[r] # None /\ f \in analyses'[r].diagnostics
                              /\ roots'[f] # None => r = roots'[f]}
          ELSE shown[f]]
  BY <1>2 DEF publishDiagnostics
<1>10. SessionTypes'
  <2>1. shown' \in [Files -> SUBSET Files]
    BY <1>9 DEF SessionTypes
  <2>2. analyses' \in [Files -> Analysis \cup {None}] /\ published' \in [Files -> SUBSET Files]
    BY <1>5, <1>6 DEF SessionTypes
  <2>3. parsed' \in SUBSET Files /\ failed' \in SUBSET Files
    BY <1>8 DEF KeptBodies, SessionTypes
  <2> QED
    BY <2>1, <2>2, <2>3 DEF SessionTypes
<1>11. CheckKept(root)
  BY <1>7, <1>8 DEF CheckKept, KeptBodies
<1>12. Usable(root) => analyses'[root].analysed \/ root \in parsed'
  BY <1>4, <1>7, <1>8 DEF Usable, KeptBodies
<1>13. \A f \in Files : shown'[f] =
           IF f \in published[root] \/ f \in published'[root] \/ roots[f] = root
           THEN {r \in Files : /\ analyses'[r] # None /\ f \in analyses'[r].diagnostics
                               /\ roots'[f] # None => r = roots'[f]}
           ELSE shown[f]
  BY <1>7, <1>9
<1> QED
  BY <1>4, <1>5, <1>7, <1>8, <1>10, <1>11, <1>12, <1>13

\* A check of a scheduled root, successful or not.
LEMMA SessionCheckStep ==
    ASSUME SessionInv, Inv', NEW root \in scheduled, NEW now,
           due' = due \ {root}, check(root, now) \/ checkFails(root, now)
    PROVE  SessionInv' /\ \A r \in Files : Usable(r) => Usable(r)'
<1>1. /\ scheduled' = scheduled \ {root} /\ UNCHANGED <<overlays, roots>>
      /\ root \in Files /\ root \in OpenRoots(roots)
  BY DEF check, checkFails, SessionInv, Inv, RequestTypes, ClosedRootsForgotten
<1>2. /\ \A f \in Files : overlays[f] = None <=> roots[f] = None
      /\ \A r \in Files : deferred'[r] # {} => r \in scheduled'
      /\ roots \in [Files -> Files \cup {None}] /\ deferred' \in [Files -> SUBSET Requests]
  BY DEF SessionInv, Inv, RequestTypes, WaitingIsScheduled
<1>3. ASSUME NEW r \in Files, r \notin OpenRoots(roots)
      PROVE  /\ r # root /\ r \notin scheduled' \cup due' \cup parsed \cup failed
             /\ analyses[r] = None /\ published[r] = {} /\ deferred'[r] = {}
  BY <1>1, <1>2, <1>3 DEF SessionInv, ClosedRootsForgotten
<1>4. OpenRoots(roots') = OpenRoots(roots)
  BY <1>1
<1>5. CASE checkFails(root, now)
  <2>1. failed' = failed \cup {root} /\ UNCHANGED <<analyses, parsed, published, shown>>
    BY <1>5 DEF checkFails
  <2>2. SessionTypes' /\ PublishedKnown' /\ \A r \in Files : Usable(r) => Usable(r)'
    BY <1>1, <2>1 DEF SessionInv, SessionTypes, PublishedKnown, Usable
  <2>3. ClosedRootsForgotten'
    BY <1>1, <1>2, <1>3, <1>4, <2>1 DEF ClosedRootsForgotten
  <2>4. OpenFilesCurrent' /\ DiagnosticsCurrent'
    BY <1>1, <2>1 DEF SessionInv, OpenFilesCurrent, DiagnosticsCurrent, OpenFiles
  <2> QED
    BY <2>2, <2>3, <2>4 DEF SessionInv
<1>6. CASE check(root, now)
  <2>1. /\ SessionTypes'
        /\ \A r \in Files \ {root} : analyses'[r] = analyses[r] /\ published'[r] = published[r]
        /\ \A r \in Files \ {root} : (r \in parsed' <=> r \in parsed) /\ (r \in failed' <=> r \in failed)
        /\ analyses'[root] # None /\ published'[root] = analyses'[root].diagnostics
        /\ \A f \in Files : roots[f] = root => analyses'[root].texts[f] = overlays[f]
        /\ root \notin failed'
        /\ Usable(root) => analyses'[root].analysed \/ root \in parsed'
    BY <1>1, <1>6, CheckFacts DEF CheckKept, SessionInv
  <2>shown. \A f \in Files : shown'[f] =
                IF f \in published[root] \/ f \in published'[root] \/ roots[f] = root
                THEN {r \in Files : /\ analyses'[r] # None /\ f \in analyses'[r].diagnostics
                                    /\ roots'[f] # None => r = roots'[f]}
                ELSE shown[f]
    BY <1>1, <1>6, CheckFacts DEF SessionInv
  <2>2. PublishedKnown'
    BY <2>1 DEF SessionInv, PublishedKnown
  <2>3. \A r \in Files : Usable(r) => Usable(r)'
    BY <2>1 DEF Usable
  <2>4. ClosedRootsForgotten'
    <3>1. ASSUME NEW r \in Files, r \notin OpenRoots(roots')
          PROVE  /\ r \notin scheduled' \cup due' \cup parsed' \cup failed'
                 /\ analyses'[r] = None /\ published'[r] = {} /\ deferred'[r] = {}
      BY <1>3, <1>4, <2>1, <3>1
    <3> QED
      BY <1>1, <1>2, <3>1 DEF ClosedRootsForgotten
  <2>5. OpenFilesCurrent'
    <3>1. ASSUME NEW f \in Files, overlays[f] # None, roots[f] \notin scheduled' \cup failed'
          PROVE  analyses'[roots[f]] # None /\ analyses'[roots[f]].texts[f] = overlays[f]
      <4>1. PICK own \in Files : own = roots[f]
        BY <1>2, <3>1
      <4>2. CASE own = root
        BY <2>1, <4>1, <4>2
      <4>3. CASE own # root
        <5>1. own \notin scheduled \cup failed /\ f \in OpenFiles /\ analyses'[own] = analyses[own]
          BY <1>1, <2>1, <3>1, <4>1, <4>3 DEF OpenFiles
        <5> QED
          BY <4>1, <5>1 DEF SessionInv, OpenFilesCurrent
      <4> QED
        BY <4>2, <4>3
    <3> QED
      BY <1>1, <3>1 DEF OpenFilesCurrent, OpenFiles
  <2>6. ASSUME NEW f \in Files, NEW r \in shown'[f]
        PROVE  analyses'[r] # None /\ f \in analyses'[r].diagnostics
    <3>1. CASE f \in published[root] \/ f \in published'[root] \/ roots[f] = root
      BY <2>shown, <2>6, <3>1
    <3>2. CASE ~(f \in published[root] \/ f \in published'[root] \/ roots[f] = root)
      <4>1. r \in shown[f] /\ r \in Files
        BY <2>shown, <2>6, <3>2 DEF SessionInv, SessionTypes
      <4>2. analyses[r] # None /\ f \in analyses[r].diagnostics
        BY <4>1 DEF SessionInv, DiagnosticsCurrent
      <4>3. f \in published[r]
        BY <4>1, <4>2 DEF SessionInv, PublishedKnown
      <4> QED
        BY <2>1, <3>2, <4>1, <4>2, <4>3
    <3> QED
      BY <3>1, <3>2
  <2>7. ASSUME NEW f \in Files, overlays[f] # None, roots[f] \notin scheduled' \cup failed'
        PROVE  shown'[f] = {r \in {roots[f]} : f \in analyses'[r].diagnostics}
    <3>1. PICK own \in Files : own = roots[f] /\ own # None
      BY <1>2, <2>7
    <3>2. CASE own = root
      <4>1. shown'[f] = {r \in Files : /\ analyses'[r] # None /\ f \in analyses'[r].diagnostics
                                       /\ r = own}
        BY <1>1, <2>shown, <3>1, <3>2
      <4> QED
        BY <2>1, <3>1, <3>2, <4>1
    <3>3. CASE own # root
      <4>1. own \notin scheduled \cup failed /\ f \in OpenFiles
        BY <1>1, <2>1, <2>7, <3>1, <3>3 DEF OpenFiles
      <4>2. /\ analyses'[own] = analyses[own] /\ analyses[own] # None
            /\ shown[f] = {r \in {own} : f \in analyses[r].diagnostics}
        BY <2>1, <3>1, <3>3, <4>1 DEF SessionInv, OpenFilesCurrent, DiagnosticsCurrent
      <4>3. shown'[f] = shown[f] \/ shown'[f] = {r \in Files : /\ analyses'[r] # None
                                                               /\ f \in analyses'[r].diagnostics
                                                               /\ r = own}
        BY <1>1, <2>shown, <3>1
      <4>4. shown'[f] = {r \in {own} : f \in analyses'[r].diagnostics}
        BY <4>2, <4>3
      <4> QED
        BY <3>1, <4>4
    <3> QED
      BY <3>2, <3>3
  <2>8. DiagnosticsCurrent'
    BY <1>1, <2>6, <2>7 DEF DiagnosticsCurrent, OpenFiles
  <2> QED
    BY <2>1, <2>2, <2>3, <2>4, <2>5, <2>8 DEF SessionInv
<1> QED
  BY <1>5, <1>6

\* A step that leaves the documents, their roots and all that is kept of roots alone.
LEMMA SessionKept ==
    ASSUME SessionInv, Inv', UNCHANGED <<overlays, roots, packageVars>>, due' \subseteq scheduled,
           \A r \in Files : deferred'[r] # {} => r \in scheduled
    PROVE  SessionInv' /\ \A r \in Files : Usable(r) => Usable(r)'
<1>1. SessionTypes' /\ PublishedKnown' /\ \A r \in Files : Usable(r) => Usable(r)'
  BY DEF SessionInv, SessionTypes, PublishedKnown, Usable, packageVars
<1>2. ClosedRootsForgotten'
  BY DEF SessionInv, ClosedRootsForgotten, OpenRoots, packageVars
<1>3. OpenFilesCurrent' /\ DiagnosticsCurrent'
  BY DEF SessionInv, OpenFilesCurrent, DiagnosticsCurrent, OpenFiles, packageVars
<1> QED
  BY <1>1, <1>2, <1>3 DEF SessionInv

\* Every handler keeps the invariant, and what a package can still answer from, while a
\* document belongs to it.
LEMMA SessionStep ==
    ASSUME SessionInv, Inv', [Next]_vars
    PROVE  SessionInv' /\ \A r \in Files : Usable(r) /\ r \in OpenRoots(roots') => Usable(r)'
<1> DEFINE Goal == SessionInv' /\ \A r \in Files : Usable(r) /\ r \in OpenRoots(roots') => Usable(r)'
<1>0. /\ RequestTypes /\ WaitingIsScheduled /\ RequestTypes' /\ WaitingIsScheduled'
      /\ deferred' \in [Files -> SUBSET Requests]
      /\ session = "exited" => due = {}
  BY DEF SessionInv, Inv, RequestTypes
<1>1. ASSUME \/ Initialize \/ Shutdown \/ UNCHANGED vars
             \/ \E f \in Files : \E text \in TextsOf[f] : DiskChanges(f, text)
             \/ \E q \in Requests, f \in Files : Refuse(q, f) \/ Defer(q, f) \/ Answer(q, f)
             \/ \E rs \in SUBSET scheduled : runChecks(rs)
      PROVE  Goal
  <2>1. UNCHANGED <<overlays, roots, packageVars>>
    BY <1>1 DEF Initialize, Shutdown, vars, DiskChanges, Refuse, Defer, Answer, runChecks, packageVars
  <2>2. due' \subseteq scheduled
    BY <1>0, <1>1 DEF Initialize, Shutdown, vars, DiskChanges, Refuse, Defer, Answer, runChecks,
                      RequestTypes
  <2>3. \A r \in Files : deferred'[r] # {} => r \in scheduled
    BY <1>0, <2>1 DEF WaitingIsScheduled, packageVars
  <2> QED
    BY <2>1, <2>2, <2>3, SessionKept
<1>2. ASSUME Exit PROVE Goal
  <2>1. /\ \A f \in Files : overlays'[f] = None /\ roots'[f] = None /\ analyses'[f] = None
        /\ \A f \in Files : published'[f] = {} /\ shown'[f] = {} /\ deferred'[f] = {}
        /\ scheduled' = {} /\ parsed' = {} /\ failed' = {} /\ due' = {}
        /\ analyses' \in [Files -> {None}] /\ published' \in [Files -> {{}}] /\ shown' \in [Files -> {{}}]
    BY <1>2 DEF Exit, Reading, Forget, Clear
  <2>2. OpenRoots(roots') = {}
    BY <2>1 DEF OpenRoots
  <2>3. SessionTypes' /\ PublishedKnown'
    BY <2>1 DEF SessionTypes, PublishedKnown
  <2>4. ClosedRootsForgotten' /\ OpenFilesCurrent' /\ DiagnosticsCurrent'
    BY <2>1 DEF ClosedRootsForgotten, OpenFilesCurrent, DiagnosticsCurrent, OpenFiles
  <2> QED
    BY <2>2, <2>3, <2>4 DEF SessionInv
<1>3. ASSUME NEW dropped \in SUBSET Files, Regroups(dropped) PROVE Goal
  BY <1>3, RegroupStep
<1>4. /\ roots' \in [Files -> Files \cup {None}]
      /\ \A f \in Files : overlays'[f] = None <=> roots'[f] = None
      /\ overlays \in [Files -> Texts \cup {None}] /\ roots \in [Files -> Files \cup {None}]
      /\ \A f \in Files : overlays[f] = None <=> roots[f] = None
  BY <1>0 DEF RequestTypes
<1>5. \A f \in Files : roots'[f] # None => roots'[f] \in OpenRoots(roots')
  BY <1>4, OpenRootsKnown
<1>6. ASSUME NEW f \in Files, NEW text \in TextsOf[f], didOpen(f, text)
      PROVE  Goal
  <2>1. /\ due = {} /\ due' = due /\ overlays' = [overlays EXCEPT ![f] = text]
        /\ rescheduleRoots({roots'[f]}, {})
    BY <1>6 DEF didOpen, Serving
  <2>2. text # None /\ overlays'[f] = text
    BY <1>4, <2>1, NoneAssumption DEF Texts
  <2>3. /\ {roots'[f]} \in SUBSET OpenRoots(roots') /\ {} \in SUBSET Files
        /\ roots'[f] \in {roots'[f]} /\ overlays'[f] # None
        /\ \A g \in Files \ {f} : overlays'[g] = overlays[g]
    BY <1>4, <1>5, <2>1, <2>2
  <2> QED
    BY <1>3, <1>4, <2>1, <2>3, Regrouping DEF SessionInv
<1>7. ASSUME NEW f \in Files, overlays'[f] # None, due = {}, due' = due,
             \A g \in Files \ {f} : overlays'[g] = overlays[g],
             rescheduleRoots(scheduleRootsContaining(f), {})
      PROVE  Goal
  <2>1. /\ scheduleRootsContaining(f) \in SUBSET OpenRoots(roots') /\ {} \in SUBSET Files
        /\ roots'[f] \in scheduleRootsContaining(f)
    BY <1>4, <1>5, <1>7 DEF scheduleRootsContaining
  <2> QED
    BY <1>3, <1>4, <1>7, <2>1, Regrouping DEF SessionInv
<1>8. ASSUME NEW f \in Files, NEW text \in TextsOf[f], didChange(f, text)
      PROVE  Goal
  <2>1. text # None
    BY NoneAssumption DEF Texts
  <2> QED
    BY <1>4, <1>7, <1>8, <2>1 DEF didChange, Serving
<1>9. ASSUME NEW f \in Files, didSave(f)
      PROVE  Goal
  BY <1>7, <1>9 DEF didSave, Serving
<1>10. ASSUME NEW f \in Files, didClose(f)
       PROVE  Goal
  <2>1. /\ due = {} /\ due' = due /\ overlays' = [overlays EXCEPT ![f] = None]
        /\ rescheduleRoots({}, {roots[f]} \ {None})
    BY <1>10 DEF didClose, Serving
  <2>2. /\ {roots[f]} \ {None} \in SUBSET Files /\ {} \in SUBSET OpenRoots(roots')
        /\ roots[f] # None => roots[f] \in {roots[f]} \ {None}
        /\ overlays'[f] = None /\ \A g \in Files \ {f} : overlays'[g] = overlays[g]
    BY <1>4, <2>1
  <2> QED
    BY <1>3, <1>4, <2>1, <2>2, Regrouping DEF SessionInv
<1>11. ASSUME NEW root \in scheduled, NEW now, due' = due \ {root}, check(root, now) \/ checkFails(root, now)
       PROVE  Goal
  BY <1>11, SessionCheckStep
<1>12. ASSUME NEW q \in Requests, NEW f \in Files, ForceCheck(q, f)
       PROVE  Goal
  <2>1. /\ due = {} /\ due' = due \ {roots[f]} /\ roots[f] \in scheduled
        /\ check(roots[f], {q}) \/ checkFails(roots[f], {q})
    BY <1>12 DEF ForceCheck, Serving
  <2> QED
    BY <1>11, <2>1
<1>13. ASSUME NEW root \in Files, CheckDue(root)
       PROVE  Goal
  <2>1. root \in scheduled
    BY <1>0, <1>13 DEF CheckDue, RequestTypes
  <2> QED
    BY <1>11, <1>13, <2>1 DEF CheckDue
<1> HIDE DEF Goal
<1>14. Goal
  BY <1>1, <1>2, <1>6, <1>8, <1>9, <1>10, <1>12, <1>13 DEF Next
<1> QED
  BY <1>14 DEF Goal

\* The invariant is inductive: however roots move, documents close and checks fail.
THEOREM SessionInvariance == Spec => []SessionInv
<1>1. Init => SessionInv
  <2> SUFFICES ASSUME Init PROVE SessionInv
    OBVIOUS
  <2>1. /\ \A f \in Files : overlays[f] = None /\ roots[f] = None /\ analyses[f] = None
        /\ \A f \in Files : published[f] = {} /\ shown[f] = {} /\ deferred[f] = {}
        /\ scheduled = {} /\ parsed = {} /\ failed = {} /\ due = {}
        /\ analyses \in [Files -> {None}] /\ published \in [Files -> {{}}] /\ shown \in [Files -> {{}}]
    BY DEF Init, Forget, Clear
  <2>2. SessionTypes /\ PublishedKnown
    BY <2>1 DEF SessionTypes, PublishedKnown
  <2>3. ClosedRootsForgotten /\ OpenFilesCurrent /\ DiagnosticsCurrent
    BY <2>1 DEF ClosedRootsForgotten, OpenFilesCurrent, DiagnosticsCurrent, OpenFiles
  <2> QED
    BY <2>2, <2>3, InitHolds DEF SessionInv
<1>2. SessionInv /\ Inv' /\ [Next]_vars => SessionInv'
  BY SessionStep
<1> QED
  BY <1>1, <1>2, RequestInvariance, PTL DEF Spec

\* Nothing is kept of a root no open document belongs to, and no check of it is planned.
THEOREM NothingKeptOfClosedRoots == Spec => []ClosedRootsForgotten
<1>1. SessionInv => ClosedRootsForgotten
  BY DEF SessionInv
<1> QED
  BY <1>1, SessionInvariance, PTL

\* No change of an open document is missed by the checks, whatever root it belongs to.
THEOREM DocumentsAreAnalysed == Spec => []OpenFilesCurrent
<1>1. SessionInv => OpenFilesCurrent
  BY DEF SessionInv
<1> QED
  BY <1>1, SessionInvariance, PTL

\* The client shows the diagnostics of the analyses the server has, and of an open document
\* those of its root.
THEOREM DiagnosticsAreCurrent == Spec => []DiagnosticsCurrent
<1>1. SessionInv => DiagnosticsCurrent
  BY DEF SessionInv
<1> QED
  BY <1>1, SessionInvariance, PTL

\* An analysis that stops at an error does not take away the last analysis of function bodies.
THEOREM LastBodiesKept == Spec => BodiesKept
<1>1. SessionInv /\ Inv' /\ [Next]_vars =>
          [\A r \in Files : Usable(r) /\ r \in OpenRoots(roots') => Usable(r)']_vars
  BY SessionStep
<1> QED
  BY <1>1, SessionInvariance, RequestInvariance, PTL DEF Spec, BodiesKept

-----------------------------------------------------------------------------
(***************************************************************************)
(* The transport: what the client sends is received, and nothing else.     *)
(*                                                                         *)
(* What the server has not taken yet, in its buffer and still unread,      *)
(* either begins with a part, whose predecessors are accounted for by what *)
(* was received; or it is searched for a field name, and the first one is  *)
(* that of such a part; or for a blank line, and what follows the first    *)
(* one begins with such a part.  Where the input is cut does not matter to *)
(* this, which is why reading preserves it.                                *)
(***************************************************************************)

(***************************************************************************)
(* Texts                                                                   *)
(***************************************************************************)

\* Where a pattern occurs in a text.
OccursAt(text, pattern, i) ==
    /\ i \in 1..(Len(text) - Len(pattern) + 1)
    /\ \A k \in 1..Len(pattern) : text[i + k - 1] = pattern[k]

\* A set of positions that is not empty has a least one.
LEMMA FirstPosition ==
    ASSUME NEW T \in SUBSET Nat, T # {}
    PROVE  \E x \in T : \A y \in T : x <= y
<1>1. IsWellFoundedOn(OpToRel(<, Nat), Nat)
  BY NatLessThanWellFounded
<1>2. PICK x \in T : \A y \in T : ~(<<y, x>> \in OpToRel(<, Nat))
  BY <1>1, WFMin
<1>3. \A y \in T : ~(y < x)
  BY <1>2 DEF OpToRel
<1>4. QED
  BY <1>3

\* The lengths and the characters of a text that is joined from two.
LEMMA Joined ==
    ASSUME NEW a \in Seq(Characters), NEW b \in Seq(Characters)
    PROVE  /\ a \o b \in Seq(Characters) /\ Len(a) \in Nat /\ Len(b) \in Nat
           /\ Len(a \o b) = Len(a) + Len(b)
           /\ \A k \in 1..Len(a) : (a \o b)[k] = a[k]
           /\ \A k \in 1..Len(b) : (a \o b)[Len(a) + k] = b[k]
<1>. DEFINE m == Len(a)
            n == Len(b)
<1>1. m \in Nat /\ n \in Nat
  BY LenProperties
<1>2. a \o b \in Seq(Characters) /\ Len(a \o b) = m + n
      /\ \A k \in 1..(m + n) : (a \o b)[k] = IF k <= m THEN a[k] ELSE b[k - m]
  BY ConcatProperties
<1>3. \A k \in 1..m : k \in 1..(m + n) /\ k <= m
  BY <1>1
<1>4. \A k \in 1..n : m + k \in 1..(m + n) /\ ~(m + k <= m) /\ m + k - m = k
  BY <1>1
<1>5. QED
  BY <1>1, <1>2, <1>3, <1>4

\* The part of a text between two positions.
LEMMA Between ==
    ASSUME NEW text \in Seq(Characters), NEW i \in 1..(Len(text) + 1), NEW j \in (i - 1)..Len(text)
    PROVE  /\ SubSeq(text, i, j) \in Seq(Characters) /\ Len(SubSeq(text, i, j)) = j - i + 1 /\ Len(text) \in Nat
           /\ \A k \in 1..(j - i + 1) : SubSeq(text, i, j)[k] = text[i + k - 1]
<1>1. Len(text) \in Nat /\ \A k \in 1..Len(text) : text[k] \in Characters
  BY LenProperties, ElementOfSeq
<1>2. i \in Int /\ j \in Int /\ \A k \in i..j : k \in 1..Len(text)
  BY <1>1
<1>3. /\ SubSeq(text, i, j) \in Seq(Characters)
      /\ Len(SubSeq(text, i, j)) = IF i <= j THEN j - i + 1 ELSE 0
      /\ \A k \in 1..(j - i + 1) : SubSeq(text, i, j)[k] = text[i + k - 1]
  BY <1>1, <1>2, SubSeqProperties
<1>4. (IF i <= j THEN j - i + 1 ELSE 0) = j - i + 1
  BY <1>1
<1>5. QED
  BY <1>1, <1>3, <1>4

\* The end of a text.
LEMMA FromFacts ==
    ASSUME NEW text \in Seq(Characters), NEW i \in 1..(Len(text) + 1)
    PROVE  /\ From(text, i) \in Seq(Characters) /\ Len(From(text, i)) = Len(text) - i + 1 /\ Len(text) \in Nat
           /\ \A k \in 1..(Len(text) - i + 1) : From(text, i)[k] = text[i + k - 1]
<1>1. Len(text) \in Nat
  BY LenProperties
<1>2. Len(text) \in (i - 1)..Len(text)
  BY <1>1
<1>3. QED
  BY <1>1, <1>2, Between DEF From

\* All of a text.
LEMMA FromFirst ==
    ASSUME NEW text \in Seq(Characters)
    PROVE  From(text, 1) = text
<1>1. Len(text) \in Nat /\ 1 \in 1..(Len(text) + 1)
  BY LenProperties
<1>2. /\ From(text, 1) \in Seq(Characters) /\ Len(From(text, 1)) = Len(text)
      /\ \A k \in 1..Len(text) : From(text, 1)[k] = text[k]
  <2>1. Len(text) - 1 + 1 = Len(text) /\ \A k \in 1..Len(text) : 1 + k - 1 = k
    BY <1>1
  <2>2. QED
    BY <1>1, <2>1, FromFacts
<1>3. QED
  BY <1>2, SeqEqual

\* The end of an end of a text.
LEMMA FromFrom ==
    ASSUME NEW text \in Seq(Characters), NEW i \in 1..(Len(text) + 1), NEW j \in 1..(Len(text) - i + 2)
    PROVE  From(From(text, i), j) = From(text, i + j - 1)
<1>. DEFINE s == From(text, i)
            n == Len(text)
<1>1. n \in Nat /\ s \in Seq(Characters) /\ Len(s) = n - i + 1 /\ \A k \in 1..(n - i + 1) : s[k] = text[i + k - 1]
  BY FromFacts
<1>2. j \in 1..(Len(s) + 1) /\ i + j - 1 \in 1..(n + 1) /\ Len(s) - j + 1 = n - (i + j - 1) + 1
  BY <1>1
<1>. HIDE DEF s
<1>3. /\ From(s, j) \in Seq(Characters) /\ Len(From(s, j)) = Len(s) - j + 1
      /\ \A k \in 1..(Len(s) - j + 1) : From(s, j)[k] = s[j + k - 1]
  BY <1>1, <1>2, FromFacts
<1>4. /\ From(text, i + j - 1) \in Seq(Characters) /\ Len(From(text, i + j - 1)) = n - (i + j - 1) + 1
      /\ \A k \in 1..(n - (i + j - 1) + 1) : From(text, i + j - 1)[k] = text[(i + j - 1) + k - 1]
  BY <1>2, FromFacts
<1>. HIDE DEF n
<1>5. ASSUME NEW k \in 1..(Len(s) - j + 1)
      PROVE  From(s, j)[k] = From(text, i + j - 1)[k]
  <2>0. i \in Nat \ {0} /\ j \in Nat \ {0} /\ k \in 1..(n - i + 1 - j + 1)
    BY <1>1
  <2>1. j + k - 1 \in 1..(n - i + 1) /\ i + (j + k - 1) - 1 = (i + j - 1) + k - 1 /\ k \in 1..(n - (i + j - 1) + 1)
    BY <1>1, <2>0
  <2>2. s[j + k - 1] = text[(i + j - 1) + k - 1]
    BY <1>1, <2>1
  <2>3. QED
    BY <1>3, <1>4, <2>1, <2>2
<1>6. From(s, j) = From(text, i + j - 1)
  <2>1. PICK a \in Seq(Characters) : a = From(s, j)
    BY <1>3
  <2>2. PICK b \in Seq(Characters) : b = From(text, i + j - 1)
    BY <1>4
  <2>3. Len(a) = Len(s) - j + 1 /\ Len(b) = Len(s) - j + 1
    BY <1>2, <1>3, <1>4, <2>1, <2>2
  <2>4. \A k \in 1..(Len(s) - j + 1) : a[k] = b[k]
    BY <1>5, <2>1, <2>2
  <2>5. a = b
    BY <2>3, <2>4, SeqEqual
  <2>6. QED
    BY <2>1, <2>2, <2>5
<1>7. QED
  BY <1>6 DEF s

\* The end of a text that is joined from two, from a position in the first.
LEMMA FromJoined ==
    ASSUME NEW a \in Seq(Characters), NEW b \in Seq(Characters), NEW i \in 1..(Len(a) + 1)
    PROVE  From(a \o b, i) = From(a, i) \o b
<1>. DEFINE m == Len(a)
            n == Len(b)
            s == a \o b
            e == From(a, i)
<1>1. /\ m \in Nat /\ n \in Nat /\ s \in Seq(Characters) /\ Len(s) = m + n
      /\ \A k \in 1..m : s[k] = a[k]
      /\ \A k \in 1..n : s[m + k] = b[k]
  BY Joined
<1>2. e \in Seq(Characters) /\ Len(e) = m - i + 1 /\ \A k \in 1..(m - i + 1) : e[k] = a[i + k - 1]
  BY FromFacts
<1>. HIDE DEF s, e
<1>3. /\ e \o b \in Seq(Characters) /\ Len(e \o b) = m - i + 1 + n
      /\ \A k \in 1..(m - i + 1) : (e \o b)[k] = e[k]
      /\ \A k \in 1..n : (e \o b)[m - i + 1 + k] = b[k]
  <2>1. /\ e \o b \in Seq(Characters) /\ Len(e \o b) = Len(e) + n
        /\ \A k \in 1..Len(e) : (e \o b)[k] = e[k]
        /\ \A k \in 1..n : (e \o b)[Len(e) + k] = b[k]
    BY <1>2, Joined
  <2>2. QED
    BY <1>2, <2>1
<1>4. i \in 1..(Len(s) + 1)
  BY <1>1
<1>5. /\ From(s, i) \in Seq(Characters) /\ Len(From(s, i)) = m + n - i + 1
      /\ \A k \in 1..(m + n - i + 1) : From(s, i)[k] = s[i + k - 1]
  <2>1. /\ From(s, i) \in Seq(Characters) /\ Len(From(s, i)) = Len(s) - i + 1
        /\ \A k \in 1..(Len(s) - i + 1) : From(s, i)[k] = s[i + k - 1]
    BY <1>1, <1>4, FromFacts
  <2>2. QED
    BY <1>1, <2>1
<1>6. ASSUME NEW k \in 1..(m + n - i + 1)
      PROVE  From(s, i)[k] = (e \o b)[k]
  <2>1. CASE k \in 1..(m - i + 1)
    <3>1. i + k - 1 \in 1..m
      BY <1>1, <2>1
    <3>2. QED
      BY <1>1, <1>2, <1>3, <1>5, <2>1, <3>1
  <2>2. CASE k \notin 1..(m - i + 1)
    <3>1. PICK h \in 1..n : k = m - i + 1 + h
      <4>1. k - (m - i + 1) \in 1..n /\ k = m - i + 1 + (k - (m - i + 1))
        BY <1>1, <2>2
      <4>2. QED
        BY <4>1
    <3>2. i + k - 1 = m + h
      BY <1>1, <3>1
    <3>3. QED
      BY <1>1, <1>3, <1>5, <3>1, <3>2
  <2>3. QED
    BY <2>1, <2>2
<1>7. m + n - i + 1 = m - i + 1 + n
  BY <1>1
<1>8. From(s, i) = e \o b
  BY <1>3, <1>5, <1>6, <1>7, SeqEqual
<1>9. QED
  BY <1>8 DEF s, e

\* The end of a text is empty, or the second of two texts that are joined.
LEMMA FromSecond ==
    ASSUME NEW a \in Seq(Characters), NEW b \in Seq(Characters)
    PROVE  From(a \o b, Len(a) + 1) = b /\ From(a, Len(a) + 1) = <<>>
<1>1. Len(a) \in Nat /\ Len(a) + 1 \in 1..(Len(a) + 1) /\ Len(a) - (Len(a) + 1) + 1 = 0
  BY LenProperties
<1>2. From(a, Len(a) + 1) \in Seq(Characters) /\ Len(From(a, Len(a) + 1)) = 0
  BY <1>1, FromFacts
<1>3. From(a, Len(a) + 1) = <<>>
  BY <1>2, EmptySeq
<1>4. From(a \o b, Len(a) + 1) = <<>> \o b
  BY <1>1, <1>3, FromJoined
<1>5. QED
  BY <1>3, <1>4, ConcatEmptySeq

(***************************************************************************)
(* Searching                                                               *)
(***************************************************************************)

\* Find returns the first position of the pattern.
LEMMA FindFacts ==
    ASSUME NEW text \in Seq(Characters), NEW pattern \in Seq(Characters), pattern # <<>>
    PROVE  /\ Find(text, pattern) \in Nat
           /\ Find(text, pattern) # 0 => /\ OccursAt(text, pattern, Find(text, pattern))
                                         /\ \A i \in 1..(Find(text, pattern) - 1) : ~OccursAt(text, pattern, i)
           /\ Find(text, pattern) = 0 => \A i : ~OccursAt(text, pattern, i)
<1>. DEFINE n == Len(text)
            m == Len(pattern)
            found == {i \in 1..(n - m + 1) : SubSeq(text, i, i + m - 1) = pattern}
<1>1. n \in Nat /\ m \in Nat \ {0}
  BY EmptySeq, LenProperties
<1>2. \A i : i \in found <=> OccursAt(text, pattern, i)
  <2>1. SUFFICES ASSUME NEW i \in 1..(n - m + 1)
                 PROVE  SubSeq(text, i, i + m - 1) = pattern <=> \A k \in 1..m : text[i + k - 1] = pattern[k]
    BY DEF OccursAt
  <2>2. i \in 1..(n + 1) /\ i + m - 1 \in (i - 1)..n /\ i + m - 1 - i + 1 = m
    BY <1>1
  <2>3. /\ SubSeq(text, i, i + m - 1) \in Seq(Characters) /\ Len(SubSeq(text, i, i + m - 1)) = m
        /\ \A k \in 1..m : SubSeq(text, i, i + m - 1)[k] = text[i + k - 1]
    <3>1. PICK j : j = i + m - 1
      OBVIOUS
    <3>2. j \in (i - 1)..n /\ j - i + 1 = m
      BY <2>2, <3>1
    <3>3. /\ SubSeq(text, i, j) \in Seq(Characters) /\ Len(SubSeq(text, i, j)) = j - i + 1
          /\ \A k \in 1..(j - i + 1) : SubSeq(text, i, j)[k] = text[i + k - 1]
      BY <2>2, <3>2, Between
    <3>4. QED
      BY <3>1, <3>2, <3>3
  <2>4. ASSUME \A k \in 1..m : text[i + k - 1] = pattern[k]
        PROVE  SubSeq(text, i, i + m - 1) = pattern
    BY <2>3, <2>4, SeqEqual
  <2>5. QED
    BY <2>3, <2>4
<1>3. found \in SUBSET Nat /\ 0 \notin found
  BY <1>1
<1>4. Find(text, pattern) = IF found = {} THEN 0 ELSE Min(found)
  BY DEF Find
<1>. HIDE DEF found
<1>5. CASE found = {}
  BY <1>2, <1>4, <1>5
<1>6. CASE found # {}
  <2>1. \E x \in found : \A y \in found : x <= y
    BY <1>3, <1>6, FirstPosition
  <2>2. Min(found) \in found /\ \A y \in found : Min(found) <= y
    BY <2>1 DEF Min
  <2>3. PICK first \in Nat : first = Min(found)
    BY <1>3, <2>2
  <2>4. \A i \in 1..(first - 1) : ~(first <= i)
    OBVIOUS
  <2>5. \A i \in 1..(first - 1) : i \notin found
    BY <2>2, <2>3, <2>4
  <2>6. Find(text, pattern) = first /\ first \in found /\ first # 0
    BY <1>3, <1>4, <1>6, <2>2, <2>3
  <2>7. QED
    BY <1>2, <2>5, <2>6
<1>7. QED
  BY <1>5, <1>6

\* There is one first position.
LEMMA FindIs ==
    ASSUME NEW text \in Seq(Characters), NEW pattern \in Seq(Characters), pattern # <<>>,
           NEW i, OccursAt(text, pattern, i), \A j \in 1..(i - 1) : ~OccursAt(text, pattern, j)
    PROVE  Find(text, pattern) = i
<1>1. i \in Nat \ {0}
  BY LenProperties DEF OccursAt
<1>2. Find(text, pattern) \in Nat \ {0} /\ OccursAt(text, pattern, Find(text, pattern))
      /\ \A j \in 1..(Find(text, pattern) - 1) : ~OccursAt(text, pattern, j)
  BY FindFacts
<1>3. ~(i < Find(text, pattern)) /\ ~(Find(text, pattern) < i)
  BY <1>1, <1>2
<1>4. QED
  BY <1>1, <1>2, <1>3

\* What occurs in the first of two texts, and what occurs in both.
LEMMA OccursJoined ==
    ASSUME NEW a \in Seq(Characters), NEW b \in Seq(Characters), NEW pattern \in Seq(Characters), NEW i
    PROVE  /\ OccursAt(a, pattern, i) => OccursAt(a \o b, pattern, i)
           /\ OccursAt(a \o b, pattern, i) /\ i + Len(pattern) - 1 <= Len(a) => OccursAt(a, pattern, i)
           /\ OccursAt(a \o b, pattern, i) => i \in Nat \ {0}
<1>. DEFINE m == Len(pattern)
            s == a \o b
<1>1. /\ Len(a) \in Nat /\ Len(b) \in Nat /\ Len(s) = Len(a) + Len(b) /\ m \in Nat
      /\ \A k \in 1..Len(a) : s[k] = a[k]
  BY Joined, LenProperties
<1>. HIDE DEF s, m
<1>2. ASSUME i \in 1..(Len(a) - m + 1)
      PROVE  \A k \in 1..m : s[i + k - 1] = a[i + k - 1]
  <2>1. \A k \in 1..m : i + k - 1 \in 1..Len(a)
    BY <1>1, <1>2
  <2>2. QED
    BY <1>1, <2>1
<1>3. i \in 1..(Len(a) - m + 1) => i \in 1..(Len(s) - m + 1)
  BY <1>1
<1>4. i \in 1..(Len(s) - m + 1) /\ i + m - 1 <= Len(a) => i \in 1..(Len(a) - m + 1)
  BY <1>1
<1>5. i \in 1..(Len(s) - m + 1) => i \in Nat \ {0}
  BY <1>1
<1>6. QED
  BY <1>2, <1>3, <1>4, <1>5 DEF OccursAt, s, m

\* What is found in a text is found in a longer one.
LEMMA FindJoined ==
    ASSUME NEW a \in Seq(Characters), NEW b \in Seq(Characters), NEW pattern \in Seq(Characters), pattern # <<>>
    PROVE  /\ Find(a, pattern) # 0 => Find(a \o b, pattern) = Find(a, pattern)
           /\ Find(a, pattern) = 0 /\ Find(a \o b, pattern) # 0 => Len(a) < Find(a \o b, pattern) + Len(pattern) - 1
<1>0. a \o b \in Seq(Characters) /\ Len(a) \in Nat /\ Len(pattern) \in Nat
  BY Joined, LenProperties
<1>1. ASSUME Find(a, pattern) # 0
      PROVE  Find(a \o b, pattern) = Find(a, pattern)
  <2>. DEFINE n == Find(a, pattern)
  <2>1. n \in Nat /\ OccursAt(a, pattern, n) /\ \A j \in 1..(n - 1) : ~OccursAt(a, pattern, j)
    BY <1>1, FindFacts
  <2>2. n + Len(pattern) - 1 <= Len(a)
    BY <1>0, <2>1 DEF OccursAt
  <2>. HIDE DEF n
  <2>3. OccursAt(a \o b, pattern, n)
    BY <2>1, OccursJoined
  <2>4. ASSUME NEW j \in 1..(n - 1)
        PROVE  ~OccursAt(a \o b, pattern, j)
    <3>1. j + Len(pattern) - 1 <= Len(a) /\ ~OccursAt(a, pattern, j)
      BY <1>0, <2>1, <2>2
    <3>2. QED
      BY <3>1, OccursJoined
  <2>5. QED
    BY <1>0, <2>3, <2>4, FindIs DEF n
<1>2. ASSUME Find(a, pattern) = 0, Find(a \o b, pattern) # 0
      PROVE  Len(a) < Find(a \o b, pattern) + Len(pattern) - 1
  <2>1. OccursAt(a \o b, pattern, Find(a \o b, pattern)) /\ Find(a \o b, pattern) \in Nat
    BY <1>0, <1>2, FindFacts
  <2>2. ~OccursAt(a, pattern, Find(a \o b, pattern))
    BY <1>2, FindFacts
  <2>3. ~(Find(a \o b, pattern) + Len(pattern) - 1 <= Len(a))
    BY <2>1, <2>2, OccursJoined
  <2>4. QED
    BY <1>0, <2>1, <2>3
<1>3. QED
  BY <1>1, <1>2

\* Searching the end of a text.
LEMMA FindFrom ==
    ASSUME NEW text \in Seq(Characters), NEW pattern \in Seq(Characters), pattern # <<>>, NEW d \in 1..(Len(text) + 1)
    PROVE  /\ Find(text, pattern) = 0 => Find(From(text, d), pattern) = 0
           /\ d <= Find(text, pattern) => Find(From(text, d), pattern) = Find(text, pattern) - d + 1
<1>. DEFINE s == From(text, d)
            n == Len(text)
            m == Len(pattern)
<1>1. n \in Nat /\ m \in Nat /\ s \in Seq(Characters) /\ Len(s) = n - d + 1 /\ \A k \in 1..(n - d + 1) : s[k] = text[d + k - 1]
  BY FromFacts, LenProperties
<1>. HIDE DEF s, n, m
<1>2. ASSUME NEW i \in Nat \ {0}
      PROVE  OccursAt(s, pattern, i) <=> OccursAt(text, pattern, d + i - 1)
  <2>1. i \in 1..(n - d + 1 - m + 1) <=> d + i - 1 \in 1..(n - m + 1)
    BY <1>1
  <2>2. ASSUME i \in 1..(n - d + 1 - m + 1), NEW k \in 1..m
        PROVE  s[i + k - 1] = text[d + i - 1 + k - 1]
    <3>1. i + k - 1 \in 1..(n - d + 1) /\ d + (i + k - 1) - 1 = d + i - 1 + k - 1
      BY <1>1, <2>2
    <3>2. QED
      BY <1>1, <3>1
  <2>3. QED
    BY <1>1, <2>1, <2>2 DEF OccursAt, n, m
<1>3. \A i : OccursAt(s, pattern, i) => i \in Nat \ {0}
  BY <1>1 DEF OccursAt
<1>4. ASSUME Find(text, pattern) = 0
      PROVE  Find(s, pattern) = 0
  <2>1. \A i : ~OccursAt(text, pattern, i)
    BY <1>4, FindFacts
  <2>2. QED
    BY <1>1, <1>2, <1>3, <2>1, FindFacts
<1>5. ASSUME d <= Find(text, pattern)
      PROVE  Find(s, pattern) = Find(text, pattern) - d + 1
  <2>. DEFINE f == Find(text, pattern)
  <2>1. f \in Nat /\ f # 0 /\ d \in Nat \ {0} /\ d <= f
    BY <1>1, <1>5, FindFacts DEF n
  <2>2. OccursAt(text, pattern, f) /\ \A j \in 1..(f - 1) : ~OccursAt(text, pattern, j)
    BY <2>1, FindFacts
  <2>. HIDE DEF f
  <2>3. f - d + 1 \in Nat \ {0} /\ d + (f - d + 1) - 1 = f
    BY <2>1
  <2>4. OccursAt(s, pattern, f - d + 1)
    BY <1>2, <2>2, <2>3
  <2>5. ASSUME NEW j \in 1..(f - d + 1 - 1)
        PROVE  ~OccursAt(s, pattern, j)
    <3>1. j \in Nat \ {0} /\ d + j - 1 \in 1..(f - 1)
      BY <2>1
    <3>2. QED
      BY <1>2, <2>2, <3>1
  <2>6. PICK e : e = f - d + 1
    OBVIOUS
  <2>7. OccursAt(s, pattern, e) /\ \A j \in 1..(e - 1) : ~OccursAt(s, pattern, j)
    <3>1. \A j \in 1..(f - d + 1 - 1) : ~OccursAt(s, pattern, j)
      BY <2>5
    <3>2. e \in Nat
      BY <2>3, <2>6
    <3>3. QED
      BY <2>3, <2>4, <2>6, <3>1, <3>2
  <2>8. Find(s, pattern) = e
    BY <1>1, <2>7, FindIs
  <2>9. QED
    BY <2>6, <2>8 DEF f
<1>6. QED
  BY <1>4, <1>5 DEF s

\* A text of two characters.
LEMMA TwoCharacters ==
    ASSUME NEW S, NEW x \in S, NEW y \in S
    PROVE  <<x, y>> \in Seq(S)
  OBVIOUS

\* The patterns.
LEMMA Patterns ==
    /\ Field \in Seq(Characters) /\ Len(Field) = 2 /\ Field # <<>> /\ Field[1] = "C" /\ Field[2] = "L"
    /\ LineEnd \in Seq(Characters) /\ Len(LineEnd) = 2 /\ LineEnd # <<>> /\ LineEnd[1] = "r" /\ LineEnd[2] = "n"
    /\ BlankLine \in Seq(Characters) /\ Len(BlankLine) = 4 /\ BlankLine # <<>>
    /\ BlankLine[1] = "r" /\ BlankLine[2] = "n"
<1>1. Field \in Seq(Characters) /\ LineEnd \in Seq(Characters)
  <2>1. "C" \in Characters /\ "L" \in Characters /\ "r" \in Characters /\ "n" \in Characters
    BY DEF Characters
  <2>2. <<"C", "L">> \in Seq(Characters)
    BY <2>1, TwoCharacters
  <2>3. <<"r", "n">> \in Seq(Characters)
    BY <2>1, TwoCharacters
  <2>4. QED
    BY <2>2, <2>3 DEF Field, LineEnd
<1>2. /\ Len(Field) = 2 /\ Field[1] = "C" /\ Field[2] = "L"
      /\ Len(LineEnd) = 2 /\ LineEnd[1] = "r" /\ LineEnd[2] = "n"
  BY DEF Field, LineEnd
<1>3. \A s \in Seq(Characters) : Len(s) # 0 => s # <<>>
  OBVIOUS
<1>4. Field # <<>> /\ LineEnd # <<>>
  BY <1>1, <1>2, <1>3
<1>5. /\ BlankLine \in Seq(Characters) /\ Len(BlankLine) = Len(LineEnd) + Len(LineEnd)
      /\ \A k \in 1..Len(LineEnd) : BlankLine[k] = LineEnd[k]
  BY <1>1, Joined DEF BlankLine
<1>6. Len(BlankLine) = 4 /\ BlankLine[1] = "r" /\ BlankLine[2] = "n"
  <2>1. 1 \in 1..2 /\ 2 \in 1..2
    OBVIOUS
  <2>2. BlankLine[1] = LineEnd[1] /\ BlankLine[2] = LineEnd[2] /\ Len(BlankLine) = 2 + 2
    BY <1>2, <1>5, <2>1
  <2>3. QED
    BY <1>2, <2>2
<1>7. BlankLine # <<>>
  <2>1. PICK s \in Seq(Characters) : s = BlankLine
    BY <1>5
  <2>2. Len(s) # 0
    BY <1>6, <2>1
  <2>3. QED
    BY <1>3, <2>1, <2>2
<1>8. QED
  BY <1>1, <1>2, <1>4, <1>5, <1>6, <1>7

\* A field name is not made up of the end of a text and the beginning of one that does not begin
\* with a colon.
LEMMA FieldJoined ==
    ASSUME NEW a \in Seq(Characters), NEW b \in Seq(Characters), Find(a, Field) = 0, b # <<>> => b[1] # "L"
    PROVE  /\ Find(b, Field) = 0 => Find(a \o b, Field) = 0
           /\ Find(b, Field) # 0 => Find(a \o b, Field) = Len(a) + Find(b, Field)
<1>. DEFINE m == Len(a)
            n == Len(b)
            s == a \o b
<1>1. /\ m \in Nat /\ n \in Nat /\ s \in Seq(Characters) /\ Len(s) = m + n
      /\ \A k \in 1..m : s[k] = a[k]
      /\ \A k \in 1..n : s[m + k] = b[k]
  BY Joined
<1>. HIDE DEF s
<1>2. ASSUME NEW i, OccursAt(s, Field, i)
      PROVE  i - m \in 1..(n - 1) /\ i = m + (i - m) /\ OccursAt(b, Field, i - m)
  <2>1. i \in 1..(m + n - 1) /\ s[i] = "C" /\ s[i + 1] = "L"
    <3>1. i \in 1..(m + n - 2 + 1) /\ s[i + 1 - 1] = "C" /\ s[i + 2 - 1] = "L"
      BY <1>1, <1>2, Patterns DEF OccursAt
    <3>2. QED
      BY <1>1, <3>1
  <2>2. ~(i < m)
    <3>1. SUFFICES ASSUME i < m PROVE FALSE
      OBVIOUS
    <3>2. i \in 1..m /\ i + 1 \in 1..m /\ i \in 1..(m - 2 + 1)
      BY <1>1, <2>1, <3>1
    <3>3. a[i] = "C" /\ a[i + 1] = "L"
      BY <1>1, <2>1, <3>2
    <3>4. \A k \in 1..2 : a[i + k - 1] = Field[k]
      <4>1. \A k \in 1..2 : k = 1 \/ k = 2
        OBVIOUS
      <4>2. i + 1 - 1 = i /\ i + 2 - 1 = i + 1
        BY <3>2
      <4>3. QED
        BY <3>3, <4>1, <4>2, Patterns
    <3>5. OccursAt(a, Field, i)
      BY <3>2, <3>4, Patterns DEF OccursAt
    <3>6. QED
      BY <3>5, FindFacts, Patterns
  <2>3. i # m
    <3>1. SUFFICES ASSUME i = m PROVE FALSE
      OBVIOUS
    <3>2. n # 0 /\ 1 \in 1..n
      BY <1>1, <2>1, <3>1
    <3>3. s[i + 1] = b[1] /\ b # <<>>
      BY <1>1, <3>1, <3>2
    <3>4. QED
      BY <2>1, <3>3
  <2>4. i - m \in 1..(n - 1) /\ i = m + (i - m) /\ i - m \in 1..n /\ i - m + 1 \in 1..n /\ i + 1 = m + (i - m + 1)
    BY <1>1, <2>1, <2>2, <2>3
  <2>5. b[i - m] = "C" /\ b[i - m + 1] = "L"
    BY <1>1, <2>1, <2>4
  <2>6. \A k \in 1..2 : b[i - m + k - 1] = Field[k]
    <3>1. \A k \in 1..2 : k = 1 \/ k = 2
      OBVIOUS
    <3>2. i - m + 1 - 1 = i - m /\ i - m + 2 - 1 = i - m + 1
      BY <2>4
    <3>3. QED
      BY <2>5, <3>1, <3>2, Patterns
  <2>7. i - m \in 1..(n - 2 + 1)
    BY <1>1, <2>4
  <2>8. OccursAt(b, Field, i - m)
    BY <2>6, <2>7, Patterns DEF OccursAt
  <2>9. QED
    BY <2>4, <2>8
<1>3. ASSUME Find(b, Field) = 0
      PROVE  Find(s, Field) = 0
  <2>1. \A i : ~OccursAt(s, Field, i)
    BY <1>2, <1>3, FindFacts, Patterns
  <2>2. QED
    BY <1>1, <2>1, FindFacts, Patterns
<1>4. ASSUME Find(b, Field) # 0
      PROVE  Find(s, Field) = m + Find(b, Field)
  <2>. DEFINE f == Find(b, Field)
  <2>1. f \in Nat /\ OccursAt(b, Field, f) /\ \A j \in 1..(f - 1) : ~OccursAt(b, Field, j)
    BY <1>4, FindFacts, Patterns
  <2>. HIDE DEF f
  <2>2. f \in 1..(n - 1) /\ b[f] = "C" /\ b[f + 1] = "L"
    <3>1. f \in 1..(n - 2 + 1) /\ b[f + 1 - 1] = "C" /\ b[f + 2 - 1] = "L"
      BY <2>1, Patterns DEF OccursAt
    <3>2. QED
      BY <1>1, <3>1
  <2>3. PICK e \in Nat : e = m + f
    BY <1>1, <2>1
  <2>4. OccursAt(s, Field, e)
    <3>0. f \in Nat /\ 1 <= f /\ f <= n - 1 /\ m \in Nat /\ n \in Nat /\ e = m + f
      BY <1>1, <2>2, <2>3
    <3>1. e \in 1..(m + n - 2 + 1) /\ f \in 1..n /\ f + 1 \in 1..n /\ e + 1 = m + (f + 1) /\ e + 1 - 1 = e /\ e + 2 - 1 = e + 1
      <4>. HIDE DEF m, n
      <4>1. QED
        BY <3>0
    <3>2. s[e] = "C" /\ s[e + 1] = "L"
      BY <1>1, <2>2, <2>3, <3>1
    <3>3. \A k \in 1..2 : k = 1 \/ k = 2
      OBVIOUS
    <3>4. \A k \in 1..2 : s[e + k - 1] = Field[k]
      BY <3>1, <3>2, <3>3, Patterns
    <3>5. QED
      BY <1>1, <3>1, <3>4, Patterns DEF OccursAt
  <2>5. ASSUME NEW j \in 1..(e - 1), OccursAt(s, Field, j)
        PROVE  FALSE
    <3>1. j - m \in 1..(n - 1) /\ OccursAt(b, Field, j - m)
      BY <1>2, <2>5
    <3>2. j - m \in 1..(f - 1)
      BY <1>1, <2>1, <2>3, <3>1
    <3>3. QED
      BY <2>1, <3>1, <3>2
  <2>6. Find(s, Field) = e
    BY <1>1, <2>4, <2>5, FindIs, Patterns
  <2>7. QED
    BY <2>3, <2>6 DEF f
<1>5. QED
  BY <1>3, <1>4 DEF s

\* The end of a text has room for the pattern that is found in it.
LEMMA FoundWithin ==
    ASSUME NEW text \in Seq(Characters), NEW pattern \in Seq(Characters), pattern # <<>>, Find(text, pattern) # 0
    PROVE  /\ Find(text, pattern) \in 1..(Len(text) - Len(pattern) + 1) /\ Len(text) \in Nat /\ Len(pattern) \in Nat
           /\ Find(text, pattern) + Len(pattern) \in 1..(Len(text) + 1)
<1>1. Len(text) \in Nat /\ Len(pattern) \in Nat
  BY LenProperties
<1>2. Find(text, pattern) \in 1..(Len(text) - Len(pattern) + 1)
  BY FindFacts DEF OccursAt
<1>3. QED
  BY <1>1, <1>2

(***************************************************************************)
(* Headers                                                                 *)
(***************************************************************************)

\* A part of the first of two texts is one of both.
LEMMA BetweenJoined ==
    ASSUME NEW a \in Seq(Characters), NEW b \in Seq(Characters), NEW i \in 1..(Len(a) + 1), NEW j \in (i - 1)..Len(a)
    PROVE  SubSeq(a \o b, i, j) = SubSeq(a, i, j)
<1>1. /\ a \o b \in Seq(Characters) /\ Len(a) \in Nat /\ Len(b) \in Nat /\ Len(a \o b) = Len(a) + Len(b)
      /\ \A k \in 1..Len(a) : (a \o b)[k] = a[k]
  BY Joined
<1>2. i \in 1..(Len(a \o b) + 1) /\ j \in (i - 1)..Len(a \o b)
  BY <1>1
<1>3. /\ SubSeq(a \o b, i, j) \in Seq(Characters) /\ Len(SubSeq(a \o b, i, j)) = j - i + 1
      /\ \A k \in 1..(j - i + 1) : SubSeq(a \o b, i, j)[k] = (a \o b)[i + k - 1]
  BY <1>1, <1>2, Between
<1>4. /\ SubSeq(a, i, j) \in Seq(Characters) /\ Len(SubSeq(a, i, j)) = j - i + 1
      /\ \A k \in 1..(j - i + 1) : SubSeq(a, i, j)[k] = a[i + k - 1]
  BY Between
<1>5. \A k \in 1..(j - i + 1) : i + k - 1 \in 1..Len(a)
  BY <1>1
<1>6. \A k \in 1..(j - i + 1) : SubSeq(a \o b, i, j)[k] = SubSeq(a, i, j)[k]
  BY <1>1, <1>3, <1>4, <1>5
<1>7. QED
  BY <1>3, <1>4, <1>6, SeqEqual

\* What a header says does not depend on what follows it.
LEMMA SameHeader ==
    ASSUME NEW a \in Seq(Characters), NEW b \in Seq(Characters), HeaderEnd(a) # 0
    PROVE  /\ HeaderEnd(a \o b) = HeaderEnd(a) /\ BodyStart(a \o b) = BodyStart(a)
           /\ HasLength(a \o b) <=> HasLength(a)
           /\ HasLength(a) => Length(a \o b) = Length(a)
<1>. DEFINE e == HeaderEnd(a)
            s == a \o b
<1>1. HeaderEnd(s) = e
  BY FindJoined, Patterns DEF HeaderEnd
<1>2. /\ e \in 1..(Len(a) - 4 + 1) /\ Len(a) \in Nat
      /\ a[e] = "r" /\ a[e + 1] = "n"
  <2>1. OccursAt(a, BlankLine, e)
    BY FindFacts, Patterns DEF HeaderEnd
  <2>2. e \in 1..(Len(a) - 4 + 1) /\ a[e + 1 - 1] = "r" /\ a[e + 2 - 1] = "n" /\ Len(a) \in Nat
    BY <2>1, Patterns, LenProperties DEF OccursAt
  <2>. HIDE DEF e
  <2>3. e + 1 - 1 = e /\ e + 2 - 1 = e + 1
    BY <2>2
  <2>4. QED
    BY <2>2, <2>3
<1>. HIDE DEF e, s
<1>3. LineStarts(s) = LineStarts(a)
  <2>1. ASSUME NEW i \in 1..(e - 1), i > 2
        PROVE  SubSeq(s, i - 2, i - 1) = SubSeq(a, i - 2, i - 1)
    <3>1. i - 2 \in 1..(Len(a) + 1) /\ i - 1 \in (i - 2 - 1)..Len(a)
      BY <1>2, <2>1
    <3>2. QED
      BY <3>1, BetweenJoined DEF s
  <2>2. QED
    BY <1>1, <2>1 DEF LineStarts, e
<1>4. LineStarts(a) \subseteq 1..(e - 1)
  BY DEF LineStarts, e
<1>5. Fields(s) = Fields(a)
  <2>1. ASSUME NEW i \in 1..(e - 1)
        PROVE  SubSeq(s, i, i + 1) = SubSeq(a, i, i + 1)
    <3>1. i \in 1..(Len(a) + 1) /\ i + 1 \in (i - 1)..Len(a)
      BY <1>2
    <3>2. QED
      BY <3>1, BetweenJoined DEF s
  <2>2. QED
    BY <1>3, <1>4, <2>1 DEF Fields
<1>6. ASSUME NEW i \in Fields(a)
      PROVE  Value(s, i) = Value(a, i)
  <2>1. i \in 1..(e - 1) /\ SubSeq(a, i, i + 1) = Field
    BY <1>4 DEF Fields
  <2>2. a[i + 1] = "L"
    <3>1. i \in 1..(Len(a) + 1) /\ i + 1 \in (i - 1)..Len(a) /\ 2 \in 1..(i + 1 - i + 1) /\ i + 2 - 1 = i + 1
      BY <1>2, <2>1
    <3>2. SubSeq(a, i, i + 1)[2] = a[i + 2 - 1]
      BY <3>1, Between
    <3>3. QED
      BY <2>1, <3>1, <3>2, Patterns
  <2>3. i + 1 # e
    BY <1>2, <2>2
  <2>4. i + 2 \in 1..(Len(a) + 1) /\ e - (i + 2) + 1 \in 1..(Len(a) - (i + 2) + 1 - 2 + 1)
        /\ i + 2 + (e - (i + 2) + 1) - 1 = e /\ i + 2 + (e - (i + 2) + 2) - 1 = e + 1
    BY <1>2, <2>1, <2>3
  <2>. DEFINE r == From(a, i + 2)
  <2>5. /\ r \in Seq(Characters) /\ Len(r) = Len(a) - (i + 2) + 1
        /\ \A k \in 1..(Len(a) - (i + 2) + 1) : r[k] = a[i + 2 + k - 1]
    BY <2>4, FromFacts
  <2>6. From(s, i + 2) = r \o b
    BY <2>4, FromJoined DEF s
  <2>. HIDE DEF r
  <2>7. OccursAt(r, LineEnd, e - (i + 2) + 1)
    <3>1. PICK q \in Nat : q = e - (i + 2) + 1
      BY <2>4
    <3>2. q \in 1..(Len(r) - 2 + 1) /\ i + 2 + q - 1 = e /\ i + 2 + (q + 1) - 1 = e + 1
      BY <1>2, <2>1, <2>4, <2>5, <3>1
    <3>3. q \in 1..(Len(a) - (i + 2) + 1) /\ q + 1 \in 1..(Len(a) - (i + 2) + 1) /\ q + 1 - 1 = q /\ q + 2 - 1 = q + 1
      BY <1>2, <2>1, <2>5, <3>2
    <3>4. r[q] = "r" /\ r[q + 1] = "n"
      BY <1>2, <2>5, <3>2, <3>3
    <3>5. \A k \in 1..2 : k = 1 \/ k = 2
      OBVIOUS
    <3>6. \A k \in 1..2 : r[q + k - 1] = LineEnd[k]
      BY <3>3, <3>4, <3>5, Patterns
    <3>7. QED
      BY <3>1, <3>2, <3>6, Patterns DEF OccursAt
  <2>8. Find(r, LineEnd) # 0
    BY <2>5, <2>7, FindFacts, Patterns
  <2>9. Find(r \o b, LineEnd) = Find(r, LineEnd)
    BY <2>5, <2>8, FindJoined, Patterns
  <2>10. 1 \in 1..(Len(r) + 1) /\ Find(r, LineEnd) - 1 \in 0..Len(r)
    <3>1. Find(r, LineEnd) \in 1..(Len(r) - 2 + 1) /\ Len(r) \in Nat
      BY <2>5, <2>8, FoundWithin, Patterns
    <3>2. QED
      BY <3>1
  <2>11. SubSeq(r \o b, 1, Find(r, LineEnd) - 1) = SubSeq(r, 1, Find(r, LineEnd) - 1)
    <3>1. Find(r, LineEnd) - 1 \in (1 - 1)..Len(r)
      BY <2>10
    <3>2. QED
      BY <2>5, <2>10, <3>1, BetweenJoined
  <2>12. QED
    BY <2>6, <2>9, <2>11 DEF Value, r
<1>7. HasLength(s) <=> HasLength(a)
  BY <1>5, <1>6 DEF HasLength
<1>8. HasLength(a) => Length(s) = Length(a)
  <2>1. HasLength(a) => Fields(a) # {}
    <3>1. HasLength(a) => Cardinality(Fields(a)) = 1
      BY DEF HasLength
    <3>2. QED
      BY <3>1, FS_EmptySet
  <2>2. QED
    BY <1>5, <1>6, <2>1 DEF Length
<1>9. QED
  BY <1>1, <1>7, <1>8 DEF BodyStart, e, s

\* What was received are results of different parts before the i-th, in their order, and none of
\* the messages among these is missing.
Accounts(part, results, parts, i) ==
    /\ part \in [1..Len(results) -> 1..(i - 1)]
    /\ \A k, l \in 1..Len(results) : k < l => part[k] < part[l]
    /\ \A k \in 1..Len(results) : results[k] = parts[part[k]].result
    /\ \A j \in 1..(i - 1) : parts[j].result # Invalid => \E l \in 1..Len(results) : part[l] = j

Accounted(results, parts, i) ==
    \E part \in [1..Len(results) -> 1..(i - 1)] : Accounts(part, results, parts, i)

\* What the server has not taken yet.
Untaken == buffer \o input

\* A text begins with the i-th part, or with a field name in it.
BeginsWith(parts, i, text) ==
    \/ i = Len(parts) + 1 /\ text = <<>>
    \/ i \in 1..Len(parts) /\ \E head \in Heads(parts[i].text) : text = head \o Remaining(parts)[i + 1]

\* The next field name in it is the first one of a part.
Resumes(results, parts, text) ==
    \/ Find(text, Field) = 0 /\ Accounted(results, parts, Len(parts) + 1)
    \/ \E i \in 1..Len(parts) :
           LET next == Find(parts[i].text, Field) IN
           /\ Accounted(results, parts, i) /\ next # 0 /\ Find(text, Field) # 0
           /\ From(text, Find(text, Field)) = From(parts[i].text, next) \o Remaining(parts)[i + 1]

\* The next blank line in it ends a part.
Skips(results, parts, text) ==
    \E i \in 1..Len(parts) :
        /\ Accounted(results, parts, i + 1) /\ Find(text, BlankLine) # 0
        /\ From(text, Find(text, BlankLine) + 4) = Remaining(parts)[i + 1]

TransportInv ==
    /\ sent \in Seq(Parts) /\ buffer \in Seq(Characters) /\ input \in Seq(Characters)
    /\ received \in Seq(Seq(Characters) \cup {Invalid})
    /\ resynchronizing \in BOOLEAN /\ skippingHeader \in BOOLEAN /\ ~(resynchronizing /\ skippingHeader)
    /\ ~resynchronizing /\ ~skippingHeader =>
           \E i \in 1..(Len(sent) + 1) : Accounted(received, sent, i) /\ BeginsWith(sent, i, Untaken)
    /\ resynchronizing => Resumes(received, sent, Untaken)
    /\ skippingHeader => Skips(received, sent, Untaken)

(***************************************************************************)
(* The parts                                                               *)
(***************************************************************************)

RemainingEquation(parts, from) ==
    from = [i \in 1..(Len(parts) + 1) |-> IF i > Len(parts) THEN <<>> ELSE parts[i].text \o from[i + 1]]

\* What remains of the parts is a text from each of them on.
LEMMA RemainingFacts ==
    ASSUME NEW parts \in Seq(Parts)
    PROVE  /\ Len(parts) \in Nat
           /\ \A i \in 1..(Len(parts) + 1) : Remaining(parts)[i] \in Seq(Characters)
           /\ Remaining(parts)[Len(parts) + 1] = <<>>
           /\ \A i \in 1..Len(parts) : parts[i] \in Parts /\ Remaining(parts)[i] = parts[i].text \o Remaining(parts)[i + 1]
<1>. DEFINE n == Len(parts)
            Solves(from, k) ==
                \A i \in k..(n + 1) : from[i] = IF i > n THEN <<>> ELSE parts[i].text \o from[i + 1]
            Solvable(k) == \E from \in [k..(n + 1) -> Seq(Characters)] : Solves(from, k)
<1>1. n \in Nat /\ \A i \in 1..n : parts[i] \in Parts /\ parts[i].text \in Seq(Characters)
  BY LenProperties, ElementOfSeq, PartsAssumption
<1>2. <<>> \in Seq(Characters)
  OBVIOUS
<1>. HIDE DEF n
<1>3. Solvable(n + 1)
  <2>1. [i \in (n + 1)..(n + 1) |-> <<>>] \in [(n + 1)..(n + 1) -> Seq(Characters)]
    BY <1>2
  <2>2. ASSUME NEW i \in (n + 1)..(n + 1)
        PROVE  i > n /\ [j \in (n + 1)..(n + 1) |-> <<>>][i] = <<>>
    <3>1. i > n
      BY <1>1
    <3>2. QED
      BY <3>1
  <2>3. QED
    BY <2>1, <2>2
<1>4. ASSUME NEW k \in 1..n, Solvable(k + 1)
      PROVE  Solvable(k)
  <2>1. PICK from \in [(k + 1)..(n + 1) -> Seq(Characters)] : Solves(from, k + 1)
    BY <1>4
  <2>. DEFINE longer == [i \in k..(n + 1) |-> IF i = k THEN parts[k].text \o from[k + 1] ELSE from[i]]
  <2>2. k + 1 \in (k + 1)..(n + 1) /\ \A i \in k..(n + 1) : i # k => i \in (k + 1)..(n + 1)
    BY <1>1
  <2>3. parts[k].text \o from[k + 1] \in Seq(Characters)
    BY <1>1, <2>2, Joined
  <2>4. longer \in [k..(n + 1) -> Seq(Characters)]
    BY <2>2, <2>3
  <2>5. ASSUME NEW i \in k..(n + 1)
        PROVE  longer[i] = IF i > n THEN <<>> ELSE parts[i].text \o longer[i + 1]
    <3>1. i <= n => i + 1 \in k..(n + 1) /\ i + 1 # k
      BY <1>1
    <3>2. longer[k] = parts[k].text \o from[k + 1] /\ \A j \in k..(n + 1) : j # k => longer[j] = from[j]
      <4>1. k \in k..(n + 1)
        BY <1>1
      <4>2. QED
        BY <4>1
    <3>3. k + 1 \in k..(n + 1) /\ k + 1 # k /\ ~(k > n)
      BY <1>1
    <3>. HIDE DEF longer
    <3>4. CASE i = k
      BY <3>2, <3>3, <3>4
    <3>5. CASE i # k /\ i > n
      <4>1. from[i] = <<>>
        BY <2>1, <2>2, <3>5
      <4>2. QED
        BY <3>2, <3>5, <4>1
    <3>6. CASE i # k /\ ~(i > n)
      <4>1. i <= n
        BY <1>1, <3>6
      <4>2. from[i] = parts[i].text \o from[i + 1]
        BY <2>1, <2>2, <3>6
      <4>3. QED
        BY <3>1, <3>2, <3>6, <4>1, <4>2
    <3>7. QED
      BY <3>4, <3>5, <3>6
  <2>6. QED
    BY <2>4, <2>5
<1>5. Solvable(1)
  <2>. DEFINE Bad == {d \in 0..n : ~Solvable(n + 1 - d)}
  <2>1. Bad = {}
    <3>1. SUFFICES ASSUME Bad # {} PROVE FALSE
      OBVIOUS
    <3>2. Bad \in SUBSET Nat
      OBVIOUS
    <3>3. PICK d \in Bad : \A e \in Bad : d <= e
      <4>. HIDE DEF Bad
      <4>1. QED
        BY <3>1, <3>2, FirstPosition
    <3>4. d \in 0..n /\ ~Solvable(n + 1 - d)
      OBVIOUS
    <3>. HIDE DEF Solvable
    <3>5. d # 0
      BY <1>1, <1>3, <3>4
    <3>6. d - 1 \in 0..n /\ ~(d <= d - 1) /\ n + 1 - d \in 1..n /\ n + 1 - (d - 1) = n + 1 - d + 1
      BY <1>1, <3>4, <3>5
    <3>7. Solvable(n + 1 - d + 1)
      BY <3>3, <3>6
    <3>8. QED
      BY <1>4, <3>4, <3>6, <3>7
  <2>. HIDE DEF Solvable
  <2>2. n \in 0..n /\ n + 1 - n = 1
    BY <1>1
  <2>3. QED
    BY <2>1, <2>2
<1>6. PICK from \in [1..(n + 1) -> Seq(Characters)] : Solves(from, 1)
  BY <1>5
<1>7. from = [i \in 1..(n + 1) |-> IF i > n THEN <<>> ELSE parts[i].text \o from[i + 1]]
  BY <1>6
<1>8. RemainingEquation(parts, from)
  BY <1>7 DEF RemainingEquation, n
<1>9. Remaining(parts) = CHOOSE f : RemainingEquation(parts, f)
  BY DEF Remaining, RemainingEquation
<1>10. RemainingEquation(parts, Remaining(parts))
  BY <1>8, <1>9
<1>. DEFINE R == Remaining(parts)
<1>11. \A i \in 1..(n + 1) : R[i] = IF i > n THEN <<>> ELSE parts[i].text \o R[i + 1]
  <2>. HIDE DEF R
  <2>1. R = [i \in 1..(n + 1) |-> IF i > n THEN <<>> ELSE parts[i].text \o R[i + 1]]
    BY <1>10 DEF RemainingEquation, n, R
  <2>2. QED
    BY <2>1
<1>. HIDE DEF R
<1>12. R[n + 1] = <<>> /\ \A i \in 1..n : R[i] = parts[i].text \o R[i + 1]
  <2>1. n + 1 \in 1..(n + 1) /\ n + 1 > n /\ \A i \in 1..n : i \in 1..(n + 1) /\ ~(i > n)
    BY <1>1
  <2>2. QED
    BY <1>11, <2>1
<1>13. \A i \in 1..(n + 1) : R[i] \in Seq(Characters)
  <2>. DEFINE Bad == {d \in 0..n : R[n + 1 - d] \notin Seq(Characters)}
  <2>1. Bad = {}
    <3>1. SUFFICES ASSUME Bad # {} PROVE FALSE
      OBVIOUS
    <3>2. Bad \in SUBSET Nat
      OBVIOUS
    <3>3. PICK d \in Bad : \A e \in Bad : d <= e
      <4>. HIDE DEF Bad
      <4>1. QED
        BY <3>1, <3>2, FirstPosition
    <3>4. d \in 0..n /\ R[n + 1 - d] \notin Seq(Characters)
      OBVIOUS
    <3>5. d # 0
      <4>1. n + 1 - 0 = n + 1
        BY <1>1
      <4>2. QED
        BY <1>2, <1>12, <3>4, <4>1
    <3>6. d - 1 \in 0..n /\ ~(d <= d - 1) /\ n + 1 - d \in 1..n /\ n + 1 - (d - 1) = n + 1 - d + 1
      BY <1>1, <3>4, <3>5
    <3>7. R[n + 1 - d + 1] \in Seq(Characters)
      BY <3>3, <3>6
    <3>8. PICK k \in 1..n : k = n + 1 - d
      BY <3>6
    <3>9. parts[k].text \o R[k + 1] \in Seq(Characters)
      BY <1>1, <3>7, <3>8, Joined
    <3>10. QED
      BY <1>12, <3>4, <3>8, <3>9
  <2>2. ASSUME NEW i \in 1..(n + 1)
        PROVE  R[i] \in Seq(Characters)
    <3>1. n + 1 - i \in 0..n /\ n + 1 - (n + 1 - i) = i
      BY <1>1
    <3>2. QED
      BY <2>1, <3>1
  <2>3. QED
    BY <2>2
<1>14. QED
  BY <1>1, <1>12, <1>13 DEF n, R

\* An end of the second of two texts is one of both.
LEMMA FromInSecond ==
    ASSUME NEW a \in Seq(Characters), NEW b \in Seq(Characters), NEW k \in 1..(Len(b) + 1)
    PROVE  From(a \o b, Len(a) + k) = From(b, k)
<1>1. a \o b \in Seq(Characters) /\ Len(a) \in Nat /\ Len(b) \in Nat /\ Len(a \o b) = Len(a) + Len(b)
  BY Joined
<1>2. PICK i \in 1..(Len(a \o b) + 1) : i = Len(a) + 1
  BY <1>1
<1>3. k \in 1..(Len(a \o b) - i + 2) /\ i + k - 1 = Len(a) + k
  BY <1>1, <1>2
<1>4. From(From(a \o b, i), k) = From(a \o b, i + k - 1)
  BY <1>1, <1>3, FromFrom
<1>5. From(a \o b, i) = b
  BY <1>2, FromSecond
<1>6. QED
  BY <1>3, <1>4, <1>5

\* The function that accounts for the results is one to the parts before the i-th.
LEMMA AccountedBy ==
    ASSUME NEW results, NEW parts, NEW i, NEW part, Accounts(part, results, parts, i)
    PROVE  Accounted(results, parts, i)
<1>1. part \in [1..Len(results) -> 1..(i - 1)]
  BY Zenon DEF Accounts
<1>2. QED
  BY <1>1, Zenon DEF Accounted

\* A part that is no message leaves nothing to account for.
LEMMA AccountedBroken ==
    ASSUME NEW results, NEW parts, NEW i \in Nat \ {0}, Len(results) \in Nat,
           Accounted(results, parts, i), parts[i].result = Invalid
    PROVE  Accounted(results, parts, i + 1)
<1>. DEFINE R == 1..Len(results)
            P == 1..(i + 1 - 1)
<1>0. PICK part : Accounts(part, results, parts, i)
  BY Zenon DEF Accounted
<1>1. /\ part \in [R -> 1..(i - 1)]
      /\ \A k, l \in R : k < l => part[k] < part[l]
      /\ \A k \in R : results[k] = parts[part[k]].result
      /\ \A j \in 1..(i - 1) : parts[j].result # Invalid => \E l \in R : part[l] = j
  BY <1>0, Zenon DEF Accounts
<1>2. \A j \in 1..(i - 1) : j \in P
  OBVIOUS
<1>3. \A j \in P : j \in 1..(i - 1) \/ j = i
  OBVIOUS
<1>4. R = 1..Len(results) /\ P = 1..(i + 1 - 1)
  OBVIOUS
<1>. HIDE DEF R, P
<1>5. part \in [R -> P]
  BY <1>1, <1>2
<1>6. \A j \in P : parts[j].result # Invalid => \E l \in R : part[l] = j
  BY <1>1, <1>3
<1>7. PICK next : next = i + 1
  OBVIOUS
<1>8. R = 1..Len(results) /\ P = 1..(next - 1)
  BY <1>4, <1>7
<1>9. Accounts(part, results, parts, next)
  BY <1>1, <1>5, <1>6, <1>8 DEF Accounts
<1>10. Accounted(results, parts, next)
  BY <1>9, AccountedBy
<1>11. QED
  BY <1>7, <1>10

\* The result of the next part is accounted for when it is received.
LEMMA AccountedNext ==
    ASSUME NEW S, NEW results \in Seq(S), NEW parts, NEW i \in Nat \ {0}, NEW result \in S,
           Accounted(results, parts, i), parts[i].result = result
    PROVE  Accounted(Append(results, result), parts, i + 1)
<1>. DEFINE R == 1..Len(results)
            m == Len(results)
            longer == Append(results, result)
            N == 1..(m + 1)
            P == 1..(i + 1 - 1)
<1>0. PICK part : Accounts(part, results, parts, i)
  BY Zenon DEF Accounted
<1>1. /\ part \in [R -> 1..(i - 1)]
      /\ \A k, l \in R : k < l => part[k] < part[l]
      /\ \A k \in R : results[k] = parts[part[k]].result
      /\ \A j \in 1..(i - 1) : parts[j].result # Invalid => \E l \in R : part[l] = j
  BY <1>0, Zenon DEF Accounts
<1>2. /\ m \in Nat /\ Len(longer) = m + 1 /\ longer[m + 1] = result
      /\ \A k \in R : longer[k] = results[k]
  BY AppendProperties, LenProperties
<1>. DEFINE Q == [k \in N |-> IF k = m + 1 THEN i ELSE part[k]]
<1>. HIDE DEF longer
<1>3. m + 1 \in N /\ \A k \in N : k = m + 1 \/ k \in R
  BY <1>2
<1>4. \A k \in R : k \in N /\ k # m + 1 /\ part[k] \in 1..(i - 1)
  BY <1>1, <1>2
<1>5. i \in P /\ (\A j \in 1..(i - 1) : j \in P) /\ \A j \in P : j \in 1..(i - 1) \/ j = i
  OBVIOUS
<1>6. N = 1..Len(longer) /\ P = 1..(i + 1 - 1)
  BY <1>2
<1>. HIDE DEF R, m, N, P
<1>7. Q[m + 1] = i /\ \A k \in R : Q[k] = part[k]
  BY <1>3, <1>4
<1>8. Q \in [N -> P]
  BY <1>3, <1>4, <1>5
<1>. HIDE DEF Q
<1>9. ASSUME NEW k \in N, NEW l \in N, k < l
      PROVE  Q[k] < Q[l]
  <2>1. k \in R
    <3>1. k \in Nat /\ l \in 1..(m + 1) /\ k \in 1..(m + 1)
      BY <1>2 DEF N
    <3>2. k # m + 1
      BY <1>2, <1>9, <3>1
    <3>3. QED
      BY <1>3, <3>2
  <2>2. CASE l \in R
    BY <1>1, <1>7, <1>9, <2>1, <2>2
  <2>3. CASE l = m + 1
    <3>1. part[k] \in 1..(i - 1) => part[k] < i
      OBVIOUS
    <3>2. QED
      BY <1>4, <1>7, <2>1, <2>3, <3>1
  <2>4. QED
    BY <1>3, <2>2, <2>3
<1>10. \A k \in N : longer[k] = parts[Q[k]].result
  BY <1>1, <1>2, <1>3, <1>7
<1>11. \A j \in P : parts[j].result # Invalid => \E l \in N : Q[l] = j
  BY <1>1, <1>3, <1>4, <1>5, <1>7
<1>12. PICK next : next = i + 1
  OBVIOUS
<1>13. Accounted(longer, parts, next)
  <2>1. N = 1..Len(longer) /\ P = 1..(next - 1)
    BY <1>6, <1>12
  <2>2. \A k, l \in N : k < l => Q[k] < Q[l]
    BY <1>9
  <2>3. Accounts(Q, longer, parts, next)
    BY <1>8, <1>10, <1>11, <2>1, <2>2 DEF Accounts
  <2>4. QED
    BY <2>3, AccountedBy
<1>14. QED
  BY <1>12, <1>13 DEF longer

\* Three texts that are joined.
LEMMA Regrouped ==
    ASSUME NEW a \in Seq(Characters), NEW b \in Seq(Characters), NEW c \in Seq(Characters)
    PROVE  a \o (b \o c) = (a \o b) \o c
  BY ConcatAssociative, SMTT(30)

\* The parts and what remains of them.
LEMMA PartFacts ==
    ASSUME NEW parts \in Seq(Parts), NEW i \in 1..Len(parts)
    PROVE  /\ i \in Nat \ {0} /\ i \in 1..(Len(parts) + 1) /\ i + 1 \in 1..(Len(parts) + 1)
           /\ parts[i].text \in Seq(Characters) /\ parts[i].text # <<>> /\ parts[i].text[1] # "L"
           /\ IsMessage(parts[i]) \/ IsBroken(parts[i])
           /\ Remaining(parts)[i + 1] \in Seq(Characters)
           /\ Remaining(parts)[i] = parts[i].text \o Remaining(parts)[i + 1]
           /\ \A head \in Heads(parts[i].text) : head \in Seq(Characters)
<1>1. /\ Len(parts) \in Nat /\ parts[i] \in Parts /\ \A k \in 1..(Len(parts) + 1) : Remaining(parts)[k] \in Seq(Characters)
      /\ Remaining(parts)[i] = parts[i].text \o Remaining(parts)[i + 1]
  BY RemainingFacts
<1>2. i \in Nat \ {0} /\ i \in 1..(Len(parts) + 1) /\ i + 1 \in 1..(Len(parts) + 1)
  BY <1>1
<1>3. PICK text : text = parts[i].text
  OBVIOUS
<1>4. text \in Seq(Characters) /\ text # <<>> /\ Head(text) # "L" /\ (IsMessage(parts[i]) \/ IsBroken(parts[i]))
  BY <1>1, <1>3, PartsAssumption
<1>5. Head(text) = text[1]
  BY <1>4
<1>6. \A head \in Heads(text) : head \in Seq(Characters)
  <2>1. SUFFICES ASSUME Find(text, Field) # 0 PROVE From(text, Find(text, Field)) \in Seq(Characters)
    BY <1>4 DEF Heads
  <2>2. Find(text, Field) \in 1..(Len(text) - Len(Field) + 1) /\ Len(text) \in Nat /\ Len(Field) \in Nat
    BY <1>4, <2>1, FoundWithin, Patterns
  <2>3. Find(text, Field) \in 1..(Len(text) + 1)
    BY <2>2
  <2>4. QED
    BY <1>4, <2>3, FromFacts
<1>7. QED
  BY <1>1, <1>2, <1>3, <1>4, <1>5, <1>6

\* What remains from a part on begins with it.
LEMMA BeginsWithRemaining ==
    ASSUME NEW parts \in Seq(Parts), NEW i \in 1..(Len(parts) + 1)
    PROVE  BeginsWith(parts, i, Remaining(parts)[i])
<1>1. Len(parts) \in Nat /\ Remaining(parts)[Len(parts) + 1] = <<>>
  BY RemainingFacts
<1>2. CASE i = Len(parts) + 1
  BY <1>1, <1>2 DEF BeginsWith
<1>3. CASE i \in 1..Len(parts)
  <2>1. parts[i].text \in Heads(parts[i].text)
    BY DEF Heads
  <2>2. QED
    BY <1>3, <2>1, PartFacts DEF BeginsWith
<1>4. QED
  BY <1>1, <1>2, <1>3

\* A text without a field name is skipped, with the parts after it that have none: they are broken.
LEMMA Skipped ==
    ASSUME NEW results, NEW parts \in Seq(Parts), Len(results) \in Nat,
           NEW first \in 1..(Len(parts) + 1), Accounted(results, parts, first),
           NEW skipped \in Seq(Characters), Find(skipped, Field) = 0
    PROVE  Resumes(results, parts, skipped \o Remaining(parts)[first])
<1>. DEFINE n == Len(parts)
            R == Remaining(parts)
            Skippable(i) == \A text \in Seq(Characters) :
                Accounted(results, parts, i) /\ Find(text, Field) = 0 => Resumes(results, parts, text \o R[i])
<1>1. n \in Nat /\ R[n + 1] = <<>>
  BY RemainingFacts
<1>2. Skippable(n + 1)
  BY <1>1, ConcatEmptySeq DEF Resumes
<1>3. ASSUME NEW i \in 1..n, Skippable(i + 1)
      PROVE  Skippable(i)
  <2>1. SUFFICES ASSUME NEW text \in Seq(Characters), Accounted(results, parts, i), Find(text, Field) = 0
                 PROVE  Resumes(results, parts, text \o R[i])
    OBVIOUS
  <2>. DEFINE next == Find(parts[i].text, Field)
  <2>2. /\ i \in Nat \ {0} /\ parts[i].text \in Seq(Characters) /\ parts[i].text[1] # "L"
        /\ IsMessage(parts[i]) \/ IsBroken(parts[i])
        /\ R[i + 1] \in Seq(Characters) /\ R[i] = parts[i].text \o R[i + 1]
    BY PartFacts
  <2>3. PICK rest \in Seq(Characters) : rest = R[i + 1]
    BY <2>2
  <2>4. PICK this \in Seq(Characters) : this = parts[i].text
    BY <2>2
  <2>5. text \o R[i] = (text \o this) \o rest /\ text \o this \in Seq(Characters)
    <3>1. text \o (this \o rest) = (text \o this) \o rest
      BY Regrouped, ZenonT(30)
    <3>2. QED
      BY <2>2, <2>3, <2>4, <3>1, Joined
  <2>6. /\ next = 0 => Find(text \o this, Field) = 0
        /\ next # 0 => Find(text \o this, Field) = Len(text) + next
    BY <2>1, <2>2, <2>4, FieldJoined
  <2>7. CASE next = 0
    <3>1. parts[i].result = Invalid
      BY <2>2, <2>7 DEF IsMessage, IsBroken
    <3>2. Accounted(results, parts, i + 1)
      BY <2>1, <2>2, <3>1, AccountedBroken
    <3>3. Resumes(results, parts, (text \o this) \o R[i + 1])
      BY <1>3, <2>5, <2>6, <2>7, <3>2
    <3>4. QED
      BY <2>3, <2>5, <3>3
  <2>8. CASE next # 0
    <3>1. next \in 1..(Len(this) - 2 + 1) /\ Len(this) \in Nat /\ Len(text) \in Nat
      BY <2>4, <2>8, FoundWithin, LenProperties, Patterns
    <3>. HIDE DEF next
    <3>2. PICK found \in Nat \ {0} : found = Len(text) + next
      BY <3>1
    <3>3. Find((text \o this) \o rest, Field) = found
      BY <2>5, <2>6, <2>8, <3>2, FindJoined, Patterns
    <3>4. Len(text \o this) = Len(text) + Len(this)
      BY Joined
    <3>5. found \in 1..(Len(text \o this) + 1) /\ next \in 1..(Len(this) + 1)
      BY <3>1, <3>2, <3>4
    <3>6. From((text \o this) \o rest, found) = From(text \o this, found) \o rest
      BY <2>5, <3>5, FromJoined
    <3>7. From(text \o this, found) = From(this, next)
      BY <3>2, <3>5, FromInSecond
    <3>8. From(text \o R[i], Find(text \o R[i], Field)) = From(parts[i].text, next) \o R[i + 1]
      BY <2>3, <2>4, <2>5, <3>3, <3>6, <3>7
    <3>9. Find(text \o R[i], Field) # 0
      BY <2>5, <3>2, <3>3
    <3>10. QED
      BY <2>1, <2>8, <3>8, <3>9 DEF Resumes, next
  <2>9. QED
    BY <2>7, <2>8
<1>. HIDE DEF Skippable, n
<1>4. \A i \in 1..(n + 1) : Skippable(i)
  <2>. DEFINE Bad == {d \in 0..n : ~Skippable(n + 1 - d)}
  <2>1. Bad = {}
    <3>1. SUFFICES ASSUME Bad # {} PROVE FALSE
      OBVIOUS
    <3>2. Bad \in SUBSET Nat
      OBVIOUS
    <3>3. PICK d \in Bad : \A e \in Bad : d <= e
      <4>. HIDE DEF Bad
      <4>1. QED
        BY <3>1, <3>2, FirstPosition
    <3>4. d \in 0..n /\ ~Skippable(n + 1 - d)
      OBVIOUS
    <3>5. d # 0
      <4>1. n + 1 - 0 = n + 1
        BY <1>1
      <4>2. QED
        BY <1>2, <3>4, <4>1
    <3>6. d - 1 \in 0..n /\ ~(d <= d - 1) /\ n + 1 - d \in 1..n /\ n + 1 - (d - 1) = n + 1 - d + 1
      BY <1>1, <3>4, <3>5
    <3>7. Skippable(n + 1 - d + 1)
      BY <3>3, <3>6
    <3>8. QED
      BY <1>3, <3>4, <3>6, <3>7
  <2>2. ASSUME NEW i \in 1..(n + 1)
        PROVE  Skippable(i)
    <3>1. n + 1 - i \in 0..n /\ n + 1 - (n + 1 - i) = i
      BY <1>1
    <3>2. QED
      BY <2>1, <3>1
  <2>3. QED
    BY <2>2
<1>5. Skippable(first)
  BY <1>4 DEF n
<1>6. QED
  BY <1>5 DEF Skippable

\* What is kept of a text in which a pattern is not found suffices to find it in what follows.
LEMMA KeptFacts ==
    ASSUME NEW a \in Seq(Characters), NEW b \in Seq(Characters), NEW pattern \in Seq(Characters), pattern # <<>>,
           Find(a, pattern) = 0, NEW m \in Nat, m = Len(pattern) - 1
    PROVE  /\ LastOf(a, m) \in Seq(Characters) /\ a \o b \in Seq(Characters)
           /\ \E d \in 1..(Len(a \o b) + 1) :
                  /\ LastOf(a, m) \o b = From(a \o b, d)
                  /\ Find(a \o b, pattern) # 0 => d <= Find(a \o b, pattern)
<1>1. a \o b \in Seq(Characters) /\ Len(a) \in Nat /\ Len(b) \in Nat /\ Len(a \o b) = Len(a) + Len(b)
  BY Joined
<1>2. Len(pattern) \in Nat /\ Find(a \o b, pattern) \in Nat
  BY <1>1, FindFacts, LenProperties
<1>3. CASE Len(a) > m
  <2>0. Len(a) - m + 1 \in 1..(Len(a) + 1)
    BY <1>1, <1>3
  <2>1. PICK d \in 1..(Len(a) + 1) : d = Len(a) - m + 1
    BY <2>0
  <2>2. LastOf(a, m) = From(a, d)
    BY <1>3, <2>1 DEF LastOf
  <2>3. LastOf(a, m) \o b = From(a \o b, d) /\ LastOf(a, m) \in Seq(Characters)
    BY <2>2, FromJoined, FromFacts
  <2>4. d \in 1..(Len(a \o b) + 1)
    BY <1>1
  <2>5. ASSUME Find(a \o b, pattern) # 0 PROVE d <= Find(a \o b, pattern)
    <3>1. Len(a) < Find(a \o b, pattern) + Len(pattern) - 1
      BY <2>5, FindJoined
    <3>2. QED
      BY <1>1, <1>2, <2>1, <3>1
  <2>6. QED
    BY <1>1, <2>3, <2>4, <2>5
<1>4. CASE ~(Len(a) > m)
  <2>1. LastOf(a, m) = a
    BY <1>4 DEF LastOf
  <2>2. LastOf(a, m) \o b = From(a \o b, 1)
    BY <1>1, <2>1, FromFirst
  <2>3. 1 \in 1..(Len(a \o b) + 1) /\ (Find(a \o b, pattern) # 0 => 1 <= Find(a \o b, pattern))
    BY <1>1, <1>2
  <2>4. QED
    BY <1>1, <2>1, <2>2, <2>3
<1>5. QED
  BY <1>3, <1>4

\* Less text before the next occurrence of a pattern: it is followed by the same.
LEMMA FoundLater ==
    ASSUME NEW text \in Seq(Characters), NEW pattern \in Seq(Characters), pattern # <<>>,
           NEW d \in 1..(Len(text) + 1), Find(text, pattern) # 0, d <= Find(text, pattern),
           NEW c \in 0..Len(pattern)
    PROVE  /\ Find(From(text, d), pattern) # 0
           /\ From(From(text, d), Find(From(text, d), pattern) + c) = From(text, Find(text, pattern) + c)
<1>1. Find(text, pattern) \in 1..(Len(text) - Len(pattern) + 1) /\ Len(text) \in Nat /\ Len(pattern) \in Nat
  BY FoundWithin
<1>2. PICK f : f = Find(text, pattern)
  OBVIOUS
<1>3. Find(From(text, d), pattern) = f - d + 1
  BY <1>2, FindFrom
<1>4. f - d + 1 + c \in 1..(Len(text) - d + 2) /\ f - d + 1 # 0 /\ d + (f - d + 1 + c) - 1 = f + c
  BY <1>1, <1>2
<1>5. PICK j \in 1..(Len(text) - d + 2) : j = f - d + 1 + c
  BY <1>4
<1>6. From(From(text, d), j) = From(text, d + j - 1)
  BY FromFrom
<1>7. QED
  BY <1>2, <1>3, <1>4, <1>5, <1>6

\* What is searched for remains what it is when text before it is dropped.
LEMMA StillResumes ==
    ASSUME NEW results, NEW parts \in Seq(Parts), NEW text \in Seq(Characters), Resumes(results, parts, text),
           NEW d \in 1..(Len(text) + 1), Find(text, Field) # 0 => d <= Find(text, Field)
    PROVE  Resumes(results, parts, From(text, d))
<1>1. CASE Find(text, Field) = 0
  <2>1. Find(From(text, d), Field) = 0
    BY <1>1, FindFrom, Patterns
  <2>2. QED
    BY <1>1, <2>1 DEF Resumes
<1>2. CASE Find(text, Field) # 0
  <2>1. Find(text, Field) + 0 = Find(text, Field) /\ Find(From(text, d), Field) + 0 = Find(From(text, d), Field)
    <3>1. From(text, d) \in Seq(Characters)
      BY FromFacts
    <3>2. Find(text, Field) \in Nat /\ Find(From(text, d), Field) \in Nat
      BY <3>1, FindFacts, Patterns
    <3>3. QED
      BY <3>2
  <2>2. 0 \in 0..Len(Field)
    BY Patterns
  <2>3. /\ Find(From(text, d), Field) # 0
        /\ From(From(text, d), Find(From(text, d), Field)) = From(text, Find(text, Field))
    BY <1>2, <2>1, <2>2, FoundLater, Patterns
  <2>4. QED
    BY <1>2, <2>3 DEF Resumes
<1>3. QED
  BY <1>1, <1>2

\* And so it does when a blank line is searched for.
LEMMA StillSkips ==
    ASSUME NEW results, NEW parts \in Seq(Parts), NEW text \in Seq(Characters), Skips(results, parts, text),
           NEW d \in 1..(Len(text) + 1), Find(text, BlankLine) # 0 => d <= Find(text, BlankLine)
    PROVE  Skips(results, parts, From(text, d))
<1>1. 4 \in 0..Len(BlankLine)
  BY Patterns
<1>2. Find(text, BlankLine) # 0
  BY DEF Skips
<1>3. /\ Find(From(text, d), BlankLine) # 0
      /\ From(From(text, d), Find(From(text, d), BlankLine) + 4) = From(text, Find(text, BlankLine) + 4)
  BY <1>1, <1>2, FoundLater, Patterns
<1>4. QED
  BY <1>3 DEF Skips

(***************************************************************************)
(* Taking messages                                                         *)
(***************************************************************************)

\* A text that begins with a part has the header of the part.
LEMMA Beginning ==
    ASSUME NEW parts \in Seq(Parts), NEW i \in 1..(Len(parts) + 1), NEW text \in Seq(Characters),
           BeginsWith(parts, i, text), text # <<>>
    PROVE  /\ i \in 1..Len(parts)
           /\ \E head \in Heads(parts[i].text) :
                  /\ head \in Seq(Characters) /\ text = head \o Remaining(parts)[i + 1]
                  /\ HeaderEnd(head) # 0 /\ HeaderEnd(text) = HeaderEnd(head) /\ BodyStart(text) = BodyStart(head)
                  /\ HeaderEnd(head) \in 1..Len(head) /\ BodyStart(head) \in 1..(Len(head) + 1) /\ Len(head) \in Nat
                  /\ HasLength(text) <=> HasLength(head)
                  /\ HasLength(head) => Length(text) = Length(head)
<1>1. PICK head \in Heads(parts[i].text) : i \in 1..Len(parts) /\ text = head \o Remaining(parts)[i + 1]
  BY DEF BeginsWith
<1>2. /\ head \in Seq(Characters) /\ Remaining(parts)[i + 1] \in Seq(Characters)
      /\ IsMessage(parts[i]) \/ IsBroken(parts[i])
  BY <1>1, PartFacts
<1>3. HeaderEnd(head) # 0
  BY <1>1, <1>2 DEF IsMessage, IsBroken
<1>4. HeaderEnd(head) \in 1..(Len(head) - 4 + 1) /\ Len(head) \in Nat /\ HeaderEnd(head) + 4 \in 1..(Len(head) + 1)
  BY <1>2, <1>3, FoundWithin, Patterns DEF HeaderEnd
<1>5. HeaderEnd(head) \in 1..Len(head) /\ BodyStart(head) \in 1..(Len(head) + 1)
  BY <1>4 DEF BodyStart
<1>6. PICK rest \in Seq(Characters) : rest = Remaining(parts)[i + 1]
  BY <1>2
<1>7. /\ HeaderEnd(head \o rest) = HeaderEnd(head) /\ BodyStart(head \o rest) = BodyStart(head)
      /\ HasLength(head \o rest) <=> HasLength(head)
      /\ HasLength(head) => Length(head \o rest) = Length(head)
  BY <1>2, <1>3, SameHeader
<1>8. QED
  BY <1>1, <1>2, <1>3, <1>4, <1>5, <1>6, <1>7

\* What has been read and what has not.
LEMMA UntakenFacts ==
    ASSUME TransportInv
    PROVE  /\ sent \in Seq(Parts) /\ buffer \in Seq(Characters) /\ input \in Seq(Characters)
           /\ Untaken \in Seq(Characters) /\ Len(sent) \in Nat /\ Len(received) \in Nat
           /\ Len(buffer) \in Nat /\ Len(input) \in Nat /\ Len(Untaken) = Len(buffer) + Len(input)
<1>1. sent \in Seq(Parts) /\ buffer \in Seq(Characters) /\ input \in Seq(Characters)
      /\ received \in Seq(Seq(Characters) \cup {Invalid})
  BY DEF TransportInv
<1>2. QED
  BY <1>1, Joined, LenProperties DEF Untaken

\* Skipping to the next field name finds the first one of a part.
LEMMA ResynchronizeStep ==
    ASSUME TransportInv, Resynchronize
    PROVE  TransportInv'
<1>1. Resumes(received, sent, Untaken) /\ ~skippingHeader
  BY DEF TransportInv, Resynchronize
<1>2. /\ sent \in Seq(Parts) /\ buffer \in Seq(Characters) /\ input \in Seq(Characters)
      /\ Untaken \in Seq(Characters) /\ Len(sent) \in Nat
  BY UntakenFacts
<1>3. /\ sent' = sent /\ input' = input /\ received' = received /\ skippingHeader' = skippingHeader
      /\ Untaken' = buffer' \o input
  BY DEF Resynchronize, Untaken, flags
<1>4. CASE Find(buffer, Field) = 0
  <2>1. buffer' = LastOf(buffer, Len(Field) - 1) /\ resynchronizing' = resynchronizing
    BY <1>4 DEF Resynchronize, Kept, flags
  <2>2. Len(Field) - 1 \in Nat
    BY Patterns
  <2>3. PICK m \in Nat : m = Len(Field) - 1
    BY <2>2
  <2>4. /\ LastOf(buffer, m) \in Seq(Characters)
        /\ \E d \in 1..(Len(buffer \o input) + 1) :
               /\ LastOf(buffer, m) \o input = From(buffer \o input, d)
               /\ Find(buffer \o input, Field) # 0 => d <= Find(buffer \o input, Field)
    BY <1>2, <1>4, <2>3, KeptFacts, Patterns
  <2>5. PICK d \in 1..(Len(Untaken) + 1) :
            Untaken' = From(Untaken, d) /\ (Find(Untaken, Field) # 0 => d <= Find(Untaken, Field))
    BY <1>3, <2>1, <2>3, <2>4 DEF Untaken
  <2>6. Resumes(received, sent, From(Untaken, d))
    BY <1>1, <1>2, <2>5, StillResumes
  <2>7. Resumes(received', sent', Untaken')
    BY <1>3, <2>5, <2>6
  <2>8. buffer' \in Seq(Characters)
    BY <2>1, <2>3, <2>4
  <2>9. resynchronizing
    BY DEF Resynchronize
  <2>10. QED
    BY <1>1, <1>3, <2>1, <2>7, <2>8, <2>9 DEF TransportInv
<1>5. CASE Find(buffer, Field) # 0
  <2>. DEFINE next == Find(buffer, Field)
  <2>1. buffer' = From(buffer, next) /\ resynchronizing' = FALSE
    BY <1>5 DEF Resynchronize
  <2>2. next \in 1..(Len(buffer) - 2 + 1) /\ Len(buffer) \in Nat
    BY <1>2, <1>5, FoundWithin, Patterns
  <2>. HIDE DEF next
  <2>3. next \in 1..(Len(buffer) + 1)
    BY <2>2
  <2>4. buffer' \in Seq(Characters)
    BY <1>2, <2>1, <2>3, FromFacts
  <2>5. Find(Untaken, Field) = next /\ next # 0
    BY <1>2, <1>5, FindJoined, Patterns DEF Untaken, next
  <2>6. Untaken' = From(Untaken, next)
    BY <1>2, <1>3, <2>1, <2>3, FromJoined DEF Untaken
  <2>7. PICK i \in 1..Len(sent) :
            /\ Accounted(received, sent, i) /\ Find(sent[i].text, Field) # 0
            /\ From(Untaken, next) = From(sent[i].text, Find(sent[i].text, Field)) \o Remaining(sent)[i + 1]
    BY <1>1, <2>5 DEF Resumes
  <2>8. From(sent[i].text, Find(sent[i].text, Field)) \in Heads(sent[i].text)
    BY <2>7 DEF Heads
  <2>9. BeginsWith(sent, i, Untaken')
    BY <2>6, <2>7, <2>8 DEF BeginsWith
  <2>10. i \in 1..(Len(sent) + 1)
    BY <1>2
  <2>11. \E k \in 1..(Len(sent') + 1) : Accounted(received', sent', k) /\ BeginsWith(sent', k, Untaken')
    BY <1>3, <2>7, <2>9, <2>10
  <2>12. QED
    BY <1>1, <1>3, <2>1, <2>4, <2>11 DEF TransportInv
<1>6. QED
  BY <1>4, <1>5

\* Skipping to the next blank line finds the end of a part.
LEMMA SkipHeaderStep ==
    ASSUME TransportInv, SkipHeader
    PROVE  TransportInv'
<1>1. Skips(received, sent, Untaken) /\ ~resynchronizing
  BY DEF TransportInv, SkipHeader
<1>2. /\ sent \in Seq(Parts) /\ buffer \in Seq(Characters) /\ input \in Seq(Characters)
      /\ Untaken \in Seq(Characters) /\ Len(sent) \in Nat
  BY UntakenFacts
<1>3. /\ sent' = sent /\ input' = input /\ received' = received /\ resynchronizing' = resynchronizing
      /\ Untaken' = buffer' \o input
  BY DEF SkipHeader, Untaken, flags
<1>4. CASE Find(buffer, BlankLine) = 0
  <2>1. buffer' = LastOf(buffer, 3) /\ skippingHeader' = skippingHeader
    BY <1>4 DEF SkipHeader, Kept, flags
  <2>2. 3 = Len(BlankLine) - 1
    BY Patterns
  <2>3. /\ LastOf(buffer, 3) \in Seq(Characters)
        /\ \E d \in 1..(Len(buffer \o input) + 1) :
               /\ LastOf(buffer, 3) \o input = From(buffer \o input, d)
               /\ Find(buffer \o input, BlankLine) # 0 => d <= Find(buffer \o input, BlankLine)
    <3>1. BlankLine \in Seq(Characters) /\ BlankLine # <<>> /\ 3 \in Nat
      BY Patterns
    <3>2. buffer \in Seq(Characters) /\ input \in Seq(Characters)
      BY <1>2
    <3>3. QED
      BY <1>4, <2>2, <3>1, <3>2, KeptFacts
  <2>4. PICK d \in 1..(Len(Untaken) + 1) :
            Untaken' = From(Untaken, d) /\ (Find(Untaken, BlankLine) # 0 => d <= Find(Untaken, BlankLine))
    BY <1>3, <2>1, <2>3 DEF Untaken
  <2>5. Skips(received, sent, From(Untaken, d))
    BY <1>1, <1>2, <2>4, StillSkips
  <2>6. Skips(received', sent', Untaken')
    BY <1>3, <2>4, <2>5
  <2>7. skippingHeader
    BY DEF SkipHeader
  <2>8. QED
    BY <1>1, <1>3, <2>1, <2>3, <2>6, <2>7 DEF TransportInv
<1>5. CASE Find(buffer, BlankLine) # 0
  <2>. DEFINE end == Find(buffer, BlankLine)
  <2>1. buffer' = From(buffer, end + 4) /\ skippingHeader' = FALSE
    BY <1>5 DEF SkipHeader
  <2>2. end + 4 \in 1..(Len(buffer) + 1)
    BY <1>2, <1>5, FoundWithin, Patterns
  <2>3. Find(Untaken, BlankLine) = end
    BY <1>2, <1>5, FindJoined, Patterns DEF Untaken
  <2>. HIDE DEF end
  <2>4. PICK e \in 1..(Len(buffer) + 1) : e = end + 4
    BY <2>2
  <2>5. buffer' \in Seq(Characters) /\ Untaken' = From(Untaken, e)
    <3>1. From(buffer, e) \in Seq(Characters) /\ From(buffer \o input, e) = From(buffer, e) \o input
      BY <1>2, FromFacts, FromJoined
    <3>2. QED
      BY <1>3, <2>1, <2>4, <3>1 DEF Untaken
  <2>6. PICK i \in 1..Len(sent) : Accounted(received, sent, i + 1) /\ From(Untaken, e) = Remaining(sent)[i + 1]
    BY <1>1, <2>3, <2>4 DEF Skips
  <2>7. PICK k \in 1..(Len(sent) + 1) : k = i + 1
    BY <1>2
  <2>8. BeginsWith(sent, k, Untaken')
    BY <1>2, <2>5, <2>6, <2>7, BeginsWithRemaining
  <2>9. \E j \in 1..(Len(sent') + 1) : Accounted(received', sent', j) /\ BeginsWith(sent', j, Untaken')
    BY <1>3, <2>6, <2>7, <2>8
  <2>10. QED
    BY <1>1, <1>3, <2>1, <2>5, <2>9 DEF TransportInv
<1>6. QED
  BY <1>4, <1>5

\* What is untaken while the beginning of a part is expected.
LEMMA SynchronizedFacts ==
    ASSUME TransportInv, Synchronized
    PROVE  \E i \in 1..(Len(sent) + 1) : Accounted(received, sent, i) /\ BeginsWith(sent, i, Untaken)
  BY DEF TransportInv, Synchronized

\* A result that is received.
LEMMA ReceivedType ==
    ASSUME TransportInv, NEW result \in Seq(Characters) \cup {Invalid}
    PROVE  Append(received, result) \in Seq(Seq(Characters) \cup {Invalid}) /\ Len(Append(received, result)) \in Nat
<1>1. received \in Seq(Seq(Characters) \cup {Invalid})
  BY DEF TransportInv
<1>2. QED
  BY <1>1, AppendProperties, LenProperties

\* Only a broken part has a header that is too long, and nothing after it.
LEMMA HeaderTooLongStep ==
    ASSUME TransportInv, HeaderTooLong
    PROVE  TransportInv'
<1>1. /\ sent \in Seq(Parts) /\ buffer \in Seq(Characters) /\ input \in Seq(Characters)
      /\ Untaken \in Seq(Characters) /\ Len(sent) \in Nat /\ Len(buffer) \in Nat /\ Len(input) \in Nat
      /\ Len(Untaken) = Len(buffer) + Len(input)
  BY UntakenFacts
<1>2. /\ HeaderEnd(buffer) = 0 /\ Len(buffer) > MaximumHeaderSize
      /\ sent' = sent /\ input' = input /\ received' = Append(received, Invalid)
      /\ buffer' = LastOf(buffer, 3) /\ skippingHeader' = TRUE /\ resynchronizing' = FALSE
      /\ Untaken' = buffer' \o input
  BY DEF HeaderTooLong, Synchronized, Untaken, TransportInv
<1>3. PICK i \in 1..(Len(sent) + 1) : Accounted(received, sent, i) /\ BeginsWith(sent, i, Untaken)
  BY SynchronizedFacts DEF HeaderTooLong
<1>4. Untaken # <<>>
  <2>1. Len(Untaken) # 0
    BY <1>1, <1>2, LimitsAssumption
  <2>2. QED
    BY <2>1, EmptySeq
<1>5. i \in 1..Len(sent)
  BY <1>1, <1>3, <1>4, Beginning
<1>6. PICK head \in Heads(sent[i].text) :
          /\ head \in Seq(Characters) /\ Untaken = head \o Remaining(sent)[i + 1]
          /\ HeaderEnd(head) # 0 /\ HeaderEnd(Untaken) = HeaderEnd(head)
          /\ HeaderEnd(head) \in 1..Len(head) /\ BodyStart(head) \in 1..(Len(head) + 1) /\ Len(head) \in Nat
  BY <1>1, <1>3, <1>4, Beginning, ZenonT(40)
<1>7. HeaderEnd(head) + 2 > MaximumHeaderSize
  <2>1. Len(buffer) < HeaderEnd(Untaken) + 4 - 1
    BY <1>1, <1>2, <1>6, FindJoined, Patterns DEF HeaderEnd, Untaken
  <2>2. PICK h \in Nat : h = HeaderEnd(head)
    BY <1>6
  <2>3. PICK m \in Nat : m = Len(buffer)
    BY <1>1
  <2>4. m < h + 4 - 1 /\ m > MaximumHeaderSize
    BY <1>2, <1>6, <2>1, <2>2, <2>3
  <2>5. h + 2 > MaximumHeaderSize
    BY <2>4, LimitsAssumption
  <2>6. QED
    BY <2>2, <2>5
<1>8. ~(HeaderEnd(head) + 2 <= MaximumHeaderSize)
  <2>1. PICK h \in Nat : h = HeaderEnd(head)
    BY <1>6
  <2>2. QED
    BY <1>7, <2>1, LimitsAssumption
<1>9. sent[i].result = Invalid /\ Len(head) + 1 = BodyStart(head)
  <2>1. IsMessage(sent[i]) \/ IsBroken(sent[i])
    BY <1>1, <1>5, PartFacts
  <2>2. ~IsMessage(sent[i])
    BY <1>8 DEF IsMessage
  <2>3. QED
    BY <1>8, <2>1, <2>2 DEF IsBroken
<1>10. From(Untaken, Find(Untaken, BlankLine) + 4) = Remaining(sent)[i + 1]
  <2>1. Find(Untaken, BlankLine) + 4 = Len(head) + 1
    BY <1>6, <1>9 DEF BodyStart, HeaderEnd
  <2>2. PICK rest \in Seq(Characters) : rest = Remaining(sent)[i + 1]
    BY <1>1, <1>5, PartFacts
  <2>3. From(head \o rest, Len(head) + 1) = rest
    BY <1>6, FromSecond
  <2>4. QED
    BY <1>6, <2>1, <2>2, <2>3
<1>11. Accounted(received', sent, i + 1)
  <2>1. received \in Seq(Seq(Characters) \cup {Invalid}) /\ i \in Nat \ {0} /\ Invalid \in Seq(Characters) \cup {Invalid}
    BY <1>3 DEF TransportInv
  <2>2. QED
    BY <1>2, <1>3, <1>9, <2>1, AccountedNext
<1>12. Find(Untaken, BlankLine) # 0
  BY <1>6 DEF HeaderEnd
<1>13. Skips(received', sent, Untaken)
  BY <1>5, <1>10, <1>11, <1>12 DEF Skips
<1>14. /\ LastOf(buffer, 3) \in Seq(Characters)
       /\ \E d \in 1..(Len(buffer \o input) + 1) :
              /\ LastOf(buffer, 3) \o input = From(buffer \o input, d)
              /\ Find(buffer \o input, BlankLine) # 0 => d <= Find(buffer \o input, BlankLine)
  <2>1. 3 = Len(BlankLine) - 1 /\ Find(buffer, BlankLine) = 0
    BY <1>2, Patterns DEF HeaderEnd
  <2>2. buffer \in Seq(Characters) /\ input \in Seq(Characters)
    BY <1>1
  <2>3. BlankLine \in Seq(Characters) /\ BlankLine # <<>> /\ 3 \in Nat
    BY Patterns
  <2>4. QED
    BY <2>1, <2>2, <2>3, KeptFacts
<1>15. PICK d \in 1..(Len(Untaken) + 1) :
           Untaken' = From(Untaken, d) /\ (Find(Untaken, BlankLine) # 0 => d <= Find(Untaken, BlankLine))
  BY <1>2, <1>14 DEF Untaken
<1>16. Skips(received', sent', Untaken')
  BY <1>1, <1>2, <1>13, <1>15, StillSkips
<1>17. received' \in Seq(Seq(Characters) \cup {Invalid})
  BY <1>2, ReceivedType
<1>18. QED
  BY <1>1, <1>2, <1>14, <1>16, <1>17 DEF TransportInv

\* What the buffer begins with is what the part begins with.
LEMMA BufferHeader ==
    ASSUME TransportInv, Synchronized, HeaderEnd(buffer) # 0
    PROVE  \E i \in 1..Len(sent) : \E head \in Heads(sent[i].text) :
               /\ Accounted(received, sent, i)
               /\ head \in Seq(Characters) /\ Untaken = head \o Remaining(sent)[i + 1]
               /\ BodyStart(buffer) = BodyStart(head)
               /\ BodyStart(head) \in 1..(Len(head) + 1) /\ BodyStart(buffer) \in 1..(Len(buffer) + 1)
               /\ HasLength(buffer) <=> HasLength(head)
               /\ HasLength(head) => Length(buffer) = Length(head)
<1>1. /\ sent \in Seq(Parts) /\ buffer \in Seq(Characters) /\ input \in Seq(Characters)
      /\ Untaken \in Seq(Characters) /\ Len(sent) \in Nat /\ Len(buffer) \in Nat /\ Len(input) \in Nat
      /\ Len(Untaken) = Len(buffer) + Len(input)
  BY UntakenFacts
<1>2. PICK i \in 1..(Len(sent) + 1) : Accounted(received, sent, i) /\ BeginsWith(sent, i, Untaken)
  BY SynchronizedFacts
<1>3. HeaderEnd(buffer) \in 1..(Len(buffer) - 4 + 1) /\ HeaderEnd(buffer) + 4 \in 1..(Len(buffer) + 1)
  BY <1>1, FoundWithin, Patterns DEF HeaderEnd
<1>4. BodyStart(buffer) \in 1..(Len(buffer) + 1)
  BY <1>3 DEF BodyStart
<1>5. Untaken # <<>>
  <2>1. Len(Untaken) # 0
    BY <1>1, <1>3
  <2>2. QED
    BY <2>1, EmptySeq
<1>6. /\ BodyStart(Untaken) = BodyStart(buffer)
      /\ HasLength(Untaken) <=> HasLength(buffer)
      /\ HasLength(buffer) => Length(Untaken) = Length(buffer)
  BY <1>1, SameHeader DEF Untaken
<1>7. i \in 1..Len(sent)
  BY <1>1, <1>2, <1>5, Beginning
<1>8. PICK head \in Heads(sent[i].text) :
          /\ head \in Seq(Characters) /\ Untaken = head \o Remaining(sent)[i + 1]
          /\ BodyStart(Untaken) = BodyStart(head) /\ BodyStart(head) \in 1..(Len(head) + 1)
          /\ HasLength(Untaken) <=> HasLength(head)
          /\ HasLength(head) => Length(Untaken) = Length(head)
  <2>1. PICK head \in Heads(sent[i].text) :
            /\ head \in Seq(Characters) /\ Untaken = head \o Remaining(sent)[i + 1]
            /\ HeaderEnd(head) # 0 /\ HeaderEnd(Untaken) = HeaderEnd(head) /\ BodyStart(Untaken) = BodyStart(head)
            /\ HeaderEnd(head) \in 1..Len(head) /\ BodyStart(head) \in 1..(Len(head) + 1) /\ Len(head) \in Nat
            /\ HasLength(Untaken) <=> HasLength(head)
            /\ HasLength(head) => Length(Untaken) = Length(head)
    BY <1>1, <1>2, <1>5, Beginning
  <2>2. QED
    BY <2>1
<1>9. QED
  BY <1>2, <1>4, <1>6, <1>7, <1>8

\* Only a broken part has a header without a length; its body says no field name.
LEMMA InvalidHeaderStep ==
    ASSUME TransportInv, InvalidHeader
    PROVE  TransportInv'
<1>1. /\ sent \in Seq(Parts) /\ buffer \in Seq(Characters) /\ input \in Seq(Characters)
      /\ Untaken \in Seq(Characters) /\ Len(sent) \in Nat
  BY UntakenFacts
<1>2. /\ HeaderEnd(buffer) # 0 /\ ~HasLength(buffer)
      /\ sent' = sent /\ input' = input /\ received' = Append(received, Invalid)
      /\ buffer' = From(buffer, BodyStart(buffer)) /\ resynchronizing' = TRUE /\ skippingHeader' = FALSE
      /\ Untaken' = buffer' \o input
  BY DEF InvalidHeader, Synchronized, Untaken, TransportInv
<1>3. PICK i \in 1..Len(sent) : \E head \in Heads(sent[i].text) :
          /\ Accounted(received, sent, i)
          /\ head \in Seq(Characters) /\ Untaken = head \o Remaining(sent)[i + 1]
          /\ BodyStart(buffer) = BodyStart(head)
          /\ BodyStart(head) \in 1..(Len(head) + 1) /\ BodyStart(buffer) \in 1..(Len(buffer) + 1)
          /\ HasLength(buffer) <=> HasLength(head)
  BY <1>2, BufferHeader DEF InvalidHeader
<1>4. PICK head \in Heads(sent[i].text) :
          /\ Accounted(received, sent, i)
          /\ head \in Seq(Characters) /\ Untaken = head \o Remaining(sent)[i + 1]
          /\ BodyStart(buffer) = BodyStart(head)
          /\ BodyStart(head) \in 1..(Len(head) + 1) /\ BodyStart(buffer) \in 1..(Len(buffer) + 1)
          /\ ~HasLength(head)
  BY <1>2, <1>3
<1>5. sent[i].result = Invalid /\ Find(From(head, BodyStart(head)), Field) = 0
  <2>1. IsMessage(sent[i]) \/ IsBroken(sent[i])
    BY <1>1, PartFacts
  <2>2. ~IsMessage(sent[i])
    BY <1>4 DEF IsMessage
  <2>3. QED
    BY <2>1, <2>2 DEF IsBroken
<1>6. /\ i \in Nat \ {0} /\ i + 1 \in 1..(Len(sent) + 1) /\ Remaining(sent)[i + 1] \in Seq(Characters)
  BY <1>1, PartFacts
<1>7. received' \in Seq(Seq(Characters) \cup {Invalid}) /\ Len(received') \in Nat
  BY <1>2, ReceivedType
<1>8. Accounted(received', sent, i + 1)
  <2>1. received \in Seq(Seq(Characters) \cup {Invalid}) /\ Invalid \in Seq(Characters) \cup {Invalid}
    BY DEF TransportInv
  <2>2. QED
    BY <1>2, <1>4, <1>5, <1>6, <2>1, AccountedNext
<1>9. PICK start : start = BodyStart(head)
  OBVIOUS
<1>10. PICK body \in Seq(Characters) : body = From(head, start)
  BY <1>4, <1>9, FromFacts
<1>11. buffer' \in Seq(Characters) /\ Untaken' = body \o Remaining(sent)[i + 1]
  <2>1. From(buffer, start) \in Seq(Characters) /\ From(buffer \o input, start) = From(buffer, start) \o input
    <3>1. start \in 1..(Len(buffer) + 1) /\ buffer \in Seq(Characters) /\ input \in Seq(Characters)
      BY <1>1, <1>4, <1>9
    <3>2. From(buffer, start) \in Seq(Characters)
      BY <3>1, FromFacts
    <3>3. From(buffer \o input, start) = From(buffer, start) \o input
      BY <3>1, FromJoined
    <3>4. QED
      BY <3>2, <3>3
  <2>2. PICK rest \in Seq(Characters) : rest = Remaining(sent)[i + 1]
    BY <1>6
  <2>3. From(head \o rest, start) = From(head, start) \o rest
    BY <1>4, <1>9, FromJoined
  <2>4. QED
    BY <1>2, <1>4, <1>9, <1>10, <2>1, <2>2, <2>3 DEF Untaken
<1>12. Resumes(received', sent, body \o Remaining(sent)[i + 1])
  <2>1. Find(body, Field) = 0
    BY <1>5, <1>9, <1>10
  <2>2. PICK k \in 1..(Len(sent) + 1) : k = i + 1
    BY <1>6
  <2>3. QED
    BY <1>1, <1>7, <1>8, <2>1, <2>2, Skipped
<1>13. QED
  BY <1>1, <1>2, <1>7, <1>11, <1>12 DEF TransportInv

\* The header of a message states the length of its body: exactly the body is taken.
LEMMA TakeMessageStep ==
    ASSUME TransportInv, TakeMessage
    PROVE  TransportInv'
<1>1. /\ sent \in Seq(Parts) /\ buffer \in Seq(Characters) /\ input \in Seq(Characters)
      /\ Untaken \in Seq(Characters) /\ Len(sent) \in Nat /\ Len(buffer) \in Nat
  BY UntakenFacts
<1>2. /\ HeaderEnd(buffer) # 0 /\ HasLength(buffer) /\ Len(buffer) + 1 >= BodyStart(buffer) + Length(buffer)
      /\ sent' = sent /\ input' = input
      /\ received' = Append(received, SubSeq(buffer, BodyStart(buffer), BodyStart(buffer) + Length(buffer) - 1))
      /\ buffer' = From(buffer, BodyStart(buffer) + Length(buffer))
      /\ ~resynchronizing /\ ~skippingHeader
      /\ resynchronizing' = FALSE /\ skippingHeader' = FALSE
      /\ Untaken' = buffer' \o input
  BY DEF TakeMessage, BodyArrived, Synchronized, Untaken, TransportInv, flags
<1>3. PICK i \in 1..Len(sent) : \E head \in Heads(sent[i].text) :
          /\ Accounted(received, sent, i)
          /\ head \in Seq(Characters) /\ Untaken = head \o Remaining(sent)[i + 1]
          /\ BodyStart(buffer) = BodyStart(head)
          /\ BodyStart(head) \in 1..(Len(head) + 1) /\ BodyStart(buffer) \in 1..(Len(buffer) + 1)
          /\ HasLength(buffer) <=> HasLength(head)
          /\ HasLength(head) => Length(buffer) = Length(head)
  BY <1>2, BufferHeader DEF TakeMessage
<1>4. PICK head \in Heads(sent[i].text) :
          /\ Accounted(received, sent, i)
          /\ head \in Seq(Characters) /\ Untaken = head \o Remaining(sent)[i + 1]
          /\ BodyStart(buffer) = BodyStart(head)
          /\ BodyStart(head) \in 1..(Len(head) + 1) /\ BodyStart(buffer) \in 1..(Len(buffer) + 1)
          /\ HasLength(head) /\ Length(buffer) = Length(head)
  BY <1>2, <1>3
<1>5. /\ sent[i].result = From(head, BodyStart(head)) /\ Length(head) = Len(head) + 1 - BodyStart(head)
  <2>1. IsMessage(sent[i]) \/ IsBroken(sent[i])
    BY <1>1, PartFacts
  <2>2. ~IsBroken(sent[i])
    BY <1>4 DEF IsBroken
  <2>3. QED
    BY <2>1, <2>2 DEF IsMessage
<1>6. /\ i \in Nat \ {0} /\ i + 1 \in 1..(Len(sent) + 1)
  BY <1>1, PartFacts
<1>7. PICK rest \in Seq(Characters) : rest = Remaining(sent)[i + 1]
  BY <1>1, PartFacts
<1>8. PICK start : start = BodyStart(head)
  OBVIOUS
<1>9. PICK m \in Nat : m = Len(head)
  BY <1>4, LenProperties
<1>10. /\ start \in 1..(m + 1) /\ start \in 1..(Len(buffer) + 1) /\ start + (m + 1 - start) = m + 1
       /\ start + (m + 1 - start) - 1 = m /\ m \in (start - 1)..m
  BY <1>4, <1>8, <1>9
<1>11. /\ BodyStart(buffer) + Length(buffer) = m + 1 /\ BodyStart(buffer) + Length(buffer) - 1 = m
  BY <1>4, <1>5, <1>8, <1>9, <1>10
<1>12. m <= Len(buffer) /\ m \in (start - 1)..Len(buffer) /\ m + 1 \in 1..(Len(buffer) + 1)
  <2>1. Len(buffer) + 1 >= m + 1
    BY <1>2, <1>11
  <2>2. QED
    BY <1>1, <1>10, <2>1
<1>13. SubSeq(buffer, start, m) = From(head, start)
  <2>1. SubSeq(buffer \o input, start, m) = SubSeq(buffer, start, m)
    BY <1>1, <1>10, <1>12, BetweenJoined
  <2>2. SubSeq(head \o rest, start, m) = SubSeq(head, start, m)
    BY <1>4, <1>9, <1>10, BetweenJoined
  <2>3. QED
    BY <1>4, <1>7, <1>9, <2>1, <2>2 DEF From, Untaken
<1>14. PICK result \in Seq(Characters) : result = From(head, start)
  BY <1>4, <1>9, <1>10, FromFacts
<1>15. received' = Append(received, result) /\ sent[i].result = result
  <2>1. received' = Append(received, SubSeq(buffer, start, m))
    BY <1>2, <1>4, <1>8, <1>11
  <2>2. QED
    BY <1>5, <1>8, <1>13, <1>14, <2>1
<1>16. received' \in Seq(Seq(Characters) \cup {Invalid})
  BY <1>15, ReceivedType
<1>17. Accounted(received', sent, i + 1)
  <2>1. received \in Seq(Seq(Characters) \cup {Invalid}) /\ result \in Seq(Characters) \cup {Invalid}
    BY DEF TransportInv
  <2>2. QED
    BY <1>4, <1>6, <1>15, <2>1, AccountedNext
<1>18. buffer' \in Seq(Characters) /\ Untaken' = Remaining(sent)[i + 1]
  <2>1. PICK e \in 1..(Len(buffer) + 1) : e = m + 1
    BY <1>12
  <2>2. From(buffer, e) \in Seq(Characters) /\ From(buffer \o input, e) = From(buffer, e) \o input
    BY <1>1, FromFacts, FromJoined
  <2>3. From(head \o rest, Len(head) + 1) = rest
    BY <1>4, FromSecond
  <2>4. QED
    BY <1>2, <1>4, <1>7, <1>9, <1>11, <2>1, <2>2, <2>3 DEF Untaken
<1>19. BeginsWith(sent, i + 1, Remaining(sent)[i + 1])
  BY <1>1, <1>6, BeginsWithRemaining
<1>20. \E k \in 1..(Len(sent') + 1) : Accounted(received', sent', k) /\ BeginsWith(sent', k, Untaken')
  BY <1>2, <1>6, <1>17, <1>18, <1>19
<1>21. QED
  BY <1>1, <1>2, <1>16, <1>18, <1>20 DEF TransportInv

\* Reading moves characters from the input to the buffer: what is untaken is the same.
LEMMA ReadInputStep ==
    ASSUME TransportInv, NEW n \in 1..Len(input), ReadInput(n)
    PROVE  TransportInv'
<1>1. /\ sent \in Seq(Parts) /\ buffer \in Seq(Characters) /\ input \in Seq(Characters)
      /\ Untaken \in Seq(Characters) /\ Len(input) \in Nat
  BY UntakenFacts
<1>2. /\ buffer' = buffer \o SubSeq(input, 1, n) /\ input' = From(input, n + 1)
      /\ sent' = sent /\ received' = received
      /\ resynchronizing' = resynchronizing /\ skippingHeader' = skippingHeader
  BY DEF ReadInput, flags
<1>3. 1 \in 1..(Len(input) + 1) /\ n \in (1 - 1)..Len(input) /\ n + 1 \in 1..(Len(input) + 1)
  BY <1>1
<1>4. /\ SubSeq(input, 1, n) \in Seq(Characters) /\ Len(SubSeq(input, 1, n)) = n - 1 + 1
      /\ \A k \in 1..(n - 1 + 1) : SubSeq(input, 1, n)[k] = input[1 + k - 1]
  BY <1>1, <1>3, Between
<1>5. /\ From(input, n + 1) \in Seq(Characters) /\ Len(From(input, n + 1)) = Len(input) - (n + 1) + 1
      /\ \A k \in 1..(Len(input) - (n + 1) + 1) : From(input, n + 1)[k] = input[(n + 1) + k - 1]
  BY <1>1, <1>3, FromFacts
<1>6. PICK a \in Seq(Characters) : a = SubSeq(input, 1, n)
  BY <1>4
<1>7. PICK b \in Seq(Characters) : b = From(input, n + 1)
  BY <1>5
<1>8. a \o b = input
  <2>1. /\ a \o b \in Seq(Characters) /\ Len(a \o b) = Len(a) + Len(b)
        /\ \A k \in 1..Len(a) : (a \o b)[k] = a[k]
        /\ \A k \in 1..Len(b) : (a \o b)[Len(a) + k] = b[k]
    BY Joined
  <2>2. Len(a) = n /\ Len(b) = Len(input) - n /\ n \in Nat
    BY <1>1, <1>4, <1>5, <1>6, <1>7
  <2>3. \A k \in 1..n : a[k] = input[k]
    <3>1. \A k \in 1..n : k \in 1..(n - 1 + 1) /\ 1 + k - 1 = k
      BY <2>2
    <3>2. QED
      BY <1>4, <1>6, <3>1
  <2>4. \A k \in 1..(Len(input) - n) : b[k] = input[n + k]
    <3>1. \A k \in 1..(Len(input) - n) : k \in 1..(Len(input) - (n + 1) + 1) /\ (n + 1) + k - 1 = n + k
      BY <1>1, <2>2
    <3>2. QED
      BY <1>5, <1>7, <3>1
  <2>5. Len(a \o b) = Len(input)
    BY <1>1, <2>1, <2>2
  <2>6. ASSUME NEW k \in 1..Len(input)
        PROVE  (a \o b)[k] = input[k]
    <3>1. CASE k <= n
      <4>1. k \in 1..n
        BY <2>2, <3>1
      <4>2. QED
        BY <2>1, <2>2, <2>3, <4>1
    <3>2. CASE ~(k <= n)
      <4>0. k - n \in 1..(Len(input) - n) /\ k = n + (k - n)
        BY <1>1, <2>2, <3>2
      <4>1. PICK h \in 1..(Len(input) - n) : k = n + h
        BY <4>0
      <4>2. QED
        BY <2>1, <2>2, <2>4, <4>1
    <3>3. QED
      BY <3>1, <3>2
  <2>7. QED
    BY <1>1, <2>1, <2>5, <2>6, SeqEqual
<1>9. buffer \o (a \o b) = (buffer \o a) \o b /\ buffer \o a \in Seq(Characters)
  <2>1. buffer \o (a \o b) = (buffer \o a) \o b
    BY <1>1, Regrouped, ZenonT(30)
  <2>2. buffer \o a \in Seq(Characters)
    BY <1>1, Joined
  <2>3. QED
    BY <2>1, <2>2
<1>10. Untaken' = Untaken
  BY <1>2, <1>6, <1>7, <1>8, <1>9 DEF Untaken
<1>11. buffer' \in Seq(Characters) /\ input' \in Seq(Characters)
  BY <1>2, <1>6, <1>7, <1>9
<1>12. QED
  BY <1>2, <1>10, <1>11 DEF TransportInv

\* At first everything sent is untaken, and nothing needs to be accounted for.
LEMMA TransportInitInv ==
    ASSUME TransportInit
    PROVE  TransportInv
<1>1. PICK n \in 0..MaxParts : sent \in [1..n -> Parts]
  BY DEF TransportInit
<1>2. n \in Nat /\ sent \in Seq(Parts)
  BY <1>1, LimitsAssumption
<1>3. Len(sent) \in Nat /\ 1 \in 1..(Len(sent) + 1)
  BY <1>2, LenProperties
<1>4. /\ input = Remaining(sent)[1] /\ input \in Seq(Characters) /\ buffer = <<>> /\ received = <<>>
      /\ resynchronizing = FALSE /\ skippingHeader = FALSE
  BY <1>2, <1>3, RemainingFacts DEF TransportInit
<1>5. Untaken = Remaining(sent)[1]
  BY <1>4, ConcatEmptySeq DEF Untaken
<1>6. Accounted(<<>>, sent, 1)
  <2>1. 1..Len(<<>>) = {} /\ 1..(1 - 1) = {}
    OBVIOUS
  <2>2. [x \in {} |-> x] \in [{} -> {}]
    OBVIOUS
  <2>3. Accounts([x \in {} |-> x], <<>>, sent, 1)
    BY <2>1, <2>2 DEF Accounts
  <2>4. QED
    BY <2>1, <2>2, <2>3 DEF Accounted
<1>7. BeginsWith(sent, 1, Untaken)
  BY <1>2, <1>3, <1>5, BeginsWithRemaining
<1>8. buffer \in Seq(Characters) /\ received \in Seq(Seq(Characters) \cup {Invalid})
  BY <1>4
<1>9. QED
  BY <1>2, <1>3, <1>4, <1>6, <1>7, <1>8 DEF TransportInv

\* Every action preserves the invariant; those that only wait change nothing it depends on.
LEMMA TransportStep ==
    ASSUME TransportInv, [TransportNext]_transportVars
    PROVE  TransportInv'
<1>1. ASSUME UNCHANGED <<sent, input, buffer, flags, received>>
      PROVE  TransportInv'
  <2>1. /\ sent' = sent /\ input' = input /\ buffer' = buffer /\ received' = received
        /\ resynchronizing' = resynchronizing /\ skippingHeader' = skippingHeader /\ Untaken' = Untaken
    BY <1>1 DEF flags, Untaken
  <2>2. QED
    BY <2>1 DEF TransportInv
<1>2. CASE Arrive
  BY <1>2, ReadInputStep DEF Arrive
<1>3. CASE Timeout \/ HeaderIncomplete \/ BodyIncomplete \/ UNCHANGED transportVars
  BY <1>1, <1>3 DEF Timeout, HeaderIncomplete, BodyIncomplete, transportVars
<1>4. QED
  BY <1>2, <1>3, ResynchronizeStep, SkipHeaderStep, HeaderTooLongStep, InvalidHeaderStep, TakeMessageStep
  DEF TransportNext, takeMessage

\* What is received is the result of the parts in their order, of all messages among the first ones.
LEMMA ReceivedFromInv ==
    ASSUME TransportInv
    PROVE  ReceivedAsSent
<1>1. Len(sent) \in Nat /\ Len(received) \in Nat
  BY UntakenFacts
<1>2. \E i \in 1..(Len(sent) + 1) : Accounted(received, sent, i)
  <2>1. Len(sent) + 1 \in 1..(Len(sent) + 1) /\ \A i \in 1..Len(sent) : i \in 1..(Len(sent) + 1) /\ i + 1 \in 1..(Len(sent) + 1)
    BY <1>1
  <2>2. CASE resynchronizing
    BY <2>1, <2>2 DEF TransportInv, Resumes
  <2>3. CASE skippingHeader
    BY <2>1, <2>3 DEF TransportInv, Skips
  <2>4. CASE ~resynchronizing /\ ~skippingHeader
    BY <2>4 DEF TransportInv
  <2>5. QED
    BY <2>2, <2>3, <2>4
<1>3. PICK i \in 1..(Len(sent) + 1) : Accounted(received, sent, i)
  BY <1>2
<1>. DEFINE R == 1..Len(received)
<1>4. PICK part : Accounts(part, received, sent, i)
  BY <1>3, Zenon DEF Accounted
<1>5. /\ part \in [R -> 1..(i - 1)]
      /\ \A k, l \in R : k < l => part[k] < part[l]
      /\ \A k \in R : received[k] = sent[part[k]].result
      /\ \A j \in 1..(i - 1) : sent[j].result # Invalid => \E l \in R : part[l] = j
  BY <1>4, Zenon DEF Accounts
<1>. HIDE DEF R
<1>6. \A j \in 1..(i - 1) : j \in 1..Len(sent) /\ \A h \in 1..j : h \in 1..(i - 1)
  BY <1>1
<1>7. part \in [R -> 1..Len(sent)]
  BY <1>5, <1>6
<1>8. \A k \in R : \A j \in 1..part[k] : sent[j].result # Invalid => \E l \in R : part[l] = j
  BY <1>5, <1>6
<1>9. QED
  BY <1>5, <1>7, <1>8, Zenon DEF ReceivedAsSent, R

\* However the input is cut, the messages among what the client sends are received in their
\* order, each with its body, and none is missing before a later one.
THEOREM MessagesReceivedAsSent == TransportSpec => []ReceivedAsSent
<1>1. TransportInit => TransportInv
  BY TransportInitInv
<1>2. TransportInv /\ [TransportNext]_transportVars => TransportInv'
  BY TransportStep
<1>3. TransportInv => ReceivedAsSent
  BY ReceivedFromInv
<1>4. QED
  BY <1>1, <1>2, <1>3, PTL DEF TransportSpec
============================================================================
